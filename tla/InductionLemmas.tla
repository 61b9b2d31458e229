-------------------------- MODULE InductionLemmas --------------------------
(***************************************************************************)
(* Induction over the natural numbers, stated with sets: the library's     *)
(* induction theorems take an operator, its minimality theorem for         *)
(* well-founded relations does not.  With it, what a recursion over a      *)
(* sequence computes that keeps images of some of the elements.            *)
(***************************************************************************)
EXTENDS Integers, Sequences, SequenceTheorems, WellFoundedInduction, TLAPS

(* A set of numbers that is not empty has a least element. *)
LEMMA LeastNumber ==
  ASSUME NEW T \in SUBSET Nat, T # {}
  PROVE  \E x \in T : \A y \in T : x <= y
<1>1. IsWellFoundedOn(OpToRel(<, Nat), Nat)
  BY NatLessThanWellFounded, Zenon
<1>2. PICK x \in T : \A y \in T : ~(<<y, x>> \in OpToRel(<, Nat))
  BY <1>1, WFMin, Zenon
<1>3. \A y \in T : ~(y < x)
  BY <1>2 DEF OpToRel
<1> QED BY <1>3

(* What holds of 0, and of i + 1 when it holds of i, holds up to n. *)
LEMMA InductionUpTo ==
  ASSUME NEW n \in Nat, NEW S, 0 \in S,
         \A i \in 0..(n - 1) : i \in S => i + 1 \in S
  PROVE  \A i \in 0..n : i \in S
<1> DEFINE T == {i \in 0..n : i \notin S}
<1> SUFFICES ASSUME T # {} PROVE FALSE
  OBVIOUS
<1>1. T \in SUBSET Nat
  OBVIOUS
<1>2. PICK x \in T : \A y \in T : x <= y
  BY <1>1, LeastNumber, Zenon
<1>3. x # 0 /\ x - 1 \in 0..(n - 1)
  BY <1>2
<1>4. x - 1 \in S
  BY <1>2, <1>3
<1> QED BY <1>2, <1>3, <1>4

(* f is the course of the recursion that starts at a and goes up to m.      *)
Course(f, m, A, a, step) ==
  /\ f \in [0..m -> A]
  /\ f[0] = a
  /\ \A i \in 1..m : f[i] = step[i][f[i - 1]]

(* A course can be extended by a step. *)
LEMMA CourseExtends ==
  ASSUME NEW n \in Nat, NEW A, NEW a \in A, NEW step \in [1..n -> [A -> A]],
         NEW m \in 0..(n - 1), NEW f, Course(f, m, A, a, step)
  PROVE  \E g : Course(g, m + 1, A, a, step)
<1> DEFINE last == step[m + 1][f[m]]
           g == [i \in 0..(m + 1) |-> IF i <= m THEN f[i] ELSE last]
<1>1. last \in A
  BY DEF Course
<1>2. g \in [0..(m + 1) -> A] /\ g[0] = a
  <2> HIDE DEF last
  <2> QED BY <1>1 DEF Course
<1>3. ASSUME NEW i \in 1..(m + 1) PROVE g[i] = step[i][g[i - 1]]
  <2>1. CASE i <= m
    <3> HIDE DEF last
    <3> QED BY <2>1 DEF Course
  <2>2. CASE i = m + 1
    <3>1. g[i] = last /\ g[i - 1] = f[m]
      <4> HIDE DEF last
      <4> QED BY <2>2
    <3> QED BY <2>2, <3>1, Zenon
  <2> QED BY <2>1, <2>2
<1> HIDE DEF g
<1>4. Course(g, m + 1, A, a, step)
  BY <1>2, <1>3, Zenon DEF Course
<1> QED BY <1>4, Zenon

(* A recursion on the numbers up to n has the course its equation says. *)
LEMMA RecursionUpTo ==
  ASSUME NEW n \in Nat, NEW A, NEW a \in A, NEW step \in [1..n -> [A -> A]]
  PROVE  \E f : Course(f, n, A, a, step)
<1> DEFINE S == {m \in 0..n : \E f : Course(f, m, A, a, step)}
<1>1. 0 \in S
  <2>1. Course([i \in 0..0 |-> a], 0, A, a, step)
    BY DEF Course
  <2>2. 0 \in 0..n
    OBVIOUS
  <2> QED BY <2>1, <2>2, Zenon
<1>2. ASSUME NEW m \in 0..(n - 1), m \in S PROVE m + 1 \in S
  <2>1. PICK f : Course(f, m, A, a, step)
    BY <1>2, Zenon
  <2>2. \E g : Course(g, m + 1, A, a, step)
    BY <2>1, CourseExtends
  <2>3. m + 1 \in 0..n
    OBVIOUS
  <2> QED BY <2>2, <2>3, Zenon
<1>3. n \in S
  <2> HIDE DEF S
  <2>1. \A i \in 0..n : i \in S
    BY <1>1, <1>2, InductionUpTo, Zenon
  <2> QED BY <2>1
<1> QED BY <1>3, Zenon

-----------------------------------------------------------------------------
(* Images of a sequence. *)

Nothing == <<>>

(* F has values in B.                                                      *)
Into(F, B) == \A x \in DOMAIN F : F[x] \in B

(* The image of one element more, if the element has one.                  *)
AddImage(images, x, F) == IF x \in DOMAIN F THEN Append(images, F[x]) ELSE images

(* An image more is an image of the same kind.                             *)
LEMMA AddImageType ==
  ASSUME NEW B, NEW F, Into(F, B), NEW u \in Seq(B), NEW x
  PROVE  AddImage(u, x, F) \in Seq(B)
BY AppendProperties DEF AddImage, Into

(* g equals its recursive definition.                                      *)
Recursion(g, n, s, F) ==
  g = [i \in 0..n |-> IF i = 0 THEN Nothing ELSE AddImage(g[i - 1], s[i], F)]

(* Then it does so element by element.                                     *)
LEMMA RecursionUnfolds ==
  ASSUME NEW V, NEW s \in Seq(V), NEW n \in Nat, NEW F, NEW g,
         Recursion(g, n, s, F)
  PROVE  /\ g = [i \in 0..n |-> g[i]] /\ g[0] = Nothing
         /\ \A i \in 1..n : g[i] = AddImage(g[i - 1], s[i], F)
<1>1. /\ DOMAIN g = 0..n /\ g = [i \in 0..n |-> g[i]]
      /\ \A i \in 0..n : g[i] = IF i = 0 THEN Nothing
                                  ELSE AddImage(g[i - 1], s[i], F)
  BY Zenon DEF Recursion
<1>2. g[0] = Nothing
  <2>1. 0 \in 0..n
    OBVIOUS
  <2> QED BY <1>1, <2>1, Zenon
<1>3. ASSUME NEW i \in 1..n PROVE g[i] = AddImage(g[i - 1], s[i], F)
  <2>1. i \in 0..n /\ i # 0
    OBVIOUS
  <2> QED BY <1>1, <2>1, Zenon
<1> QED BY <1>1, <1>2, <1>3, Zenon

(* The images under F of the elements of s that have one, in their order.  *)
ImagesUpTo(s, F) == CHOOSE g : Recursion(g, Len(s), s, F)
Images(s, F) == ImagesUpTo(s, F)[Len(s)]

(* The recursion has what its equation says.                               *)
LEMMA ImagesFacts ==
  ASSUME NEW V, NEW s \in Seq(V), NEW B, NEW F, Into(F, B)
  PROVE  LET sub == ImagesUpTo(s, F)
         IN  /\ sub \in [0..Len(s) -> Seq(B)]
             /\ sub[0] = Nothing
             /\ \A n \in 1..Len(s) : sub[n] = AddImage(sub[n - 1], s[n], F)
             /\ Recursion(sub, Len(s), s, F)
<1> DEFINE n == Len(s)
           A == Seq(B)
           step == [i \in 1..n |-> [u \in A |-> AddImage(u, s[i], F)]]
<1>1. n \in Nat /\ \A i \in 1..n : s[i] \in V
  BY LenProperties
<1>2. Nothing \in A
  BY DEF Nothing
<1>3. \A i \in 1..n : \A u \in A : AddImage(u, s[i], F) \in A
  BY AddImageType
<1>4. step \in [1..n -> [A -> A]]
  <2> HIDE DEF A, n
  <2> QED BY <1>3
<1>5. PICK f : Course(f, n, A, Nothing, step)
  <2> HIDE DEF n, A, step
  <2> QED BY <1>1, <1>2, <1>4, RecursionUpTo, Zenon
<1>6. /\ f \in [0..n -> A] /\ f[0] = Nothing
      /\ \A i \in 1..n : f[i] = AddImage(f[i - 1], s[i], F)
  <2> HIDE DEF A
  <2>1. /\ f \in [0..n -> A] /\ f[0] = Nothing
        /\ \A i \in 1..n : f[i] = step[i][f[i - 1]]
    BY <1>5, Zenon DEF Course
  <2>2. \A i \in 1..n : f[i - 1] \in A
    <3> HIDE DEF step, n
    <3> QED BY <1>1, <2>1
  <2> QED BY <2>1, <2>2
<1>7. Recursion(f, n, s, F)
  <2>1. \A i \in 0..n : i # 0 => i \in 1..n
    BY <1>1
  <2> HIDE DEF n, A, step
  <2> QED BY <1>6, <2>1 DEF Recursion
<1> DEFINE g == ImagesUpTo(s, F)
<1>8. g = CHOOSE h : Recursion(h, n, s, F)
  BY Zenon DEF ImagesUpTo
<1> HIDE DEF g, step
<1>9. Recursion(g, n, s, F)
  BY <1>7, <1>8, Zenon
<1>10. /\ g = [i \in 0..n |-> g[i]] /\ g[0] = Nothing
       /\ \A i \in 1..n : g[i] = AddImage(g[i - 1], s[i], F)
  <2>1. n \in Nat
    BY <1>1
  <2> HIDE DEF n
  <2>2. ASSUME NEW k \in Nat, NEW e, Recursion(e, k, s, F)
        PROVE  /\ e = [i \in 0..k |-> e[i]] /\ e[0] = Nothing
               /\ \A i \in 1..k : e[i] = AddImage(e[i - 1], s[i], F)
    BY <2>2, RecursionUnfolds
  <2> QED BY <1>9, <2>1, <2>2, Zenon
<1>11. \A i \in 0..n : g[i] \in A
  <2> HIDE DEF A, n
  <2> DEFINE T == {i \in 0..n : g[i] \in A}
  <2>1. 0 \in T
    BY <1>1, <1>2, <1>10
  <2>2. ASSUME NEW i \in 0..(n - 1), i \in T PROVE i + 1 \in T
    <3>1. i + 1 \in 1..n /\ (i + 1) - 1 = i
      BY <1>1
    <3>2. g[i + 1] = AddImage(g[i], s[i + 1], F)
      BY <1>10, <3>1
    <3> QED BY <1>3, <2>2, <3>1, <3>2
  <2> HIDE DEF T
  <2>3. \A i \in 0..n : i \in T
    BY <1>1, <2>1, <2>2, InductionUpTo, Zenon
  <2> QED BY <2>3 DEF T
<1>12. g \in [0..n -> A]
  <2> HIDE DEF A, n
  <2> QED BY <1>10, <1>11, Zenon
<1> QED BY <1>9, <1>10, <1>12 DEF g

(* The images of a sequence with one element more. *)
LEMMA ImagesAppend ==
  ASSUME NEW V, NEW s \in Seq(V), NEW x \in V, NEW B, NEW F, Into(F, B)
  PROVE  /\ Images(s, F) \in Seq(B)
         /\ Images(Append(s, x), F) = AddImage(Images(s, F), x, F)
<1> DEFINE n == Len(s)
           r == Append(s, x)
           f == ImagesUpTo(s, F)
           g == ImagesUpTo(r, F)
<1>1. /\ n \in Nat /\ r \in Seq(V) /\ Len(r) = n + 1 /\ r[n + 1] = x
      /\ \A i \in 1..n : r[i] = s[i]
  BY AppendProperties, LenProperties
<1>2. /\ f \in [0..n -> Seq(B)] /\ f[0] = Nothing
      /\ \A i \in 1..n : f[i] = AddImage(f[i - 1], s[i], F)
  BY ImagesFacts
<1> HIDE DEF r
<1>3. /\ g[0] = Nothing
      /\ \A i \in 1..(n + 1) : g[i] = AddImage(g[i - 1], r[i], F)
  BY <1>1, ImagesFacts
<1> HIDE DEF f, g, n
<1>4. \A i \in 0..n : g[i] = f[i]
  <2> DEFINE T == {i \in 0..n : g[i] = f[i]}
  <2>1. 0 \in T
    BY <1>1, <1>2, <1>3
  <2>2. ASSUME NEW i \in 0..(n - 1), i \in T PROVE i + 1 \in T
    <3>1. i + 1 \in 1..n /\ i + 1 \in 1..(n + 1) /\ (i + 1) - 1 = i
      BY <1>1
    <3> QED BY <1>1, <1>2, <1>3, <2>2, <3>1
  <2> HIDE DEF T
  <2>3. \A i \in 0..n : i \in T
    BY <1>1, <2>1, <2>2, InductionUpTo, Zenon
  <2> QED BY <2>3 DEF T
<1>5. g[n + 1] = AddImage(f[n], x, F)
  <2>1. n + 1 \in 1..(n + 1) /\ (n + 1) - 1 = n /\ n \in 0..n
    BY <1>1
  <2> QED BY <1>1, <1>3, <1>4, <2>1
<1>6. f[n] \in Seq(B)
  BY <1>1, <1>2
<1> QED BY <1>1, <1>5, <1>6 DEF f, g, r, n, Images

(* Nothing has no images. *)
LEMMA ImagesEmpty == ASSUME NEW F PROVE Images(<<>>, F) = <<>>
<1> DEFINE B == {F[x] : x \in DOMAIN F}
<1>1. /\ Into(F, B) /\ Nothing \in Seq(B) /\ Len(Nothing) = 0
  BY DEF Into, Nothing
<1> HIDE DEF B
<1>2. ImagesUpTo(Nothing, F)[0] = Nothing
  <2>1. ASSUME NEW s \in Seq(B) PROVE ImagesUpTo(s, F)[0] = Nothing
    BY <1>1, ImagesFacts
  <2> QED BY <1>1, <2>1, Zenon
<1> QED BY <1>1, <1>2 DEF Nothing, Images

(* Append and concatenation. *)
LEMMA ConcatAppend ==
  ASSUME NEW V, NEW s \in Seq(V), NEW u \in Seq(V), NEW x \in V
  PROVE  s \o Append(u, x) = Append(s \o u, x)
OBVIOUS

(* The same for the image of an element, if it has one. *)
LEMMA ConcatAddImage ==
  ASSUME NEW B, NEW s \in Seq(B), NEW u \in Seq(B), NEW x, NEW F, Into(F, B)
  PROVE  s \o AddImage(u, x, F) = AddImage(s \o u, x, F)
<1>1. CASE x \in DOMAIN F
  <2>1. F[x] \in B
    BY <1>1 DEF Into
  <2> QED BY <1>1, <2>1, ConcatAppend DEF AddImage
<1>2. CASE x \notin DOMAIN F
  BY <1>2 DEF AddImage
<1> QED BY <1>1, <1>2

(* The images of one sequence after the other. *)
LEMMA ImagesConcat ==
  ASSUME NEW V, NEW s \in Seq(V), NEW u \in Seq(V), NEW B, NEW F, Into(F, B)
  PROVE  /\ Images(s, F) \in Seq(B) /\ Images(u, F) \in Seq(B)
         /\ Images(s \o u, F) = Images(s, F) \o Images(u, F)
<1> DEFINE n == Len(s)
           m == Len(u)
           r == s \o u
           f == ImagesUpTo(s, F)
           h == ImagesUpTo(u, F)
           g == ImagesUpTo(r, F)
<1>1. /\ n \in Nat /\ m \in Nat /\ r \in Seq(V) /\ Len(r) = n + m
      /\ \A i \in 1..n : r[i] = s[i]
      /\ \A i \in 1..m : r[n + i] = u[i]
      /\ \A i \in 1..m : u[i] \in V
  <2>1. /\ r \in Seq(V) /\ Len(r) = n + m /\ n \in Nat /\ m \in Nat
        /\ \A i \in 1..(n + m) : r[i] = IF i <= n THEN s[i] ELSE u[i - n]
        /\ \A i \in 1..m : u[i] \in V
    BY ConcatProperties, LenProperties
  <2>2. \A i \in 1..m : n + i \in 1..(n + m) /\ ~(n + i <= n) /\ (n + i) - n = i
    BY <2>1
  <2> HIDE DEF r, n, m
  <2> QED BY <2>1, <2>2
<1>2. /\ f \in [0..n -> Seq(B)] /\ f[0] = Nothing
      /\ \A i \in 1..n : f[i] = AddImage(f[i - 1], s[i], F)
  BY ImagesFacts
<1>3. /\ h \in [0..m -> Seq(B)] /\ h[0] = Nothing
      /\ \A i \in 1..m : h[i] = AddImage(h[i - 1], u[i], F)
  BY ImagesFacts
<1> HIDE DEF r
<1>4. /\ g[0] = Nothing
      /\ \A i \in 1..(n + m) : g[i] = AddImage(g[i - 1], r[i], F)
  <2>1. r \in Seq(V) /\ Len(r) = n + m
    BY <1>1
  <2>2. /\ g[0] = Nothing
        /\ \A i \in 1..Len(r) : g[i] = AddImage(g[i - 1], r[i], F)
    BY <2>1, ImagesFacts, Zenon
  <2> HIDE DEF n, m, g
  <2> QED BY <2>1, <2>2, Zenon
<1> HIDE DEF f, g, h, n, m
<1>5. \A i \in 0..n : g[i] = f[i]
  <2> DEFINE T == {i \in 0..n : g[i] = f[i]}
  <2>1. 0 \in T
    BY <1>1, <1>2, <1>4
  <2>2. ASSUME NEW i \in 0..(n - 1), i \in T PROVE i + 1 \in T
    <3>1. i + 1 \in 1..n /\ i + 1 \in 1..(n + m) /\ (i + 1) - 1 = i
      BY <1>1
    <3> QED BY <1>1, <1>2, <1>4, <2>2, <3>1
  <2> HIDE DEF T
  <2>3. \A i \in 0..n : i \in T
    BY <1>1, <2>1, <2>2, InductionUpTo, Zenon
  <2> QED BY <2>3 DEF T
<1>6. n \in 0..n /\ m \in 0..m
  BY <1>1
<1>7. f[n] \in Seq(B) /\ \A i \in 0..m : h[i] \in Seq(B)
  BY <1>2, <1>3, <1>6
<1>8. \A i \in 0..m : g[n + i] = f[n] \o h[i]
  <2> DEFINE T == {i \in 0..m : g[n + i] = f[n] \o h[i]}
  <2>1. 0 \in T
    <3>1. f[n] \o Nothing = f[n]
      BY <1>7, ConcatEmptySeq DEF Nothing
    <3>2. n + 0 = n /\ 0 \in 0..m
      BY <1>1
    <3> QED BY <1>3, <1>5, <1>6, <3>1, <3>2
  <2>2. ASSUME NEW i \in 0..(m - 1), i \in T PROVE i + 1 \in T
    <3>1. /\ i + 1 \in 1..m /\ n + (i + 1) \in 1..(n + m) /\ (i + 1) - 1 = i
          /\ (n + (i + 1)) - 1 = n + i /\ i \in 0..m /\ i + 1 \in 0..m
      BY <1>1
    <3>2. g[n + i] = f[n] \o h[i]
      BY <2>2
    <3>3. r[n + (i + 1)] = u[i + 1] /\ u[i + 1] \in V
      BY <1>1, <3>1
    <3>4. f[n] \o AddImage(h[i], u[i + 1], F) = AddImage(f[n] \o h[i], u[i + 1], F)
      <4>1. h[i] \in Seq(B)
        BY <1>7, <3>1
      <4>2. f[n] \in Seq(B)
        BY <1>7
      <4>3. ASSUME NEW a \in Seq(B), NEW b \in Seq(B), NEW x
            PROVE  a \o AddImage(b, x, F) = AddImage(a \o b, x, F)
        BY ConcatAddImage
      <4> QED BY <4>1, <4>2, <4>3, Zenon
    <3>5. g[n + (i + 1)] = AddImage(g[n + i], u[i + 1], F)
      BY <1>4, <3>1, <3>3
    <3>6. h[i + 1] = AddImage(h[i], u[i + 1], F)
      BY <1>3, <3>1
    <3>7. g[n + (i + 1)] = f[n] \o h[i + 1]
      BY <3>2, <3>4, <3>5, <3>6
    <3> QED BY <3>1, <3>7
  <2> HIDE DEF T
  <2>3. \A i \in 0..m : i \in T
    BY <1>1, <2>1, <2>2, InductionUpTo, Zenon
  <2> QED BY <2>3 DEF T
<1>9. g[n + m] = f[n] \o h[m]
  BY <1>6, <1>8
<1> QED BY <1>1, <1>6, <1>7, <1>9 DEF f, g, h, r, n, m, Images

(* Whatever satisfies the recursion ends in the images. *)
LEMMA RecursionIsImages ==
  ASSUME NEW V, NEW s \in Seq(V), NEW B, NEW F, Into(F, B),
         NEW h, Recursion(h, Len(s), s, F)
  PROVE  h[Len(s)] = Images(s, F)
<1> DEFINE n == Len(s)
           g == ImagesUpTo(s, F)
<1>1. n \in Nat
  BY LenProperties
<1>2. g[0] = Nothing /\ \A i \in 1..n : g[i] = AddImage(g[i - 1], s[i], F)
  BY ImagesFacts
<1>3. h[0] = Nothing /\ \A i \in 1..n : h[i] = AddImage(h[i - 1], s[i], F)
  BY <1>1, RecursionUnfolds
<1> HIDE DEF g, n
<1> DEFINE T == {i \in 0..n : h[i] = g[i]}
<1>4. 0 \in T
  BY <1>1, <1>2, <1>3
<1>5. ASSUME NEW i \in 0..(n - 1), i \in T PROVE i + 1 \in T
  <2>1. i + 1 \in 1..n /\ (i + 1) - 1 = i /\ i + 1 \in 0..n
    BY <1>1
  <2> QED BY <1>2, <1>3, <1>5, <2>1
<1> HIDE DEF T
<1>6. \A i \in 0..n : i \in T
  BY <1>1, <1>4, <1>5, InductionUpTo, Zenon
<1>7. n \in 0..n
  BY <1>1
<1> QED BY <1>6, <1>7 DEF T, g, n, Images

(* Elements without an image leave none. *)
LEMMA ImagesNone ==
  ASSUME NEW V, NEW s \in Seq(V), NEW B, NEW F, Into(F, B),
         \A i \in 1..Len(s) : s[i] \notin DOMAIN F
  PROVE  Images(s, F) = <<>>
<1> DEFINE n == Len(s)
           g == ImagesUpTo(s, F)
<1>1. n \in Nat
  BY LenProperties
<1>2. g[0] = Nothing /\ \A i \in 1..n : g[i] = AddImage(g[i - 1], s[i], F)
  BY ImagesFacts
<1>3. \A i \in 1..n : g[i] = g[i - 1]
  BY <1>2 DEF AddImage
<1> HIDE DEF g, n
<1> DEFINE T == {i \in 0..n : g[i] = Nothing}
<1>4. 0 \in T
  BY <1>1, <1>2
<1>5. ASSUME NEW i \in 0..(n - 1), i \in T PROVE i + 1 \in T
  <2>1. i + 1 \in 1..n /\ (i + 1) - 1 = i /\ i + 1 \in 0..n
    BY <1>1
  <2> QED BY <1>3, <1>5, <2>1
<1> HIDE DEF T
<1>6. \A i \in 0..n : i \in T
  BY <1>1, <1>4, <1>5, InductionUpTo, Zenon
<1>7. n \in 0..n
  BY <1>1
<1> QED BY <1>6, <1>7 DEF T, g, n, Images, Nothing

(* Where F and G agree on the elements of s, the images are the same.      *)
LEMMA ImagesSame ==
  ASSUME NEW V, NEW s \in Seq(V), NEW B, NEW F, Into(F, B), NEW G, Into(G, B),
         \A i \in 1..Len(s) : /\ s[i] \in DOMAIN F <=> s[i] \in DOMAIN G
                              /\ s[i] \in DOMAIN F => F[s[i]] = G[s[i]]
  PROVE  Images(s, F) = Images(s, G)
<1> DEFINE n == Len(s)
           g == ImagesUpTo(s, F)
<1>1. n \in Nat
  BY LenProperties
<1>2. Recursion(g, n, s, F)
  BY ImagesFacts
<1>3. \A i \in 1..n : AddImage(g[i - 1], s[i], F) = AddImage(g[i - 1], s[i], G)
  <2> HIDE DEF g
  <2> QED BY Zenon DEF AddImage
<1>4. Recursion(g, n, s, G)
  <2> DEFINE X(i) == IF i = 0 THEN Nothing ELSE AddImage(g[i - 1], s[i], F)
             Y(i) == IF i = 0 THEN Nothing ELSE AddImage(g[i - 1], s[i], G)
  <2>1. \A i \in 0..n : i # 0 => i \in 1..n
    BY <1>1
  <2>2. \A i \in 0..n : X(i) = Y(i)
    <3> HIDE DEF g, n
    <3> QED BY <1>3, <2>1, Zenon
  <2> HIDE DEF n
  <2>3. [i \in 0..n |-> X(i)] = [i \in 0..n |-> Y(i)]
    <3> HIDE DEF X, Y
    <3> QED BY <2>2, Zenon
  <2>4. g = [i \in 0..n |-> X(i)]
    BY <1>2, Zenon DEF Recursion
  <2> QED BY <2>3, <2>4, Zenon DEF Recursion
<1>5. g[n] = Images(s, G)
  <2> HIDE DEF g
  <2> QED BY <1>4, RecursionIsImages
<1> QED BY <1>5 DEF Images

(* The numbers up to k, in order.                                          *)
UpTo(k) == [i \in 1..k |-> i]

(* Such a sequence has k numbers, and the next one is k + 1.               *)
LEMMA UpToFacts ==
  ASSUME NEW k \in Nat
  PROVE  /\ UpTo(k) \in Seq(Nat) /\ Len(UpTo(k)) = k
         /\ Append(UpTo(k), k + 1) = UpTo(k + 1)
         /\ UpTo(0) = <<>>
<1>1. UpTo(k) \in Seq(Nat) /\ Len(UpTo(k)) = k
  BY DEF UpTo
<1>2. Append(UpTo(k), k + 1) = UpTo(k + 1)
  BY DEF UpTo
<1>3. UpTo(0) = <<>>
  BY DEF UpTo
<1> QED
  BY <1>1, <1>2, <1>3
=============================================================================
