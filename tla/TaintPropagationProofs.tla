----------------------- MODULE TaintPropagationProofs -----------------------
(***************************************************************************)
(* Theorems about TaintPropagation, for any number of threads, registers,  *)
(* addresses, instructions and command lines, and for lists of operands    *)
(* of any length.                                                          *)
(***************************************************************************)
EXTENDS TaintPropagation, InductionLemmas, FiniteSetTheorems

(* Every element of the set is listed, and nothing else. *)
LEMMA ListingFacts ==
  ASSUME NEW S, IsFiniteSet(S)
  PROVE  /\ Cardinality(S) \in Nat
         /\ Listing(S) \in [1..Cardinality(S) -> S]
         /\ \A x \in S : \E i \in 1..Cardinality(S) : Listing(S)[i] = x
<1> DEFINE n == Cardinality(S)
           f == Listing(S)
<1>0. n \in Nat /\ ExistsBijection(1..n, S)
  BY FS_CardinalityType
<1>1. \E g \in [1..n -> S] : \A i, j \in 1..n : g[i] = g[j] => i = j
  BY <1>0 DEF ExistsBijection, Bijection, Injection, IsInjective
<1>2. \E g \in [1..n -> S] : \A i, j \in DOMAIN g : g[i] = g[j] => i = j
  BY <1>1
<1>3. f \in [1..n -> S] /\ \A i, j \in DOMAIN f : f[i] = f[j] => i = j
  BY <1>2, Zenon DEF Listing
<1>4. Cardinality(1..n) = Cardinality(S) /\ IsFiniteSet(1..n)
  BY <1>0, FS_Interval
<1>5. f \in Injection(1..n, S)
  BY <1>3 DEF Injection, IsInjective
<1>6. f \in Surjection(1..n, S)
  BY <1>4, <1>5, FS_Injection
<1> QED BY <1>0, <1>3, <1>6 DEF Surjection

-----------------------------------------------------------------------------
(* The operand list. *)

Entries(s) == {s[i] : i \in DOMAIN s}

(* The entries of two lists, one after the other.                          *)
LEMMA EntriesOfConcatenation ==
  ASSUME NEW V, NEW s \in Seq(V), NEW u \in Seq(V)
  PROVE  Entries(s \o u) = Entries(s) \union Entries(u)
<1>1. DOMAIN s = 1..Len(s) /\ DOMAIN u = 1..Len(u) /\ Len(s) \in Nat /\ Len(u) \in Nat
  OBVIOUS
<1>2. DOMAIN (s \o u) = 1..(Len(s) + Len(u))
  OBVIOUS
<1>3. \A i \in 1..Len(s) : (s \o u)[i] = s[i]
  OBVIOUS
<1>4. \A i \in 1..Len(u) : (s \o u)[Len(s) + i] = u[i]
  OBVIOUS
<1>5. \A i \in 1..(Len(s) + Len(u)) :
        i \in 1..Len(s) \/ \E j \in 1..Len(u) : i = Len(s) + j
  <2>1. \A i \in 1..(Len(s) + Len(u)) :
          i \in 1..Len(s) \/ (i - Len(s) \in 1..Len(u) /\ i = Len(s) + (i - Len(s)))
    BY <1>1
  <2> QED BY <2>1
<1>6. Entries(s \o u) \subseteq Entries(s) \union Entries(u)
  <2> SUFFICES ASSUME NEW i \in 1..(Len(s) + Len(u))
               PROVE  (s \o u)[i] \in Entries(s) \union Entries(u)
    BY <1>2, Zenon DEF Entries
  <2>1. CASE i \in 1..Len(s)
    BY <1>1, <1>3, <2>1, Zenon DEF Entries
  <2>2. CASE \E j \in 1..Len(u) : i = Len(s) + j
    BY <1>1, <1>4, <2>2, Zenon DEF Entries
  <2> QED BY <1>5, <2>1, <2>2
<1>7. Entries(s) \subseteq Entries(s \o u)
  BY <1>1, <1>2, <1>3 DEF Entries
<1>8. Entries(u) \subseteq Entries(s \o u)
  <2> SUFFICES ASSUME NEW i \in 1..Len(u) PROVE u[i] \in Entries(s \o u)
    BY <1>1 DEF Entries
  <2>1. Len(s) + i \in 1..(Len(s) + Len(u))
    BY <1>1
  <2> QED BY <1>2, <1>4, <2>1 DEF Entries
<1> QED BY <1>6, <1>7, <1>8

Values ==
  {v \in [mem : BOOLEAN, loc : Regs \union Addrs, rd : BOOLEAN, wr : BOOLEAN] :
     IF v.mem THEN v.loc \in Addrs ELSE v.loc \in Regs}

(* What the assumptions say of an instruction and its operands.            *)
LEMMA InsnFacts ==
  ASSUME NEW ins \in Insns
  PROVE  /\ ins.ops \in Seq(Operand)
         /\ \A i \in DOMAIN ins.ops :
              /\ ins.ops[i] \in Operand
              /\ IsFiniteSet(ins.ops[i].addrs)
<1>1. ins \in InsnType
  BY TaintAssumption
<1>2. ins.ops \in Seq(Operand)
  BY <1>1 DEF InsnType
<1>3. \A i \in DOMAIN ins.ops : ins.ops[i] \in Operand
  BY <1>2
<1> QED BY <1>2, <1>3, InsnAssumption

(* An instruction accesses finitely many bytes.                            *)
LEMMA AccessedFacts ==
  ASSUME NEW ins \in Insns, NEW usage \in {"read", "written"}
  PROVE  /\ Accessed(ins, usage) \in SUBSET Addrs
         /\ IsFiniteSet(Accessed(ins, usage))
<1> DEFINE J == {j \in DOMAIN ins.ops : ins.ops[j].kind = "mem" /\ ins.ops[j][usage]}
           U == {ins.ops[i].addrs : i \in J}
<1>1. \A i \in DOMAIN ins.ops : ins.ops[i].addrs \in SUBSET Addrs
  BY InsnFacts DEF Operand
<1>2. IsFiniteSet(DOMAIN ins.ops)
  <2>1. Len(ins.ops) \in Nat /\ DOMAIN ins.ops = 1..Len(ins.ops)
    BY InsnFacts
  <2> QED BY <2>1, FS_Interval
<1>3. IsFiniteSet(J)
  BY <1>2, FS_Subset
<1>4. IsFiniteSet(U)
  <2> DEFINE f == [j \in J |-> ins.ops[j].addrs]
  <2>1. f \in Surjection(J, U)
    BY DEF Surjection
  <2> HIDE DEF f, J, U
  <2> QED BY <1>3, <2>1, FS_Surjection
<1>5. \A S \in U : IsFiniteSet(S)
  BY InsnFacts
<1>6. IsFiniteSet(UNION U)
  BY <1>4, <1>5, FS_UNION
<1> QED BY <1>1, <1>6 DEF Accessed

(* The part of the list for some bytes has one entry for each of them, in  *)
(* whatever order.                                                         *)
LEMMA MemValuesFacts ==
  ASSUME NEW as \in SUBSET Addrs, IsFiniteSet(as), NEW rd \in BOOLEAN
  PROVE  /\ MemValues(as, rd) \in Seq(Values)
         /\ Entries(MemValues(as, rd)) = {Value(TRUE, a, rd, ~rd) : a \in as}
<1> DEFINE n == Cardinality(as)
           s == Listing(as)
<1>1. n \in Nat /\ s \in [1..n -> as] /\ \A x \in as : \E i \in 1..n : s[i] = x
  BY ListingFacts
<1> HIDE DEF n, s
<1>2. \A a \in as : Value(TRUE, a, rd, ~rd) \in Values
  BY DEF Value, Values
<1>3. MemValues(as, rd) = [i \in 1..n |-> Value(TRUE, s[i], rd, ~rd)]
  BY <1>1 DEF MemValues, s
<1>4. MemValues(as, rd) \in [1..n -> Values]
  BY <1>1, <1>2, <1>3
<1>5. Entries(MemValues(as, rd)) = {Value(TRUE, s[i], rd, ~rd) : i \in 1..n}
  BY <1>3 DEF Entries
<1>6. {Value(TRUE, s[i], rd, ~rd) : i \in 1..n} = {Value(TRUE, a, rd, ~rd) : a \in as}
  BY <1>1
<1>7. MemValues(as, rd) \in Seq(Values)
  <2>1. \A g \in [1..n -> Values] : g \in Seq(Values)
    BY <1>1
  <2> QED BY <1>4, <2>1
<1> QED BY <1>5, <1>6, <1>7

(* The list of an instruction's operands has the registers, the bytes read *)
(* and the bytes written, each with its use.                               *)
LEMMA OperandListFacts ==
  ASSUME NEW ins \in Insns, knobs \in Knobs
  PROVE  /\ OperandList(ins) \in Seq(Values)
         /\ Entries(OperandList(ins)) =
              {RegValue(ins, ins.ops[i], knobs.indices) : i \in DOMAIN ins.ops}
              \union {Value(TRUE, a, TRUE, FALSE) : a \in Reads(ins)}
              \union {Value(TRUE, a, FALSE, TRUE) : a \in Writes(ins)}
<1> DEFINE R == [i \in DOMAIN ins.ops |-> RegValue(ins, ins.ops[i], knobs.indices)]
           M == MemValues(Reads(ins), TRUE)
           W == MemValues(Writes(ins), FALSE)
<1>1. knobs.indices \in BOOLEAN
  BY TaintAssumption DEF KnobType
<1>2. OperandList(ins) = R \o M \o W
  BY <1>1 DEF OperandList, OperandLists
<1>3. R \in Seq(Values)
  <2>1. ASSUME NEW i \in DOMAIN ins.ops
        PROVE  RegValue(ins, ins.ops[i], knobs.indices) \in Values
    <3>1. ins.ops[i] \in Operand
      BY InsnFacts
    <3>2. IsXor(ins) \in BOOLEAN
      BY DEF IsXor
    <3> QED BY <1>1, <3>1, <3>2 DEF RegValue, Value, Values, Operand
  <2>2. Len(ins.ops) \in Nat /\ DOMAIN ins.ops = 1..Len(ins.ops)
    BY InsnFacts
  <2> QED BY <2>1, <2>2
<1>4. M \in Seq(Values) /\ Entries(M) = {Value(TRUE, a, TRUE, FALSE) : a \in Reads(ins)}
  <2>1. Reads(ins) \in SUBSET Addrs /\ IsFiniteSet(Reads(ins))
    BY AccessedFacts DEF Reads
  <2>2. M \in Seq(Values) /\ Entries(M) = {Value(TRUE, a, TRUE, ~TRUE) : a \in Reads(ins)}
    BY <2>1, MemValuesFacts, Zenon
  <2> QED BY <2>2
<1>5. W \in Seq(Values) /\ Entries(W) = {Value(TRUE, a, FALSE, TRUE) : a \in Writes(ins)}
  <2>1. Writes(ins) \in SUBSET Addrs /\ IsFiniteSet(Writes(ins))
    BY AccessedFacts DEF Writes
  <2>2. W \in Seq(Values) /\ Entries(W) = {Value(TRUE, a, FALSE, ~FALSE) : a \in Writes(ins)}
    BY <2>1, MemValuesFacts, Zenon
  <2> QED BY <2>2
<1>6. Entries(R) = {RegValue(ins, ins.ops[i], knobs.indices) : i \in DOMAIN ins.ops}
  BY DEF Entries
<1> HIDE DEF R, M, W
<1>0. \A s, u \in Seq(Values) : Entries(s \o u) = Entries(s) \union Entries(u)
  BY EntriesOfConcatenation
<1>7. Entries(R \o M) = Entries(R) \union Entries(M) /\ R \o M \in Seq(Values)
  <2>1. R \o M \in Seq(Values)
    BY <1>3, <1>4
  <2> QED BY <1>0, <1>3, <1>4, <2>1
<1>8. Entries(R \o M \o W) = Entries(R \o M) \union Entries(W) /\ R \o M \o W \in Seq(Values)
  <2>1. R \o M \o W \in Seq(Values)
    BY <1>5, <1>7
  <2> QED BY <1>0, <1>5, <1>7, <2>1
<1> QED BY <1>2, <1>4, <1>5, <1>6, <1>7, <1>8, Zenon

-----------------------------------------------------------------------------
(* getReadTaint, over a list of any length. *)

(* The tag and the origin of an entry have their types.                    *)
LEMMA EntryTypes ==
  ASSUME TypeOK, NEW t \in Threads, NEW v \in Values
  PROVE  /\ getTaint(t, v) \in -1..(taintnum - 1)
         /\ OriginOf(t, v) \in Origins
<1>1. CASE v.mem
  BY <1>1 DEF TypeOK, Values, getTaint, OriginOf, Keys, Key
<1>2. CASE ~v.mem
  BY <1>2 DEF TypeOK, Values, getTaint, OriginOf
<1> QED BY <1>1, <1>2

Accumulators == [tag : -1..(taintnum - 1), tmp : -1..(taintnum - 1)]
StartOfRead == [tag |-> NOTAINT, tmp |-> NOTAINT]

(* One step along the list keeps tag and tmp_tag in their types.           *)
LEMMA ReadOperandTypes ==
  ASSUME TypeOK, NEW t \in Threads, NEW v \in Values, NEW acc \in Accumulators
  PROVE  readOperand(t, acc, v) \in Accumulators
<1>1. getTaint(t, v) \in -1..(taintnum - 1)
  BY EntryTypes
<1>2. acc.tag \in -1..(taintnum - 1) /\ acc.tmp \in -1..(taintnum - 1)
  BY DEF Accumulators
<1>3. \A a, b \in -1..(taintnum - 1) : combineTaint(a, b) \in -1..(taintnum - 1)
  BY DEF TypeOK, combineTaint, NOTAINT, MIXED_TAINT
<1> QED BY <1>1, <1>2, <1>3 DEF readOperand, Accumulators

(* The recursion of getReadTaint is one: it starts with no taint and goes  *)
(* through the list operand by operand.                                    *)
LEMMA ReadOperandsFacts ==
  ASSUME TypeOK, NEW t \in Threads, NEW values \in Seq(Values)
  PROVE  LET acc == readOperands(t, values)
         IN  /\ acc \in [0..Len(values) -> Accumulators]
             /\ acc[0] = StartOfRead
             /\ \A i \in 1..Len(values) :
                  acc[i] = readOperand(t, acc[i - 1], values[i])
<1> DEFINE n == Len(values)
           A == Accumulators
           step == [i \in 1..n |-> [acc \in A |-> readOperand(t, acc, values[i])]]
<1>1. n \in Nat /\ \A i \in 1..n : values[i] \in Values
  OBVIOUS
<1>2. StartOfRead \in A
  BY DEF TypeOK, Accumulators, StartOfRead, NOTAINT
<1>3. step \in [1..n -> [A -> A]]
  <2> HIDE DEF A
  <2>1. \A i \in 1..n : \A acc \in A : readOperand(t, acc, values[i]) \in A
    BY <1>1, ReadOperandTypes DEF A
  <2> QED BY <2>1
<1>4. PICK f : Course(f, n, A, StartOfRead, step)
  <2> HIDE DEF n, A, step
  <2> QED BY <1>1, <1>2, <1>3, RecursionUpTo, Zenon
<1>5. /\ f \in [0..n -> A]
      /\ f[0] = StartOfRead
      /\ \A i \in 1..n : f[i] = readOperand(t, f[i - 1], values[i])
  <2> HIDE DEF A
  <2>1. /\ f \in [0..n -> A] /\ f[0] = StartOfRead
        /\ \A i \in 1..n : f[i] = step[i][f[i - 1]]
    BY <1>4, Zenon DEF Course
  <2>2. \A i \in 1..n : f[i - 1] \in A
    BY <1>1, <2>1
  <2> QED BY <2>1, <2>2
<1> DEFINE Eqn(g) == g = [i \in 0..n |-> IF i = 0 THEN StartOfRead
                                         ELSE readOperand(t, g[i - 1], values[i])]
<1>6. Eqn(f)
  <2>1. \A i \in 0..n : i # 0 => i \in 1..n
    BY <1>1
  <2> QED BY <1>5, <2>1
<1>7. readOperands(t, values) = CHOOSE g : Eqn(g)
  BY Zenon DEF readOperands, StartOfRead
<1>8. Eqn(readOperands(t, values))
  <2> HIDE DEF Eqn
  <2> QED BY <1>6, <1>7, Zenon
<1> DEFINE g == readOperands(t, values)
<1> HIDE DEF g
<1>9. /\ DOMAIN g = 0..n /\ g[0] = StartOfRead
      /\ \A i \in 1..n : g[i] = readOperand(t, g[i - 1], values[i])
  <2>1. g = [i \in 0..n |-> IF i = 0 THEN StartOfRead
                            ELSE readOperand(t, g[i - 1], values[i])]
    BY <1>8 DEF g
  <2> QED BY <1>1, <2>1
<1>10. \A i \in 0..n : g[i] \in A
  <2> DEFINE S == {i \in 0..n : g[i] \in A}
  <2>1. 0 \in S
    BY <1>1, <1>2, <1>9
  <2>2. \A i \in 0..(n - 1) : i \in S => i + 1 \in S
    <3> SUFFICES ASSUME NEW i \in 0..(n - 1), g[i] \in A PROVE g[i + 1] \in A
      BY <1>1
    <3>1. i + 1 \in 1..n /\ (i + 1) - 1 = i
      BY <1>1
    <3>2. g[i + 1] = readOperand(t, g[i], values[i + 1])
      BY <1>9, <3>1
    <3> QED BY <1>1, <3>1, <3>2, ReadOperandTypes
  <2>3. \A i \in 0..n : i \in S
    <3> HIDE DEF S, n
    <3> QED BY <1>1, <2>1, <2>2, InductionUpTo, Zenon
  <2> QED BY <2>3
<1>11. g \in [0..n -> A]
  <2>1. g = [i \in 0..n |-> g[i]]
    BY <1>8 DEF g
  <2> QED BY <1>10, <2>1
<1> QED BY <1>9, <1>11 DEF g

(* Two tags combined tell of both values' bytes. *)
LEMMA CombineTells ==
  ASSUME NEW oldtag \in Int, NEW newtag \in Int, NEW S, NEW T,
         Tells(oldtag, S), Tells(newtag, T)
  PROVE  Tells(combineTaint(oldtag, newtag), S \union T)
<1>1. CASE newtag = NOTAINT
  BY <1>1 DEF Tells, combineTaint
<1>2. CASE newtag # NOTAINT /\ oldtag = NOTAINT
  BY <1>2 DEF Tells, combineTaint
<1>3. CASE newtag # NOTAINT /\ oldtag # NOTAINT
  <2>1. combineTaint(oldtag, newtag) = -1
    BY <1>3 DEF combineTaint, MIXED_TAINT
  <2>2. S \union T # {}
    BY <1>3 DEF Tells
  <2>3. -1 \notin Bytes
    BY TaintAssumption DEF Bytes
  <2> QED BY <2>1, <2>2, <2>3 DEF Tells, NOTAINT
<1> QED BY <1>1, <1>2, <1>3

(* With tmp_tag kept from the operand before, one more combination of a    *)
(* tag that is already in makes the sum mixed, which is never wrong.       *)
LEMMA CombineAgain ==
  ASSUME NEW tag \in Int, NEW tmp \in Int, NEW S,
         Tells(tag, S), tmp # NOTAINT => tag # NOTAINT
  PROVE  Tells(combineTaint(tag, tmp), S)
<1>1. CASE tmp = NOTAINT
  BY <1>1 DEF combineTaint
<1>2. CASE tmp # NOTAINT
  <2>1. combineTaint(tag, tmp) = -1
    BY <1>2 DEF combineTaint, MIXED_TAINT
  <2>2. S # {}
    BY <1>2 DEF Tells
  <2>3. -1 \notin Bytes
    BY TaintAssumption DEF Bytes
  <2> QED BY <2>1, <2>2, <2>3 DEF Tells, NOTAINT
<1> QED BY <1>1, <1>2

(* The operands whose taint getReadTaint looks up. *)
Looked(v) == v.rd /\ ~flagsSkipped(v)
From(t, values, i) ==
  UNION {OriginOf(t, values[j]).from : j \in {k \in 1..i : Looked(values[k])}}

(* What is known after each operand of the list: tags looked up are within *)
(* the tag, which tells of all bytes if all operands looked up are exact.  *)
Within(x, tag) ==
  /\ tag = NOTAINT => x = NOTAINT
  /\ tag \in Bytes => x \in {NOTAINT, tag}

AllExact(t, values, i) ==
  \A j \in 1..i : Looked(values[j]) => OriginOf(t, values[j]).seen = "exact"

ReadSoFar(t, values, i, acc) ==
  /\ \A j \in 1..i : Looked(values[j]) => Within(getTaint(t, values[j]), acc.tag)
  /\ AllExact(t, values, i) => Tells(acc.tag, From(t, values, i))
  /\ acc.tmp # NOTAINT => acc.tag # NOTAINT

(* A combination takes both tags in. *)
LEMMA CombineWithin ==
  ASSUME NEW oldtag \in Int, NEW newtag \in Int, NEW x,
         Within(x, oldtag) \/ x = newtag
  PROVE  Within(x, combineTaint(oldtag, newtag))
<1>1. -1 \notin Bytes /\ 0 \notin Bytes
  BY TaintAssumption DEF Bytes
<1>2. CASE newtag = NOTAINT
  BY <1>2 DEF Within, combineTaint, NOTAINT
<1>3. CASE newtag # NOTAINT /\ oldtag = NOTAINT
  BY <1>1, <1>3 DEF Within, combineTaint, NOTAINT
<1>4. CASE newtag # NOTAINT /\ oldtag # NOTAINT
  BY <1>1, <1>4 DEF Within, combineTaint, NOTAINT, MIXED_TAINT
<1> QED BY <1>2, <1>3, <1>4

(* One step of getReadTaint.                                               *)
LEMMA ReadSoFarStep ==
  ASSUME TypeOK, TagsTell, NEW t \in Threads, NEW values \in Seq(Values),
         NEW i \in 0..(Len(values) - 1),
         NEW acc \in Accumulators, ReadSoFar(t, values, i, acc)
  PROVE  ReadSoFar(t, values, i + 1, readOperand(t, acc, values[i + 1]))
<1> DEFINE v == values[i + 1]
           tag == getTaint(t, v)
           origin == OriginOf(t, v)
<1>0. v \in Values /\ 1..(i + 1) = 1..i \union {i + 1}
  OBVIOUS
<1>1. acc.tag \in Int /\ acc.tmp \in Int /\ tag \in Int
  BY <1>0, EntryTypes DEF Accumulators, TypeOK
<1> HIDE DEF v
<1>2. From(t, values, i + 1) =
        IF Looked(v) THEN From(t, values, i) \union origin.from
        ELSE From(t, values, i)
  <2>1. {k \in 1..(i + 1) : Looked(values[k])} =
          {k \in 1..i : Looked(values[k])} \union (IF Looked(v) THEN {i + 1} ELSE {})
    BY <1>0 DEF v
  <2>2. CASE Looked(v)
    <3>1. {k \in 1..(i + 1) : Looked(values[k])} =
            {k \in 1..i : Looked(values[k])} \union {i + 1}
      BY <2>1, <2>2
    <3> QED BY <2>2, <3>1 DEF From, v
  <2>3. CASE ~Looked(v)
    BY <2>1, <2>3 DEF From
  <2> QED BY <2>2, <2>3
<1>6. AllExact(t, values, i + 1) =>
        AllExact(t, values, i) /\ (Looked(v) => origin.seen = "exact")
  BY <1>0 DEF AllExact, v
<1> DEFINE Old(x) == \A j \in 1..i : Looked(values[j]) =>
                       Within(getTaint(t, values[j]), x)
           New(x) == \A j \in 1..(i + 1) : Looked(values[j]) =>
                       Within(getTaint(t, values[j]), x)
<1>7. \A x : Old(x) /\ (Looked(v) => Within(tag, x)) => New(x)
  BY <1>0 DEF v
<1>8. \A x \in Int : Old(combineTaint(acc.tag, x))
  BY <1>1, CombineWithin DEF ReadSoFar
<1>9. Old(acc.tag) /\ (acc.tmp # NOTAINT => acc.tag # NOTAINT)
      /\ (AllExact(t, values, i) => Tells(acc.tag, From(t, values, i)))
  BY DEF ReadSoFar
<1> DEFINE next == readOperand(t, acc, v)
<1> HIDE DEF Old, tag, origin
<1>10. SUFFICES /\ New(next.tag)
                /\ AllExact(t, values, i + 1) => Tells(next.tag, From(t, values, i + 1))
                /\ next.tmp # NOTAINT => next.tag # NOTAINT
  BY DEF ReadSoFar, v
<1>3. CASE ~v.rd
  <2>1. next = acc /\ ~Looked(v)
    BY <1>3 DEF readOperand, Looked
  <2> HIDE DEF next, New
  <2> QED BY <1>2, <1>6, <1>7, <1>9, <2>1
<1>4. CASE v.rd /\ flagsSkipped(v)
  <2>1. /\ next.tag = combineTaint(acc.tag, acc.tmp) /\ next.tmp = acc.tmp
        /\ ~Looked(v)
    BY <1>4 DEF readOperand, Looked
  <2>2. ASSUME AllExact(t, values, i)
        PROVE  Tells(combineTaint(acc.tag, acc.tmp), From(t, values, i))
    BY <1>1, <1>9, <2>2, CombineAgain
  <2>3. acc.tmp # NOTAINT => combineTaint(acc.tag, acc.tmp) # NOTAINT
    BY <1>9 DEF combineTaint, NOTAINT, MIXED_TAINT
  <2>4. New(next.tag)
    <3> HIDE DEF New, next
    <3> QED BY <1>1, <1>7, <1>8, <2>1
  <2> HIDE DEF next, New
  <2> QED BY <1>2, <1>6, <2>1, <2>2, <2>3, <2>4
<1>5. CASE Looked(v)
  <2>1. next.tag = combineTaint(acc.tag, tag) /\ next.tmp = tag
    BY <1>5 DEF readOperand, Looked, tag
  <2>2. ASSUME AllExact(t, values, i + 1)
        PROVE  Tells(combineTaint(acc.tag, tag), From(t, values, i + 1))
    <3>1. Agrees(tag, origin)
      <4>1. CASE v.mem
        BY <1>0, <4>1 DEF TagsTell, getTaint, OriginOf, Values, tag, origin
      <4>2. CASE ~v.mem
        BY <1>0, <4>2 DEF TagsTell, getTaint, OriginOf, Values, tag, origin
      <4> QED BY <4>1, <4>2
    <3>2. Tells(tag, origin.from)
      BY <1>5, <1>6, <2>2, <3>1 DEF Agrees
    <3>3. Tells(combineTaint(acc.tag, tag), From(t, values, i) \union origin.from)
      BY <1>1, <1>6, <1>9, <2>2, <3>2, CombineTells
    <3> QED BY <1>2, <1>5, <3>3
  <2>3. tag # NOTAINT => combineTaint(acc.tag, tag) # NOTAINT
    BY DEF combineTaint, NOTAINT, MIXED_TAINT
  <2>4. New(combineTaint(acc.tag, tag))
    <3>1. Within(tag, combineTaint(acc.tag, tag))
      BY <1>1, CombineWithin
    <3> HIDE DEF New
    <3> QED BY <1>1, <1>7, <1>8, <3>1
  <2> HIDE DEF next, New
  <2> QED BY <2>1, <2>2, <2>3, <2>4
<1> QED BY <1>3, <1>4, <1>5 DEF Looked

(* The tag of what is read has every tag looked up within it, and tells of *)
(* all the bytes if all operands looked up are exact.                      *)
LEMMA ReadTaintTells ==
  ASSUME TypeOK, TagsTell, NEW t \in Threads, NEW values \in Seq(Values)
  PROVE  ReadSoFar(t, values, Len(values), readOperands(t, values)[Len(values)])
<1> DEFINE n == Len(values)
           acc == readOperands(t, values)
           S == {i \in 0..n : ReadSoFar(t, values, i, acc[i])}
<1>1. n \in Nat /\ DOMAIN values = 1..n
  OBVIOUS
<1>2. /\ acc[0] = StartOfRead
      /\ \A i \in 0..n : acc[i] \in Accumulators
      /\ \A i \in 1..n : acc[i] = readOperand(t, acc[i - 1], values[i])
  BY <1>1, ReadOperandsFacts
<1> HIDE DEF acc
<1>3. 0 \in S
  <2>1. From(t, values, 0) = {} /\ 1..0 = {}
    BY DEF From
  <2>2. 0 \notin Bytes
    BY TaintAssumption DEF Bytes
  <2> QED BY <1>1, <1>2, <2>1, <2>2 DEF StartOfRead, ReadSoFar, Tells, NOTAINT
<1>4. \A i \in 0..(n - 1) : i \in S => i + 1 \in S
  <2> SUFFICES ASSUME NEW i \in 0..(n - 1), ReadSoFar(t, values, i, acc[i])
               PROVE  ReadSoFar(t, values, i + 1, acc[i + 1])
    BY <1>1
  <2>1. i \in 0..n /\ i + 1 \in 1..n /\ (i + 1) - 1 = i
    BY <1>1
  <2>2. acc[i + 1] = readOperand(t, acc[i], values[i + 1])
    BY <1>2, <2>1
  <2>3. acc[i] \in Accumulators
    BY <1>2, <2>1
  <2> QED BY <2>2, <2>3, ReadSoFarStep
<1>5. \A i \in 0..n : i \in S
  <2> HIDE DEF S, n
  <2> QED BY <1>1, <1>3, <1>4, InductionUpTo, Zenon
<1> QED BY <1>1, <1>5 DEF acc

(* The tag that is read is that of a byte introduced, none, or mixed.      *)
LEMMA ReadTaintType ==
  ASSUME TypeOK, NEW t \in Threads, NEW values \in Seq(Values)
  PROVE  getReadTaint(t, values) \in -1..(taintnum - 1)
<1>1. Len(values) \in 0..Len(values)
  OBVIOUS
<1>2. readOperands(t, values)[Len(values)] \in Accumulators
  BY <1>1, ReadOperandsFacts
<1> QED BY <1>2 DEF getReadTaint, Accumulators

-----------------------------------------------------------------------------
(* The operand list and what the instruction computes. *)

(* The test for xor finds exactly the xors of a register with itself. *)
LEMMA XorIsSameRegister ==
  ASSUME NEW ins \in Insns
  PROVE  IsXor(ins) <=> SameRegister(ins)
<1> DEFINE modified(o) == o.kind = "reg" /\ o.read /\ o.written
           others == {i \in DOMAIN ins.ops : ~modified(ins.ops[i])}
           k == CHOOSE i \in others : \A j \in others : i <= j
<1>1. CASE ins.op # "xor"
  BY <1>1 DEF IsXor, SameRegister
<1>2. CASE ins.op = "xor"
  <2>1. /\ Len(ins.ops) >= 2 /\ Len(ins.ops) \in Nat /\ DOMAIN ins.ops = 1..Len(ins.ops)
        /\ ins.ops[1].kind # "agen" /\ ins.ops[1].read /\ ins.ops[1].written
        /\ ~(ins.ops[2].read /\ ins.ops[2].written)
        /\ \A i \in 3..Len(ins.ops) : ~ins.ops[i].read
    BY <1>2, InsnFacts, InsnAssumption
  <2>2. 1 \in DOMAIN ins.ops /\ 2 \in others /\ others \subseteq Nat
    BY <2>1
  <2>3. IsXor(ins) <=> /\ ins.ops[k].kind = "reg"
                       /\ \E i \in DOMAIN ins.ops :
                            modified(ins.ops[i]) /\ ins.ops[i].reg = ins.ops[k].reg
    BY <1>2, <2>2 DEF IsXor
  <2>4. \A i \in DOMAIN ins.ops : modified(ins.ops[i]) => i = 1 /\ ins.ops[1].kind = "reg"
    <3>1. \A i \in DOMAIN ins.ops : i = 1 \/ i = 2 \/ i \in 3..Len(ins.ops)
      BY <2>1
    <3> QED BY <2>1, <3>1
  <2>5. CASE modified(ins.ops[1])
    <3>1. \A i \in others : 2 <= i
      BY <2>1, <2>5
    <3>2. k = 2
      <4>1. \A i \in others : (\A j \in others : i <= j) => i = 2
        BY <2>2, <3>1
      <4>2. \E i \in others : \A j \in others : i <= j
        BY <2>2, <3>1
      <4> HIDE DEF others
      <4> QED BY <4>1, <4>2
    <3> QED BY <1>2, <2>2, <2>3, <2>4, <2>5, <3>2 DEF SameRegister
  <2>6. CASE ~modified(ins.ops[1])
    <3>1. ins.ops[1].kind # "reg"
      BY <2>1, <2>6
    <3>2. ~IsXor(ins)
      BY <2>3, <2>4, <3>1
    <3>3. ~SameRegister(ins)
      BY <3>1 DEF SameRegister
    <3> QED BY <3>2, <3>3
  <2> QED BY <2>5, <2>6
<1> QED BY <1>1, <1>2

RegOperandRead(o) ==
  \/ o.kind = "reg" /\ o.read
  \/ o.kind = "agen"
  \/ o.kind = "mem" /\ knobs.indices

(* The registers looked up are those the instruction reads. *)
LEMMA RegValueFacts ==
  ASSUME NEW ins \in Insns, knobs \in Knobs, NEW i \in DOMAIN ins.ops
  PROVE  LET v == RegValue(ins, ins.ops[i], knobs.indices)
         IN  /\ ~v.mem /\ v.loc = ins.ops[i].reg
             /\ v.rd <=> ~SameRegister(ins) /\ RegOperandRead(ins.ops[i])
             /\ v.wr <=> ins.ops[i].kind = "reg" /\ ins.ops[i].written
<1> DEFINE o == ins.ops[i]
           v == RegValue(ins, o, knobs.indices)
<1>1. knobs.indices \in BOOLEAN
  BY TaintAssumption DEF KnobType
<1>2. o \in Operand
  BY InsnFacts
<1>3. SameRegister(ins) => o.kind = "reg"
  <2> SUFFICES ASSUME SameRegister(ins) PROVE o.kind = "reg"
    OBVIOUS
  <2>1. DOMAIN ins.ops = 1..Len(ins.ops) /\ Len(ins.ops) \in Nat
    BY InsnFacts
  <2>2. i \in 1..2 \/ i \in 3..Len(ins.ops)
    BY <2>1
  <2> QED BY <2>2, InsnAssumption DEF SameRegister
<1>4. SameRegister(ins) => ~(o.read /\ ~IsXor(ins))
  BY XorIsSameRegister
<1>5. ~SameRegister(ins) => ((o.read /\ ~IsXor(ins)) <=> o.read)
  BY <1>2, XorIsSameRegister
<1>6. CASE o.kind = "reg"
  <2>1. v = Value(FALSE, o.reg, o.read /\ ~IsXor(ins), o.written)
    BY <1>6 DEF RegValue
  <2>2. /\ ~v.mem /\ v.loc = o.reg /\ v.wr = o.written
        /\ v.rd = (o.read /\ ~IsXor(ins))
    BY <2>1 DEF Value
  <2> HIDE DEF v
  <2>3. v.rd <=> ~SameRegister(ins) /\ o.read
    BY <1>4, <1>5, <2>2
  <2>4. RegOperandRead(o) <=> o.read
    BY <1>6 DEF RegOperandRead
  <2> QED BY <1>2, <1>6, <2>2, <2>3, <2>4 DEF Operand, v
<1>7. CASE o.kind # "reg"
  <2>1. v = Value(FALSE, o.reg, knobs.indices \/ o.kind = "agen", FALSE)
    BY <1>7 DEF RegValue
  <2>2. /\ ~v.mem /\ v.loc = o.reg /\ ~v.wr
        /\ v.rd = (knobs.indices \/ o.kind = "agen")
    BY <2>1 DEF Value
  <2>3. ~SameRegister(ins)
    BY <1>3, <1>7
  <2> HIDE DEF v
  <2>4. v.rd <=> RegOperandRead(o)
    BY <1>1, <1>2, <1>7, <2>2 DEF RegOperandRead, Operand
  <2> QED BY <1>7, <2>2, <2>3, <2>4 DEF v
<1> QED BY <1>6, <1>7

(* The operands an instruction could read data from: none in an xor of a   *)
(* register with itself, which accesses no memory.                         *)
Readable(ins) == IF SameRegister(ins) THEN {} ELSE DOMAIN ins.ops

(* These registers and bytes, by the operands.                             *)
LEMMA ReadableFacts ==
  ASSUME NEW ins \in Insns
  PROVE  /\ RegsRead(ins, Readable(ins)) =
              {ins.ops[i].reg : i \in {j \in DOMAIN ins.ops :
                 ~SameRegister(ins) /\ RegOperandRead(ins.ops[j])}}
         /\ BytesRead(ins, Readable(ins)) = Reads(ins)
<1>1. CASE SameRegister(ins)
  <2>1. \A i \in DOMAIN ins.ops : ins.ops[i].kind = "reg"
    <3>1. DOMAIN ins.ops = 1..Len(ins.ops) /\ Len(ins.ops) \in Nat
      BY InsnFacts
    <3>2. \A i \in DOMAIN ins.ops : i \in 1..2 \/ i \in 3..Len(ins.ops)
      BY <3>1
    <3> QED BY <1>1, <3>2, InsnAssumption DEF SameRegister
  <2>2. Reads(ins) = {}
    BY <2>1 DEF Reads, Accessed
  <2> QED BY <1>1, <2>2 DEF RegsRead, BytesRead, Readable
<1>2. CASE ~SameRegister(ins)
  BY <1>2 DEF RegsRead, BytesRead, Reads, Accessed, RegOperandRead, Readable
<1> QED BY <1>1, <1>2

(* The operands looked up are what the instruction reads, flags apart.     *)
LEMMA LookedIsRead ==
  ASSUME NEW ins \in Insns, knobs \in Knobs, NEW t
  PROVE  {OriginOf(t, v) : v \in {e \in Entries(OperandList(ins)) : Looked(e)}} =
           Inputs(t, ins)
<1> DEFINE E == Entries(OperandList(ins))
           Rv(i) == RegValue(ins, ins.ops[i], knobs.indices)
           O == {regs[t][r] : r \in RegsRead(ins, Readable(ins)) \ flagless}
                  \union {mem[a] : a \in Reads(ins)}
<1>0. Inputs(t, ins) = O
  BY ReadableFacts DEF Inputs, Readable
<1>1. E = {Rv(i) : i \in DOMAIN ins.ops}
            \union {Value(TRUE, a, TRUE, FALSE) : a \in Reads(ins)}
            \union {Value(TRUE, a, FALSE, TRUE) : a \in Writes(ins)}
  BY OperandListFacts
<1>2. \A i \in DOMAIN ins.ops :
        /\ OriginOf(t, Rv(i)) = regs[t][ins.ops[i].reg]
        /\ Looked(Rv(i)) <=> /\ ~SameRegister(ins) /\ RegOperandRead(ins.ops[i])
                             /\ ins.ops[i].reg \notin flagless
  <2> SUFFICES ASSUME NEW i \in DOMAIN ins.ops
               PROVE  /\ OriginOf(t, Rv(i)) = regs[t][ins.ops[i].reg]
                      /\ Looked(Rv(i)) <=> /\ ~SameRegister(ins) /\ RegOperandRead(ins.ops[i])
                                           /\ ins.ops[i].reg \notin flagless
    OBVIOUS
  <2>1. /\ ~Rv(i).mem /\ Rv(i).loc = ins.ops[i].reg
        /\ Rv(i).rd <=> ~SameRegister(ins) /\ RegOperandRead(ins.ops[i])
    BY RegValueFacts
  <2> HIDE DEF Rv
  <2>2. flagsSkipped(Rv(i)) <=> ins.ops[i].reg \in flagless
    BY <2>1 DEF flagsSkipped, flagless
  <2> QED BY <2>1, <2>2 DEF OriginOf, Looked
<1>3. \A a : LET v == Value(TRUE, a, TRUE, FALSE) IN Looked(v) /\ OriginOf(t, v) = mem[a]
  BY DEF Looked, flagsSkipped, OriginOf, Value
<1>4. \A a : ~Looked(Value(TRUE, a, FALSE, TRUE))
  BY DEF Looked, Value
<1>7. RegsRead(ins, Readable(ins)) =
        {ins.ops[i].reg : i \in {j \in DOMAIN ins.ops :
           ~SameRegister(ins) /\ RegOperandRead(ins.ops[j])}}
  BY ReadableFacts
<1> HIDE DEF Rv
<1>5. {OriginOf(t, v) : v \in {e \in E : Looked(e)}} \subseteq O
  <2> SUFFICES ASSUME NEW v \in E, Looked(v) PROVE OriginOf(t, v) \in O
    OBVIOUS
  <2>1. CASE \E i \in DOMAIN ins.ops : v = Rv(i)
    <3>1. PICK i \in DOMAIN ins.ops : v = Rv(i)
      BY <2>1
    <3>2. ins.ops[i].reg \in RegsRead(ins, Readable(ins)) \ flagless
      BY <1>2, <1>7, <3>1
    <3> QED BY <1>2, <3>1, <3>2
  <2>2. CASE \E a \in Reads(ins) : v = Value(TRUE, a, TRUE, FALSE)
    BY <1>3, <2>2
  <2>3. v \notin {Value(TRUE, a, FALSE, TRUE) : a \in Writes(ins)}
    BY <1>4
  <2> QED BY <1>1, <2>1, <2>2, <2>3
<1>6. ASSUME NEW o \in O PROVE \E v \in E : Looked(v) /\ OriginOf(t, v) = o
  <2>1. CASE \E r \in RegsRead(ins, Readable(ins)) \ flagless : o = regs[t][r]
    <3>1. PICK i \in DOMAIN ins.ops :
            /\ ~SameRegister(ins) /\ RegOperandRead(ins.ops[i])
            /\ ins.ops[i].reg \notin flagless /\ o = regs[t][ins.ops[i].reg]
      BY <1>7, <2>1
    <3> QED BY <1>1, <1>2, <3>1
  <2>2. CASE \E a \in Reads(ins) : o = mem[a]
    BY <1>1, <1>3, <2>2
  <2> QED BY <2>1, <2>2
<1> QED BY <1>0, <1>5, <1>6

(* What propagation writes is what the instruction writes. *)
RegsWritten(ins) ==
  {ins.ops[i].reg : i \in {j \in DOMAIN ins.ops :
     ins.ops[j].kind = "reg" /\ ins.ops[j].written}}

(* The list has the registers and bytes the instruction writes as written  *)
(* entries, and no others.                                                 *)
LEMMA WrittenFacts ==
  ASSUME NEW ins \in Insns, knobs \in Knobs
  PROVE  /\ WrittenIn(OperandList(ins), FALSE) = RegsWritten(ins)
         /\ WrittenIn(OperandList(ins), TRUE) = Writes(ins)
<1> DEFINE E == Entries(OperandList(ins))
           Rv(i) == RegValue(ins, ins.ops[i], knobs.indices)
           Br(a) == Value(TRUE, a, TRUE, FALSE)
           Bw(a) == Value(TRUE, a, FALSE, TRUE)
<1>1. E = {Rv(i) : i \in DOMAIN ins.ops}
            \union {Br(a) : a \in Reads(ins)} \union {Bw(a) : a \in Writes(ins)}
  BY OperandListFacts
<1>2. \A i \in DOMAIN ins.ops :
        /\ Rv(i).mem = FALSE /\ Rv(i).loc = ins.ops[i].reg
        /\ Rv(i).wr <=> ins.ops[i].kind = "reg" /\ ins.ops[i].written
  <2>1. \A i \in DOMAIN ins.ops : Rv(i).mem = FALSE
    BY DEF RegValue, Value
  <2> QED BY <2>1, RegValueFacts
<1>3. \A a : ~Br(a).wr
  BY DEF Value
<1>4. \A a : Bw(a).wr /\ Bw(a).mem = TRUE /\ Bw(a).loc = a
  BY DEF Value
<1> HIDE DEF Rv, Br, Bw
<1>5. /\ WrittenIn(OperandList(ins), FALSE) = {v.loc : v \in {e \in E : e.wr /\ e.mem = FALSE}}
      /\ WrittenIn(OperandList(ins), TRUE) = {v.loc : v \in {e \in E : e.wr /\ e.mem = TRUE}}
  BY DEF WrittenIn, Entries
<1> HIDE DEF E
<1>6. {e \in E : e.wr /\ e.mem = FALSE} =
        {Rv(i) : i \in {j \in DOMAIN ins.ops : ins.ops[j].kind = "reg" /\ ins.ops[j].written}}
  BY <1>1, <1>2, <1>3, <1>4
<1>7. {e \in E : e.wr /\ e.mem = TRUE} = {Bw(a) : a \in Writes(ins)}
  BY <1>1, <1>2, <1>3, <1>4
<1>8. WrittenIn(OperandList(ins), FALSE) = RegsWritten(ins)
  <2> DEFINE J == {j \in DOMAIN ins.ops : ins.ops[j].kind = "reg" /\ ins.ops[j].written}
  <2>1. WrittenIn(OperandList(ins), FALSE) = {v.loc : v \in {Rv(i) : i \in J}}
    BY <1>5, <1>6
  <2>2. \A i \in J : Rv(i).loc = ins.ops[i].reg
    BY <1>2
  <2>3. RegsWritten(ins) = {ins.ops[i].reg : i \in J}
    BY DEF RegsWritten
  <2> HIDE DEF J
  <2>4. {v.loc : v \in {Rv(i) : i \in J}} = {Rv(i).loc : i \in J}
    BY Zenon
  <2>5. {Rv(i).loc : i \in J} = {ins.ops[i].reg : i \in J}
    BY <2>2, Zenon
  <2> QED BY <2>1, <2>3, <2>4, <2>5, Zenon
<1>9. WrittenIn(OperandList(ins), TRUE) = Writes(ins)
  <2>1. WrittenIn(OperandList(ins), TRUE) = {v.loc : v \in {Bw(a) : a \in Writes(ins)}}
    BY <1>5, <1>7
  <2>2. {v.loc : v \in {Bw(a) : a \in Writes(ins)}} = {Bw(a).loc : a \in Writes(ins)}
    BY Zenon
  <2>3. {Bw(a).loc : a \in Writes(ins)} = {a : a \in Writes(ins)}
    BY <1>4, Zenon
  <2> QED BY <2>1, <2>2, <2>3
<1> QED BY <1>8, <1>9

(* The registers and bytes written are those of the operands written.      *)
LEMMA WritesFacts ==
  ASSUME NEW ins
  PROVE  /\ \A r : r \in RegsWritten(ins) <=> WritesReg(ins, r) # {}
         /\ \A a : a \in Writes(ins) <=> WritesByte(ins, a) # {}
         /\ \A x : /\ WritesReg(ins, x) \in SUBSET DOMAIN ins.ops
                   /\ WritesByte(ins, x) \in SUBSET DOMAIN ins.ops
<1>1. \A r : r \in RegsWritten(ins) <=> WritesReg(ins, r) # {}
  BY DEF RegsWritten, WritesReg
<1>2. \A a : a \in Writes(ins) <=> WritesByte(ins, a) # {}
  BY DEF Writes, WritesByte, Accessed
<1> QED BY <1>1, <1>2 DEF WritesReg, WritesByte

-----------------------------------------------------------------------------
(* What flows into an operand, and the tag it gets. *)

(* Untracked data with an origin is lost. *)
LEMMA UnseenFacts ==
  ASSUME NEW bytes \in SUBSET Bytes
  PROVE  /\ Unseen(bytes) \in Origins /\ Clean \in Origins
         /\ Unseen(bytes).seen = "lost" \/ Unseen(bytes).from = {}
         /\ Unseen(bytes).seen # "exact" /\ Unseen(bytes).from = bytes
         /\ Clean.from = {}
BY DEF Unseen, Clean, Origin, Origins

(* What the tracker can see of an instruction's sources is among what it   *)
(* looks up.                                                               *)
LEMMA SourcesFacts ==
  ASSUME TypeOK, NEW t \in Threads, NEW ins \in Insns,
         NEW W \in SUBSET DOMAIN ins.ops
  PROVE  /\ Sources(t, ins, W) \in SUBSET Origins
         /\ Inputs(t, ins) \in SUBSET Origins
         /\ \A o \in Sources(t, ins, W) :
              o \in Inputs(t, ins) \/ o.seen = "lost" \/ o.from = {}
<1> DEFINE J == UNION {ins.ops[i].flow : i \in W}
           K == Readable(ins)
<1>1. J \subseteq K /\ K \subseteq DOMAIN ins.ops
  <2>1. ASSUME NEW i \in W, NEW j \in ins.ops[i].flow
        PROVE  j \in DOMAIN ins.ops /\ ~SameRegister(ins)
    BY InsnAssumption
  <2> QED BY <2>1 DEF Readable
<1>2. \A i \in DOMAIN ins.ops : ins.ops[i].reg \in Regs /\ ins.ops[i].addrs \subseteq Addrs
  BY InsnFacts DEF Operand
<1>3. /\ Inputs(t, ins) = {regs[t][r] : r \in RegsRead(ins, K) \ flagless}
                            \union {mem[a] : a \in BytesRead(ins, K)}
      /\ Sources(t, ins, W) =
           {regs[t][r] : r \in RegsRead(ins, J) \ flagless}
           \union {Unseen(regs[t][r].from) : r \in RegsRead(ins, J) \cap flagless}
           \union {mem[a] : a \in BytesRead(ins, J)}
  BY DEF Inputs, Sources, Readable
<1> HIDE DEF J, K
<1>4. RegsRead(ins, J) \subseteq RegsRead(ins, K) /\ RegsRead(ins, K) \subseteq Regs
  BY <1>1, <1>2 DEF RegsRead
<1>5. BytesRead(ins, J) \subseteq BytesRead(ins, K) /\ BytesRead(ins, K) \subseteq Addrs
  BY <1>1, <1>2 DEF BytesRead
<1>6. \A r \in Regs : regs[t][r] \in Origins /\ regs[t][r].from \in SUBSET Bytes
  BY DEF TypeOK, Origins
<1>7. \A a \in Addrs : mem[a] \in Origins
  BY DEF TypeOK
<1>8. Inputs(t, ins) \in SUBSET Origins
  BY <1>3, <1>4, <1>5, <1>6, <1>7
<1>9. Sources(t, ins, W) \in SUBSET Origins
  BY <1>3, <1>4, <1>5, <1>6, <1>7, UnseenFacts
<1>10. ASSUME NEW o \in Sources(t, ins, W)
       PROVE  o \in Inputs(t, ins) \/ o.seen = "lost" \/ o.from = {}
  <2>1. CASE o \in {Unseen(regs[t][r].from) : r \in RegsRead(ins, J) \cap flagless}
    BY <1>4, <1>6, <2>1, UnseenFacts
  <2>2. CASE \/ o \in {regs[t][r] : r \in RegsRead(ins, J) \ flagless}
             \/ o \in {mem[a] : a \in BytesRead(ins, J)}
    BY <1>3, <1>4, <1>5, <2>2
  <2> QED BY <1>3, <2>1, <2>2
<1> QED BY <1>8, <1>9, <1>10

(* The tag has counted all inputs that are not lost, and tells of all      *)
(* their bytes if they are exact.                                          *)
Counted(tag, inputs) ==
  /\ \A o \in inputs : o.seen # "lost" => Covers(tag, o.from)
  /\ (\A o \in inputs : o.seen = "exact") => Tells(tag, Together(inputs))

(* What covers less also covers more.                                      *)
LEMMA WithinCovers ==
  ASSUME NEW x, NEW tag, NEW from, Within(x, tag), Covers(x, from)
  PROVE  Covers(tag, from)
BY DEF Within, Covers

(* The tag and the origin of an entry agree. *)
LEMMA EntryAgrees ==
  ASSUME TagsTell, NEW t \in Threads, NEW v \in Values
  PROVE  Agrees(getTaint(t, v), OriginOf(t, v))
<1>1. CASE v.mem
  BY <1>1 DEF TagsTell, getTaint, OriginOf, Values
<1>2. CASE ~v.mem
  BY <1>2 DEF TagsTell, getTaint, OriginOf, Values
<1> QED BY <1>1, <1>2

(* The tag that getReadTaint returns has counted the inputs.               *)
LEMMA ReadTaintCounted ==
  ASSUME TypeOK, TagsTell, NEW t \in Threads, NEW ins \in Insns
  PROVE  Counted(getReadTaint(t, OperandList(ins)), Inputs(t, ins))
<1> DEFINE values == OperandList(ins)
           n == Len(values)
           tag == getReadTaint(t, values)
           L == {e \in Entries(values) : Looked(e)}
<1>1. knobs \in Knobs /\ values \in Seq(Values)
  BY OperandListFacts DEF TypeOK
<1>2. {OriginOf(t, v) : v \in L} = Inputs(t, ins)
  BY <1>1, LookedIsRead
<1>3. ReadSoFar(t, values, n, readOperands(t, values)[n])
  BY <1>1, ReadTaintTells
<1>4. /\ \A j \in 1..n : Looked(values[j]) => Within(getTaint(t, values[j]), tag)
      /\ AllExact(t, values, n) => Tells(tag, From(t, values, n))
  BY <1>3 DEF ReadSoFar, getReadTaint
<1>5. DOMAIN values = 1..n /\ \A j \in 1..n : values[j] \in Values
  BY <1>1
<1> HIDE DEF values, n, tag
<1>6. ASSUME NEW o \in Inputs(t, ins), o.seen # "lost"
      PROVE  Covers(tag, o.from)
  <2>1. PICK j \in 1..n : Looked(values[j]) /\ OriginOf(t, values[j]) = o
    BY <1>2, <1>5 DEF Entries
  <2>2. Agrees(getTaint(t, values[j]), o)
    BY <1>5, <2>1, EntryAgrees
  <2>3. Covers(getTaint(t, values[j]), o.from)
    BY <1>6, <2>2 DEF Agrees
  <2> QED BY <1>4, <2>1, <2>3, WithinCovers
<1>7. From(t, values, n) = Together(Inputs(t, ins))
  <2>1. From(t, values, n) = UNION {OriginOf(t, v).from : v \in L}
    BY <1>5 DEF From, Entries
  <2>2. UNION {OriginOf(t, v).from : v \in L} = UNION {o.from : o \in {OriginOf(t, v) : v \in L}}
    OBVIOUS
  <2> QED BY <1>2, <2>1, <2>2 DEF Together
<1>8. (\A o \in Inputs(t, ins) : o.seen = "exact") => AllExact(t, values, n)
  <2>1. \A j \in 1..n : Looked(values[j]) => OriginOf(t, values[j]) \in Inputs(t, ins)
    BY <1>2, <1>5 DEF Entries
  <2> QED BY <2>1 DEF AllExact
<1> QED BY <1>4, <1>6, <1>7, <1>8 DEF Counted, values, tag

(* Without taint in any operand, "not tainted" has counted the inputs.     *)
LEMMA UntaintedCounted ==
  ASSUME TypeOK, TagsTell, NEW t \in Threads, NEW ins \in Insns,
         ~hasTaint(t, OperandList(ins))
  PROVE  Counted(NOTAINT, Inputs(t, ins))
<1> DEFINE values == OperandList(ins)
           L == {e \in Entries(values) : Looked(e)}
<1>1. knobs \in Knobs /\ values \in Seq(Values)
  BY OperandListFacts DEF TypeOK
<1>2. {OriginOf(t, v) : v \in L} = Inputs(t, ins)
  BY <1>1, LookedIsRead
<1>3. ASSUME NEW o \in Inputs(t, ins)
      PROVE  Agrees(NOTAINT, o)
  <2>1. PICK v \in L : OriginOf(t, v) = o
    BY <1>2
  <2>2. v \in Values /\ getTaint(t, v) = NOTAINT
    BY <1>1, <2>1 DEF hasTaint, Entries
  <2> QED BY <2>1, <2>2, EntryAgrees
<1>4. \A o \in Inputs(t, ins) : o.seen # "lost" => Covers(NOTAINT, o.from)
  BY <1>3 DEF Agrees
<1>5. (\A o \in Inputs(t, ins) : o.seen = "exact") => Together(Inputs(t, ins)) = {}
  <2>1. \A o \in Inputs(t, ins) : o.seen = "exact" => o.from = {}
    BY <1>3 DEF Agrees, Tells
  <2> QED BY <2>1 DEF Together
<1>6. Tells(NOTAINT, {})
  BY TaintAssumption DEF Tells, NOTAINT, Bytes
<1> QED BY <1>4, <1>5, <1>6 DEF Counted

(* What is written with a tag that has counted the inputs agrees with it.  *)
LEMMA AfterTracked ==
  ASSUME NEW tag, NEW old, NEW sources, NEW inputs,
         NEW done \in BOOLEAN, NEW partial \in BOOLEAN, Counted(tag, inputs),
         \A o \in sources : o \in inputs \/ o.seen = "lost" \/ o.from = {}
  PROVE  Agrees(tag, After(old, sources, inputs, done, partial, TRUE))
<1> DEFINE new == Together(sources)
           from == IF ~done THEN old.from
                   ELSE new \union (IF partial THEN old.from ELSE {})
           missed == \/ ~TRUE \/ ~done
                     \/ partial /\ ~(old.from \subseteq new)
                     \/ \E o \in sources : o.seen = "lost"
           exact == from = Together(inputs) /\ \A o \in inputs : o.seen = "exact"
           result == After(old, sources, inputs, done, partial, TRUE)
<1>1. result = IF missed /\ from # {} THEN Origin(from, "lost")
               ELSE Origin(from, IF exact THEN "exact" ELSE "over")
  BY DEF After
<1>2. ~missed => Covers(tag, from)
  <2> SUFFICES ASSUME ~missed PROVE Covers(tag, from)
    OBVIOUS
  <2>1. from = new
    OBVIOUS
  <2>2. \A o \in sources : Covers(tag, o.from)
    BY DEF Counted, Covers
  <2> HIDE DEF from, missed
  <2> QED BY <2>1, <2>2 DEF Covers, Together
<1>3. from = {} => Covers(tag, from)
  BY DEF Covers
<1>4. exact => Tells(tag, from)
  BY DEF Counted
<1> HIDE DEF from, missed, exact, result
<1>5. ASSUME missed /\ from # {} PROVE Agrees(tag, result)
  BY <1>1, <1>5 DEF Agrees, Origin
<1>6. ASSUME ~(missed /\ from # {}) PROVE Agrees(tag, result)
  <2>1. /\ result.from = from
        /\ result.seen = IF exact THEN "exact" ELSE "over"
    BY <1>1, <1>6 DEF Origin
  <2> QED BY <1>2, <1>3, <1>4, <1>6, <2>1 DEF Agrees
<1> QED BY <1>5, <1>6 DEF result

(* What is written while the tag stays agrees with it or is lost.          *)
LEMMA AfterUntracked ==
  ASSUME NEW tag, NEW old, NEW sources, NEW inputs,
         NEW done \in BOOLEAN, NEW partial \in BOOLEAN, Agrees(tag, old)
  PROVE  LET new == After(old, sources, inputs, done, partial, FALSE)
         IN  Agrees(tag, new) /\ (new.seen = "lost" \/ new.from = {})
<1> DEFINE from == IF ~done THEN old.from
                   ELSE Together(sources) \union (IF partial THEN old.from ELSE {})
           exact == from = old.from /\ old.seen = "exact"
           result == After(old, sources, inputs, done, partial, FALSE)
<1>1. result = IF from # {} THEN Origin(from, "lost")
               ELSE Origin(from, IF exact THEN "exact" ELSE "over")
  BY DEF After
<1>2. from = {} => Covers(tag, from)
  BY DEF Covers
<1>3. exact => Tells(tag, from)
  BY DEF Agrees
<1> HIDE DEF from, exact, result
<1> DEFINE goal == Agrees(tag, result) /\ (result.seen = "lost" \/ result.from = {})
<1>4. ASSUME from # {} PROVE goal
  BY <1>1, <1>4 DEF Agrees, Origin
<1>5. ASSUME from = {} PROVE goal
  <2>1. /\ result.from = from
        /\ result.seen = IF exact THEN "exact" ELSE "over"
    BY <1>1, <1>5 DEF Origin
  <2> QED BY <1>2, <1>3, <1>5, <2>1 DEF Agrees
<1> QED BY <1>4, <1>5 DEF result

(* What an instruction writes has an origin.                               *)
LEMMA AfterType ==
  ASSUME NEW old \in Origins, NEW sources \in SUBSET Origins, NEW inputs,
         NEW done \in BOOLEAN, NEW partial \in BOOLEAN, NEW tracked \in BOOLEAN
  PROVE  After(old, sources, inputs, done, partial, tracked) \in Origins
<1> DEFINE from == IF ~done THEN old.from
                   ELSE Together(sources) \union (IF partial THEN old.from ELSE {})
<1>1. from \in SUBSET Bytes
  BY DEF Origins, Together
<1>2. /\ from # {} => Origin(from, "lost") \in Origins
      /\ Origin(from, "exact") \in Origins
      /\ Origin(from, "over") \in Origins
  <2> HIDE DEF from
  <2> QED BY <1>1 DEF Origin, Origins
<1> QED BY <1>2, Zenon DEF After

-----------------------------------------------------------------------------
(* What an instruction leaves in the machine. *)

(* The origin of what the operands W leave where "old" was. *)
Written(t, ins, old, W, done, tracked) ==
  After(old, Sources(t, ins, W), Inputs(t, ins), done,
        \E i \in W : ins.ops[i].partial, tracked)

(* It is an origin; it agrees with a tag that has counted the inputs, and, *)
(* where no tag changes, with the one that was there.                      *)
LEMMA WrittenOrigin ==
  ASSUME TypeOK, NEW t \in Threads, NEW ins \in Insns, NEW old \in Origins,
         NEW W \in SUBSET DOMAIN ins.ops, NEW done \in BOOLEAN
  PROVE  /\ \A tracked \in BOOLEAN : Written(t, ins, old, W, done, tracked) \in Origins
         /\ \A tag : Counted(tag, Inputs(t, ins)) =>
              Agrees(tag, Written(t, ins, old, W, done, TRUE))
         /\ \A tag : Agrees(tag, old) =>
              LET new == Written(t, ins, old, W, done, FALSE)
              IN  Agrees(tag, new) /\ (new.seen = "lost" \/ new.from = {})
<1> DEFINE S == Sources(t, ins, W)
           I == Inputs(t, ins)
           partial == \E i \in W : ins.ops[i].partial
<1>1. /\ S \in SUBSET Origins
      /\ \A o \in S : o \in I \/ o.seen = "lost" \/ o.from = {}
  BY SourcesFacts
<1>2. partial \in BOOLEAN
  OBVIOUS
<1>3. \A tracked : Written(t, ins, old, W, done, tracked) =
                     After(old, S, I, done, partial, tracked)
  BY DEF Written
<1> HIDE DEF S, I, partial
<1>4. \A tracked \in BOOLEAN : After(old, S, I, done, partial, tracked) \in Origins
  BY <1>1, <1>2, AfterType
<1>5. ASSUME NEW tag, Counted(tag, I)
      PROVE  Agrees(tag, After(old, S, I, done, partial, TRUE))
  BY <1>1, <1>2, <1>5, AfterTracked
<1>6. ASSUME NEW tag, Agrees(tag, old)
      PROVE  LET new == After(old, S, I, done, partial, FALSE)
             IN  Agrees(tag, new) /\ (new.seen = "lost" \/ new.from = {})
  BY <1>2, <1>6, AfterUntracked
<1> QED BY <1>3, <1>4, <1>5, <1>6, Zenon DEF I

(* What Execute does to each register and byte.                            *)
Leaves(t, ins, done, tracked) ==
  /\ \A u \in Threads : \A r \in Regs :
       regs'[u][r] =
         IF u = t /\ r \in RegsWritten(ins)
         THEN Written(t, ins, regs[t][r], WritesReg(ins, r), done, tracked)
         ELSE regs[u][r]
  /\ \A a \in Addrs :
       mem'[a] =
         IF a \in Writes(ins)
         THEN Written(t, ins, mem[a], WritesByte(ins, a), done, tracked)
         ELSE IF tracked /\ a \in Aliases(Writes(ins))
         THEN Unseen(mem[a].from) ELSE mem[a]

(* It leaves origins there.                                                *)
LEMMA ExecuteFacts ==
  ASSUME TypeOK, NEW t \in Threads, NEW ins \in Insns, NEW done \in BOOLEAN
  PROVE  \A tracked \in BOOLEAN : Execute(t, ins, done, tracked) =>
           /\ Leaves(t, ins, done, tracked)
           /\ regs' \in [Threads -> [Regs -> Origins]]
           /\ mem' \in [Addrs -> Origins]
<1> SUFFICES ASSUME NEW tracked \in BOOLEAN, Execute(t, ins, done, tracked)
             PROVE  /\ Leaves(t, ins, done, tracked)
                    /\ regs' \in [Threads -> [Regs -> Origins]]
                    /\ mem' \in [Addrs -> Origins]
  OBVIOUS
<1> DEFINE newReg(r) == Written(t, ins, regs[t][r], WritesReg(ins, r), done, tracked)
           newByte(a) == Written(t, ins, mem[a], WritesByte(ins, a), done, tracked)
<1>1. /\ \A r \in Regs : newReg(r) \in Origins
      /\ \A a \in Addrs : newByte(a) \in Origins
  <2>1. \A r \in Regs : regs[t][r] \in Origins
    BY DEF TypeOK
  <2>2. \A a \in Addrs : mem[a] \in Origins
    BY DEF TypeOK
  <2> QED BY <2>1, <2>2, WritesFacts, WrittenOrigin
<1>2. regs' = [regs EXCEPT ![t] = [r \in Regs |->
                IF WritesReg(ins, r) # {} THEN newReg(r) ELSE regs[t][r]]]
  BY DEF Execute, Written, TypeOK
<1>3. mem' = [a \in Addrs |->
                IF WritesByte(ins, a) # {} THEN newByte(a)
                ELSE IF tracked /\ a \in Aliases(Writes(ins))
                THEN Unseen(mem[a].from) ELSE mem[a]]
  BY DEF Execute, Written
<1>4. /\ regs \in [Threads -> [Regs -> Origins]] /\ mem \in [Addrs -> Origins]
      /\ \A a \in Addrs : Unseen(mem[a].from) \in Origins
  <2>1. mem \in [Addrs -> Origins]
    BY DEF TypeOK
  <2>2. \A a \in Addrs : mem[a].from \in SUBSET Bytes
    BY <2>1 DEF Origins
  <2> QED BY <2>1, <2>2, UnseenFacts DEF TypeOK
<1> HIDE DEF newReg, newByte
<1>5. \A u \in Threads : \A r \in Regs :
        regs'[u][r] = IF u = t /\ r \in RegsWritten(ins) THEN newReg(r)
                      ELSE regs[u][r]
  BY <1>2, <1>4, WritesFacts
<1>6. \A a \in Addrs :
        mem'[a] = IF a \in Writes(ins) THEN newByte(a)
                  ELSE IF tracked /\ a \in Aliases(Writes(ins))
                  THEN Unseen(mem[a].from) ELSE mem[a]
  BY <1>3, WritesFacts
<1>7. regs' \in [Threads -> [Regs -> Origins]]
  BY <1>1, <1>2, <1>4
<1>8. mem' \in [Addrs -> Origins]
  BY <1>1, <1>3, <1>4
<1>9. Leaves(t, ins, done, tracked)
  BY <1>5, <1>6 DEF Leaves, newReg, newByte
<1> QED BY <1>7, <1>8, <1>9

-----------------------------------------------------------------------------
(* Type correctness. *)

(* The instructions of the program are instructions, and whether it is the *)
(* 64-bit tool, or the one for Windows, is known.                          *)
LEMMA KnobFacts ==
  ASSUME TypeOK
  PROVE  /\ knobs \in Knobs /\ knobs.program \subseteq Insns
         /\ knobs.arch64 \in BOOLEAN /\ knobs.windows \in BOOLEAN
         /\ ~(knobs.arch64 /\ knobs.windows)
BY TaintAssumption DEF TypeOK, KnobType

(* The types hold in the beginning.                                        *)
LEMMA TypeInit == Init => TypeOK
<1> SUFFICES ASSUME Init PROVE TypeOK
  OBVIOUS
<1>1. Clean \in Origins
  BY DEF Clean, Origin, Origins
<1>2. 0 \in -1..(taintnum - 1) /\ taintnum \in 1..(MaxBytes + 1)
  BY TaintAssumption DEF Init
<1> QED BY <1>1, <1>2 DEF Init, TypeOK, NOTAINT

(* taintPropagation writes tags that were read.                            *)
LEMMA PropagationTypes ==
  ASSUME TypeOK, NEW t \in Threads, NEW ins \in Insns,
         taintPropagation(t, OperandList(ins))
  PROVE  /\ delta' \in [Threads -> [Regs -> -1..(taintnum - 1)]]
         /\ memory' \in [Keys -> -1..(taintnum - 1)]
<1> DEFINE tag == getReadTaint(t, OperandList(ins))
<1>1. tag \in -1..(taintnum - 1)
  BY OperandListFacts, ReadTaintType DEF TypeOK
<1> HIDE DEF tag
<1>2. delta' \in [Threads -> [Regs -> -1..(taintnum - 1)]]
  BY <1>1 DEF TypeOK, taintPropagation, tag
<1>3. memory' \in [Keys -> -1..(taintnum - 1)]
  BY <1>1 DEF TypeOK, taintPropagation, tag
<1> QED BY <1>2, <1>3

(* An instruction, logged or not, keeps the types.                         *)
LEMMA TypeAppend ==
  ASSUME TypeOK, NEW t \in Threads, AppendBuffer(t)
  PROVE  TypeOK'
<1>1. PICK ins \in knobs.program, done \in BOOLEAN, inRange \in BOOLEAN :
        /\ AppendLogged(t, ins, inRange) \/ AppendSkipped(t, ins, inRange)
        /\ Execute(t, ins, done, inRange /\ ins.op # "branch")
  BY Zenon DEF AppendBuffer
<1>2. UNCHANGED <<knobs, taintnum>> /\ ins \in Insns
  BY KnobFacts DEF AppendBuffer
<1>3. /\ regs' \in [Threads -> [Regs -> Origins]]
      /\ mem' \in [Addrs -> Origins]
  <2> DEFINE tracked == inRange /\ ins.op # "branch"
  <2>1. tracked \in BOOLEAN /\ Execute(t, ins, done, tracked)
    BY <1>1
  <2> HIDE DEF tracked
  <2> QED BY <1>2, <2>1, ExecuteFacts
<1>4. /\ delta' \in [Threads -> [Regs -> -1..(taintnum - 1)]]
      /\ memory' \in [Keys -> -1..(taintnum - 1)]
      /\ firstTaint' \in BOOLEAN /\ status' \in {"running", "smash"}
  <2>1. CASE AppendLogged(t, ins, inRange)
    <3>1. /\ delta' \in [Threads -> [Regs -> -1..(taintnum - 1)]]
          /\ memory' \in [Keys -> -1..(taintnum - 1)]
      BY <1>2, <2>1, PropagationTypes DEF AppendLogged, TypeOK
    <3>2. firstTaint' \in BOOLEAN /\ status' \in {"running", "smash"}
      BY <2>1 DEF AppendLogged, TypeOK
    <3> QED BY <3>1, <3>2
  <2>2. CASE AppendSkipped(t, ins, inRange)
    BY <2>2 DEF AppendSkipped, TypeOK
  <2> QED BY <1>1, <2>1, <2>2
<1> QED BY <1>2, <1>3, <1>4 DEF TypeOK

(* So does one that is not instrumented.                                   *)
LEMMA TypeLeftOut ==
  ASSUME TypeOK, NEW t \in Threads, LeftOut(t)
  PROVE  TypeOK'
<1>1. PICK ins \in Insns : Execute(t, ins, TRUE, FALSE)
  BY KnobFacts DEF LeftOut
<1>2. /\ regs' \in [Threads -> [Regs -> Origins]]
      /\ mem' \in [Addrs -> Origins]
  <2>1. PICK done \in BOOLEAN, tracked \in BOOLEAN : Execute(t, ins, done, tracked)
    BY <1>1
  <2> QED BY <2>1, ExecuteFacts
<1> QED BY <1>2 DEF LeftOut, TypeOK

(* A new byte is introduced with the next tag.                             *)
LEMMA TypeIntro ==
  ASSUME TypeOK, NEW a \in Addrs, IntroMemTaint(a)
  PROVE  TypeOK'
<1>1. taintnum \in Nat \ {0} /\ taintnum' = taintnum + 1 /\ taintnum <= MaxBytes
  BY TaintAssumption DEF IntroMemTaint, TypeOK
<1>2. /\ delta' \in [Threads -> [Regs -> -1..(taintnum' - 1)]]
      /\ memory' \in [Keys -> -1..(taintnum' - 1)]
  <2>1. -1..(taintnum - 1) \subseteq -1..(taintnum' - 1) /\ taintnum \in -1..(taintnum' - 1)
    BY <1>1
  <2> QED BY <2>1 DEF IntroMemTaint, TypeOK
<1>3. mem' \in [Addrs -> Origins]
  <2>1. Origin({taintnum}, "exact") \in Origins
    BY <1>1 DEF Origin, Origins, Bytes
  <2>2. mem \in [Addrs -> Origins] /\ \A b \in Addrs : Unseen(mem[b].from) \in Origins
    <3>1. mem \in [Addrs -> Origins]
      BY DEF TypeOK
    <3>2. \A b \in Addrs : mem[b].from \in SUBSET Bytes
      BY <3>1 DEF Origins
    <3> QED BY <3>1, <3>2, UnseenFacts
  <2>3. mem' = [b \in Addrs |->
                 IF b = a THEN Origin({taintnum}, "exact")
                 ELSE IF b \in Aliases({a}) THEN Unseen(mem[b].from) ELSE mem[b]]
    BY DEF IntroMemTaint
  <2> QED BY <2>1, <2>2, <2>3
<1>4. taintnum' \in 1..(MaxBytes + 1)
  BY <1>1, TaintAssumption
<1> QED BY <1>2, <1>3, <1>4 DEF IntroMemTaint, TypeOK

(* Overwritten data has an origin that any tag agrees with.                *)
LEMMA OverwrittenFacts ==
  ASSUME NEW old
  PROVE  /\ Overwritten(old) \in Origins
         /\ Overwritten(old).from = {}
         /\ \A tag : Agrees(tag, old) => Agrees(tag, Overwritten(old))
         /\ Agrees(NOTAINT, Clean)
<1>1. Unseen({}) \in Origins /\ Clean \in Origins
  BY UnseenFacts
<1>2. Unseen({}).seen = "over" /\ Unseen({}).from = {} /\ Clean.from = {}
  BY DEF Unseen, Clean, Origin
<1>3. \A tag : Agrees(tag, Unseen({}))
  BY <1>2 DEF Agrees, Covers
<1>4. Agrees(NOTAINT, Clean)
  BY TaintAssumption DEF Agrees, Covers, Tells, Clean, Origin, NOTAINT, Bytes
<1> QED BY <1>1, <1>2, <1>3, <1>4, Zenon DEF Overwritten

(* The kernel's write to memory keeps the types.                           *)
LEMMA TypeKernelWrites ==
  ASSUME TypeOK, NEW a \in Addrs, KernelWrites(a)
  PROVE  TypeOK'
<1>1. mem' \in [Addrs -> Origins]
  BY OverwrittenFacts DEF KernelWrites, TypeOK
<1> QED BY <1>1 DEF KernelWrites, TypeOK

(* What the return of a system call leaves in each register.               *)
LEMMA PostSysCallFacts ==
  ASSUME TypeOK, NEW t \in Threads, PostSysCall(t)
  PROVE  \E output, edx \in Origins :
           /\ output = IF knobs.arch64 \/ knobs.windows
                       THEN Overwritten(regs[t][OUTPUT]) ELSE Clean
           /\ IF knobs.windows
              THEN \/ edx = Clean
                   \/ /\ edx = Unseen(regs[t][WINOUTPUT].from)
                      /\ regs[t][WINOUTPUT].from # {}
              ELSE edx = regs[t][WINOUTPUT]
           /\ regs' = [regs EXCEPT ![t][OUTPUT] = output, ![t][WINOUTPUT] = edx]
<1> DEFINE output == IF knobs.arch64 \/ knobs.windows
                     THEN Overwritten(regs[t][OUTPUT]) ELSE Clean
<1>1. PICK kept \in BOOLEAN :
        regs' = [regs EXCEPT ![t][OUTPUT] = output,
                  ![t][WINOUTPUT] =
                     IF ~knobs.windows THEN regs[t][WINOUTPUT]
                     ELSE IF kept /\ regs[t][WINOUTPUT].from # {}
                     THEN Unseen(regs[t][WINOUTPUT].from) ELSE Clean]
  BY DEF PostSysCall
<1> DEFINE edx == IF ~knobs.windows THEN regs[t][WINOUTPUT]
                  ELSE IF kept /\ regs[t][WINOUTPUT].from # {}
                  THEN Unseen(regs[t][WINOUTPUT].from) ELSE Clean
<1>2. output \in Origins
  BY OverwrittenFacts, UnseenFacts
<1>3. edx \in Origins
  <2>1. regs[t][WINOUTPUT] \in Origins
    BY TaintAssumption DEF TypeOK
  <2>2. regs[t][WINOUTPUT].from \in SUBSET Bytes
    BY <2>1 DEF Origins
  <2> QED BY <2>1, <2>2, UnseenFacts
<1>4. regs' = [regs EXCEPT ![t][OUTPUT] = output, ![t][WINOUTPUT] = edx]
  BY <1>1
<1>5. IF knobs.windows
      THEN \/ edx = Clean
           \/ /\ edx = Unseen(regs[t][WINOUTPUT].from)
              /\ regs[t][WINOUTPUT].from # {}
      ELSE edx = regs[t][WINOUTPUT]
  OBVIOUS
<1>6. output = IF knobs.arch64 \/ knobs.windows
               THEN Overwritten(regs[t][OUTPUT]) ELSE Clean
  OBVIOUS
<1> HIDE DEF output, edx
<1> QED BY <1>2, <1>3, <1>4, <1>5, <1>6

(* The return of a system call keeps the types.                            *)
LEMMA TypePostSysCall ==
  ASSUME TypeOK, NEW t \in Threads, PostSysCall(t)
  PROVE  TypeOK'
<1>1. NOTAINT \in -1..(taintnum - 1)
  BY DEF TypeOK, NOTAINT
<1>2. regs' \in [Threads -> [Regs -> Origins]]
  <2>1. PICK output, edx \in Origins :
          regs' = [regs EXCEPT ![t][OUTPUT] = output, ![t][WINOUTPUT] = edx]
    BY PostSysCallFacts
  <2> QED BY <2>1 DEF TypeOK
<1>3. delta' \in [Threads -> [Regs -> -1..(taintnum - 1)]]
  BY <1>1 DEF PostSysCall, TypeOK
<1> QED BY <1>2, <1>3 DEF PostSysCall, TypeOK

(* Every step keeps the types.                                             *)
LEMMA TypeStep == TypeOK /\ [Next]_vars => TypeOK'
<1>1. TypeOK /\ UNCHANGED vars => TypeOK'
  BY DEF TypeOK, vars
<1> QED BY <1>1, TypeAppend, TypeLeftOut, TypeIntro, TypeKernelWrites,
           TypePostSysCall DEF Next, Terminated

(* The tracker's variables keep their types whatever instructions run:     *)
(* tags are those of bytes introduced so far, mixed or none.               *)
THEOREM TypeCorrect == Spec => []TypeOK
BY TypeInit, TypeStep, PTL DEF Spec

-----------------------------------------------------------------------------
(* The tags tell the truth. *)

(* An instruction that is logged and propagated. *)
LEMMA TellsPropagated ==
  ASSUME TypeOK, TagsTell, NEW t \in Threads, NEW ins \in Insns,
         NEW done \in BOOLEAN, taintPropagation(t, OperandList(ins)),
         Execute(t, ins, done, TRUE)
  PROVE  TagsTell'
<1> DEFINE tag == getReadTaint(t, OperandList(ins))
<1>1. Counted(tag, Inputs(t, ins))
  BY ReadTaintCounted
<1>2. /\ WrittenIn(OperandList(ins), FALSE) = RegsWritten(ins)
      /\ WrittenIn(OperandList(ins), TRUE) = Writes(ins)
  BY WrittenFacts DEF TypeOK
<1>3. /\ \A u \in Threads : \A r \in Regs :
           delta'[u][r] = IF u = t /\ r \in RegsWritten(ins) THEN tag ELSE delta[u][r]
      /\ \A k \in Keys :
           memory'[k] = IF k \in {Key(a) : a \in Writes(ins)} THEN tag ELSE memory[k]
  BY <1>2 DEF taintPropagation, TypeOK
<1>4. /\ \A u \in Threads : \A r \in Regs :
           regs'[u][r] =
             IF u = t /\ r \in RegsWritten(ins)
             THEN Written(t, ins, regs[t][r], WritesReg(ins, r), done, TRUE)
             ELSE regs[u][r]
      /\ \A a \in Addrs :
           mem'[a] =
             IF a \in Writes(ins)
             THEN Written(t, ins, mem[a], WritesByte(ins, a), done, TRUE)
             ELSE IF a \in Aliases(Writes(ins))
             THEN Unseen(mem[a].from) ELSE mem[a]
  <2>1. Leaves(t, ins, done, TRUE)
    BY ExecuteFacts, Zenon
  <2> QED BY <2>1 DEF Leaves
<1>5. /\ \A r \in Regs : Agrees(tag, Written(t, ins, regs[t][r], WritesReg(ins, r), done, TRUE))
      /\ \A a \in Addrs : Agrees(tag, Written(t, ins, mem[a], WritesByte(ins, a), done, TRUE))
  <2>1. \A r \in Regs : regs[t][r] \in Origins /\ WritesReg(ins, r) \in SUBSET DOMAIN ins.ops
    BY WritesFacts DEF TypeOK
  <2>2. \A a \in Addrs : mem[a] \in Origins /\ WritesByte(ins, a) \in SUBSET DOMAIN ins.ops
    BY WritesFacts DEF TypeOK
  <2> HIDE DEF tag
  <2> QED BY <1>1, <2>1, <2>2, WrittenOrigin
<1> HIDE DEF tag
<1>6. ASSUME NEW u \in Threads, NEW r \in Regs
      PROVE  Agrees(delta'[u][r], regs'[u][r])
  BY <1>3, <1>4, <1>5 DEF TagsTell
<1>7. ASSUME NEW a \in Addrs PROVE Agrees(memory'[Key(a)], mem'[a])
  <2>0. Key(a) \in Keys
    BY DEF Keys
  <2>1. CASE a \in Writes(ins)
    BY <1>3, <1>4, <1>5, <2>0, <2>1
  <2>2. CASE a \notin Writes(ins) /\ a \in Aliases(Writes(ins))
    <3>1. mem'[a] = Unseen(mem[a].from)
      BY <1>4, <2>2
    <3>2. \A x : Agrees(x, Unseen(mem[a].from))
      BY DEF Agrees, Covers, Unseen, Origin
    <3> QED BY <3>1, <3>2
  <2>3. CASE a \notin Writes(ins) /\ a \notin Aliases(Writes(ins))
    <3>1. Key(a) \notin {Key(b) : b \in Writes(ins)}
      BY <2>3 DEF Aliases
    <3>2. memory'[Key(a)] = memory[Key(a)] /\ mem'[a] = mem[a]
      BY <1>3, <1>4, <2>0, <2>3, <3>1
    <3> QED BY <3>2 DEF TagsTell
  <2> QED BY <2>1, <2>2, <2>3
<1> QED BY <1>6, <1>7 DEF TagsTell, Key

(* One that moves no tags: a branch, one outside [taint-start, taint-end], *)
(* or one that is not instrumented.  What it writes agrees with the tag    *)
(* that was there, or is lost.                                             *)
LEMMA TellsUntracked ==
  ASSUME TypeOK, TagsTell, NEW t \in Threads, NEW ins \in Insns,
         NEW done \in BOOLEAN, UNCHANGED <<delta, memory>>,
         Execute(t, ins, done, FALSE)
  PROVE  TagsTell'
<1>1. /\ \A u \in Threads : \A r \in Regs :
           regs'[u][r] =
             IF u = t /\ r \in RegsWritten(ins)
             THEN Written(t, ins, regs[t][r], WritesReg(ins, r), done, FALSE)
             ELSE regs[u][r]
      /\ \A a \in Addrs :
           mem'[a] =
             IF a \in Writes(ins)
             THEN Written(t, ins, mem[a], WritesByte(ins, a), done, FALSE)
             ELSE mem[a]
  <2>1. Leaves(t, ins, done, FALSE)
    BY ExecuteFacts, Zenon
  <2> QED BY <2>1 DEF Leaves
<1>2. /\ \A r \in Regs : regs[t][r] \in Origins /\ WritesReg(ins, r) \in SUBSET DOMAIN ins.ops
      /\ \A a \in Addrs : mem[a] \in Origins /\ WritesByte(ins, a) \in SUBSET DOMAIN ins.ops
  BY WritesFacts DEF TypeOK
<1>3. ASSUME NEW u \in Threads, NEW r \in Regs
      PROVE  Agrees(delta'[u][r], regs'[u][r])
  <2>1. Agrees(delta[u][r], regs[u][r]) /\ delta'[u][r] = delta[u][r]
    BY DEF TagsTell
  <2>2. u = t => Agrees(delta[u][r], Written(t, ins, regs[t][r], WritesReg(ins, r), done, FALSE))
    BY <1>2, <2>1, WrittenOrigin
  <2> QED BY <1>1, <2>1, <2>2
<1>4. ASSUME NEW a \in Addrs PROVE Agrees(memory'[Key(a)], mem'[a])
  <2>1. Agrees(memory[Key(a)], mem[a]) /\ memory'[Key(a)] = memory[Key(a)]
    BY DEF TagsTell
  <2>2. Agrees(memory[Key(a)], Written(t, ins, mem[a], WritesByte(ins, a), done, FALSE))
    BY <1>2, <2>1, WrittenOrigin
  <2> QED BY <1>1, <2>1, <2>2
<1> QED BY <1>3, <1>4 DEF TagsTell, Key

(* One that is not logged because no operand of it is tainted: what it     *)
(* reads is clean, and so is what it overwrites, or lost.                  *)
LEMMA TellsUntainted ==
  ASSUME TypeOK, TagsTell, NEW t \in Threads, NEW ins \in Insns,
         NEW done \in BOOLEAN, UNCHANGED <<delta, memory>>,
         ~hasTaint(t, OperandList(ins)), Execute(t, ins, done, TRUE)
  PROVE  TagsTell'
<1> DEFINE E == Entries(OperandList(ins))
<1>1. knobs \in Knobs
  BY DEF TypeOK
<1>2. Counted(NOTAINT, Inputs(t, ins))
  BY UntaintedCounted
<1>3. \A v \in E : getTaint(t, v) = NOTAINT
  BY DEF hasTaint, Entries
<1>4. \A r \in RegsWritten(ins) : delta[t][r] = NOTAINT
  <2> DEFINE W == WrittenIn(OperandList(ins), FALSE)
  <2>1. \A r \in W : \E v \in E : v.mem = FALSE /\ v.loc = r
    BY DEF WrittenIn, Entries
  <2>2. RegsWritten(ins) = W
    BY <1>1, WrittenFacts
  <2>3. \A v \in E : v.mem = FALSE => delta[t][v.loc] = NOTAINT
    BY <1>3 DEF getTaint
  <2> HIDE DEF E, W
  <2> QED BY <2>1, <2>2, <2>3
<1>5. \A a \in Writes(ins) : memory[Key(a)] = NOTAINT
  <2> DEFINE W == WrittenIn(OperandList(ins), TRUE)
  <2>1. \A a \in W : \E v \in E : v.mem = TRUE /\ v.loc = a
    BY DEF WrittenIn, Entries
  <2>2. Writes(ins) = W
    BY <1>1, WrittenFacts
  <2>3. \A v \in E : v.mem = TRUE => memory[Key(v.loc)] = NOTAINT
    BY <1>3 DEF getTaint
  <2> HIDE DEF E, W
  <2> QED BY <2>1, <2>2, <2>3
<1> HIDE DEF E
<1>6. /\ \A u \in Threads : \A r \in Regs :
           regs'[u][r] =
             IF u = t /\ r \in RegsWritten(ins)
             THEN Written(t, ins, regs[t][r], WritesReg(ins, r), done, TRUE)
             ELSE regs[u][r]
      /\ \A a \in Addrs :
           mem'[a] =
             IF a \in Writes(ins)
             THEN Written(t, ins, mem[a], WritesByte(ins, a), done, TRUE)
             ELSE IF a \in Aliases(Writes(ins))
             THEN Unseen(mem[a].from) ELSE mem[a]
  <2>1. Leaves(t, ins, done, TRUE)
    BY ExecuteFacts, Zenon
  <2> QED BY <2>1 DEF Leaves
<1>7. /\ \A r \in Regs : Agrees(NOTAINT, Written(t, ins, regs[t][r], WritesReg(ins, r), done, TRUE))
      /\ \A a \in Addrs : Agrees(NOTAINT, Written(t, ins, mem[a], WritesByte(ins, a), done, TRUE))
  <2>1. \A r \in Regs : regs[t][r] \in Origins /\ WritesReg(ins, r) \in SUBSET DOMAIN ins.ops
    BY WritesFacts DEF TypeOK
  <2>2. \A a \in Addrs : mem[a] \in Origins /\ WritesByte(ins, a) \in SUBSET DOMAIN ins.ops
    BY WritesFacts DEF TypeOK
  <2> QED BY <1>2, <2>1, <2>2, WrittenOrigin
<1>8. ASSUME NEW u \in Threads, NEW r \in Regs
      PROVE  Agrees(delta'[u][r], regs'[u][r])
  <2>1. delta'[u][r] = delta[u][r] /\ Agrees(delta[u][r], regs[u][r])
    BY DEF TagsTell
  <2>2. CASE u = t /\ r \in RegsWritten(ins)
    <3>1. delta'[u][r] = NOTAINT
      BY <1>4, <2>1, <2>2
    <3>2. regs'[u][r] = Written(t, ins, regs[t][r], WritesReg(ins, r), done, TRUE)
      BY <1>6, <2>2
    <3> QED BY <1>7, <3>1, <3>2
  <2>3. CASE ~(u = t /\ r \in RegsWritten(ins))
    <3>1. regs'[u][r] = regs[u][r]
      BY <1>6, <2>3
    <3> QED BY <2>1, <3>1
  <2> QED BY <2>2, <2>3
<1>9. ASSUME NEW a \in Addrs PROVE Agrees(memory'[Key(a)], mem'[a])
  <2>1. \A x : Agrees(x, Unseen(mem[a].from))
    BY DEF Agrees, Covers, Unseen, Origin
  <2> QED BY <1>5, <1>6, <1>7, <2>1 DEF TagsTell
<1> QED BY <1>8, <1>9 DEF TagsTell, Key

(* An instruction that InstrBlock has instrumented: propagated, of no      *)
(* concern, or without effect on the tags.                                 *)
LEMMA TellsAppend ==
  ASSUME TypeOK, TagsTell, NEW t \in Threads, AppendBuffer(t)
  PROVE  TagsTell'
<1>1. PICK ins \in knobs.program, done \in BOOLEAN, inRange \in BOOLEAN :
        /\ AppendLogged(t, ins, inRange) \/ AppendSkipped(t, ins, inRange)
        /\ Execute(t, ins, done, inRange /\ ins.op # "branch")
  BY Zenon DEF AppendBuffer
<1>0. ins \in Insns
  BY KnobFacts
<1>2. CASE ins.op = "branch" \/ ~inRange
  <2>1. UNCHANGED <<delta, memory>>
    BY <1>1, <1>2 DEF AppendLogged, AppendSkipped
  <2>2. Execute(t, ins, done, FALSE)
    <3>1. (inRange /\ ins.op # "branch") = FALSE
      BY <1>2
    <3> QED BY <1>1, <3>1
  <2> QED BY <1>0, <2>1, <2>2, TellsUntracked
<1>3. CASE ins.op # "branch" /\ inRange
  <2>1. Execute(t, ins, done, TRUE)
    <3>1. (inRange /\ ins.op # "branch") = TRUE
      BY <1>3
    <3> QED BY <1>1, <3>1
  <2>2. CASE AppendLogged(t, ins, inRange)
    <3>1. taintPropagation(t, OperandList(ins))
      BY <1>3, <2>2 DEF AppendLogged
    <3> QED BY <1>0, <2>1, <3>1, TellsPropagated
  <2>3. CASE AppendSkipped(t, ins, inRange)
    <3>1. UNCHANGED <<delta, memory>> /\ ~hasTaint(t, OperandList(ins))
      BY <1>3, <2>3 DEF AppendSkipped, Wanted
    <3> QED BY <1>0, <2>1, <3>1, TellsUntainted
  <2> QED BY <1>1, <2>2, <2>3
<1> QED BY <1>2, <1>3

(* One that it has left out.                                               *)
LEMMA TellsLeftOut ==
  ASSUME TypeOK, TagsTell, NEW t \in Threads, LeftOut(t)
  PROVE  TagsTell'
<1>1. PICK ins \in Insns : Execute(t, ins, TRUE, FALSE)
  BY KnobFacts DEF LeftOut
<1>2. PICK done \in BOOLEAN : Execute(t, ins, done, FALSE)
  BY <1>1
<1>3. UNCHANGED <<delta, memory>>
  BY DEF LeftOut
<1> QED BY <1>2, <1>3, TellsUntracked

(* A byte is introduced over what was at its address, or under its key.    *)
LEMMA TellsIntro ==
  ASSUME TypeOK, TagsTell, NEW a \in Addrs, IntroMemTaint(a)
  PROVE  TagsTell'
<1>1. /\ memory' = [memory EXCEPT ![Key(a)] = taintnum]
      /\ mem' = [b \in Addrs |-> IF b = a THEN Origin({taintnum}, "exact")
                                 ELSE IF b \in Aliases({a}) THEN Unseen(mem[b].from)
                                 ELSE mem[b]]
      /\ UNCHANGED <<delta, regs>>
  BY DEF IntroMemTaint
<1>2. ASSUME NEW b \in Addrs PROVE Agrees(memory'[Key(b)], mem'[b])
  <2>0. Key(a) \in Keys /\ Key(b) \in Keys
    BY DEF Keys
  <2>1. CASE b = a
    <3>1. memory'[Key(b)] = taintnum /\ mem'[b] = Origin({taintnum}, "exact")
      BY <1>1, <2>0, <2>1 DEF TypeOK
    <3>2. taintnum # NOTAINT
      BY DEF TypeOK, NOTAINT
    <3>3. Tells(taintnum, {taintnum}) /\ Covers(taintnum, {taintnum})
      BY <3>2 DEF Tells, Covers
    <3> QED BY <3>1, <3>3 DEF Agrees, Origin
  <2>2. CASE b # a /\ Key(b) = Key(a)
    <3>1. mem'[b] = Unseen(mem[b].from)
      BY <1>1, <2>2 DEF Aliases
    <3>2. \A x : Agrees(x, Unseen(mem[b].from))
      BY DEF Agrees, Covers, Unseen, Origin
    <3> QED BY <3>1, <3>2
  <2>3. CASE b # a /\ Key(b) # Key(a)
    <3>1. memory'[Key(b)] = memory[Key(b)]
      BY <1>1, <2>0, <2>3 DEF TypeOK
    <3>2. mem'[b] = mem[b]
      BY <1>1, <2>3 DEF Aliases
    <3> QED BY <3>1, <3>2 DEF TagsTell
  <2> QED BY <2>1, <2>2, <2>3
<1>3. ASSUME NEW t \in Threads, NEW r \in Regs PROVE Agrees(delta'[t][r], regs'[t][r])
  BY <1>1 DEF TagsTell
<1> QED BY <1>2, <1>3 DEF TagsTell, Key

(* The kernel overwrites what may be tainted: its tag is one too many.     *)
LEMMA TellsKernelWrites ==
  ASSUME TypeOK, TagsTell, NEW a \in Addrs, KernelWrites(a)
  PROVE  TagsTell'
<1>1. mem' = [mem EXCEPT ![a] = Overwritten(@)] /\ UNCHANGED <<delta, memory, regs>>
  BY DEF KernelWrites
<1>2. ASSUME NEW b \in Addrs PROVE Agrees(memory'[Key(b)], mem'[b])
  <2>1. Agrees(memory[Key(b)], mem[b])
    BY DEF TagsTell
  <2>2. mem'[b] = IF b = a THEN Overwritten(mem[b]) ELSE mem[b]
    BY <1>1 DEF TypeOK
  <2> QED BY <1>1, <2>1, <2>2, OverwrittenFacts
<1>3. ASSUME NEW t \in Threads, NEW r \in Regs PROVE Agrees(delta'[t][r], regs'[t][r])
  BY <1>1 DEF TagsTell
<1> QED BY <1>2, <1>3 DEF TagsTell, Key

(* A system call returns.                                                  *)
LEMMA TellsPostSysCall ==
  ASSUME TypeOK, TagsTell, NEW t \in Threads, PostSysCall(t)
  PROVE  TagsTell'
<1>0. OUTPUT \in Regs /\ WINOUTPUT \in Regs /\ OUTPUT # WINOUTPUT
  BY TaintAssumption DEF OUTPUT, WINOUTPUT
<1>1. PICK output, edx \in Origins :
        /\ output = IF knobs.arch64 \/ knobs.windows
                    THEN Overwritten(regs[t][OUTPUT]) ELSE Clean
        /\ IF knobs.windows
           THEN \/ edx = Clean
                \/ /\ edx = Unseen(regs[t][WINOUTPUT].from)
                   /\ regs[t][WINOUTPUT].from # {}
           ELSE edx = regs[t][WINOUTPUT]
        /\ regs' = [regs EXCEPT ![t][OUTPUT] = output, ![t][WINOUTPUT] = edx]
  BY PostSysCallFacts
<1>2. delta' = IF knobs.arch64 THEN delta
               ELSE [delta EXCEPT ![t][IF knobs.windows THEN WINOUTPUT
                                       ELSE OUTPUT] = NOTAINT]
  BY DEF PostSysCall
<1>3. /\ Agrees(delta[t][OUTPUT], regs[t][OUTPUT])
      /\ Agrees(delta[t][WINOUTPUT], regs[t][WINOUTPUT])
  BY <1>0 DEF TagsTell
<1>4. Agrees(delta'[t][OUTPUT], output)
  <2>1. delta'[t][OUTPUT] = IF knobs.arch64 \/ knobs.windows THEN delta[t][OUTPUT]
                            ELSE NOTAINT
    BY <1>0, <1>2, KnobFacts DEF TypeOK
  <2> QED BY <1>1, <1>3, <2>1, OverwrittenFacts
<1>5. Agrees(delta'[t][WINOUTPUT], edx)
  <2>1. delta'[t][WINOUTPUT] = IF knobs.windows THEN NOTAINT ELSE delta[t][WINOUTPUT]
    BY <1>0, <1>2, KnobFacts DEF TypeOK
  <2>2. \A x : Agrees(x, Unseen(regs[t][WINOUTPUT].from))
    BY DEF Agrees, Covers, Unseen, Origin
  <2> QED BY <1>1, <1>3, <2>1, <2>2, OverwrittenFacts
<1>6. ASSUME NEW u \in Threads, NEW r \in Regs PROVE Agrees(delta'[u][r], regs'[u][r])
  <2>1. CASE u = t /\ r = OUTPUT
    <3>1. regs'[u][r] = output
      BY <1>0, <1>1, <2>1 DEF TypeOK
    <3> QED BY <1>4, <2>1, <3>1
  <2>2. CASE u = t /\ r = WINOUTPUT
    <3>1. regs'[u][r] = edx
      BY <1>0, <1>1, <2>2 DEF TypeOK
    <3> QED BY <1>5, <2>2, <3>1
  <2>3. CASE ~(u = t /\ r \in {OUTPUT, WINOUTPUT})
    <3>1. regs'[u][r] = regs[u][r]
      BY <1>1, <2>3 DEF TypeOK
    <3>2. delta'[u][r] = delta[u][r]
      BY <1>2, <2>3 DEF TypeOK
    <3> QED BY <3>1, <3>2 DEF TagsTell
  <2> QED BY <2>1, <2>2, <2>3
<1>7. UNCHANGED <<memory, mem>>
  BY DEF PostSysCall
<1> QED BY <1>6, <1>7 DEF TagsTell, Key

(* In the beginning nothing is tainted.                                    *)
LEMMA TellsInit == Init => TagsTell
<1> SUFFICES ASSUME Init PROVE TagsTell
  OBVIOUS
<1>1. Agrees(NOTAINT, Clean)
  BY OverwrittenFacts
<1>2. \A a \in Addrs : Key(a) \in Keys
  BY DEF Keys
<1> QED BY <1>1, <1>2 DEF Init, TagsTell

(* Every step keeps the tags right.                                        *)
LEMMA TellsStep == TypeOK /\ TagsTell /\ [Next]_vars => TagsTell'
<1>1. TagsTell /\ UNCHANGED vars => TagsTell'
  BY DEF TagsTell, Key, vars
<1> QED BY <1>1, TellsAppend, TellsLeftOut, TellsIntro, TellsKernelWrites,
           TellsPostSysCall DEF Next, Terminated

(* For every program, however the threads interleave, and although most    *)
(* instructions are not even looked at: no register and no byte of memory  *)
(* holds tainted data that its tag does not show, and no tag names a byte  *)
(* that is not the only one, except where the tracker has lost sight of    *)
(* the data in one of the listed ways.  A tag is exact where all operands  *)
(* read went into the operand written.                                     *)
THEOREM TagsTellTheorem == Spec => []TagsTell
<1>1. Init => TypeOK /\ TagsTell
  BY TypeInit, TellsInit
<1>2. TypeOK /\ TagsTell /\ [Next]_vars => (TypeOK /\ TagsTell)'
  BY TypeStep, TellsStep
<1> QED BY <1>1, <1>2, PTL DEF Spec

-----------------------------------------------------------------------------
(* The check of the instruction pointer. *)

IPClean(t) == regs[t][IP].seen = "lost" \/ regs[t][IP].from = {}

(* An untainted register holds clean data, or lost data.                   *)
LEMMA UntaintedIsClean ==
  ASSUME TagsTell', NEW t \in Threads, delta'[t][IP] = NOTAINT
  PROVE  IPClean(t)'
<1>1. Agrees(delta'[t][IP], regs'[t][IP])
  BY TaintAssumption DEF TagsTell
<1> QED BY <1>1 DEF Agrees, Covers, IPClean

(* What an instruction that moves no tags leaves in the instruction        *)
(* pointer is lost, or clean.                                              *)
LEMMA CleanUntracked ==
  ASSUME TypeOK, TagsTell, NEW t \in Threads, NEW ins \in Insns,
         NEW done \in BOOLEAN, Execute(t, ins, done, FALSE),
         NEW u \in Threads, IPClean(u)
  PROVE  IPClean(u)'
<1>0. IP \in Regs
  BY TaintAssumption
<1>1. Leaves(t, ins, done, FALSE)
  BY ExecuteFacts, Zenon
<1>2. regs'[u][IP] =
        IF u = t /\ IP \in RegsWritten(ins)
        THEN Written(t, ins, regs[t][IP], WritesReg(ins, IP), done, FALSE)
        ELSE regs[u][IP]
  BY <1>0, <1>1, Zenon DEF Leaves
<1>3. /\ regs[t][IP] \in Origins /\ WritesReg(ins, IP) \in SUBSET DOMAIN ins.ops
      /\ Agrees(delta[t][IP], regs[t][IP])
  BY <1>0, WritesFacts DEF TypeOK, TagsTell
<1> DEFINE new == Written(t, ins, regs[t][IP], WritesReg(ins, IP), done, FALSE)
<1>4. new.seen = "lost" \/ new.from = {}
  BY <1>3, WrittenOrigin
<1> HIDE DEF new
<1> QED BY <1>2, <1>4 DEF IPClean, new

(* When the program runs on after an instruction, the instruction pointer  *)
(* is clean or lost: it was checked, or not loaded, or the tags stayed.    *)
LEMMA CleanAppend ==
  ASSUME TypeOK, TagsTell, TagsTell', NEW t \in Threads, AppendBuffer(t),
         ~knobs.seh, status' = "running", NEW u \in Threads, IPClean(u)
  PROVE  IPClean(u)'
<1>0. IP \in Regs
  BY TaintAssumption
<1>1. PICK ins \in knobs.program, done \in BOOLEAN, inRange \in BOOLEAN :
        /\ AppendLogged(t, ins, inRange) \/ AppendSkipped(t, ins, inRange)
        /\ Execute(t, ins, done, inRange /\ ins.op # "branch")
  BY Zenon DEF AppendBuffer
<1>2. ins \in Insns /\ knobs \in Knobs
  BY KnobFacts
<1> DEFINE values == OperandList(ins)
<1>3. CASE ins.op = "branch" \/ ~inRange
  <2>1. (inRange /\ ins.op # "branch") = FALSE
    BY <1>3
  <2>2. Execute(t, ins, done, FALSE)
    BY <1>1, <2>1
  <2> QED BY <1>2, <2>2, CleanUntracked
<1>4. CASE ins.op # "branch" /\ inRange
  <2>1. (inRange /\ ins.op # "branch") = TRUE
    BY <1>4
  <2>2. Execute(t, ins, done, TRUE)
    BY <1>1, <2>1
  <2>3. Leaves(t, ins, done, TRUE)
    BY <1>2, <2>2, ExecuteFacts, Zenon
  <2>4. CASE ~(u = t /\ IP \in RegsWritten(ins))
    <3>1. regs'[u][IP] = regs[u][IP]
      BY <1>0, <2>3, <2>4 DEF Leaves
    <3> QED BY <3>1 DEF IPClean
  <2>5. CASE u = t /\ IP \in RegsWritten(ins)
    <3>1. PICK i \in DOMAIN values :
            values[i].wr /\ values[i].mem = FALSE /\ values[i].loc = IP
      <4>1. IP \in WrittenIn(values, FALSE)
        BY <1>2, <2>5, WrittenFacts
      <4> QED BY <4>1 DEF WrittenIn
    <3>2. delta'[t][IP] = NOTAINT
      <4>1. CASE AppendLogged(t, ins, inRange)
        <5>1. status' = IF CheckFails(t, values) /\ ~knobs.seh THEN "smash" ELSE status
          BY <4>1 DEF AppendLogged
        <5>2. ~CheckFails(t, values)
          BY <5>1
        <5> QED BY <3>1, <5>2 DEF CheckFails
      <4>2. CASE AppendSkipped(t, ins, inRange)
        <5>1. ~hasTaint(t, values) /\ delta' = delta
          BY <1>4, <4>2 DEF AppendSkipped, Wanted
        <5> QED BY <3>1, <5>1 DEF hasTaint, getTaint
      <4> QED BY <1>1, <4>1, <4>2
    <3> QED BY <2>5, <3>2, UntaintedIsClean
  <2> QED BY <2>4, <2>5
<1> QED BY <1>3, <1>4

(* The check after the propagation finds every instruction pointer that    *)
(* the tracker sees loaded with tainted data.                              *)
LEMMA CleanStep ==
  TypeOK /\ TagsTell /\ TagsTell' /\ ControlClean /\ [Next]_vars => ControlClean'
<1> SUFFICES ASSUME TypeOK, TagsTell, TagsTell', ControlClean, [Next]_vars,
                    status' = "running", ~knobs'.seh, NEW u \in Threads
             PROVE  IPClean(u)'
  BY DEF ControlClean, IPClean
<1>0. ASSUME status = "running", knobs' = knobs PROVE IPClean(u)
  BY <1>0 DEF ControlClean, IPClean
<1>1. ASSUME NEW t \in Threads, AppendBuffer(t) PROVE IPClean(u)'
  <2>1. status = "running" /\ knobs' = knobs
    BY <1>1 DEF AppendBuffer
  <2> QED BY <1>0, <1>1, <2>1, CleanAppend
<1>2. ASSUME NEW t \in Threads, LeftOut(t) PROVE IPClean(u)'
  <2>1. status = "running" /\ knobs' = knobs
    BY <1>2 DEF LeftOut
  <2>2. PICK ins \in Insns : Execute(t, ins, TRUE, FALSE)
    BY <1>2, KnobFacts DEF LeftOut
  <2>3. PICK done \in BOOLEAN : Execute(t, ins, done, FALSE)
    BY <2>2
  <2> QED BY <1>0, <2>1, <2>3, CleanUntracked
<1>3. ASSUME NEW t \in Threads, PostSysCall(t) PROVE IPClean(u)'
  <2>1. IP # OUTPUT /\ IP # WINOUTPUT /\ IP \in Regs
    BY TaintAssumption DEF IP, OUTPUT, WINOUTPUT
  <2>2. PICK output, edx \in Origins :
          regs' = [regs EXCEPT ![t][OUTPUT] = output, ![t][WINOUTPUT] = edx]
    BY <1>3, PostSysCallFacts
  <2>3. regs'[u][IP] = regs[u][IP]
    BY <2>1, <2>2 DEF TypeOK
  <2> QED BY <1>0, <1>3, <2>3 DEF PostSysCall, IPClean
<1>4. ASSUME NEW a \in Addrs, IntroMemTaint(a) \/ KernelWrites(a) PROVE IPClean(u)'
  BY <1>0, <1>4 DEF IntroMemTaint, KernelWrites, IPClean
<1>5. ASSUME UNCHANGED vars PROVE IPClean(u)'
  BY <1>0, <1>5 DEF vars, IPClean
<1> QED BY <1>1, <1>2, <1>3, <1>4, <1>5 DEF Next, Terminated

(* Outside SEH mode, the program runs on with tainted data in the          *)
(* instruction pointer only when the tracker has lost sight of the data,   *)
(* as it does in a jump through a tainted operand.                         *)
THEOREM ControlStaysClean == Spec => []ControlClean
<1>1. Init => ControlClean
  BY TaintAssumption DEF Init, ControlClean, Clean, Origin
<1> QED BY <1>1, TypeCorrect, TagsTellTheorem, CleanStep, PTL DEF Spec

(* A check that fails has found a tag that is not exact, or tainted data.  *)
LEMMA AlarmStep == TagsTell' /\ NoFalseAlarm /\ [Next]_vars => NoFalseAlarm'
<1> SUFFICES ASSUME TagsTell', NoFalseAlarm, [Next]_vars, status' = "smash"
             PROVE  \E t \in Threads :
                      regs'[t][IP].seen # "exact" \/ regs'[t][IP].from # {}
  BY DEF NoFalseAlarm
<1>1. ASSUME NEW t \in Threads, AppendBuffer(t)
      PROVE  regs'[t][IP].seen # "exact" \/ regs'[t][IP].from # {}
  <2>1. delta'[t][IP] # NOTAINT
    BY <1>1 DEF AppendBuffer, AppendLogged, AppendSkipped, CheckFails
  <2>2. Agrees(delta'[t][IP], regs'[t][IP])
    BY TaintAssumption DEF TagsTell
  <2> QED BY <2>1, <2>2 DEF Agrees, Tells
<1>2. ASSUME NEW t \in Threads, LeftOut(t) \/ PostSysCall(t) PROVE FALSE
  BY <1>2 DEF LeftOut, PostSysCall
<1>3. ASSUME NEW a \in Addrs, IntroMemTaint(a) \/ KernelWrites(a) PROVE FALSE
  BY <1>3 DEF IntroMemTaint, KernelWrites
<1>4. CASE UNCHANGED vars
  BY <1>4 DEF NoFalseAlarm, vars
<1> QED BY <1>1, <1>2, <1>3, <1>4 DEF Next, Terminated

(* A failed check is a false alarm only if the tracker has counted more    *)
(* operands than the instruction pointer comes from.                       *)
THEOREM NoFalseAlarmTheorem == Spec => []NoFalseAlarm
<1>1. Init => NoFalseAlarm
  BY DEF Init, NoFalseAlarm
<1> QED BY <1>1, TagsTellTheorem, AlarmStep, PTL DEF Spec
=============================================================================
