------------------------- MODULE SyscallTaintProofs -------------------------
(***************************************************************************)
(* Theorems about SyscallTaint for every number of threads, files,         *)
(* descriptors and calls, and every setup.                                 *)
(***************************************************************************)
EXTENDS SyscallTaint, FiniteSetTheorems, FunctionTheorems, SequenceTheorems,
        TLAPS

(* The constants, without the setups.                                      *)
LEMMA Constants ==
  /\ "stdin" \in Files \ TaintFiles /\ TaintFiles \subseteq Files
  /\ Files \cap {"socket", "accept", "none", "view", "Uninitialized"} = {}
  /\ Fds \subseteq Nat /\ 0 \in Fds
  /\ {Size, LastAddr, MaxCalls} \subseteq Nat
  /\ Word \in Nat /\ Word > LastAddr + 2 /\ Word > Size + 1
BY SyscallAssumption

USE Constants

-----------------------------------------------------------------------------
(* Stacks. *)

(* Only the empty sequence has no length.                                  *)
LEMMA Lengths ==
  ASSUME NEW S, NEW s \in Seq(S)
  PROVE  Len(s) \in Nat /\ (s = <<>> <=> Len(s) = 0)
BY EmptySeq, LenProperties

(* The last element of a sequence that is not empty, and the rest of it.   *)
LEMMA LastAndFront ==
  ASSUME NEW S, NEW s \in Seq(S), s # <<>>
  PROVE  s[Len(s)] \in S /\ SubSeq(s, 1, Len(s) - 1) \in Seq(S)
<1>1. Len(s) \in Nat /\ Len(s) # 0
  BY EmptySeq, LenProperties
<1>2. Len(s) \in 1..Len(s)
  BY <1>1
<1>3. s[Len(s)] \in S
  BY <1>2, ElementOfSeq
<1>4. SubSeq(s, 1, Len(s) - 1) \in Seq(S)
  BY <1>1, SubSeqProperties
<1> QED
  BY <1>3, <1>4

(* What is appended is last.                                               *)
LEMMA AppendLast ==
  ASSUME NEW S, NEW s \in Seq(S), NEW e \in S
  PROVE  /\ Append(s, e) \in Seq(S) /\ Append(s, e) # <<>>
         /\ Append(s, e)[Len(Append(s, e))] = e
<1>1. /\ Append(s, e) \in Seq(S) /\ Append(s, e) # <<>>
      /\ Len(Append(s, e)) = Len(s) + 1
      /\ Append(s, e)[Len(s) + 1] = e
  BY AppendProperties
<1> QED
  BY <1>1

-----------------------------------------------------------------------------
(* Types.  The kernel returns a descriptor or a number.  The entries of    *)
(* the calls a thread is in are the last ones on its stack, unless a call  *)
(* that never returned was made within one of them.                        *)

NewOps == {"open", "socket", "accept", "section"}

Returned ==
  \A t \in Threads : pc[t] = "return" =>
    /\ ret[t] \in Nat \union {Fail}
    /\ Now(t).op \in NewOps => ret[t] \in Fds \union {Fail}

Is(entry, c) == entry.c = c /\ entry.state \in {c.op, "nosyscall"}

(* No call: outside; one: in it or in a callback of it; two: in the call   *)
(* of a callback.                                                          *)
Nesting(t) ==
  \/ kcalls[t] = <<>> /\ pc[t] = "app"
  \/ /\ Len(kcalls[t]) = 1
     /\ scStack[t] # <<>>
     /\ \/ Is(Top(t), kcalls[t][1])
        \/ stray[t] /\ Top(t).state = "nosyscall"
  \/ /\ Len(kcalls[t]) = 2
     /\ pc[t] # "app"
     /\ Len(scStack[t]) >= 2
     /\ Is(Top(t), kcalls[t][2])
     /\ \/ Is(scStack[t][Len(scStack[t]) - 1], kcalls[t][1])
        \/ /\ stray[t]
           /\ scStack[t][Len(scStack[t]) - 1].state = "nosyscall"

(* Without callbacks a thread that is in no call is in the program, and    *)
(* what it has left on the stack is from before its call.                  *)
NotCalledBack ==
  clean => \A t \in Threads : /\ pc[t] = "app" => kcalls[t] = <<>>
                              /\ pc[t] # "app" => ~stray[t] /\ Len(kcalls[t]) = 1

ThreadInv ==
  /\ pc \in [Threads -> {"app", "kernel", "return"}]
  /\ ret \in [Threads -> Int]
  /\ scStack \in [Threads -> Seq(Entries)]
  /\ kcalls \in [Threads -> Seq(Returning)]
  /\ stray \in [Threads -> BOOLEAN]
  /\ \A t \in Threads : Nesting(t)
  /\ NotCalledBack /\ Returned

(* The call a thread is in, and the entry it will pop.                     *)
LEMMA CallTypes ==
  ASSUME ThreadInv, NEW t \in Threads, pc[t] # "app"
  PROVE  /\ Top(t) \in Entries /\ Popped(t) \in Calls
         /\ Now(t) \in Calls /\ Now(t).op \notin NeverReturning
         /\ scStack[t] \in Seq(Entries) /\ scStack[t] # <<>>
         /\ kcalls[t] \in Seq(Returning) /\ kcalls[t] # <<>>
         /\ \/ Is(Top(t), Now(t))
            \/ stray[t] /\ Len(kcalls[t]) = 1 /\ Top(t).state = "nosyscall"
         /\ clean => Is(Top(t), Now(t))
<1>1. scStack[t] \in Seq(Entries) /\ kcalls[t] \in Seq(Returning) /\ Nesting(t)
  BY DEF ThreadInv
<1>2. /\ Len(scStack[t]) \in Nat /\ Len(kcalls[t]) \in Nat
      /\ scStack[t] = <<>> <=> Len(scStack[t]) = 0
      /\ kcalls[t] = <<>> <=> Len(kcalls[t]) = 0
  BY <1>1, Lengths
<1>3. scStack[t] # <<>> /\ kcalls[t] # <<>>
  <2>1. \/ Len(kcalls[t]) = 1 /\ scStack[t] # <<>>
        \/ Len(kcalls[t]) = 2 /\ Len(scStack[t]) >= 2
    BY <1>1 DEF Nesting
  <2>2. Len(kcalls[t]) = 1 \/ Len(kcalls[t]) = 2
    BY <2>1, Zenon
  <2>3. Len(kcalls[t]) # 0
    <3>1. 1 # 0 /\ 2 # 0
      OBVIOUS
    <3> QED
      BY <2>2, <3>1, Zenon
  <2>4. Len(scStack[t]) >= 2 => Len(scStack[t]) # 0
    OBVIOUS
  <2> QED
    BY <1>2, <2>1, <2>3, <2>4, Zenon
<1>4. Top(t) \in Entries
  BY <1>1, <1>3, LastAndFront DEF Top
<1>5. Now(t) \in Calls /\ Now(t).op \notin NeverReturning
  <2>1. Now(t) \in Returning
    BY <1>1, <1>3, LastAndFront DEF Now
  <2> QED
    BY <2>1 DEF Returning
<1>6. Popped(t) \in Calls
  BY <1>4 DEF Entries, Popped
<1>7. \/ Is(Top(t), Now(t))
      \/ stray[t] /\ Len(kcalls[t]) = 1 /\ Top(t).state = "nosyscall"
  BY <1>1, <1>2, <1>3 DEF Nesting, Now
<1>8. clean => ~stray[t]
  BY DEF ThreadInv, NotCalledBack
<1> QED
  BY <1>1, <1>3, <1>4, <1>5, <1>6, <1>7, <1>8

(* A call that matters to the tracker is the one that returns.             *)
LEMMA OwnCall ==
  ASSUME ThreadInv, NEW t \in Threads, pc[t] # "app",
         Top(t).state # "nosyscall" \/ clean
  PROVE  Popped(t) = Now(t) /\ Top(t).state \in {Now(t).op, "nosyscall"}
BY CallTypes DEF Is, Popped

(* At the start no thread is in a call.                                    *)
LEMMA ThreadInit == Init => ThreadInv
<1> SUFFICES ASSUME Init PROVE ThreadInv
  OBVIOUS
<1>1. <<>> \in Seq(Entries) /\ <<>> \in Seq(Returning)
  OBVIOUS
<1>2. \A t \in Threads : kcalls[t] = <<>> /\ pc[t] = "app"
  BY DEF Init
<1>3. (\A t \in Threads : Nesting(t)) /\ NotCalledBack /\ Returned
  BY <1>2 DEF Nesting, NotCalledBack, Returned
<1> QED
  BY <1>1, <1>3 DEF Init, ThreadInv

(* What is pushed is on top, above what was.                               *)
LEMMA Pushed ==
  ASSUME NEW S, NEW s \in Seq(S), NEW e \in S, NEW s2, s2 = Append(s, e)
  PROVE  /\ s2 \in Seq(S) /\ s2 # <<>> /\ Len(s) \in Nat
         /\ Len(s2) = Len(s) + 1 /\ s2[Len(s2)] = e
         /\ s # <<>> => Len(s) >= 1 /\ s2[Len(s2) - 1] = s[Len(s)]
         /\ s = <<>> => Len(s) = 0
<1>1. /\ s2 \in Seq(S) /\ s2 # <<>> /\ Len(s2) = Len(s) + 1
      /\ s2[Len(s) + 1] = e
      /\ \A i \in 1..Len(s) : s2[i] = s[i]
  BY AppendProperties
<1>2. Len(s) \in Nat /\ (s = <<>> <=> Len(s) = 0)
  BY LenProperties, EmptySeq
<1> QED
  BY <1>1, <1>2

(* What is popped uncovers what was below.                                 *)
LEMMA Uncovered ==
  ASSUME NEW S, NEW s \in Seq(S), s # <<>>, NEW s2, s2 = Pop(s)
  PROVE  /\ s2 \in Seq(S) /\ Len(s) \in Nat /\ Len(s2) = Len(s) - 1
         /\ Len(s) >= 2 => s2 # <<>> /\ s2[Len(s2)] = s[Len(s) - 1]
         /\ Len(s) = 1 => s2 = <<>>
         /\ Len(s) = 2 => s2[1] = s[1]
<1>1. Len(s) \in Nat /\ Len(s) # 0
  BY Lengths
<1> DEFINE n == Len(s) - 1
<1>2. n \in Int /\ n >= 0 /\ 1 \in Int /\ \A i \in 1..n : s[i] \in S
  BY <1>1, ElementOfSeq
<1>3. /\ SubSeq(s, 1, n) \in Seq(S)
      /\ Len(SubSeq(s, 1, n)) = IF 1 <= n THEN n - 1 + 1 ELSE 0
      /\ \A i \in 1..(n - 1 + 1) : SubSeq(s, 1, n)[i] = s[1 + i - 1]
  <2> HIDE DEF n
  <2> QED
    BY <1>2, SubSeqProperties
<1>4. /\ s2 \in Seq(S) /\ Len(s2) = IF 1 <= n THEN n - 1 + 1 ELSE 0
      /\ \A i \in 1..(n - 1 + 1) : s2[i] = s[1 + i - 1]
  BY <1>3 DEF Pop
<1>5. Len(s2) \in Nat /\ (s2 = <<>> <=> Len(s2) = 0)
  <2>1. s2 \in Seq(S)
    BY <1>4
  <2> QED
    BY <2>1, Lengths
<1>6. Len(s2) = Len(s) - 1
  <2>1. Len(s2) = IF 1 <= n THEN n - 1 + 1 ELSE 0
    BY <1>4
  <2>2. n \in Int /\ n >= 0 /\ n = Len(s) - 1
    BY <1>2
  <2> HIDE DEF n
  <2> QED
    BY <2>1, <2>2
<1>7. ASSUME Len(s) >= 2 PROVE s2 # <<>> /\ s2[Len(s2)] = s[Len(s) - 1]
  <2>1. (Len(s) - 1) \in 1..((Len(s) - 1) - 1 + 1)
    BY <1>1, <1>7
  <2>2. 1 + (Len(s) - 1) - 1 = Len(s) - 1 /\ Len(s2) # 0
    BY <1>1, <1>6, <1>7
  <2> QED
    BY <1>4, <1>5, <1>6, <2>1, <2>2
<1>8. ASSUME Len(s) = 2 PROVE s2[1] = s[1]
  <2>1. 1 \in 1..((Len(s) - 1) - 1 + 1) /\ 1 + 1 - 1 = 1
    BY <1>8
  <2> QED
    BY <1>4, <2>1
<1>9. Len(s) = 1 => s2 = <<>>
  BY <1>5, <1>6
<1> QED
  BY <1>1, <1>4, <1>6, <1>7, <1>8, <1>9

(* A call begins.                                                          *)
LEMMA EntryThread ==
  ASSUME ThreadInv, NEW t \in Threads, SyscallEntry(t)
  PROVE  ThreadInv'
<1>1. PICK c \in Calls :
        /\ pc[t] = "app" /\ ret' = ret
        /\ c.op = "cbreturn" => kcalls[t] # <<>>
        /\ Push(t, c)
        /\ kcalls' = IF c.op \in NeverReturning THEN kcalls
                     ELSE [kcalls EXCEPT ![t] = Append(@, c)]
        /\ stray' = [stray EXCEPT ![t] = \/ c.op \in NeverReturning
                                         \/ @ /\ kcalls[t] # <<>>]
        /\ pc' = [pc EXCEPT ![t] = IF c.op = "sigreturn" THEN "app"
                                                         ELSE "kernel"]
        /\ clean' => clean
  BY DEF SyscallEntry, Calling
<1> DEFINE e == [c |-> c, state |-> taintPreSC(c)]
<1>2. c.op \in Ops
  BY <1>1 DEF Calls
<1>3. /\ e \in Entries /\ e.c = c /\ e.state \in {c.op, "nosyscall"}
      /\ c.op \in NeverReturning => e.state = "nosyscall"
  BY <1>2 DEF Entries, taintPreSC, Relevant, NeverReturning, SocketOps
<1>4. scStack' = [scStack EXCEPT ![t] = Append(@, e)]
  BY <1>1 DEF Push
<1> HIDE DEF e
<1>5. scStack[t] \in Seq(Entries) /\ kcalls[t] \in Seq(Returning)
  BY DEF ThreadInv
<1> DEFINE se == Append(scStack[t], e)
           ke == Append(kcalls[t], c)
<1>6. /\ se \in Seq(Entries) /\ se # <<>> /\ Len(scStack[t]) \in Nat
      /\ Len(se) = Len(scStack[t]) + 1 /\ se[Len(se)] = e
      /\ scStack[t] # <<>> => /\ Len(scStack[t]) >= 1
                             /\ se[Len(se) - 1] = scStack[t][Len(scStack[t])]
  <2>1. e \in Entries /\ scStack[t] \in Seq(Entries) /\ se = Append(scStack[t], e)
    BY <1>3, <1>5
  <2> HIDE DEF se
  <2> QED
    BY <2>1, Pushed
<1>7. /\ Len(kcalls[t]) \in Nat
      /\ c.op \notin NeverReturning =>
           /\ ke \in Seq(Returning) /\ ke # <<>>
           /\ Len(ke) = Len(kcalls[t]) + 1 /\ ke[Len(ke)] = c
           /\ kcalls[t] # <<>> => /\ Len(kcalls[t]) >= 1
                                 /\ ke[Len(ke) - 1] = kcalls[t][Len(kcalls[t])]
           /\ kcalls[t] = <<>> => Len(kcalls[t]) = 0
  <2>1. Len(kcalls[t]) \in Nat
    BY <1>5, Lengths
  <2>2. c.op \notin NeverReturning => c \in Returning
    BY <1>1 DEF Returning
  <2>3. ke = Append(kcalls[t], c)
    OBVIOUS
  <2> HIDE DEF ke
  <2> QED
    BY <1>5, <2>1, <2>2, <2>3, Pushed
<1>8. scStack'[t] = se /\ (c.op \notin NeverReturning => kcalls'[t] = ke)
  BY <1>1, <1>4 DEF ThreadInv
<1> HIDE DEF se, ke
<1>9. /\ scStack' \in [Threads -> Seq(Entries)]
      /\ kcalls' \in [Threads -> Seq(Returning)]
      /\ \A u \in Threads \ {t} : scStack'[u] = scStack[u] /\ kcalls'[u] = kcalls[u]
  <2>1. /\ \A u \in Threads \ {t} : scStack'[u] = scStack[u] /\ kcalls'[u] = kcalls[u]
        /\ scStack' = [u \in Threads |-> IF u = t THEN scStack'[t] ELSE scStack[u]]
        /\ kcalls' = [u \in Threads |-> IF u = t THEN kcalls'[t] ELSE kcalls[u]]
    BY <1>1, <1>4 DEF ThreadInv
  <2>2. scStack'[t] \in Seq(Entries) /\ kcalls'[t] \in Seq(Returning)
    <3>1. CASE c.op \in NeverReturning
      BY <1>1, <1>5, <1>6, <1>8, <3>1
    <3>2. CASE c.op \notin NeverReturning
      BY <1>6, <1>7, <1>8, <3>2
    <3> QED
      BY <3>1, <3>2
  <2> QED
    BY <2>1, <2>2 DEF ThreadInv
<1>10. /\ pc' \in [Threads -> {"app", "kernel", "return"}]
       /\ stray' \in [Threads -> BOOLEAN]
       /\ pc'[t] = IF c.op = "sigreturn" THEN "app" ELSE "kernel"
       /\ stray'[t] = (c.op \in NeverReturning \/ (stray[t] /\ kcalls[t] # <<>>))
       /\ \A u \in Threads \ {t} : pc'[u] = pc[u] /\ stray'[u] = stray[u]
  BY <1>1 DEF ThreadInv
<1>11. Nesting(t)'
  <2>1. Nesting(t)
    BY DEF ThreadInv
  <2>2. \/ kcalls[t] = <<>>
        \/ /\ Len(kcalls[t]) = 1 /\ scStack[t] # <<>>
           /\ \/ Is(scStack[t][Len(scStack[t])], kcalls[t][1])
              \/ stray[t] /\ scStack[t][Len(scStack[t])].state = "nosyscall"
    BY <1>1, <2>1 DEF Nesting, Top
  <2>3. CASE c.op \in NeverReturning
    <3>1. /\ kcalls'[t] = kcalls[t] /\ scStack'[t] = se /\ stray'[t]
          /\ se # <<>> /\ se[Len(se)].state = "nosyscall"
      BY <1>1, <1>3, <1>6, <1>8, <1>10, <2>3
    <3>2. CASE kcalls[t] = <<>>
      BY <1>1, <1>10, <2>3, <3>1, <3>2 DEF Nesting, NeverReturning
    <3>3. CASE Len(kcalls[t]) = 1
      BY <3>1, <3>3 DEF Nesting, Top
    <3> QED
      BY <2>2, <3>2, <3>3
  <2>4. CASE c.op \notin NeverReturning
    <3>1. /\ kcalls'[t] = ke /\ scStack'[t] = se /\ pc'[t] = "kernel"
          /\ se[Len(se)] = e /\ Is(e, c) /\ se # <<>>
      BY <1>3, <1>6, <1>8, <1>10, <2>4 DEF NeverReturning, Is
    <3>2. CASE kcalls[t] = <<>>
      <4>1. Len(ke) = 1 /\ ke[1] = c
        BY <1>7, <2>4, <3>2
      <4> QED
        BY <3>1, <4>1 DEF Nesting, Top
    <3>3. CASE Len(kcalls[t]) = 1
      <4>1. /\ Len(ke) = 2 /\ ke[2] = c /\ kcalls[t] # <<>>
            /\ ke[1] = kcalls[t][1]
        BY <1>5, <1>7, <2>4, <3>3, Lengths
      <4>2. /\ scStack[t] # <<>> /\ Len(se) >= 2
            /\ se[Len(se) - 1] = scStack[t][Len(scStack[t])]
        BY <1>6, <2>2, <4>1
      <4>3. \/ Is(se[Len(se) - 1], ke[1])
            \/ stray'[t] /\ se[Len(se) - 1].state = "nosyscall"
        BY <1>10, <2>2, <4>1, <4>2
      <4> QED
        BY <3>1, <4>1, <4>2, <4>3 DEF Nesting, Top
    <3> QED
      BY <2>2, <3>2, <3>3
  <2> QED
    BY <2>3, <2>4
<1>12. ASSUME NEW u \in Threads \ {t} PROVE Nesting(u)'
  <2>1. /\ scStack'[u] = scStack[u] /\ kcalls'[u] = kcalls[u]
        /\ pc'[u] = pc[u] /\ stray'[u] = stray[u]
    BY <1>9, <1>10
  <2>2. Nesting(u)
    BY DEF ThreadInv
  <2> QED
    BY <2>1, <2>2 DEF Nesting, Top
<1>13. NotCalledBack'
  <2> SUFFICES ASSUME clean', NEW u \in Threads
               PROVE  /\ pc'[u] = "app" => kcalls'[u] = <<>>
                      /\ pc'[u] # "app" => ~stray'[u] /\ Len(kcalls'[u]) = 1
    BY DEF NotCalledBack
  <2>1. clean
    BY <1>1
  <2>2. CASE u # t
    BY <1>9, <1>10, <2>1, <2>2 DEF ThreadInv, NotCalledBack
  <2>3. CASE u = t
    <3>1. kcalls[t] = <<>>
      BY <1>1, <2>1 DEF ThreadInv, NotCalledBack
    <3>2. CASE c.op = "sigreturn"
      BY <1>1, <1>10, <2>3, <3>1, <3>2 DEF NeverReturning
    <3>3. CASE c.op # "sigreturn"
      <4>1. c.op \notin NeverReturning
        BY <1>1, <3>1, <3>3 DEF NeverReturning
      <4>2. Len(ke) = 1
        BY <1>7, <3>1, <4>1
      <4> QED
        BY <1>8, <1>10, <2>3, <3>1, <3>3, <4>1, <4>2
    <3> QED
      BY <3>2, <3>3
  <2> QED
    BY <2>2, <2>3
<1>14. Returned'
  <2> SUFFICES ASSUME NEW u \in Threads, pc'[u] = "return"
               PROVE  /\ ret'[u] \in Nat \union {Fail}
                      /\ Now(u)'.op \in NewOps => ret'[u] \in Fds \union {Fail}
    BY DEF Returned
  <2>1. u # t
    BY <1>10
  <2>2. pc[u] = "return" /\ Now(u)' = Now(u) /\ ret' = ret
    BY <1>1, <1>9, <1>10, <2>1 DEF Now
  <2> QED
    BY <2>2 DEF ThreadInv, Returned
<1> QED
  BY <1>1, <1>9, <1>10, <1>11, <1>12, <1>13, <1>14 DEF ThreadInv

(* The kernel returns.                                                     *)
LEMMA KernelThread ==
  ASSUME ThreadInv, NEW t \in Threads, NEW op, NEW r \in Nat \union {Fail},
         Kernel(t, op, r), clean' => clean,
         op \in NewOps => r \in Fds \union {Fail}
  PROVE  ThreadInv'
<1>1. /\ pc[t] = "kernel" /\ Now(t).op = op
      /\ UNCHANGED <<scStack, kcalls, stray>>
      /\ ret' = [ret EXCEPT ![t] = r] /\ pc' = [pc EXCEPT ![t] = "return"]
  BY DEF Kernel, stacks
<1>2. r \in Int
  BY DEF Fail
<1>3. /\ pc' \in [Threads -> {"app", "kernel", "return"}]
      /\ ret' \in [Threads -> Int] /\ ret'[t] = r /\ pc'[t] = "return"
      /\ \A u \in Threads \ {t} : ret'[u] = ret[u] /\ pc'[u] = pc[u]
  BY <1>1, <1>2 DEF ThreadInv
<1>4. \A u \in Threads : Nesting(u)'
  BY <1>1, <1>3 DEF ThreadInv, Nesting, Top
<1>5. Returned'
  BY <1>1, <1>3 DEF ThreadInv, Returned, Now
<1>6. NotCalledBack'
  BY <1>1, <1>3 DEF ThreadInv, NotCalledBack
<1> QED
  BY <1>1, <1>3, <1>4, <1>5, <1>6 DEF ThreadInv

(* The kernel calls back, or the callback returns.                         *)
LEMMA CallbackThread ==
  ASSUME ThreadInv, NEW t \in Threads, KernelCallsBack(t) \/ CallbackReturns(t)
  PROVE  ThreadInv'
<1>1. /\ UNCHANGED <<scStack, kcalls, stray, ret>>
      /\ Len(kcalls[t]) = 1
      /\ ~clean'
      /\ pc' \in [Threads -> {"app", "kernel", "return"}]
      /\ pc'[t] # "return"
      /\ \A u \in Threads \ {t} : pc'[u] = pc[u]
  <2>1. CASE KernelCallsBack(t)
    BY <2>1 DEF KernelCallsBack, stacks, ThreadInv
  <2>2. CASE CallbackReturns(t)
    <3>1. pc[t] = "app" /\ kcalls[t] # <<>> /\ clean' = clean
      BY <2>2 DEF CallbackReturns
    <3>2. Len(kcalls[t]) = 1
      BY <3>1 DEF ThreadInv, Nesting
    <3>3. ~clean
      BY <3>1 DEF ThreadInv, NotCalledBack
    <3> QED
      BY <2>2, <3>1, <3>2, <3>3 DEF CallbackReturns, stacks, ThreadInv
  <2> QED
    BY <2>1, <2>2
<1>2. ASSUME NEW u \in Threads PROVE Nesting(u)'
  <2>1. Nesting(u)
    BY DEF ThreadInv
  <2>2. CASE u = t
    <3>1. ~(kcalls[t] = <<>>) /\ ~(Len(kcalls[t]) = 2)
      <4>1. kcalls[t] \in Seq(Returning)
        BY DEF ThreadInv
      <4>2. kcalls[t] = <<>> <=> Len(kcalls[t]) = 0
        BY <4>1, Lengths
      <4> QED
        BY <1>1, <4>2
    <3> QED
      BY <1>1, <2>1, <2>2, <3>1 DEF Nesting, Top
  <2>3. CASE u # t
    BY <1>1, <2>1, <2>3 DEF Nesting, Top
  <2> QED
    BY <2>2, <2>3
<1>3. NotCalledBack'
  BY <1>1 DEF NotCalledBack
<1>4. Returned'
  BY <1>1 DEF ThreadInv, Returned, Now
<1> QED
  BY <1>1, <1>2, <1>3, <1>4 DEF ThreadInv

(* A call ends: its entry is popped.                                       *)
LEMMA ExitThread ==
  ASSUME ThreadInv, NEW t \in Threads, Exit(t)
  PROVE  ThreadInv'
<1>1. /\ pc[t] = "return" /\ pc' = [pc EXCEPT ![t] = "app"]
      /\ UNCHANGED <<ret, stray, clean>>
      /\ scStack' = [scStack EXCEPT ![t] = Pop(@)]
      /\ kcalls' = [kcalls EXCEPT ![t] = Pop(@)]
  BY DEF Exit
<1>2. /\ scStack[t] \in Seq(Entries) /\ scStack[t] # <<>>
      /\ kcalls[t] \in Seq(Returning) /\ kcalls[t] # <<>>
  BY <1>1, CallTypes
<1> DEFINE se == Pop(scStack[t])
           ke == Pop(kcalls[t])
<1>3. /\ se \in Seq(Entries) /\ Len(scStack[t]) \in Nat
      /\ Len(scStack[t]) >= 2 =>
           se # <<>> /\ se[Len(se)] = scStack[t][Len(scStack[t]) - 1]
  BY <1>2, Uncovered
<1>4. /\ ke \in Seq(Returning) /\ Len(kcalls[t]) \in Nat
      /\ Len(ke) = Len(kcalls[t]) - 1
      /\ Len(kcalls[t]) = 1 => ke = <<>>
      /\ Len(kcalls[t]) = 2 => ke[1] = kcalls[t][1]
  BY <1>2, Uncovered
<1>5. scStack'[t] = se /\ kcalls'[t] = ke
  BY <1>1 DEF ThreadInv
<1> HIDE DEF se, ke
<1>6. /\ scStack' \in [Threads -> Seq(Entries)]
      /\ kcalls' \in [Threads -> Seq(Returning)]
      /\ \A u \in Threads \ {t} : scStack'[u] = scStack[u] /\ kcalls'[u] = kcalls[u]
  <2>1. /\ \A u \in Threads \ {t} : scStack'[u] = scStack[u] /\ kcalls'[u] = kcalls[u]
        /\ scStack' = [u \in Threads |-> IF u = t THEN se ELSE scStack[u]]
        /\ kcalls' = [u \in Threads |-> IF u = t THEN ke ELSE kcalls[u]]
    BY <1>1, <1>5 DEF ThreadInv
  <2> QED
    BY <1>3, <1>4, <2>1 DEF ThreadInv
<1>7. /\ pc' \in [Threads -> {"app", "kernel", "return"}] /\ pc'[t] = "app"
      /\ \A u \in Threads \ {t} : pc'[u] = pc[u]
  BY <1>1 DEF ThreadInv
<1>8. Nesting(t)'
  <2>0. Nesting(t)
    BY DEF ThreadInv
  <2>1. \/ Len(kcalls[t]) = 1
        \/ /\ Len(kcalls[t]) = 2 /\ Len(scStack[t]) >= 2
           /\ \/ Is(scStack[t][Len(scStack[t]) - 1], kcalls[t][1])
              \/ /\ stray[t]
                 /\ scStack[t][Len(scStack[t]) - 1].state = "nosyscall"
    BY <1>1, <2>0 DEF Nesting
  <2>2. CASE Len(kcalls[t]) = 1
    BY <1>4, <1>5, <1>7, <2>2 DEF Nesting
  <2>3. CASE Len(kcalls[t]) = 2
    <3>1. Len(ke) = 1 /\ ke[1] = kcalls[t][1]
      BY <1>4, <2>3
    <3>2. /\ se # <<>>
          /\ \/ Is(se[Len(se)], ke[1])
             \/ stray'[t] /\ se[Len(se)].state = "nosyscall"
      BY <1>1, <1>3, <2>1, <2>3, <3>1
    <3> QED
      BY <1>5, <3>1, <3>2 DEF Nesting, Top
  <2> QED
    BY <2>1, <2>2, <2>3
<1>9. ASSUME NEW u \in Threads \ {t} PROVE Nesting(u)'
  BY <1>1, <1>6, <1>7 DEF ThreadInv, Nesting, Top
<1>10. NotCalledBack'
  <2> SUFFICES ASSUME clean, NEW u \in Threads
               PROVE  /\ pc'[u] = "app" => kcalls'[u] = <<>>
                      /\ pc'[u] # "app" => ~stray'[u] /\ Len(kcalls'[u]) = 1
    BY <1>1 DEF NotCalledBack
  <2>1. CASE u # t
    BY <1>1, <1>6, <1>7, <2>1 DEF ThreadInv, NotCalledBack
  <2>2. CASE u = t
    <3>1. Len(kcalls[t]) = 1
      BY <1>1 DEF ThreadInv, NotCalledBack
    <3> QED
      BY <1>4, <1>5, <1>7, <2>2, <3>1
  <2> QED
    BY <2>1, <2>2
<1>11. Returned'
  BY <1>1, <1>6, <1>7 DEF ThreadInv, Returned, Now
<1> QED
  BY <1>1, <1>6, <1>7, <1>8, <1>9, <1>10, <1>11 DEF ThreadInv

(* The steps of the kernel, and those of SyscallExit.                      *)
KernelStep(t) ==
  \/ KernelOpen(t) \/ KernelSocket(t) \/ KernelClose(t) \/ KernelDup2(t)
  \/ KernelRead(t) \/ KernelReadAt(t) \/ KernelPending(t) \/ KernelLseek(t)
  \/ KernelMmap(t) \/ KernelSection(t) \/ KernelMap(t) \/ KernelFails(t)

ExitStep(t) ==
  \/ ExitRead(t) \/ ExitRecv(t) \/ ExitSocket(t) \/ ExitOpen(t)
  \/ ExitClose(t) \/ ExitLseek(t) \/ ExitMmap(t) \/ ExitSection(t)
  \/ ExitMap(t) \/ ExitOther(t)

(* What they have in common.                                               *)
LEMMA KernelKernel ==
  ASSUME NEW t \in Threads, KernelStep(t) PROVE \E op, r : Kernel(t, op, r)
BY DEF KernelStep, KernelOpen, KernelSocket, NewDescriptor, KernelClose,
       KernelDup2, KernelRead, KernelReadAt, KernelPending, KernelLseek,
       KernelMmap, KernelSection, KernelMap, KernelFails

(* What distinguishes the system calls at their exit does not matter to    *)
(* the stacks.                                                             *)
LEMMA ExitExits ==
  ASSUME NEW t \in Threads, ExitStep(t) PROVE Exit(t)
BY DEF ExitStep, ExitRead, ExitRecv, ExitSocket, ExitOpen, ExitClose,
       ExitLseek, ExitMmap, ExitSection, ExitMap, ExitOther

(* Every step keeps the stacks.                                            *)
LEMMA ThreadNext == ThreadInv /\ [Next]_vars => ThreadInv'
<1> SUFFICES ASSUME ThreadInv, [Next]_vars PROVE ThreadInv'
  OBVIOUS
<1>1. CASE UNCHANGED vars
  BY <1>1 DEF vars, stacks, ThreadInv, Nesting, NotCalledBack, Returned, Top,
              Now
<1>2. ASSUME NEW t \in Threads, SyscallEntry(t) PROVE ThreadInv'
  BY <1>2, EntryThread
<1>3. ASSUME NEW t \in Threads, KernelStep(t) PROVE ThreadInv'
  <2>0. /\ 0 \in Nat /\ Fds \subseteq Nat /\ 0..Size \subseteq Nat
        /\ 1..Size \subseteq Nat /\ LastAddr + 1 \in Nat
    OBVIOUS
  <2>2. CASE KernelOpen(t)
    BY <2>0, <2>2, KernelThread DEF KernelOpen, NewDescriptor
  <2>3. CASE KernelSocket(t)
    BY <2>0, <2>3, KernelThread DEF KernelSocket, NewDescriptor
  <2>4. CASE KernelClose(t)
    BY <2>0, <2>4, KernelThread DEF KernelClose, NewOps
  <2>5. CASE KernelDup2(t)
    BY <2>0, <2>5, KernelThread DEF KernelDup2
  <2>6. CASE KernelRead(t)
    BY <2>0, <2>6, KernelThread DEF KernelRead, NewOps
  <2>7. CASE KernelReadAt(t)
    BY <2>0, <2>7, KernelThread DEF KernelReadAt, NewOps
  <2>8. CASE KernelPending(t)
    BY <2>0, <2>8, KernelThread DEF KernelPending
  <2>9. CASE KernelLseek(t)
    BY <2>0, <2>9, KernelThread DEF KernelLseek, NewOps
  <2>10. CASE KernelMmap(t)
    BY <2>0, <2>10, KernelThread DEF KernelMmap, NewOps
  <2>11. CASE KernelSection(t)
    BY <2>0, <2>11, KernelThread DEF KernelSection
  <2>12. CASE KernelMap(t)
    BY <2>0, <2>12, KernelThread DEF KernelMap, NewOps
  <2>13. CASE KernelFails(t)
    BY <2>0, <2>13, KernelThread DEF KernelFails
  <2> QED
    BY <1>3, <2>2, <2>3, <2>4, <2>5, <2>6, <2>7, <2>8, <2>9, <2>10, <2>11,
       <2>12, <2>13 DEF KernelStep
<1>4. ASSUME NEW t \in Threads, ExitStep(t) PROVE ThreadInv'
  BY <1>4, ExitExits, ExitThread
<1>5. ASSUME NEW t \in Threads, GetEnvWWrap(t) PROVE ThreadInv'
  <2>1. /\ UNCHANGED <<pc, ret, scStack, kcalls, stray>> /\ (clean' => clean)
    BY <1>5 DEF GetEnvWWrap, stacks
  <2> QED
    BY <2>1 DEF ThreadInv, Nesting, NotCalledBack, Returned, Top, Now
<1>6. CASE ThreadStart
  <2>1. UNCHANGED <<pc, ret, scStack, kcalls, stray, clean>>
    BY <1>6 DEF ThreadStart, stacks
  <2> QED
    BY <2>1 DEF ThreadInv, Nesting, NotCalledBack, Returned, Top, Now
<1>7. ASSUME NEW t \in Threads, KernelCallsBack(t) \/ CallbackReturns(t)
      PROVE  ThreadInv'
  BY <1>7, CallbackThread
<1> QED
  BY <1>1, <1>2, <1>3, <1>4, <1>5, <1>6, <1>7 DEF Next, KernelStep, ExitStep

(* taintPostSC sees the entry of its own call, although calls that never   *)
(* return leave theirs on the stack and calls nest within callbacks, or,   *)
(* after a callback that has ended with such a call, an entry that says    *)
(* that there is nothing to do.                                            *)
THEOREM TopTheorem == Spec => []TopIsMine
<1>1. ThreadInv => TopIsMine
  BY CallTypes DEF TopIsMine, Is, Popped
<1> QED
  BY <1>1, ThreadInit, ThreadNext, PTL DEF Spec
-----------------------------------------------------------------------------
(* Numbers.  NewBefore: the bytes among the first i of an introduction that *)
(* have no number yet.                                                     *)

NewBefore(name, off, i) ==
  {j \in 0..(i - 1) : Resource(name, off + j) \notin DOMAIN taint_mappings}

NumberTypes ==
  /\ taintnum \in Nat \ {0}
  /\ IsFiniteSet(DOMAIN taint_mappings)
  /\ taint_mappings \in [DOMAIN taint_mappings -> 1..(taintnum - 1)]
  /\ memory \in [Addrs -> 0..(taintnum - 1)]

(* Their number is a number.                                               *)
LEMMA NewBeforeType ==
  ASSUME NEW name, NEW off \in Nat, NEW i \in Nat
  PROVE  /\ IsFiniteSet(NewBefore(name, off, i))
         /\ Cardinality(NewBefore(name, off, i)) \in Nat
<1>1. IsFiniteSet(0..(i - 1))
  BY FS_Interval
<1>2. NewBefore(name, off, i) \in SUBSET (0..(i - 1))
  BY DEF NewBefore
<1> QED
  BY <1>1, <1>2, FS_Subset, FS_CardinalityType

(* A new byte has more new bytes behind it than before it.                 *)
LEMMA NewBeforeGrows ==
  ASSUME NEW name, NEW off \in Nat, NEW i \in Nat, NEW k \in Nat, i < k,
         Resource(name, off + i) \notin DOMAIN taint_mappings
  PROVE  Cardinality(NewBefore(name, off, i)) < Cardinality(NewBefore(name, off, k))
<1> DEFINE A == NewBefore(name, off, i)
           B == NewBefore(name, off, k)
<1>1. IsFiniteSet(A) /\ IsFiniteSet(B) /\ Cardinality(A) \in Nat
      /\ Cardinality(B) \in Nat
  BY NewBeforeType
<1>2. i \notin A /\ A \union {i} \in SUBSET B
  BY DEF NewBefore
<1>3. Cardinality(A \union {i}) = Cardinality(A) + 1
  BY <1>1, <1>2, FS_AddElement
<1>4. Cardinality(A \union {i}) <= Cardinality(B)
  BY <1>1, <1>2, FS_Subset
<1> QED
  BY <1>1, <1>3, <1>4

(* The new bytes of n are as many as the new resources.                    *)
LEMMA NewCount ==
  ASSUME NEW name, NEW off \in Nat, NEW n \in Nat
  PROVE  LET new == {Resource(name, off + i) : i \in 0..(n - 1)}
                      \ DOMAIN taint_mappings
         IN  /\ IsFiniteSet(new)
             /\ Cardinality(new) = Cardinality(NewBefore(name, off, n))
<1> DEFINE new == {Resource(name, off + i) : i \in 0..(n - 1)}
                    \ DOMAIN taint_mappings
           A == NewBefore(name, off, n)
           f == [j \in A |-> Resource(name, off + j)]
<1>1. IsFiniteSet(A)
  BY NewBeforeType
<1>2. f \in Bijection(A, new)
  <2>1. f \in [A -> new]
    BY DEF NewBefore
  <2>2. ASSUME NEW j \in A, NEW k \in A, f[j] = f[k] PROVE j = k
    BY <2>2 DEF NewBefore, Resource
  <2>3. ASSUME NEW r \in new PROVE \E j \in A : f[j] = r
    <3>1. PICK i \in 0..(n - 1) : r = Resource(name, off + i)
      OBVIOUS
    <3>2. i \in A
      BY <3>1 DEF NewBefore
    <3> QED
      BY <3>1, <3>2
  <2> QED
    BY <2>1, <2>2, <2>3, Fun_IsBij
<1>3. ExistsBijection(A, new)
  BY <1>2 DEF ExistsBijection
<1> QED
  BY <1>1, <1>3, FS_Bijection

(* The number an introduction gives to its i-th byte.                      *)
LEMMA TagType ==
  ASSUME NumberTypes, NEW name, NEW off \in Nat, NEW n \in Nat,
         NEW i \in 0..(n - 1)
  PROVE  /\ Tag(name, off, i) \in Nat \ {0}
         /\ Tag(name, off, i) < taintnum + Cardinality(NewBefore(name, off, n))
         /\ Resource(name, off + i) \notin DOMAIN taint_mappings
              => Tag(name, off, i) = taintnum + Cardinality(NewBefore(name, off, i))
<1>1. Cardinality(NewBefore(name, off, n)) \in Nat
      /\ Cardinality(NewBefore(name, off, i)) \in Nat
  BY NewBeforeType
<1>2. Tag(name, off, i) =
        IF Resource(name, off + i) \in DOMAIN taint_mappings
        THEN taint_mappings[Resource(name, off + i)]
        ELSE taintnum + Cardinality(NewBefore(name, off, i))
  BY DEF Tag, NewBefore
<1>3. CASE Resource(name, off + i) \in DOMAIN taint_mappings
  BY <1>1, <1>2, <1>3 DEF NumberTypes
<1>4. CASE Resource(name, off + i) \notin DOMAIN taint_mappings
  <2>1. Cardinality(NewBefore(name, off, i)) < Cardinality(NewBefore(name, off, n))
    BY <1>4, NewBeforeGrows
  <2> QED
    BY <1>1, <1>2, <1>4, <2>1 DEF NumberTypes
<1> QED
  BY <1>3, <1>4
-----------------------------------------------------------------------------
(* The trace.  Recorded says of an address what IntroRecorded does, with   *)
(* the last frame given instead of chosen.                                 *)

IntroFrames == [addr : Nat, ids : Seq(Nat)]

RecordedAt(a, i) ==
  /\ Introduces(trace[i], a)
  /\ \A j \in DOMAIN trace : Introduces(trace[j], a) => j <= i
  /\ memory[a] = trace[i].ids[a - trace[i].addr + 1]

Recorded ==
  \A a \in Addrs \ Silent :
    \/ /\ memory[a] = NOTAINT
       /\ \A i \in DOMAIN trace : ~Introduces(trace[i], a)
    \/ \E i \in DOMAIN trace : RecordedAt(a, i)

IntroInv ==
  /\ NumberTypes /\ TaintIdsDistinct
  /\ trace \in Seq(IntroFrames) /\ Recorded
  /\ intronum \in Nat /\ g_skipTaints \in Nat

(* If some frame, the last about it, says so, the trace says so.           *)
LEMMA RecordedIsEnough == IntroInv => IntroRecorded
<1> SUFFICES ASSUME IntroInv, NEW a \in Addrs \ Silent
             PROVE  memory[a] = Introduced(a)
  BY DEF IntroRecorded
<1> DEFINE at == {i \in DOMAIN trace : Introduces(trace[i], a)}
           last == CHOOSE i \in at : \A j \in at : j <= i
<1>0. DOMAIN trace \subseteq Nat
  BY DEF IntroInv
<1>1. Introduced(a) = IF at = {} THEN NOTAINT
                      ELSE trace[last].ids[a - trace[last].addr + 1]
  BY DEF Introduced
<1>2. CASE at = {}
  BY <1>1, <1>2 DEF IntroInv, Recorded, RecordedAt
<1>3. CASE at # {}
  <2>1. PICK i \in DOMAIN trace : RecordedAt(a, i)
    BY <1>3 DEF IntroInv, Recorded
  <2>2. i \in at /\ \A j \in at : j <= i
    BY <2>1 DEF RecordedAt
  <2>3. last \in at /\ \A j \in at : j <= last
    BY <2>2
  <2>4. last <= i /\ i <= last /\ last \in Nat /\ i \in Nat
    BY <1>0, <2>2, <2>3
  <2>5. last = i
    BY <2>4
  <2> QED
    BY <1>1, <1>3, <2>1, <2>5 DEF RecordedAt
<1> QED
  BY <1>2, <1>3

(* introMemTaint numbers new bytes with new numbers, one for each.         *)
LEMMA IntroNumbers ==
  ASSUME IntroInv, NEW name, NEW off \in Nat, NEW n \in Nat, NEW a \in Nat,
         introMemTaint(a, n, name, off), intronum >= g_skipTaints, n > 0
  PROVE  NumberTypes' /\ TaintIdsDistinct'
<1> DEFINE used == {Resource(name, off + i) : i \in 0..(n - 1)}
           known == DOMAIN taint_mappings
           count == Cardinality(NewBefore(name, off, n))
<1>1. /\ taint_mappings' = [r \in known \union used |->
                             IF r \in known THEN taint_mappings[r]
                                            ELSE Tag(name, off, r.off - off)]
      /\ taintnum' = taintnum + Cardinality(used \ known)
      /\ memory' = [b \in Addrs |-> IF b \in a..(a + n - 1)
                                    THEN Tag(name, off, b - a) ELSE memory[b]]
  BY DEF introMemTaint
<1>2. IsFiniteSet(used \ known) /\ Cardinality(used \ known) = count
  BY NewCount
<1>3. count \in Nat /\ taintnum' = taintnum + count
  BY <1>1, <1>2, NewBeforeType
<1> HIDE DEF count
<1>4. ASSUME NEW r \in used
      PROVE  \E j \in 0..(n - 1) : r = Resource(name, off + j) /\ r.off - off = j
  <2>1. PICK i \in 0..(n - 1) : r = Resource(name, off + i)
    OBVIOUS
  <2> QED
    BY <2>1 DEF Resource
<1>0. NumberTypes /\ TaintIdsDistinct /\ taintnum \in Nat \ {0}
  BY DEF IntroInv, NumberTypes
<1>5. ASSUME NEW i \in 0..(n - 1)
      PROVE  Tag(name, off, i) \in 1..(taintnum + count - 1)
  <2>1. /\ Tag(name, off, i) \in Nat \ {0}
        /\ Tag(name, off, i) < taintnum + count
    BY <1>0, TagType DEF count
  <2> QED
    BY <1>0, <1>3, <2>1
<1>6. ASSUME NEW r \in used \ known
      PROVE  \E j \in 0..(n - 1) :
               /\ r = Resource(name, off + j)
               /\ taint_mappings'[r] = taintnum + Cardinality(NewBefore(name, off, j))
               /\ Cardinality(NewBefore(name, off, j)) \in Nat
               /\ taint_mappings'[r] \in taintnum..(taintnum + count - 1)
  <2>1. PICK j \in 0..(n - 1) : r = Resource(name, off + j) /\ r.off - off = j
    BY <1>4
  <2>2. taint_mappings'[r] = Tag(name, off, j)
    BY <1>1, <2>1
  <2>3. Tag(name, off, j) = taintnum + Cardinality(NewBefore(name, off, j))
    <3>1. Resource(name, off + j) \notin DOMAIN taint_mappings
      BY <2>1
    <3> HIDE DEF used, known
    <3> QED
      BY <1>0, <3>1, TagType
  <2>4. Cardinality(NewBefore(name, off, j)) \in Nat
    BY NewBeforeType
  <2>5. Tag(name, off, j) \in 1..(taintnum + count - 1)
    BY <1>5
  <2>6. taint_mappings'[r] \in taintnum..(taintnum + count - 1)
    BY <1>0, <1>3, <2>2, <2>3, <2>4, <2>5
  <2> QED
    BY <2>1, <2>2, <2>3, <2>4, <2>6
<1>7. ASSUME NEW r \in known
      PROVE  /\ taint_mappings'[r] = taint_mappings[r]
             /\ taint_mappings[r] \in 1..(taintnum - 1)
  BY <1>0, <1>1 DEF NumberTypes
<1>8. DOMAIN taint_mappings' = known \union used
      /\ known \union used = known \union (used \ known)
  BY <1>1
<1>9. ASSUME NEW r \in known \union used, NEW s \in known \union used,
             taint_mappings'[r] = taint_mappings'[s]
      PROVE  r = s
  <2>1. CASE r \in known /\ s \in known
    BY <1>0, <1>7, <1>9, <2>1 DEF TaintIdsDistinct
  <2>2. CASE r \in known /\ s \notin known
    <3>1. taint_mappings'[s] \in taintnum..(taintnum + count - 1)
      BY <1>6, <2>2
    <3> QED
      BY <1>0, <1>3, <1>7, <1>9, <2>2, <3>1
  <2>3. CASE r \notin known /\ s \in known
    <3>1. taint_mappings'[r] \in taintnum..(taintnum + count - 1)
      BY <1>6, <2>3
    <3> QED
      BY <1>0, <1>3, <1>7, <1>9, <2>3, <3>1
  <2>4. CASE r \notin known /\ s \notin known
    <3>1. PICK i \in 0..(n - 1) :
            /\ r = Resource(name, off + i)
            /\ taint_mappings'[r] = taintnum + Cardinality(NewBefore(name, off, i))
            /\ Cardinality(NewBefore(name, off, i)) \in Nat
      BY <1>6, <2>4
    <3>2. PICK k \in 0..(n - 1) :
            /\ s = Resource(name, off + k)
            /\ taint_mappings'[s] = taintnum + Cardinality(NewBefore(name, off, k))
            /\ Cardinality(NewBefore(name, off, k)) \in Nat
      BY <1>6, <2>4
    <3>3. Cardinality(NewBefore(name, off, i)) = Cardinality(NewBefore(name, off, k))
      BY <1>0, <1>9, <3>1, <3>2
    <3>4. ~(i < k)
      BY <2>4, <3>1, <3>2, <3>3, NewBeforeGrows
    <3>5. ~(k < i)
      BY <2>4, <3>1, <3>2, <3>3, NewBeforeGrows
    <3>6. i = k
      BY <3>4, <3>5
    <3> QED
      BY <3>1, <3>2, <3>6
  <2> QED
    BY <2>1, <2>2, <2>3, <2>4
<1>10. IsFiniteSet(known \union used)
  BY <1>0, <1>2, <1>8, FS_Union DEF NumberTypes
<1>11. ASSUME NEW r \in known \union used
       PROVE  taint_mappings'[r] \in 1..(taintnum' - 1)
  <2>1. CASE r \in known
    BY <1>0, <1>3, <1>7, <2>1
  <2>2. CASE r \notin known
    <3>1. taint_mappings'[r] \in taintnum..(taintnum + count - 1)
      BY <1>6, <2>2
    <3> QED
      BY <1>0, <1>3, <3>1
  <2> QED
    BY <2>1, <2>2
<1>12. memory' \in [Addrs -> 0..(taintnum' - 1)]
  <2>1. ASSUME NEW b \in Addrs PROVE memory'[b] \in 0..(taintnum' - 1)
    <3>1. CASE b \in a..(a + n - 1)
      <4>1. PICK j \in 0..(n - 1) : j = b - a
        BY <3>1 DEF Addrs
      <4>2. memory'[b] = Tag(name, off, j)
        BY <1>1, <3>1, <4>1
      <4>3. Tag(name, off, j) \in 1..(taintnum + count - 1)
        BY <1>5
      <4> QED
        BY <1>0, <1>3, <4>2, <4>3
    <3>2. CASE b \notin a..(a + n - 1)
      <4>1. memory'[b] = memory[b] /\ memory[b] \in 0..(taintnum - 1)
        BY <1>0, <1>1, <3>2 DEF NumberTypes
      <4> QED
        BY <1>0, <1>3, <4>1
    <3> QED
      BY <3>1, <3>2
  <2> QED
    BY <1>1, <2>1
<1>13. NumberTypes'
  <2>1. taint_mappings' \in [DOMAIN taint_mappings' -> 1..(taintnum' - 1)]
    BY <1>1, <1>8, <1>11
  <2>2. taintnum' \in Nat \ {0}
    BY <1>3, SMTT(30) DEF IntroInv, NumberTypes
  <2> QED
    BY <1>8, <1>10, <1>12, <2>1, <2>2 DEF NumberTypes
<1>14. ASSUME NEW b \in Addrs, NEW c \in Addrs, b # c,
              memory'[b] = memory'[c], memory'[b] # NOTAINT
       PROVE  \E r \in DOMAIN taint_mappings' : taint_mappings'[r] = memory'[b]
  <2>1. ASSUME NEW e \in Addrs, e \in a..(a + n - 1)
        PROVE  \E r \in DOMAIN taint_mappings' : taint_mappings'[r] = memory'[e]
    <3>1. PICK j \in 0..(n - 1) : j = e - a
      BY <2>1 DEF Addrs
    <3>2. PICK r \in used : r = Resource(name, off + j)
      OBVIOUS
    <3>6. r.off - off = j
      BY <3>2 DEF Resource
    <3>3. memory'[e] = Tag(name, off, j)
      BY <1>1, <2>1, <3>1
    <3>4. r \in DOMAIN taint_mappings' /\ taint_mappings'[r] =
            IF r \in known THEN taint_mappings[r] ELSE Tag(name, off, j)
      BY <1>1, <3>2, <3>6
    <3>5. Tag(name, off, j) = IF r \in known THEN taint_mappings[r]
                              ELSE Tag(name, off, j)
      BY <3>2 DEF Tag
    <3> QED
      BY <3>3, <3>4, <3>5
  <2>2. CASE b \in a..(a + n - 1)
    BY <2>1, <2>2
  <2>3. CASE c \in a..(a + n - 1)
    BY <1>14, <2>1, <2>3
  <2>4. CASE b \notin a..(a + n - 1) /\ c \notin a..(a + n - 1)
    <3>1. memory'[b] = memory[b] /\ memory'[c] = memory[c]
      BY <1>1, <2>4
    <3>2. PICK r \in known : taint_mappings[r] = memory[b]
      BY <1>0, <1>14, <3>1 DEF TaintIdsDistinct
    <3> QED
      BY <1>7, <1>8, <3>1, <3>2
  <2> QED
    BY <2>2, <2>3, <2>4
<1>15. \A r \in DOMAIN taint_mappings' : taint_mappings'[r] < taintnum'
  BY <1>8, <1>11, <1>13 DEF NumberTypes
<1>16. TaintIdsDistinct'
  BY <1>8, <1>9, <1>14, <1>15 DEF TaintIdsDistinct
<1> QED
  BY <1>13, <1>16
(* A frame records what an introduction does to the memory.                *)
LEMMA FrameRecords ==
  ASSUME IntroInv, NEW f \in IntroFrames, trace' = Append(trace, f),
         Silent' = Silent,
         \A b \in Addrs : memory'[b] = IF Introduces(f, b)
                                      THEN f.ids[b - f.addr + 1] ELSE memory[b]
  PROVE  trace' \in Seq(IntroFrames) /\ Recorded'
<1>0. trace \in Seq(IntroFrames)
  BY DEF IntroInv
<1>3. /\ trace' \in Seq(IntroFrames) /\ Len(trace') = Len(trace) + 1
      /\ \A i \in 1..Len(trace) : trace'[i] = trace[i]
      /\ trace'[Len(trace) + 1] = f
  BY <1>0, AppendProperties
<1>4. DOMAIN trace = 1..Len(trace) /\ DOMAIN trace' = 1..(Len(trace) + 1)
      /\ Len(trace) \in Nat
  BY <1>0, <1>3
<1>5. ASSUME NEW b \in Addrs \ Silent
      PROVE  \/ /\ memory'[b] = NOTAINT
                /\ \A i \in DOMAIN trace' : ~Introduces(trace'[i], b)
             \/ \E i \in DOMAIN trace' : RecordedAt(b, i)'
  <2>0. b \in Nat
    BY DEF Addrs
  <2>1. CASE Introduces(f, b)
    <3>1. Introduces(f, b)
      BY <2>1
    <3>2. memory'[b] = f.ids[b - f.addr + 1]
      BY <2>1
    <3>3. PICK last \in DOMAIN trace' :
            last = Len(trace) + 1 /\ \A j \in DOMAIN trace' : j <= last
      BY <1>4
    <3>4. trace'[last] = f
      BY <1>3, <3>3
    <3>5. RecordedAt(b, last)'
      BY <3>1, <3>2, <3>3, <3>4 DEF RecordedAt
    <3> QED
      BY <3>3, <3>5
  <2>2. CASE ~Introduces(f, b)
    <3>1. ~Introduces(f, b) /\ memory'[b] = memory[b]
      BY <2>2
    <3>2. CASE memory[b] = NOTAINT /\ \A i \in DOMAIN trace : ~Introduces(trace[i], b)
      BY <1>3, <1>4, <3>1, <3>2
    <3>3. ASSUME NEW i \in DOMAIN trace, RecordedAt(b, i)
          PROVE  RecordedAt(b, i)'
      BY <1>3, <1>4, <3>1, <3>3 DEF RecordedAt
    <3> QED
      BY <1>4, <3>2, <3>3 DEF IntroInv, Recorded
  <2> QED
    BY <2>1, <2>2
<1> QED
  BY <1>3, <1>5 DEF Recorded

(* The frame of introMemTaint does so.                                     *)
LEMMA IntroRecords ==
  ASSUME IntroInv, NEW name, NEW off \in Nat, NEW n \in Nat, NEW a \in Nat,
         introMemTaint(a, n, name, off), intronum >= g_skipTaints, n > 0,
         Silent' = Silent
  PROVE  trace' \in Seq(IntroFrames) /\ Recorded'
<1> DEFINE f == Frame(a, n, name, off)
<1>0. NumberTypes
  BY DEF IntroInv
<1>1. /\ trace' = Append(trace, f)
      /\ memory' = [b \in Addrs |-> IF b \in a..(a + n - 1)
                                    THEN Tag(name, off, b - a) ELSE memory[b]]
  BY DEF introMemTaint
<1>2. /\ f.addr = a /\ Len(f.ids) = n /\ f \in IntroFrames
      /\ \A i \in 1..n : f.ids[i] = Tag(name, off, i - 1)
  <2>1. ASSUME NEW i \in 1..n PROVE Tag(name, off, i - 1) \in Nat
    <3>1. i - 1 \in 0..(n - 1)
      OBVIOUS
    <3> QED
      BY <1>0, <3>1, TagType
  <2>2. [i \in 1..n |-> Tag(name, off, i - 1)] \in Seq(Nat)
    BY <2>1
  <2> QED
    BY <2>2 DEF Frame, IntroFrames
<1> HIDE DEF f
<1>3. \A b \in Addrs : memory'[b] = IF b \in a..(a + n - 1)
                                    THEN f.ids[b - a + 1] ELSE memory[b]
  <2>1. ASSUME NEW b \in Addrs, b \in a..(a + n - 1)
        PROVE  Tag(name, off, b - a) = f.ids[b - a + 1]
    <3>1. PICK i \in 1..n : i = b - a + 1 /\ i - 1 = b - a
      BY <2>1 DEF Addrs
    <3>2. f.ids[i] = Tag(name, off, i - 1)
      BY <1>2
    <3> QED
      BY <3>1, <3>2
  <2> QED
    BY <1>1, <2>1
<1>4. \A b \in Addrs : Introduces(f, b) <=> b \in a..(a + n - 1)
  BY <1>2 DEF Introduces
<1>5. f \in IntroFrames /\ f.addr = a
  BY <1>2
<1> QED
  BY <1>1, <1>3, <1>4, <1>5, FrameRecords

(* introFresh gives numbers that nothing has, and records them if it is to *)
(* be reported.                                                            *)
LEMMA FreshStep ==
  ASSUME IntroInv, NEW n \in Nat, NEW a \in Nat, NEW reported \in BOOLEAN,
         introFresh(a, n, reported), UNCHANGED g_skipTaints, Silent' = Silent,
         ~reported => \A b \in a..(a + n - 1) : b \in Silent
  PROVE  IntroInv'
<1>1. intronum' \in Nat /\ g_skipTaints' \in Nat /\ UNCHANGED taint_mappings
  BY DEF IntroInv, introFresh
<1>2. CASE intronum >= g_skipTaints /\ n > 0
  <2>1. /\ taintnum' = taintnum + n
        /\ \A b \in Addrs : memory'[b] = IF b \in a..(a + n - 1)
                                       THEN taintnum + (b - a) ELSE memory[b]
        /\ memory' = [b \in Addrs |-> memory'[b]]
    BY <1>2 DEF introFresh
  <2>2. /\ NumberTypes /\ TaintIdsDistinct /\ taintnum \in Nat \ {0}
        /\ \A b \in Addrs : memory[b] \in 0..(taintnum - 1)
        /\ \A r \in DOMAIN taint_mappings : taint_mappings[r] \in 1..(taintnum - 1)
    BY DEF IntroInv, NumberTypes
  <2>3. \A b \in Addrs : b \in Nat
    BY DEF Addrs
  <2>4. NumberTypes'
    <3>1. ASSUME NEW b \in Addrs PROVE memory'[b] \in 0..(taintnum' - 1)
      BY <2>1, <2>2, <2>3
    <3>2. memory' \in [Addrs -> 0..(taintnum' - 1)]
      BY <2>1, <3>1
    <3>3. \A r \in DOMAIN taint_mappings : taint_mappings[r] \in 1..(taintnum' - 1)
      BY <2>1, <2>2
    <3>4. taint_mappings' \in [DOMAIN taint_mappings' -> 1..(taintnum' - 1)]
      BY <1>1, <2>2, <3>3 DEF NumberTypes
    <3> QED
      BY <1>1, <2>1, <2>2, <3>2, <3>4 DEF NumberTypes
  <2>5. TaintIdsDistinct'
    <3>1. ASSUME NEW b \in Addrs, NEW c \in Addrs, b # c, memory'[b] = memory'[c],
                 memory'[b] # NOTAINT
          PROVE  memory[b] = memory[c] /\ memory'[b] = memory[b]
      BY <2>1, <2>2, <2>3, <3>1
    <3>2. ASSUME NEW b \in Addrs, NEW c \in Addrs, b # c, memory'[b] = memory'[c],
                 memory'[b] # NOTAINT
          PROVE  \E r \in DOMAIN taint_mappings : taint_mappings[r] = memory'[b]
      BY <2>2, <3>1, <3>2 DEF TaintIdsDistinct
    <3>3. \A r \in DOMAIN taint_mappings : taint_mappings[r] < taintnum'
      BY <2>1, <2>2
    <3> QED
      BY <1>1, <2>2, <3>2, <3>3 DEF TaintIdsDistinct
  <2>6. trace' \in Seq(IntroFrames) /\ Recorded'
    <3>1. CASE reported
      <4> DEFINE f == [addr |-> a, ids |-> [i \in 1..n |-> taintnum + i - 1]]
      <4>1. trace' = Append(trace, f)
        BY <1>2, <3>1 DEF introFresh
      <4>2. f.addr = a /\ Len(f.ids) = n /\ f \in IntroFrames
            /\ \A i \in 1..n : f.ids[i] = taintnum + i - 1
        <5>1. \A i \in 1..n : taintnum + i - 1 \in Nat
          BY <2>2
        <5>2. [i \in 1..n |-> taintnum + i - 1] \in Seq(Nat)
          BY <5>1
        <5> QED
          BY <5>2 DEF IntroFrames
      <4> HIDE DEF f
      <4>3. \A b \in Addrs : memory'[b] = IF b \in a..(a + n - 1)
                                          THEN f.ids[b - a + 1] ELSE memory[b]
        <5>1. ASSUME NEW b \in Addrs, b \in a..(a + n - 1)
              PROVE  taintnum + (b - a) = f.ids[b - a + 1]
          <6>1. b - a + 1 \in 1..n /\ taintnum + (b - a) = taintnum + (b - a + 1) - 1
            BY <2>2, <2>3, <5>1
          <6> QED
            BY <4>2, <6>1
        <5> QED
          BY <2>1, <5>1
      <4>4. f \in IntroFrames /\ f.addr = a
        BY <4>2
      <4>5. \A b \in Addrs : Introduces(f, b) <=> b \in a..(a + n - 1)
        BY <4>2 DEF Introduces
      <4> QED
        BY <4>1, <4>3, <4>4, <4>5, FrameRecords
    <3>2. CASE ~reported
      <4>1. trace' = trace
        BY <1>2, <3>2 DEF introFresh
      <4>2. \A b \in Addrs \ Silent : memory'[b] = memory[b]
        BY <2>1, <3>2
      <4> QED
        BY <4>1, <4>2 DEF IntroInv, Recorded, RecordedAt
    <3> QED
      BY <3>1, <3>2
  <2> QED
    BY <1>1, <2>4, <2>5, <2>6 DEF IntroInv
<1>3. CASE ~(intronum >= g_skipTaints /\ n > 0)
  <2>1. UNCHANGED <<taintnum, taint_mappings, memory, trace>>
    BY <1>3 DEF introFresh
  <2> QED
    BY <1>1, <2>1, SMTT(30) DEF IntroInv, NumberTypes, TaintIdsDistinct, Recorded, RecordedAt
<1> QED
  BY <1>2, <1>3

(* introMemTaint as a whole, also when it does nothing.                    *)
LEMMA IntroStep ==
  ASSUME IntroInv, NEW name, NEW off \in Nat, NEW n \in Nat, NEW a \in Nat,
         introMemTaint(a, n, name, off), UNCHANGED g_skipTaints, Silent' = Silent
  PROVE  IntroInv'
<1>1. intronum' \in Nat /\ g_skipTaints' \in Nat
  BY SMTT(30) DEF IntroInv, introMemTaint
<1>2. CASE intronum >= g_skipTaints /\ n > 0
  BY <1>1, <1>2, IntroNumbers, IntroRecords DEF IntroInv
<1>3. CASE ~(intronum >= g_skipTaints /\ n > 0)
  <2>1. UNCHANGED <<taintnum, taint_mappings, memory, trace>>
    BY <1>3 DEF introMemTaint
  <2> QED
    BY <1>1, <2>1, SMTT(30) DEF IntroInv, NumberTypes, TaintIdsDistinct, Recorded, RecordedAt
<1> QED
  BY <1>2, <1>3

-----------------------------------------------------------------------------
(* All types together.                                                     *)

FdsTypes ==
  /\ DOMAIN fds \subseteq Fds /\ fds \in [DOMAIN fds -> [name : Names, off : Nat]]
  /\ sections \subseteq Fds

KernelTypes ==
  /\ ofds \in Seq(OpenFiles)
  /\ DOMAIN kfds \subseteq Fds /\ kfds \in [DOMAIN kfds -> DOMAIN ofds]
  /\ DOMAIN ksections \subseteq Fds /\ ksections \in [DOMAIN ksections -> Files]
  /\ content \in [Addrs -> Bytes]

(* What ThreadStart introduces without a frame is in Silent.               *)
StartupTypes ==
  /\ startup \in Seq([region : Region, reported : BOOLEAN])
  /\ \A i \in DOMAIN startup :
       ~startup[i].reported =>
         startup[i].region = EnvVar /\ taint_env /\ ~windows

OtherTypes ==
  /\ calls \in 0..MaxCalls
  /\ {taint_stdin, taint_net, taint_env, windows, clean} \subseteq BOOLEAN
  /\ ops \subseteq Ops
  /\ status \in {"running", "fd assertion", "copy assertion", "mmap assertion"}

TypeInv ==
  ThreadInv /\ IntroInv /\ FdsTypes /\ KernelTypes /\ StartupTypes /\ OtherTypes

(* The invariant gives the types.                                          *)
LEMMA TypeInvIsEnough == TypeInv => TypeOK
<1> SUFFICES ASSUME TypeInv PROVE TypeOK
  OBVIOUS
<1>1. taintnum \in Nat \ {0} /\ memory \in [Addrs -> 0..(taintnum - 1)]
      /\ taint_mappings \in [DOMAIN taint_mappings -> 1..(taintnum - 1)]
  BY DEF TypeInv, IntroInv, NumberTypes
<1>2. memory \in [Addrs -> Tags] /\ 1..(taintnum - 1) \subseteq Tags \ {NOTAINT}
  BY <1>1 DEF Tags, NOTAINT
<1>3. taint_mappings \in [DOMAIN taint_mappings -> Tags \ {NOTAINT}]
  BY <1>1, <1>2
<1> QED
  BY <1>1, <1>2, <1>3
     DEF TypeInv, ThreadInv, IntroInv, FdsTypes, KernelTypes, StartupTypes,
         OtherTypes, TypeOK

(* Steps that touch no taint keep what is introduced.                      *)
LEMMA SameIntro ==
  ASSUME IntroInv,
         UNCHANGED <<taintnum, taint_mappings, memory, intronum, trace,
                     g_skipTaints, taint_env, windows>>
  PROVE  IntroInv'
BY DEF IntroInv, NumberTypes, TaintIdsDistinct, Recorded, RecordedAt, Silent

(* What ThreadStart will introduce is known at the start.                  *)
LEMMA StartupInit == Init => StartupTypes
<1> SUFFICES ASSUME Init PROVE StartupTypes
  OBVIOUS
<1>1. PICK setup \in Setups :
        /\ taint_env = setup.env /\ windows = setup.windows
        /\ startup = Startup(setup)
  BY DEF Init
<1> DEFINE Intros == [region : Region, reported : BOOLEAN]
           arguments == IF setup.args
                        THEN [i \in DOMAIN Arguments |->
                                [region |-> Arguments[i], reported |-> TRUE]]
                        ELSE <<>>
           variable == IF setup.env /\ ~setup.windows
                       THEN <<[region |-> EnvVar, reported |-> FALSE]>> ELSE <<>>
<1>2. Arguments \in Seq(Region) /\ EnvVar \in Region
  BY SyscallAssumption
<1>3. arguments \in Seq(Intros) /\ \A i \in DOMAIN arguments : arguments[i].reported
  <2>1. ASSUME NEW i \in DOMAIN Arguments
        PROVE  [region |-> Arguments[i], reported |-> TRUE] \in Intros
    BY <1>2, ElementOfSeq
  <2>2. /\ DOMAIN Arguments = 1..Len(Arguments) /\ Len(Arguments) \in Nat
    BY <1>2
  <2>3. [i \in DOMAIN Arguments |-> [region |-> Arguments[i], reported |-> TRUE]]
          \in Seq(Intros)
    BY <2>1, <2>2
  <2> QED
    BY <2>3
<1>4. /\ variable \in Seq(Intros)
      /\ \A i \in DOMAIN variable :
           variable[i].region = EnvVar /\ taint_env /\ ~windows
  <2>1. CASE setup.env /\ ~setup.windows
    <3>1. PICK e \in Intros : e = [region |-> EnvVar, reported |-> FALSE]
      BY <1>2
    <3>2. variable = <<e>> /\ e.region = EnvVar
      BY <2>1, <3>1
    <3> HIDE DEF variable, Intros
    <3>3. variable \in Seq(Intros) /\ DOMAIN variable = {1}
      BY <3>2
    <3>4. variable[1].region = EnvVar
      BY <3>2
    <3> QED
      BY <1>1, <2>1, <3>3, <3>4
  <2>2. CASE ~(setup.env /\ ~setup.windows)
    <3>1. variable = <<>>
      BY <2>2
    <3> QED
      BY <3>1
  <2> QED
    BY <2>1, <2>2
<1>5. startup = arguments \o variable
  BY <1>1 DEF Startup
<1> HIDE DEF arguments, variable
<1>6. /\ startup \in Seq(Intros)
      /\ \A i \in DOMAIN startup :
           \/ \E j \in DOMAIN arguments : startup[i] = arguments[j]
           \/ \E j \in DOMAIN variable : startup[i] = variable[j]
  <2>1. /\ startup \in Seq(Intros)
        /\ Len(startup) = Len(arguments) + Len(variable)
        /\ \A i \in 1..(Len(arguments) + Len(variable)) :
             startup[i] = IF i <= Len(arguments) THEN arguments[i]
                          ELSE variable[i - Len(arguments)]
    BY <1>3, <1>4, <1>5, ConcatProperties
  <2>2. /\ DOMAIN startup = 1..(Len(arguments) + Len(variable))
        /\ DOMAIN arguments = 1..Len(arguments)
        /\ DOMAIN variable = 1..Len(variable)
        /\ Len(arguments) \in Nat /\ Len(variable) \in Nat
    BY <1>3, <1>4, <2>1
  <2>3. ASSUME NEW i \in DOMAIN startup, i <= Len(arguments)
        PROVE  i \in DOMAIN arguments /\ startup[i] = arguments[i]
    <3>1. i \in 1..(Len(arguments) + Len(variable)) /\ i \in 1..Len(arguments)
      BY <2>2, <2>3
    <3> QED
      BY <2>1, <2>2, <2>3, <3>1
  <2>4. ASSUME NEW i \in DOMAIN startup, ~(i <= Len(arguments))
        PROVE  /\ i - Len(arguments) \in DOMAIN variable
               /\ startup[i] = variable[i - Len(arguments)]
    <3>1. /\ i \in 1..(Len(arguments) + Len(variable))
          /\ i - Len(arguments) \in 1..Len(variable)
      BY <2>2, <2>4
    <3> QED
      BY <2>1, <2>2, <2>4, <3>1
  <2> QED
    BY <2>1, <2>3, <2>4
<1> QED
  BY <1>3, <1>4, <1>6 DEF StartupTypes

(* All types hold at the start.                                            *)
LEMMA TypeInit == Init => TypeInv
<1> SUFFICES ASSUME Init PROVE TypeInv
  OBVIOUS
<1>1. PICK setup \in Setups :
        /\ g_skipTaints = setup.skip /\ taint_stdin = setup.stdin
        /\ taint_net = setup.net /\ taint_env = setup.env
        /\ windows = setup.windows /\ ops = setup.ops
  BY DEF Init
<1>2. /\ g_skipTaints \in Nat /\ ops \subseteq Ops
      /\ {taint_stdin, taint_net, taint_env, windows} \subseteq BOOLEAN
  <2>1. setup \in [skip : Nat, stdin : BOOLEAN, net : BOOLEAN, args : BOOLEAN,
                   env : BOOLEAN, windows : BOOLEAN, ops : SUBSET Ops]
    BY SyscallAssumption DEF SetupType
  <2> QED
    BY <1>1, <2>1
<1>3. NumberTypes /\ TaintIdsDistinct
  <2>1. DOMAIN taint_mappings = {} /\ taintnum = 1
    BY DEF Init
  <2> QED
    BY <2>1, FS_EmptySet DEF Init, NumberTypes, TaintIdsDistinct, NOTAINT
<1>4. trace \in Seq(IntroFrames) /\ Recorded
  BY DEF Init, Recorded
<1>5. FdsTypes
  BY DEF Init, FdsTypes, Names
<1>6. KernelTypes
  <2>1. [file |-> "stdin", off |-> 0] \in OpenFiles
    BY DEF OpenFiles
  <2>2. ofds \in Seq(OpenFiles) /\ DOMAIN ofds = {1}
    BY <2>1 DEF Init
  <2>3. NoByte \in Bytes
    BY DEF NoByte, Bytes
  <2> QED
    BY <2>2, <2>3 DEF Init, KernelTypes
<1>7. OtherTypes
  BY <1>2 DEF Init, OtherTypes
<1> QED
  BY <1>2, <1>3, <1>4, <1>5, <1>6, <1>7, ThreadInit, StartupInit
     DEF Init, TypeInv, IntroInv

(* One more descriptor, and one less.                                      *)
LEMMA WithTypes ==
  ASSUME NEW Ids, NEW f, f \in [DOMAIN f -> Ids], DOMAIN f \subseteq Fds,
         NEW x \in Fds, NEW v \in Ids, NEW g, g = With(f, x, v)
  PROVE  DOMAIN g \subseteq Fds /\ g \in [DOMAIN g -> Ids]
<1>1. DOMAIN g = DOMAIN f \union {x} /\ DOMAIN g \subseteq Fds
  BY DEF With
<1>2. \A y \in DOMAIN g : g[y] = IF y = x THEN v ELSE f[y]
  BY <1>1 DEF With
<1>3. \A y \in DOMAIN g : g[y] \in Ids
  BY <1>1, <1>2
<1>4. g = [y \in DOMAIN g |-> g[y]]
  BY <1>1 DEF With
<1> QED
  BY <1>1, <1>3, <1>4

(* A function with one point taken away keeps its type.                    *)
LEMMA WithoutTypes ==
  ASSUME NEW Ids, NEW f, f \in [DOMAIN f -> Ids], DOMAIN f \subseteq Fds, NEW x,
         NEW g, g = Without(f, x)
  PROVE  DOMAIN g \subseteq Fds /\ g \in [DOMAIN g -> Ids]
BY DEF Without

(* A descriptor of the tracker.                                            *)
LEMMA FdsWith ==
  ASSUME FdsTypes, NEW x \in Fds, NEW v \in [name : Names, off : Nat],
         fds' = With(fds, x, v), sections' \subseteq Fds
  PROVE  FdsTypes'
<1>1. fds \in [DOMAIN fds -> [name : Names, off : Nat]] /\ DOMAIN fds \subseteq Fds
  BY DEF FdsTypes
<1>2. DOMAIN fds' \subseteq Fds /\ fds' \in [DOMAIN fds' -> [name : Names, off : Nat]]
  BY <1>1, WithTypes
<1> QED
  BY <1>2 DEF FdsTypes

(* The offset of an open file moves.                                       *)
LEMMA OffsetTypes ==
  ASSUME KernelTypes, NEW d \in DOMAIN kfds, NEW o \in 0..Size,
         ofds' = [ofds EXCEPT ![kfds[d]].off = o], UNCHANGED kfds
  PROVE  /\ ofds' \in Seq(OpenFiles) /\ DOMAIN kfds' \subseteq Fds
         /\ kfds' \in [DOMAIN kfds' -> DOMAIN ofds']
<1>0. /\ ofds \in Seq(OpenFiles) /\ DOMAIN kfds \subseteq Fds
      /\ kfds \in [DOMAIN kfds -> DOMAIN ofds]
  BY DEF KernelTypes
<1>1. kfds[d] \in DOMAIN ofds /\ ofds[kfds[d]] \in OpenFiles
  BY <1>0
<1>2. [ofds[kfds[d]] EXCEPT !.off = o] \in OpenFiles
  BY <1>1 DEF OpenFiles
<1>3. ofds' \in Seq(OpenFiles) /\ DOMAIN ofds' = DOMAIN ofds
  BY <1>0, <1>1, <1>2
<1> QED
  BY <1>0, <1>3

(* Bytes are read.                                                         *)
LEMMA FillsTypes ==
  ASSUME KernelTypes, NEW t \in Threads, Now(t) \in Calls,
         Now(t).fd \in DOMAIN kfds, NEW n \in Nat, NEW off \in Nat, Fills(t, n, off)
  PROVE  KernelTypes'
<1> DEFINE id == kfds[Now(t).fd]
           file == ofds[id]
           a == Now(t).addr
<1>1. /\ off + n <= Size /\ UNCHANGED <<kfds, ksections>>
      /\ ofds' = [ofds EXCEPT ![id].off = off + n]
      /\ content' = [b \in Addrs |-> IF b \in a..(a + n - 1)
                                     THEN [name |-> file.file, off |-> off + b - a]
                                     ELSE content[b]]
  BY DEF Fills
<1>2. id \in DOMAIN ofds /\ file \in OpenFiles /\ a \in Nat
  BY DEF KernelTypes, Calls, Addrs
<1>3. file.file \in Files \union SocketNames /\ off + n \in 0..Size
  BY <1>1, <1>2 DEF OpenFiles
<1>4. content' \in [Addrs -> Bytes]
  <2>1. ASSUME NEW b \in Addrs, b \in a..(a + n - 1)
        PROVE  [name |-> file.file, off |-> off + b - a] \in Bytes
    <3>1. off + b - a \in Nat
      BY <1>2, <2>1 DEF Addrs
    <3> QED
      BY <1>3, <3>1 DEF Bytes, Names
  <2> QED
    BY <1>1, <2>1 DEF KernelTypes
<1> QED
  BY <1>1, <1>3, <1>4, OffsetTypes DEF KernelTypes

(* The kernel's steps keep its types.                                      *)
LEMMA KernelKeepsTypes ==
  ASSUME TypeInv, NEW t \in Threads, KernelStep(t)
  PROVE  KernelTypes'
<1>1. PICK op, r : Kernel(t, op, r)
  BY KernelKernel
<1>2. Now(t) \in Calls
  BY <1>1, CallTypes DEF Kernel, TypeInv
<1>0. KernelTypes
  BY DEF TypeInv
<1>3. /\ ofds \in Seq(OpenFiles) /\ content \in [Addrs -> Bytes]
      /\ DOMAIN kfds \subseteq Fds /\ kfds \in [DOMAIN kfds -> DOMAIN ofds]
      /\ DOMAIN ksections \subseteq Fds /\ ksections \in [DOMAIN ksections -> Files]
  BY <1>0 DEF KernelTypes
<1>4. ASSUME NEW op2, NEW file \in Files \union SocketNames,
             NewDescriptor(t, op2, file)
      PROVE  KernelTypes'
  <2>1. PICK d \in Fds :
          /\ ofds' = Append(ofds, [file |-> file, off |-> 0])
          /\ kfds' = With(kfds, d, Len(ofds) + 1)
          /\ UNCHANGED <<ksections, content>>
    BY <1>4 DEF NewDescriptor
  <2>2. [file |-> file, off |-> 0] \in OpenFiles
    BY DEF OpenFiles
  <2>3. ofds' \in Seq(OpenFiles) /\ DOMAIN ofds' = 1..(Len(ofds) + 1)
        /\ DOMAIN ofds = 1..Len(ofds) /\ Len(ofds) \in Nat
    BY <1>3, <2>1, <2>2
  <2>4. kfds \in [DOMAIN kfds -> DOMAIN ofds'] /\ Len(ofds) + 1 \in DOMAIN ofds'
    BY <1>3, <2>3
  <2>5. DOMAIN kfds' \subseteq Fds /\ kfds' \in [DOMAIN kfds' -> DOMAIN ofds']
    BY <1>3, <2>1, <2>4, WithTypes
  <2> QED
    BY <1>3, <2>1, <2>3, <2>5 DEF KernelTypes
<1>5. CASE KernelOpen(t)
  BY <1>2, <1>4, <1>5 DEF KernelOpen, Calls
<1>6. CASE KernelSocket(t)
  BY <1>4, <1>6 DEF KernelSocket, SocketNames
<1>7. CASE KernelClose(t)
  <2>1. /\ kfds' = Without(kfds, Now(t).fd)
        /\ ksections' = Without(ksections, Now(t).fd) /\ UNCHANGED <<ofds, content>>
    BY <1>7 DEF KernelClose
  <2>2. /\ DOMAIN kfds' \subseteq Fds /\ kfds' \in [DOMAIN kfds' -> DOMAIN ofds]
        /\ DOMAIN ksections' \subseteq Fds
        /\ ksections' \in [DOMAIN ksections' -> Files]
    BY <1>3, <2>1, WithoutTypes
  <2> QED
    BY <1>3, <2>1, <2>2 DEF KernelTypes
<1>8. CASE KernelDup2(t)
  <2>1. PICK d \in Fds : /\ Now(t).fd \in DOMAIN kfds
                         /\ kfds' = With(kfds, d, kfds[Now(t).fd])
                         /\ UNCHANGED <<ksections, ofds, content>>
    BY <1>8 DEF KernelDup2
  <2>2. DOMAIN kfds' \subseteq Fds /\ kfds' \in [DOMAIN kfds' -> DOMAIN ofds]
    <3>1. kfds[Now(t).fd] \in DOMAIN ofds
      BY <1>3, <2>1
    <3>2. DOMAIN kfds \subseteq Fds /\ kfds \in [DOMAIN kfds -> DOMAIN ofds]
      BY <1>3
    <3> QED
      BY <2>1, <3>1, <3>2, WithTypes, Zenon
  <2> QED
    BY <1>3, <2>1, <2>2 DEF KernelTypes
<1>9. CASE KernelRead(t) \/ KernelPending(t)
  <2>1. PICK n \in 0..Size : /\ Now(t).fd \in DOMAIN kfds
                             /\ Fills(t, n, OpenFile(t).off)
    <3>1. 1..Size \subseteq 0..Size
      OBVIOUS
    <3>2. CASE KernelRead(t)
      BY <3>2 DEF KernelRead
    <3>3. CASE KernelPending(t)
      BY <3>1, <3>3 DEF KernelPending
    <3> QED
      BY <1>9, <3>2, <3>3
  <2>2. n \in Nat /\ OpenFile(t).off \in Nat
    <3>1. OpenFile(t) \in OpenFiles
      BY <1>3, <2>1 DEF OpenFile
    <3> QED
      BY <3>1 DEF OpenFiles
  <2> QED
    BY <1>0, <1>2, <2>1, <2>2, FillsTypes
<1>10. CASE KernelReadAt(t)
  <2>1. PICK n \in 0..Size, off \in 0..Size : /\ Now(t).fd \in DOMAIN kfds
                                              /\ Fills(t, n, off)
    BY <1>10 DEF KernelReadAt
  <2>2. n \in Nat /\ off \in Nat
    OBVIOUS
  <2> QED
    BY <1>0, <1>2, <2>1, <2>2, FillsTypes
<1>11. CASE KernelLseek(t)
  <2>1. PICK o \in 0..Size : /\ Now(t).fd \in DOMAIN kfds
                             /\ ofds' = [ofds EXCEPT ![kfds[Now(t).fd]].off = o]
                             /\ UNCHANGED <<kfds, ksections, content>>
    BY <1>11 DEF KernelLseek
  <2>2. /\ ofds' \in Seq(OpenFiles) /\ DOMAIN kfds' \subseteq Fds
        /\ kfds' \in [DOMAIN kfds' -> DOMAIN ofds']
    BY <1>0, <2>1, OffsetTypes
  <2> QED
    BY <1>3, <2>1, <2>2 DEF KernelTypes
<1>12. CASE KernelMmap(t) \/ KernelFails(t)
  BY <1>3, <1>12 DEF KernelMmap, KernelFails, kernel, KernelTypes
<1>13. CASE KernelSection(t)
  <2>1. PICK d \in Fds : /\ Now(t).fd \in DOMAIN kfds
                         /\ ~IsSocket(OpenFile(t).file)
                         /\ ksections' = With(ksections, d, OpenFile(t).file)
                         /\ UNCHANGED <<kfds, ofds, content>>
    BY <1>13 DEF KernelSection
  <2>2. OpenFile(t).file \in Files
    <3>1. OpenFile(t) \in OpenFiles
      BY <1>3, <2>1 DEF OpenFile
    <3> QED
      BY <2>1, <3>1 DEF OpenFiles, IsSocket, SocketNames
  <2>3. DOMAIN ksections' \subseteq Fds /\ ksections' \in [DOMAIN ksections' -> Files]
    BY <1>3, <2>1, <2>2, WithTypes
  <2> QED
    BY <1>3, <2>1, <2>3 DEF KernelTypes
<1>14. CASE KernelMap(t)
  <2>1. PICK n \in 1..Size :
          /\ content' = [b \in Addrs |->
                           IF b \in Now(t).addr..(Now(t).addr + n - 1)
                           THEN Viewed(ksections[Now(t).fd]) ELSE content[b]]
          /\ UNCHANGED <<kfds, ksections, ofds>>
    BY <1>14 DEF KernelMap
  <2>2. Viewed(ksections[Now(t).fd]) \in Bytes
    BY DEF Viewed, Bytes
  <2>3. content' \in [Addrs -> Bytes]
    BY <1>3, <2>1, <2>2
  <2> QED
    BY <1>3, <2>1, <2>3 DEF KernelTypes
<1> QED
  BY <1>5, <1>6, <1>7, <1>8, <1>9, <1>10, <1>11, <1>12, <1>13, <1>14
     DEF KernelStep

(* FromFd: an assertion fails, or the bytes are introduced and the offset  *)
(* advances.                                                               *)
LEMMA FromFdTypes ==
  ASSUME TypeInv, NEW t \in Threads, NEW n \in Nat, FromFd(t, n),
         pc[t] = "return", UNCHANGED <<g_skipTaints, taint_env, windows>>
  PROVE  IntroInv' /\ FdsTypes'
         /\ status' \in {status, "fd assertion", "copy assertion"}
<1> DEFINE d == Popped(t).fd
           a == Popped(t).addr
<1>1. a \in Nat
  BY CallTypes DEF TypeInv, Calls, Addrs
<1>2. CASE UNCHANGED <<tracker, trace>> /\ status' \in {"fd assertion", "copy assertion"}
  BY <1>2, SameIntro DEF tracker, TypeInv, FdsTypes
<1>3. CASE /\ d \in DOMAIN fds
           /\ introMemTaint(a, n, fds[d].name, fds[d].off)
           /\ ReadAdvances(t, d, n)
           /\ UNCHANGED status
  <2>1. fds[d] \in [name : Names, off : Nat]
    BY <1>3 DEF TypeInv, FdsTypes
  <2>2. fds[d].off \in Nat /\ [fds[d] EXCEPT !.off = @ + n] \in [name : Names, off : Nat]
    BY <2>1
  <2>3. Silent' = Silent /\ sections' = sections
    BY <1>3 DEF Silent, introMemTaint
  <2>4. IntroInv'
    BY <1>1, <1>3, <2>2, <2>3, IntroStep DEF TypeInv
  <2>5. FdsTypes'
    BY <1>3, <2>2, <2>3 DEF TypeInv, FdsTypes, ReadAdvances
  <2> QED
    BY <1>3, <2>4, <2>5
<1> QED
  BY <1>2, <1>3 DEF FromFd

(* SyscallExit keeps the types of the tracker.                             *)
LEMMA ExitKeepsTypes ==
  ASSUME TypeInv, NEW t \in Threads, ExitStep(t)
  PROVE  IntroInv' /\ FdsTypes' /\ OtherTypes'
<1>1. Exit(t)
  BY ExitExits
<1>2. pc[t] = "return"
      /\ UNCHANGED <<g_skipTaints, taint_stdin, taint_net, taint_env, windows,
                     ops, calls, clean>>
  BY <1>1 DEF Exit, knobs
<1>3. /\ Popped(t) \in Calls
      /\ ret[t] \in Nat \union {Fail}
      /\ Top(t).state # "nosyscall" => Top(t).state = Popped(t).op
      /\ Top(t).state \in NewOps => ret[t] \in Fds \union {Fail}
  <2>1. Popped(t) \in Calls
    BY <1>2, CallTypes DEF TypeInv
  <2>2. /\ ret[t] \in Nat \union {Fail}
        /\ Now(t).op \in NewOps => ret[t] \in Fds \union {Fail}
    BY <1>2 DEF TypeInv, ThreadInv, Returned
  <2>3. Top(t).state # "nosyscall" =>
          Popped(t) = Now(t) /\ Top(t).state = Now(t).op
    BY <1>2, OwnCall DEF TypeInv
  <2>4. "nosyscall" \notin NewOps
    BY DEF NewOps
  <2> QED
    BY <2>1, <2>2, <2>3, <2>4
<1>4. Popped(t).fd \in Fds /\ Popped(t).file \in Files /\ Popped(t).op \in Ops
      /\ Popped(t).addr \in Nat
  BY <1>3 DEF Calls, Addrs
<1>5. FdsTypes
  BY DEF TypeInv
<1>6. status' \in {"running", "fd assertion", "copy assertion", "mmap assertion"}
       => OtherTypes'
  BY <1>2 DEF TypeInv, OtherTypes
<1>7. ASSUME NoIntro, FdsTypes' PROVE IntroInv' /\ FdsTypes' /\ OtherTypes'
  BY <1>2, <1>6, <1>7, SameIntro DEF NoIntro, numbers, TypeInv, OtherTypes
<1>8. ASSUME NEW n \in Nat, FromFd(t, n)
      PROVE  IntroInv' /\ FdsTypes' /\ OtherTypes'
  <2>1. IntroInv' /\ FdsTypes'
        /\ status' \in {status, "fd assertion", "copy assertion"}
    BY <1>2, <1>8, FromFdTypes
  <2> QED
    BY <1>6, <2>1 DEF TypeInv, OtherTypes
<1>9. CASE ExitRead(t)
  BY <1>3, <1>8, <1>9 DEF ExitRead
<1>10. CASE ExitRecv(t)
  <2>1. ret[t] % Word \in Nat
    <3>1. ret[t] \in Int /\ Word \in Nat \ {0}
      BY <1>3 DEF Fail
    <3> QED
      BY <3>1
  <2> QED
    BY <1>8, <1>10, <2>1 DEF ExitRecv
<1>11. CASE ExitSocket(t)
  <2>1. ret[t] \in Fds /\ [name |-> Popped(t).op, off |-> 0] \in [name : Names, off : Nat]
    BY <1>3, <1>4, <1>11 DEF ExitSocket, Names, SocketNames, NewOps
  <2>2. sections' \subseteq Fds /\ NoIntro
        /\ fds' = With(fds, ret[t], [name |-> Popped(t).op, off |-> 0])
    BY <1>5, <1>11 DEF ExitSocket, NoIntro, FdsTypes
  <2> QED
    BY <1>5, <1>7, <2>1, <2>2, FdsWith
<1>12. CASE ExitOpen(t)
  <2>1. ret[t] \in Fds /\ [name |-> Popped(t).file, off |-> 0] \in [name : Names, off : Nat]
    BY <1>3, <1>4, <1>12 DEF ExitOpen, Names, NewOps
  <2>2. sections' \subseteq Fds /\ NoIntro
        /\ fds' = With(fds, ret[t], [name |-> Popped(t).file, off |-> 0])
    BY <1>5, <1>12 DEF ExitOpen, NoIntro, FdsTypes
  <2> QED
    BY <1>5, <1>7, <2>1, <2>2, FdsWith
<1>13. CASE ExitClose(t)
  <2>1. FdsTypes'
    BY <1>5, <1>13 DEF ExitClose, NoIntro, FdsTypes, Without
  <2> QED
    BY <1>7, <1>13, <2>1 DEF ExitClose
<1>14. CASE ExitLseek(t)
  <2>1. PICK name \in Names : fds' = With(fds, Popped(t).fd, [name |-> name, off |-> ret[t]])
    BY <1>5, <1>14 DEF ExitLseek, FdsTypes, Names
  <2>2. [name |-> name, off |-> ret[t]] \in [name : Names, off : Nat]
    BY <1>3, <1>14 DEF ExitLseek
  <2>3. NoIntro /\ sections' \subseteq Fds
    BY <1>5, <1>14 DEF ExitLseek, NoIntro, FdsTypes
  <2>4. FdsTypes'
    BY <1>4, <1>5, <2>1, <2>2, <2>3, FdsWith
  <2> QED
    BY <1>7, <2>3, <2>4
<1>15. CASE ExitMmap(t)
  BY <1>2, <1>5, <1>6, <1>15, SameIntro DEF ExitMmap, tracker, FdsTypes, TypeInv
<1>16. CASE ExitOther(t)
  BY <1>5, <1>7, <1>16 DEF ExitOther, NoIntro, FdsTypes
<1>17. CASE ExitSection(t)
  <2>1. Top(t).state = "section" /\ ret[t] # Fail
    BY <1>17 DEF ExitSection
  <2>2. ret[t] \in Fds
    BY <1>3, <2>1 DEF NewOps
  <2>3. FdsTypes' /\ UNCHANGED <<numbers, trace, status>>
    BY <1>5, <1>17, <2>2 DEF ExitSection, FdsTypes
  <2> QED
    BY <1>2, <1>6, <2>3, SameIntro DEF numbers, TypeInv, OtherTypes
<1>18. CASE ExitMap(t)
  <2>1. introFresh(Popped(t).addr, ret[t], TRUE) /\ UNCHANGED <<fds, status>>
        /\ ret[t] \in Nat
    BY <1>3, <1>18 DEF ExitMap
  <2>2. Silent' = Silent /\ sections' = sections
    BY <1>2, <2>1 DEF Silent, introFresh
  <2>3. IntroInv'
    BY <1>2, <1>4, <2>1, <2>2, FreshStep DEF TypeInv
  <2>4. FdsTypes'
    BY <1>5, <2>1, <2>2 DEF FdsTypes
  <2> QED
    BY <1>6, <2>1, <2>3, <2>4 DEF TypeInv, OtherTypes
<1> QED
  BY <1>9, <1>10, <1>11, <1>12, <1>13, <1>14, <1>15, <1>16, <1>17, <1>18
     DEF ExitStep

(* ThreadStart introduces what it has to.                                  *)
LEMMA StartKeepsTypes ==
  ASSUME TypeInv, ThreadStart
  PROVE  TypeInv'
<1> DEFINE next == Head(startup)
           Intros == [region : Region, reported : BOOLEAN]
<1>1. /\ startup # <<>> /\ startup' = Tail(startup)
      /\ introFresh(next.region.addr, next.region.len, next.reported)
      /\ UNCHANGED <<pc, ret, stacks, kernel, fds, knobs, calls, clean, status>>
  BY DEF ThreadStart
<1>2. startup \in Seq(Intros)
  BY DEF TypeInv, StartupTypes
<1>3. /\ next \in Intros /\ 1 \in DOMAIN startup /\ next = startup[1]
      /\ Tail(startup) \in Seq(Intros)
      /\ \A i \in DOMAIN Tail(startup) :
           i + 1 \in DOMAIN startup /\ Tail(startup)[i] = startup[i + 1]
  <2>1. Len(startup) \in Nat \ {0} /\ DOMAIN startup = 1..Len(startup)
    BY <1>1, <1>2, EmptySeq, LenProperties
  <2>2. 1 \in DOMAIN startup /\ next = startup[1]
    BY <1>2, <2>1
  <2>3. next \in Intros
    BY <1>1, <1>2, HeadTailProperties
  <2>4. /\ Tail(startup) \in Seq(Intros) /\ Len(Tail(startup)) = Len(startup) - 1
        /\ \A i \in 1..Len(Tail(startup)) : Tail(startup)[i] = startup[i + 1]
    BY <1>1, <1>2, HeadTailProperties
  <2>5. DOMAIN Tail(startup) = 1..Len(Tail(startup))
    BY <2>4, LenProperties
  <2> QED
    BY <2>1, <2>2, <2>3, <2>4, <2>5
<1> HIDE DEF next
<1>4. next.region.addr \in Nat /\ next.region.len \in Nat /\ next.reported \in BOOLEAN
  <2>1. next.region \in Region /\ next.reported \in BOOLEAN
    BY <1>3
  <2>2. next.region.addr \in Addrs /\ next.region.len \in Nat
    BY <2>1 DEF Region
  <2> QED
    BY <2>1, <2>2 DEF Addrs
<1>5. UNCHANGED <<g_skipTaints, taint_stdin, taint_net, taint_env, windows, ops>>
      /\ Silent' = Silent /\ sections' = sections
  BY <1>1 DEF knobs, Silent, introFresh
<1>6. ~next.reported =>
        \A b \in next.region.addr..(next.region.addr + next.region.len - 1) :
          b \in Silent
  BY <1>3 DEF TypeInv, StartupTypes, Silent
<1>7. IntroInv'
  BY <1>1, <1>4, <1>5, <1>6, FreshStep DEF TypeInv
<1>8. StartupTypes'
  BY <1>1, <1>3, <1>5 DEF TypeInv, StartupTypes
<1>9. ThreadInv'
  BY ThreadNext DEF TypeInv, Next
<1>10. FdsTypes' /\ KernelTypes' /\ OtherTypes'
  BY <1>1, <1>5 DEF kernel, TypeInv, FdsTypes, KernelTypes, OtherTypes
<1> QED
  BY <1>7, <1>8, <1>9, <1>10 DEF TypeInv

(* So does GetEnvironmentStringsW.                                         *)
LEMMA EnvKeepsTypes ==
  ASSUME TypeInv, NEW t \in Threads, GetEnvWWrap(t)
  PROVE  TypeInv'
<1>1. /\ introFresh(EnvVar.addr, EnvVar.len, TRUE)
      /\ UNCHANGED <<kfds, ksections, ofds, fds, knobs, startup, status>>
      /\ calls < MaxCalls /\ calls' = calls + 1 /\ clean' \in BOOLEAN
      /\ content' = [b \in Addrs |->
                       IF b \in EnvVar.addr..(EnvVar.addr + EnvVar.len - 1)
                       THEN NoByte ELSE content[b]]
  BY DEF GetEnvWWrap, Calling
<1>2. EnvVar.addr \in Nat /\ EnvVar.len \in Nat
  <2>1. EnvVar \in Region
    BY SyscallAssumption
  <2>2. EnvVar.addr \in Addrs /\ EnvVar.len \in Nat
    BY <2>1 DEF Region
  <2> QED
    BY <2>2 DEF Addrs
<1>3. UNCHANGED <<g_skipTaints, taint_stdin, taint_net, taint_env, windows, ops>>
      /\ Silent' = Silent /\ sections' = sections
  BY <1>1 DEF knobs, Silent, introFresh
<1>4. IntroInv'
  BY <1>1, <1>2, <1>3, FreshStep DEF TypeInv
<1>5. ThreadInv'
  BY ThreadNext DEF TypeInv, Next
<1>6. NoByte \in Bytes
  BY DEF NoByte, Bytes
<1>7. FdsTypes' /\ KernelTypes' /\ StartupTypes'
  BY <1>1, <1>3, <1>6 DEF TypeInv, FdsTypes, KernelTypes, StartupTypes
<1>8. calls' \in 0..MaxCalls
  <2>1. calls \in 0..MaxCalls /\ MaxCalls \in Nat
    BY DEF TypeInv, OtherTypes
  <2> QED
    BY <1>1, <2>1
<1>9. OtherTypes'
  BY <1>1, <1>3, <1>8 DEF TypeInv, OtherTypes
<1> QED
  BY <1>4, <1>5, <1>7, <1>9 DEF TypeInv

(* Every step keeps all types.                                             *)
LEMMA TypeNext == TypeInv /\ [Next]_vars => TypeInv'
<1> SUFFICES ASSUME TypeInv, [Next]_vars PROVE TypeInv'
  OBVIOUS
<1>0. ThreadInv'
  BY ThreadNext DEF TypeInv
<1>1. CASE UNCHANGED vars
  BY <1>0, <1>1, SameIntro
     DEF vars, kernel, tracker, knobs, TypeInv, FdsTypes, KernelTypes,
         StartupTypes, OtherTypes
<1>2. ASSUME NEW t \in Threads, SyscallEntry(t) PROVE TypeInv'
  <2>1. UNCHANGED <<kernel, tracker, knobs, startup, trace, status>>
        /\ calls < MaxCalls /\ calls' = calls + 1 /\ clean' \in BOOLEAN
    BY <1>2 DEF SyscallEntry, Calling
  <2>2. calls' \in 0..MaxCalls
    <3>1. calls \in 0..MaxCalls /\ MaxCalls \in Nat
      BY DEF TypeInv, OtherTypes
    <3> QED
      BY <2>1, <3>1
  <2>3. IntroInv' /\ FdsTypes' /\ KernelTypes' /\ StartupTypes'
    BY <2>1, SameIntro
       DEF kernel, tracker, knobs, TypeInv, FdsTypes, KernelTypes, StartupTypes
  <2>4. OtherTypes'
    BY <2>1, <2>2 DEF knobs, TypeInv, OtherTypes
  <2> QED
    BY <1>0, <2>3, <2>4 DEF TypeInv
<1>3. ASSUME NEW t \in Threads, KernelStep(t) PROVE TypeInv'
  <2>1. clean' \in BOOLEAN
    BY <1>3 DEF KernelStep, KernelOpen, KernelSocket, NewDescriptor, KernelClose,
                KernelDup2, KernelRead, KernelReadAt, KernelPending, KernelLseek,
                KernelMmap, KernelSection, KernelMap, KernelFails,
                TypeInv, OtherTypes
  <2>2. UNCHANGED <<tracker, knobs, startup, trace, calls, status>>
    BY <1>3, KernelKernel DEF Kernel
  <2> QED
    BY <1>0, <1>3, <2>1, <2>2, SameIntro, KernelKeepsTypes
       DEF tracker, knobs, TypeInv, FdsTypes, StartupTypes, OtherTypes
<1>4. ASSUME NEW t \in Threads, ExitStep(t) PROVE TypeInv'
  <2>1. UNCHANGED <<kernel, startup, knobs>>
    BY <1>4, ExitExits DEF Exit
  <2> QED
    BY <1>0, <1>4, <2>1, ExitKeepsTypes
       DEF kernel, knobs, TypeInv, KernelTypes, StartupTypes
<1>5. ASSUME NEW t \in Threads, KernelCallsBack(t) \/ CallbackReturns(t)
      PROVE  TypeInv'
  <2>1. UNCHANGED <<kernel, tracker, knobs, startup, trace, calls, status>>
        /\ clean' \in BOOLEAN
    BY <1>5 DEF KernelCallsBack, CallbackReturns, TypeInv, OtherTypes
  <2>2. IntroInv' /\ FdsTypes' /\ KernelTypes' /\ StartupTypes'
    BY <2>1, SameIntro
       DEF kernel, tracker, knobs, TypeInv, FdsTypes, KernelTypes, StartupTypes
  <2>3. OtherTypes'
    BY <2>1 DEF knobs, TypeInv, OtherTypes
  <2> QED
    BY <1>0, <2>2, <2>3 DEF TypeInv
<1> QED
  BY <1>1, <1>2, <1>3, <1>4, <1>5, StartKeepsTypes, EnvKeepsTypes
     DEF Next, KernelStep, ExitStep

(* All types hold always.                                                  *)
LEMMA TypeInvariant == Spec => []TypeInv
<1>1. Init => TypeInv
  BY TypeInit
<1>2. TypeInv /\ [Next]_vars => TypeInv'
  BY TypeNext
<1> QED
  BY <1>1, <1>2, PTL DEF Spec

(* All variables have their types.                                         *)
THEOREM TypeCorrect == Spec => []TypeOK
<1>1. TypeInv => TypeOK
  BY TypeInvIsEnough
<1> QED
  BY <1>1, TypeInvariant, PTL

(* Two bytes have one number only if they are one byte of one source, for  *)
(* every number of threads and every interleaving of their calls.          *)
THEOREM IdsTheorem == Spec => []TaintIdsDistinct
<1>1. TypeInv => TaintIdsDistinct
  BY DEF TypeInv, IntroInv
<1> QED
  BY <1>1, TypeInvariant, PTL

(* The frames of the trace introduce all the taint the tracker has.        *)
THEOREM RecordedTheorem == Spec => []IntroRecorded
<1>1. TypeInv => IntroRecorded
  BY RecordedIsEnough DEF TypeInv
<1> QED
  BY <1>1, TypeInvariant, PTL

-----------------------------------------------------------------------------
(***************************************************************************)
(* The tracker follows the kernel, for every number of threads, files,     *)
(* descriptors and calls, and every setup: as long as calls do not overlap *)
(* its descriptors are those of the kernel's tainted files at the kernel's *)
(* offsets, and no byte of them is in the buffer untainted.                *)
(***************************************************************************)

(* What the tracker would believe if it knew the kernel.                   *)
Tracked == {d \in DOMAIN kfds : ofds[kfds[d]].file \in Sources}
Believed ==
  [d \in Tracked |-> [name |-> ofds[kfds[d]].file, off |-> ofds[kfds[d]].off]]

-----------------------------------------------------------------------------
(* How a step of the kernel changes that.                                  *)

OneEach == \A d, e \in DOMAIN kfds : kfds[d] = kfds[e] => d = e

SameSources == UNCHANGED <<taint_stdin, taint_net>>

(* A new descriptor.                                                       *)
LEMMA BelievedNew ==
  ASSUME KernelTypes, OneEach, SameSources, NEW d \in Fds, d \notin DOMAIN kfds,
         NEW file \in Files \union SocketNames,
         ofds' = Append(ofds, [file |-> file, off |-> 0]),
         kfds' = With(kfds, d, Len(ofds) + 1)
  PROVE  /\ OneEach'
         /\ Believed' = IF file \in Sources
                        THEN With(Believed, d, [name |-> file, off |-> 0])
                        ELSE Believed
<1> DEFINE new == [file |-> file, off |-> 0]
<1>0. new \in OpenFiles
  BY DEF OpenFiles
<1>1. new \in OpenFiles /\ ofds \in Seq(OpenFiles)
  BY <1>0 DEF KernelTypes
<1>2. /\ DOMAIN ofds = 1..Len(ofds) /\ Len(ofds) \in Nat
      /\ ofds'[Len(ofds) + 1] = new
      /\ \A i \in 1..Len(ofds) : ofds'[i] = ofds[i]
  <2>1. DOMAIN ofds = 1..Len(ofds) /\ Len(ofds) \in Nat
    BY <1>1, LenProperties
  <2> HIDE DEF new
  <2>2. /\ Append(ofds, new)[Len(ofds) + 1] = new
        /\ \A i \in 1..Len(ofds) : Append(ofds, new)[i] = ofds[i]
    BY <1>1, AppendProperties
  <2> QED
    BY <2>1, <2>2 DEF new
<1>3. \A e \in DOMAIN kfds : kfds[e] \in 1..Len(ofds) /\ kfds[e] # Len(ofds) + 1
  BY <1>2 DEF KernelTypes
<1>4. /\ DOMAIN kfds' = DOMAIN kfds \union {d} /\ kfds'[d] = Len(ofds) + 1
      /\ \A e \in DOMAIN kfds : kfds'[e] = kfds[e]
  BY DEF With
<1>5. OneEach'
  BY <1>3, <1>4 DEF OneEach
<1>6. Sources' = Sources
  BY DEF Sources, SameSources
<1>7. /\ ofds'[kfds'[d]] = new
      /\ \A e \in DOMAIN kfds : ofds'[kfds'[e]] = ofds[kfds[e]]
  BY <1>2, <1>3, <1>4
<1>8. Tracked' = IF file \in Sources THEN Tracked \union {d} ELSE Tracked
  <2>1. new.file = file
    OBVIOUS
  <2>2. Tracked' = {e \in DOMAIN kfds \union {d} : ofds'[kfds'[e]].file \in Sources}
    BY <1>4, <1>6 DEF Tracked
  <2>3. \A e \in DOMAIN kfds \union {d} :
          ofds'[kfds'[e]].file = IF e = d THEN file ELSE ofds[kfds[e]].file
    BY <1>7, <2>1
  <2> QED
    BY <2>2, <2>3 DEF Tracked
<1>9. d \notin Tracked
  BY DEF Tracked
<1>10. \A e \in Tracked' :
         Believed'[e] = IF e = d THEN [name |-> file, off |-> 0] ELSE Believed[e]
  <2>1. \A e \in Tracked' : Believed'[e] = [name |-> ofds'[kfds'[e]].file,
                                           off |-> ofds'[kfds'[e]].off]
    BY DEF Believed
  <2>2. \A e \in Tracked : e \in DOMAIN kfds /\ Believed[e] =
                            [name |-> ofds[kfds[e]].file, off |-> ofds[kfds[e]].off]
    BY DEF Believed, Tracked
  <2>3. new.file = file /\ new.off = 0
    OBVIOUS
  <2>4. \A e \in Tracked' : e = d => Believed'[e] = [name |-> file, off |-> 0]
    <3>1. d \in Tracked' => Believed'[d] = [name |-> ofds'[kfds'[d]].file,
                                            off |-> ofds'[kfds'[d]].off]
      BY <2>1
    <3>2. ofds'[kfds'[d]].file = file /\ ofds'[kfds'[d]].off = 0
      BY <1>7, <2>3
    <3> QED
      BY <3>1, <3>2
  <2>5. \A e \in Tracked' : e # d => e \in Tracked
    BY <1>8
  <2>6. ASSUME NEW e \in Tracked', e # d PROVE Believed'[e] = Believed[e]
    <3>1. Believed[e] = [name |-> ofds[kfds[e]].file, off |-> ofds[kfds[e]].off]
          /\ ofds'[kfds'[e]] = ofds[kfds[e]]
      BY <1>7, <2>2, <2>5, <2>6
    <3> QED
      BY <2>1, <3>1
  <2> QED
    BY <2>4, <2>6
<1>11. CASE file \in Sources
  <2>1. DOMAIN Believed = Tracked
    BY DEF Believed
  <2>2. Believed' = [e \in Tracked' |-> Believed'[e]]
    BY DEF Believed
  <2>3. Believed' = [e \in Tracked \union {d} |->
                       IF e = d THEN [name |-> file, off |-> 0] ELSE Believed[e]]
    BY <1>8, <1>10, <1>11, <2>2
  <2> QED
    BY <1>5, <1>11, <2>1, <2>3 DEF With
<1>12. CASE file \notin Sources
  <2>1. Believed' = [e \in Tracked' |-> Believed'[e]]
        /\ Believed = [e \in Tracked |-> Believed[e]]
    BY DEF Believed
  <2> QED
    BY <1>5, <1>8, <1>9, <1>10, <1>12, <2>1
<1> QED
  BY <1>11, <1>12

(* A closed one.                                                           *)
LEMMA BelievedClosed ==
  ASSUME OneEach, SameSources, NEW d, kfds' = Without(kfds, d), ofds' = ofds
  PROVE  OneEach' /\ Believed' = Without(Believed, d)
<1>1. /\ DOMAIN kfds' = DOMAIN kfds \ {d}
      /\ \A e \in DOMAIN kfds' : kfds'[e] = kfds[e]
  BY DEF Without
<1>2. OneEach'
  BY <1>1 DEF OneEach
<1>3. Tracked' = Tracked \ {d}
  BY <1>1 DEF Tracked, Sources, SameSources
<1>4. \A e \in Tracked' : Believed'[e] = Believed[e]
  BY <1>1, <1>3 DEF Believed, Tracked
<1>5. Believed' = [e \in Tracked' |-> Believed'[e]] /\ DOMAIN Believed = Tracked
  BY DEF Believed
<1> QED
  BY <1>2, <1>3, <1>4, <1>5 DEF Without

(* The offset of an open file moves.                                       *)
LEMMA BelievedMoved ==
  ASSUME KernelTypes, OneEach, SameSources, NEW d \in DOMAIN kfds, NEW o,
         ofds' = [ofds EXCEPT ![kfds[d]].off = o], kfds' = kfds
  PROVE  /\ OneEach'
         /\ Believed' = IF d \in Tracked
                        THEN With(Believed, d, [name |-> Believed[d].name, off |-> o])
                        ELSE Believed
<1>1. OneEach'
  BY DEF OneEach
<1>2. \A e \in DOMAIN kfds : kfds[e] \in DOMAIN ofds /\ ofds[kfds[e]] \in OpenFiles
  BY DEF KernelTypes
<1>3. \A e \in DOMAIN kfds \ {d} : ofds'[kfds[e]] = ofds[kfds[e]]
  BY <1>2 DEF OneEach
<1>4. ofds'[kfds[d]].file = ofds[kfds[d]].file /\ ofds'[kfds[d]].off = o
  BY <1>2 DEF OpenFiles
<1>5. Sources' = Sources
  BY DEF Sources, SameSources
<1>6. Tracked' = Tracked
  BY <1>3, <1>4, <1>5 DEF Tracked
<1>7. Tracked \subseteq DOMAIN kfds /\ DOMAIN Believed = Tracked
      /\ Believed' = [e \in Tracked |-> Believed'[e]]
      /\ Believed = [e \in Tracked |-> Believed[e]]
  BY <1>6 DEF Tracked, Believed
<1>8. \A e \in Tracked \ {d} : Believed'[e] = Believed[e]
  BY <1>3, <1>6, <1>7 DEF Believed
<1>9. CASE d \in Tracked
  <2>1. Believed'[d] = [name |-> Believed[d].name, off |-> o]
    BY <1>4, <1>6, <1>9 DEF Believed
  <2> DEFINE b == Believed'
  <2>2. \A e \in Tracked : b[e] = IF e = d THEN [name |-> Believed[d].name, off |-> o]
                                  ELSE Believed[e]
    BY <1>8, <2>1
  <2>3. Tracked \union {d} = Tracked
    BY <1>9
  <2> QED
    BY <1>1, <1>7, <1>9, <2>2, <2>3 DEF With
<1>10. CASE d \notin Tracked
  BY <1>1, <1>7, <1>8, <1>10
<1> QED
  BY <1>9, <1>10

-----------------------------------------------------------------------------
(* The invariant.  In the kernel a call has the state of its taintPreSC;   *)
(* when it returns, SyscallExit will make fds right again.                 *)

MovedTo(d, o) == With(fds, d, [name |-> fds[d].name, off |-> o])

InKernel(t) ==
  /\ fds = Believed
  /\ Top(t).state = taintPreSC(Now(t)) /\ Now(t).op \notin Unfollowed

Unaffected(t) ==
  \/ ret[t] = Fail
  \/ Top(t).state \in {"nosyscall", "mmap", "sigreturn", "dup2", "readat",
                       "section", "map"}

InReturn(t) ==
  LET d == Now(t).fd
      r == ret[t]
      state == Top(t).state
  IN  /\ Now(t).op \notin Unfollowed
      /\ Unaffected(t) => fds = Believed
      /\ state = "recv" => r # Fail
      /\ state \in {"read", "recv"} /\ r # Fail =>
           d \in DOMAIN fds /\ r \in 0..Size /\ Believed = MovedTo(d, fds[d].off + r)
      /\ state = "lseek" /\ r # Fail =>
           d \in DOMAIN fds /\ Believed = MovedTo(d, r)
      /\ state = "open" /\ r # Fail =>
           Believed = With(fds, r, [name |-> Now(t).file, off |-> 0])
      /\ state \in SocketNames /\ r # Fail =>
           Believed = With(fds, r, [name |-> Now(t).op, off |-> 0])
      /\ state = "close" /\ r # Fail => r = 0 /\ Believed = Without(fds, d)

Alone == \A t, u \in Threads : pc[t] # "app" /\ pc[u] # "app" => t = u

Settled == clean /\ status = "running"

FollowInv ==
  Settled =>
    /\ Alone /\ OneEach
    /\ (\A t \in Threads : pc[t] = "app") => fds = Believed
    /\ \A t \in Threads : pc[t] = "kernel" => InKernel(t)
    /\ \A t \in Threads : pc[t] = "return" => InReturn(t)

(* Which names are sources.                                                *)
LEMMA SourceFacts ==
  /\ \A f \in Files \ {"stdin"} : f \in Sources <=> f \in TaintFiles
  /\ \A s \in SocketNames : s \in Sources <=> taint_net
  /\ "stdin" \in Sources <=> taint_stdin
  /\ "none" \notin Sources /\ "view" \notin Sources
<1>1. /\ "socket" \notin Files /\ "accept" \notin Files /\ "none" \notin Files
      /\ "view" \notin Files
      /\ "stdin" \in Files \ TaintFiles /\ TaintFiles \subseteq Files
  OBVIOUS
<1> QED
  BY <1>1 DEF Sources, SocketNames

(* At the start stdin is the only descriptor, on Windows there is none.    *)
LEMMA FollowInit == Init => FollowInv
<1> SUFFICES ASSUME Init PROVE FollowInv
  OBVIOUS
<1>1. /\ pc = [t \in Threads |-> "app"]
      /\ kfds = [d \in IF windows THEN {} ELSE {0} |-> 1]
      /\ ofds = <<[file |-> "stdin", off |-> 0]>>
      /\ fds = [d \in IF taint_stdin THEN {0} ELSE {} |-> [name |-> "stdin", off |-> 0]]
  BY DEF Init
<1>2. ofds[1].file = "stdin" /\ ofds[1].off = 0
  BY <1>1
<1>0. windows => ~taint_stdin
  <2>1. PICK setup \in Setups : taint_stdin = setup.stdin /\ windows = setup.windows
    BY DEF Init
  <2>2. setup \in SetupType
    BY SyscallAssumption
  <2>3. setup.windows => ~setup.stdin
    BY <2>2 DEF SetupType
  <2> QED
    BY <2>1, <2>3
<1>3. Tracked = IF taint_stdin THEN {0} ELSE {}
  BY <1>0, <1>1, <1>2, SourceFacts DEF Tracked
<1>4. Believed = [d \in Tracked |-> [name |-> "stdin", off |-> 0]]
  BY <1>1, <1>2 DEF Believed, Tracked
<1>5. fds = Believed
  BY <1>1, <1>3, <1>4
<1>6. OneEach
  BY <1>1 DEF OneEach
<1> QED
  BY <1>1, <1>5, <1>6 DEF FollowInv, Alone

(* SyscallEntry: the tracker decides whether the call may matter.          *)
LEMMA FollowEntry ==
  ASSUME TypeInv, FollowInv, NEW t \in Threads, SyscallEntry(t)
  PROVE  FollowInv'
<1> SUFFICES ASSUME Settled' PROVE FollowInv'
  BY DEF FollowInv
<1>1. PICK c \in Calls :
        /\ Push(t, c)
        /\ c.op = "cbreturn" => kcalls[t] # <<>>
        /\ kcalls' = IF c.op \in NeverReturning THEN kcalls
                     ELSE [kcalls EXCEPT ![t] = Append(@, c)]
        /\ pc' = [pc EXCEPT ![t] = IF c.op = "sigreturn" THEN "app" ELSE "kernel"]
        /\ clean' = (clean /\ c.op \notin Unfollowed /\ Apart(t))
  BY DEF SyscallEntry
<1>2. /\ UNCHANGED <<kfds, ofds, fds, sections, taint_stdin, taint_net, windows,
                     status>>
      /\ pc[t] = "app"
  BY DEF SyscallEntry, Calling, kernel, tracker, knobs
<1>3. Settled /\ c.op \notin Unfollowed /\ \A u \in Threads : pc[u] = "app"
  BY <1>1, <1>2 DEF Settled, Apart
<1>4. OneEach /\ fds = Believed
  BY <1>3 DEF FollowInv
<1>5. OneEach' /\ Believed' = Believed
  BY <1>2, <1>4 DEF OneEach, Believed, Tracked, Sources
<1>6. /\ pc'[t] \in {"app", "kernel"}
      /\ \A u \in Threads \ {t} : pc'[u] = "app"
  BY <1>1, <1>3 DEF TypeInv, ThreadInv
<1> DEFINE e == [c |-> c, state |-> taintPreSC(c)]
<1>7. e \in Entries /\ e.c = c /\ e.state = taintPreSC(c)
  BY <1>1 DEF Entries, taintPreSC, Calls
<1>8. Top(t)' = e
  <2>1. scStack[t] \in Seq(Entries) /\ scStack' = [scStack EXCEPT ![t] = Append(@, e)]
    BY <1>1 DEF TypeInv, ThreadInv, Push
  <2> HIDE DEF e
  <2>2. scStack'[t] = Append(scStack[t], e)
    BY <2>1 DEF TypeInv, ThreadInv
  <2> QED
    BY <1>7, <2>1, <2>2, AppendLast DEF Top
<1>9. taintPreSC(c)' = taintPreSC(c)
  BY <1>2 DEF taintPreSC, Relevant
<1>10. ASSUME pc'[t] = "kernel" PROVE InKernel(t)'
  <2>1. c.op # "sigreturn"
    BY <1>1, <1>10 DEF TypeInv, ThreadInv
  <2>2. c.op # "cbreturn"
    BY <1>1, <1>3 DEF TypeInv, ThreadInv, NotCalledBack, Settled
  <2>3. c \in Returning
    BY <1>1, <2>1, <2>2 DEF Returning, NeverReturning
  <2>4. kcalls'[t] = Append(kcalls[t], c) /\ kcalls[t] \in Seq(Returning)
    BY <1>1, <2>3 DEF TypeInv, ThreadInv, Returning
  <2>5. Now(t)' = c
    BY <2>3, <2>4, AppendLast DEF Now
  <2> QED
    BY <1>2, <1>3, <1>4, <1>5, <1>7, <1>8, <1>9, <2>5 DEF InKernel
<1> QED
  BY <1>2, <1>4, <1>5, <1>6, <1>10 DEF FollowInv, Alone

(* A callback unsettles the thread.                                        *)
LEMMA CallbackUnsettled ==
  ASSUME TypeInv, NEW t \in Threads, KernelCallsBack(t) \/ CallbackReturns(t)
  PROVE  ~Settled'
<1>1. CASE KernelCallsBack(t)
  BY <1>1 DEF KernelCallsBack, Settled
<1>2. CASE CallbackReturns(t)
  <2>1. pc[t] = "app" /\ kcalls[t] # <<>> /\ clean' = clean
    BY <1>2 DEF CallbackReturns
  <2>2. ~clean
    BY <2>1 DEF TypeInv, ThreadInv, NotCalledBack
  <2> QED
    BY <2>1, <2>2 DEF Settled
<1> QED
  BY <1>1, <1>2

(* A step of the kernel that keeps clean had it.                           *)
LEMMA KernelClean ==
  ASSUME NEW t \in Threads, KernelStep(t), clean' PROVE clean /\ ~KernelPending(t)
BY DEF KernelStep, KernelOpen, KernelSocket, NewDescriptor, KernelClose,
       KernelDup2, KernelRead, KernelReadAt, KernelPending, KernelLseek,
       KernelMmap, KernelSection, KernelMap, KernelFails

(* The kernel's step: what it changes is what SyscallExit will learn.      *)
LEMMA FollowKernel ==
  ASSUME TypeInv, FollowInv, NEW t \in Threads, KernelStep(t)
  PROVE  FollowInv'
<1> SUFFICES ASSUME Settled' PROVE FollowInv'
  BY DEF FollowInv
<1>1. PICK op, r : Kernel(t, op, r)
  BY KernelKernel
<1>2. /\ UNCHANGED <<scStack, kcalls, stray, fds, taint_stdin, taint_net, windows, status>>
      /\ pc[t] = "kernel" /\ pc' = [pc EXCEPT ![t] = "return"]
  BY <1>1 DEF Kernel, stacks, tracker, knobs
<1>3. clean
  BY KernelClean DEF Settled
<1>4. Settled
  BY <1>2, <1>3 DEF Settled
<1>5. /\ Alone /\ OneEach /\ fds = Believed
      /\ Top(t).state = taintPreSC(Now(t)) /\ Now(t).op \notin Unfollowed
  BY <1>2, <1>4 DEF FollowInv, InKernel
<1>6. Top(t)' = Top(t) /\ Now(t)' = Now(t) /\ Now(t) \in Calls
      /\ Now(t).op \in Ops /\ Now(t).op # "sigreturn"
  BY <1>2, CallTypes DEF Top, Now, TypeInv, Calls, NeverReturning
<1>7. pc'[t] = "return" /\ \A u \in Threads \ {t} : pc'[u] = "app"
  BY <1>2, <1>5 DEF TypeInv, ThreadInv, Alone
<1>8. ASSUME OneEach', InReturn(t)' PROVE FollowInv'
  BY <1>7, <1>8 DEF FollowInv, Alone
<1>9. SameSources /\ KernelTypes /\ Sources' = Sources
  BY <1>2 DEF SameSources, TypeInv, Sources
<1>10. Top(t).state = IF Relevant(Now(t)) THEN Now(t).op ELSE "nosyscall"
  BY <1>5 DEF taintPreSC
<1>11. Tracked = DOMAIN fds
  BY <1>5 DEF Believed
<1>12. ASSUME NEW res, Kernel(t, Now(t).op, res)
       PROVE  ret'[t] = res
  BY <1>12 DEF Kernel, TypeInv, ThreadInv
<1>13. Fds \subseteq Nat /\ 0..Size \subseteq Nat /\ Fail \notin Nat
  BY DEF Fail
<1>14. ASSUME UNCHANGED <<kfds, ofds>> PROVE OneEach' /\ Believed' = Believed
  BY <1>5, <1>9, <1>14 DEF OneEach, Believed, Tracked
<1>20. CASE KernelOpen(t)
  <2>1. PICK d \in Free :
          /\ Kernel(t, "open", d)
          /\ ofds' = Append(ofds, [file |-> Now(t).file, off |-> 0])
          /\ kfds' = With(kfds, d, Len(ofds) + 1)
    BY <1>20 DEF KernelOpen, NewDescriptor, New
  <2>2. Now(t).op = "open" /\ d \in Fds /\ d \notin DOMAIN kfds
    BY <2>1 DEF Kernel, Free
  <2>3. Now(t).file \in Files \ {"stdin"}
    BY <1>6 DEF Calls
  <2>4. /\ OneEach'
        /\ Believed' = IF Now(t).file \in Sources
                       THEN With(Believed, d, [name |-> Now(t).file, off |-> 0])
                       ELSE Believed
    BY <1>5, <1>9, <2>1, <2>2, <2>3, BelievedNew
  <2>5. ret'[t] = d /\ d # Fail
    BY <1>12, <1>13, <2>1, <2>2
  <2>6. Relevant(Now(t)) <=> Now(t).file \in Sources
    BY <2>2, <2>3, SourceFacts DEF Relevant, SocketOps
  <2> QED
    BY <1>2, <1>5, <1>6, <1>8, <1>10, <2>2, <2>4, <2>5, <2>6
       DEF InReturn, Unaffected, SocketNames
<1>21. CASE KernelSocket(t)
  <2>1. PICK op2 \in SocketNames, d \in Free :
          /\ Kernel(t, op2, d)
          /\ ofds' = Append(ofds, [file |-> op2, off |-> 0])
          /\ kfds' = With(kfds, d, Len(ofds) + 1)
    BY <1>21 DEF KernelSocket, NewDescriptor, New, SocketNames
  <2>2. Now(t).op = op2 /\ d \in Fds /\ d \notin DOMAIN kfds
    BY <2>1 DEF Kernel, Free
  <2>4. /\ OneEach'
        /\ Believed' = IF op2 \in Sources
                       THEN With(Believed, d, [name |-> op2, off |-> 0])
                       ELSE Believed
    BY <1>5, <1>9, <2>1, <2>2, BelievedNew
  <2>5. ret'[t] = d /\ d # Fail
    BY <1>12, <1>13, <2>1, <2>2
  <2>6. Relevant(Now(t)) <=> op2 \in Sources
    BY <2>1, <2>2, SourceFacts DEF Relevant, SocketOps, SocketNames
  <2> QED
    BY <1>2, <1>5, <1>6, <1>8, <1>10, <2>1, <2>2, <2>4, <2>5, <2>6
       DEF InReturn, Unaffected, SocketNames
<1>22. CASE KernelClose(t)
  <2>1. /\ Kernel(t, "close", 0) /\ kfds' = Without(kfds, Now(t).fd) /\ ofds' = ofds
    BY <1>22 DEF KernelClose
  <2>2. Now(t).op = "close" /\ ret'[t] = 0 /\ 0 # Fail
    BY <1>12, <1>13, <2>1 DEF Kernel
  <2>3. OneEach' /\ Believed' = Without(Believed, Now(t).fd)
    BY <1>5, <1>9, <2>1, BelievedClosed
  <2>4. CASE Relevant(Now(t))
    BY <1>2, <1>5, <1>6, <1>8, <1>10, <2>2, <2>3, <2>4
       DEF InReturn, Unaffected, SocketNames
  <2>5. CASE ~Relevant(Now(t))
    <3>1. Now(t).fd \notin DOMAIN fds
      BY <2>2, <2>5 DEF Relevant
    <3>2. Without(Believed, Now(t).fd) = Believed
      BY <1>5, <1>11, <3>1 DEF Without, Believed
    <3> QED
      BY <1>2, <1>5, <1>6, <1>8, <1>10, <2>2, <2>3, <2>5, <3>2
         DEF InReturn, Unaffected, SocketNames
  <2> QED
    BY <2>4, <2>5
<1>23. CASE KernelDup2(t) \/ KernelReadAt(t)
  BY <1>5, <1>23 DEF KernelDup2, KernelReadAt, Kernel, Unfollowed
<1>24. CASE KernelRead(t)
  <2> DEFINE d == Now(t).fd
  <2>1. PICK n \in 0..Size, op2 \in {"read", "recv"} :
          /\ Kernel(t, op2, n) /\ d \in DOMAIN kfds
          /\ op2 = "recv" => IsSocket(ofds[kfds[d]].file)
          /\ ofds' = [ofds EXCEPT ![kfds[d]].off = ofds[kfds[d]].off + n]
          /\ kfds' = kfds
    BY <1>24 DEF KernelRead, OpenFile, Fills
  <2>2. Now(t).op = op2 /\ ret'[t] = n /\ n # Fail
    BY <1>12, <1>13, <2>1 DEF Kernel
  <2>3. ofds' = [ofds EXCEPT ![kfds[d]].off = ofds[kfds[d]].off + n]
    BY <2>1
  <2>4. /\ OneEach'
        /\ Believed' = IF d \in Tracked
                       THEN With(Believed, d, [name |-> Believed[d].name,
                                               off |-> ofds[kfds[d]].off + n])
                       ELSE Believed
    BY <1>5, <1>9, <2>1, <2>3, BelievedMoved
  <2>5. d \in Tracked => Believed[d].off = ofds[kfds[d]].off
    BY DEF Believed
  <2>6. Relevant(Now(t)) <=> d \in Tracked
    <3>1. CASE op2 = "read"
      BY <1>11, <2>2, <3>1 DEF Relevant, SocketOps
    <3>2. CASE op2 = "recv"
      BY <2>1, <2>2, <3>2, SourceFacts
         DEF Relevant, SocketOps, IsSocket, SocketNames, Tracked
    <3> QED
      BY <2>1, <3>1, <3>2
  <2>7. CASE d \in Tracked
    <3>1. Believed' = MovedTo(d, fds[d].off + n)
      BY <1>5, <2>4, <2>5, <2>7 DEF MovedTo
    <3>2. Top(t).state = op2 /\ d \in DOMAIN fds
      BY <1>10, <1>11, <2>2, <2>6, <2>7
    <3> QED
      BY <1>2, <1>5, <1>6, <1>8, <2>1, <2>2, <2>4, <3>1, <3>2
         DEF InReturn, Unaffected, SocketNames, MovedTo
  <2>8. CASE d \notin Tracked
    BY <1>2, <1>5, <1>6, <1>8, <1>10, <2>2, <2>4, <2>6, <2>8
       DEF InReturn, Unaffected, SocketNames
  <2> QED
    BY <2>7, <2>8
<1>25. CASE KernelLseek(t)
  <2> DEFINE d == Now(t).fd
  <2>1. PICK o \in 0..Size :
          /\ Kernel(t, "lseek", o) /\ d \in DOMAIN kfds
          /\ ofds' = [ofds EXCEPT ![kfds[d]].off = o] /\ kfds' = kfds
    BY <1>25 DEF KernelLseek
  <2>2. Now(t).op = "lseek" /\ ret'[t] = o /\ o # Fail
    BY <1>12, <1>13, <2>1 DEF Kernel
  <2>4. /\ OneEach'
        /\ Believed' = IF d \in Tracked
                       THEN With(Believed, d, [name |-> Believed[d].name, off |-> o])
                       ELSE Believed
    BY <1>5, <1>9, <2>1, BelievedMoved
  <2>6. Relevant(Now(t)) <=> d \in Tracked
    BY <1>11, <2>2 DEF Relevant, SocketOps
  <2>7. CASE d \in Tracked
    <3>1. Believed' = MovedTo(d, o)
      BY <1>5, <2>4, <2>7 DEF MovedTo
    <3>2. Top(t).state = "lseek" /\ d \in DOMAIN fds
      BY <1>10, <1>11, <2>2, <2>6, <2>7
    <3> QED
      BY <1>2, <1>5, <1>6, <1>8, <2>1, <2>2, <2>4, <3>1, <3>2
         DEF InReturn, Unaffected, SocketNames, MovedTo
  <2>8. CASE d \notin Tracked
    BY <1>2, <1>5, <1>6, <1>8, <1>10, <2>2, <2>4, <2>6, <2>8
       DEF InReturn, Unaffected, SocketNames
  <2> QED
    BY <2>7, <2>8
<1>26. CASE KernelMmap(t)
  <2>1. Now(t).op = "mmap" /\ UNCHANGED <<kfds, ofds>>
    BY <1>26 DEF KernelMmap, Kernel, kernel
  <2> QED
    BY <1>2, <1>5, <1>6, <1>8, <1>10, <1>14, <2>1 DEF InReturn, Unaffected, SocketNames
<1>28. CASE KernelSection(t) \/ KernelMap(t)
  <2>1. Now(t).op \in {"section", "map"} /\ UNCHANGED <<kfds, ofds>>
    BY <1>28 DEF KernelSection, KernelMap, Kernel
  <2> QED
    BY <1>2, <1>5, <1>6, <1>8, <1>10, <1>14, <2>1 DEF InReturn, Unaffected, SocketNames
<1>29. ~KernelPending(t)
  BY KernelClean DEF Settled
<1>27. CASE KernelFails(t)
  <2>1. Kernel(t, Now(t).op, Fail) /\ UNCHANGED <<kfds, ofds>> /\ Now(t).op # "recv"
    BY <1>27 DEF KernelFails, Kernel, kernel, Settled
  <2>2. ret'[t] = Fail
    BY <1>12, <2>1
  <2> QED
    BY <1>2, <1>5, <1>6, <1>8, <1>10, <1>14, <2>1, <2>2 DEF InReturn, Unaffected
<1> QED
  BY <1>20, <1>21, <1>22, <1>23, <1>24, <1>25, <1>26, <1>27, <1>28, <1>29
     DEF KernelStep

(* SyscallExit: fds is right again, or an assertion has failed.            *)
LEMMA FollowExit ==
  ASSUME TypeInv, FollowInv, NEW t \in Threads, ExitStep(t)
  PROVE  FollowInv'
<1> SUFFICES ASSUME Settled' PROVE FollowInv'
  BY DEF FollowInv
<1>1. Exit(t)
  BY ExitExits
<1>2. /\ UNCHANGED <<kfds, ofds, taint_stdin, taint_net, clean>>
      /\ pc[t] = "return" /\ pc' = [pc EXCEPT ![t] = "app"] /\ status = "running"
  BY <1>1 DEF Exit, kernel, knobs
<1>3. Settled /\ status' = "running"
  BY <1>2 DEF Settled
<1>0. Popped(t) = Now(t) /\ Top(t).state \in {Now(t).op, "nosyscall"}
  BY <1>2, <1>3, OwnCall DEF TypeInv, Settled
<1> USE <1>0
<1>4. Alone /\ OneEach /\ InReturn(t)
  BY <1>2, <1>3 DEF FollowInv
<1>5. \A u \in Threads : pc'[u] = "app"
  BY <1>2, <1>4 DEF TypeInv, ThreadInv, Alone
<1>6. OneEach' /\ Believed' = Believed
  BY <1>2, <1>4 DEF OneEach, Believed, Tracked, Sources
<1>7. ASSUME fds' = Believed PROVE FollowInv'
  BY <1>5, <1>6, <1>7 DEF FollowInv, Alone
<1>8. ASSUME NEW n \in Nat, FromFd(t, n)
      PROVE  fds' = MovedTo(Now(t).fd, fds[Now(t).fd].off + n)
  <2> DEFINE d == Now(t).fd
  <2>1. d \in DOMAIN fds /\ fds' = [fds EXCEPT ![d].off = fds[d].off + n]
    BY <1>3, <1>8 DEF FromFd, ReadAdvances
  <2>2. fds[d] \in [name : Names, off : Nat]
    BY <2>1 DEF TypeInv, FdsTypes
  <2>3. [fds[d] EXCEPT !.off = fds[d].off + n]
          = [name |-> fds[d].name, off |-> fds[d].off + n]
    BY <2>2
  <2>4. DOMAIN fds \union {d} = DOMAIN fds
        /\ fds = [e \in DOMAIN fds |-> fds[e]]
    BY <2>1 DEF TypeInv, FdsTypes
  <2> QED
    BY <2>1, <2>3, <2>4 DEF MovedTo, With
<1>9. /\ Top(t).state \in {Now(t).op, "nosyscall"} /\ Now(t).op \in Ops
      /\ Now(t).op # "sigreturn" /\ ret[t] \in Nat \union {Fail}
  BY <1>2, CallTypes DEF TypeInv, Calls, ThreadInv, NeverReturning, Returned
<1>10. 0 # Fail
  BY DEF Fail
<1>11. Top(t).state \notin {"dup2", "readat"}
  BY <1>4, <1>9 DEF InReturn, Unfollowed
<1>20. CASE ExitRead(t)
  <2>1. Top(t).state = "read" /\ ret[t] \in Nat /\ ret[t] # Fail
    BY <1>9, <1>11, <1>20 DEF ExitRead
  <2> QED
    BY <1>4, <1>7, <1>8, <1>20, <2>1 DEF ExitRead, InReturn
<1>21. CASE ExitRecv(t)
  <2>1. /\ Top(t).state = "recv" /\ ret[t] \in 0..Size
        /\ Believed = MovedTo(Now(t).fd, fds[Now(t).fd].off + ret[t])
    BY <1>4, <1>21 DEF ExitRecv, InReturn
  <2>2. ret[t] % Word = ret[t] /\ ret[t] \in Nat
    <3>1. Size \in Nat /\ Word \in Nat /\ Word > Size + 1
      OBVIOUS
    <3>2. ret[t] \in Nat /\ ret[t] < Word
      BY <2>1, <3>1
    <3> QED
      BY <3>1, <3>2
  <2> QED
    BY <1>7, <1>8, <1>21, <2>1, <2>2 DEF ExitRecv
<1>22. CASE ExitSocket(t)
  BY <1>4, <1>7, <1>22 DEF ExitSocket, InReturn, SocketNames
<1>23. CASE ExitOpen(t)
  BY <1>4, <1>7, <1>23 DEF ExitOpen, InReturn
<1>24. CASE ExitClose(t)
  BY <1>4, <1>7, <1>10, <1>24 DEF ExitClose, InReturn
<1>25. CASE ExitLseek(t)
  BY <1>4, <1>7, <1>25 DEF ExitLseek, InReturn, MovedTo
<1>26. CASE ExitMmap(t)
  BY <1>3, <1>26 DEF ExitMmap
<1>27. CASE ExitOther(t)
  <2>1. fds' = fds
    BY <1>27 DEF ExitOther
  <2>2. CASE Unaffected(t)
    BY <1>4, <1>7, <2>1, <2>2 DEF InReturn
  <2>3. CASE ~Unaffected(t)
    <3>1. Top(t).state = "read" /\ ret[t] = 0
      BY <1>4, <1>11, <1>27, <2>3 DEF ExitOther, Unaffected, InReturn
    <3> DEFINE d == Now(t).fd
    <3>2. d \in DOMAIN fds /\ Believed = MovedTo(d, fds[d].off + 0)
      BY <1>4, <1>10, <3>1 DEF InReturn
    <3>3. /\ fds = [e \in DOMAIN fds |-> fds[e]] /\ DOMAIN fds \union {d} = DOMAIN fds
          /\ fds[d] = [name |-> fds[d].name, off |-> fds[d].off + 0]
      <4>1. fds \in [DOMAIN fds -> [name : Names, off : Nat]]
        BY DEF TypeInv, FdsTypes
      <4>2. fds[d] \in [name : Names, off : Nat]
        BY <3>2, <4>1
      <4>3. fds[d].off + 0 = fds[d].off
        BY <4>2
      <4>4. fds[d] = [name |-> fds[d].name, off |-> fds[d].off]
        BY <4>2
      <4> QED
        BY <3>2, <4>1, <4>3, <4>4
    <3>4. MovedTo(d, fds[d].off + 0) = fds
      BY <3>3 DEF MovedTo, With
    <3> QED
      BY <1>7, <2>1, <3>2, <3>4
  <2> QED
    BY <2>2, <2>3
<1>28. CASE ExitSection(t) \/ ExitMap(t)
  BY <1>4, <1>7, <1>28 DEF ExitSection, ExitMap, InReturn, Unaffected
<1> QED
  BY <1>20, <1>21, <1>22, <1>23, <1>24, <1>25, <1>26, <1>27, <1>28 DEF ExitStep

(* Introductions outside system calls leave descriptors alone.             *)
LEMMA FollowOutside ==
  ASSUME TypeInv, FollowInv, ThreadStart \/ \E t \in Threads : GetEnvWWrap(t)
  PROVE  FollowInv'
<1> SUFFICES ASSUME Settled' PROVE FollowInv'
  BY DEF FollowInv
<1>1. /\ UNCHANGED <<pc, ret, scStack, kcalls, kfds, ofds, fds, sections,
                      taint_stdin, taint_net, windows, status>>
      /\ clean
  BY DEF ThreadStart, GetEnvWWrap, introFresh, stacks, kernel, knobs, Settled
<1>2. Settled
  BY <1>1 DEF Settled
<1>3. Believed' = Believed /\ OneEach' = OneEach /\ Alone' = Alone
  BY <1>1 DEF Believed, Tracked, Sources, OneEach, Alone
<1>4. ASSUME NEW t \in Threads
      PROVE  InKernel(t)' = InKernel(t) /\ InReturn(t)' = InReturn(t)
  BY <1>1, <1>3 DEF InKernel, InReturn, Unaffected, MovedTo, Top, Now,
                    taintPreSC, Relevant
<1> QED
  BY <1>1, <1>2, <1>3, <1>4 DEF FollowInv

(* Every step keeps the tracker beside the kernel.                         *)
LEMMA FollowNext == TypeInv /\ FollowInv /\ [Next]_vars => FollowInv'
<1> SUFFICES ASSUME TypeInv, FollowInv, [Next]_vars PROVE FollowInv'
  OBVIOUS
<1>1. CASE UNCHANGED vars
  <2>1. UNCHANGED <<pc, ret, scStack, kcalls, kfds, ofds, fds, sections,
                    taint_stdin, taint_net, windows, clean, status>>
    BY <1>1 DEF vars, stacks, kernel, tracker, knobs
  <2>2. Believed' = Believed /\ OneEach' = OneEach /\ Alone' = Alone
        /\ Settled' = Settled
    BY <2>1 DEF Believed, Tracked, Sources, OneEach, Alone, Settled
  <2>3. ASSUME NEW t \in Threads
        PROVE  InKernel(t)' = InKernel(t) /\ InReturn(t)' = InReturn(t)
    BY <2>1, <2>2 DEF InKernel, InReturn, Unaffected, MovedTo, Top, Now,
                      taintPreSC, Relevant
  <2> QED
    BY <2>1, <2>2, <2>3 DEF FollowInv
<1>3. ASSUME NEW t \in Threads, KernelCallsBack(t) \/ CallbackReturns(t)
      PROVE  FollowInv'
  BY <1>3, CallbackUnsettled DEF FollowInv
<1>2. CASE Next
  BY <1>2, <1>3, FollowEntry, FollowKernel, FollowExit, FollowOutside
     DEF Next, KernelStep, ExitStep
<1> QED
  BY <1>1, <1>2

-----------------------------------------------------------------------------
(* Sections.  The tracker knows the handles of the sections of sources, but *)
(* one that SyscallExit is about to learn.                                 *)

Tainted == {h \in DOMAIN ksections : ksections[h] \in Sources}

Opening(t, h) ==
  /\ pc[t] = "return" /\ Top(t).state = "section" /\ ret[t] = h
  /\ Now(t).fd \in DOMAIN fds

SectionInv ==
  Settled => \A h \in Tainted : h \in sections \/ \E t \in Threads : Opening(t, h)

(* At the start there are none.                                            *)
LEMMA SectionInit == Init => SectionInv
BY DEF Init, SectionInv, Tainted

(* A step of the kernel: nobody else is in a call.                         *)
LEMMA SectionKernel ==
  ASSUME TypeInv, FollowInv, SectionInv, NEW t \in Threads, KernelStep(t)
  PROVE  SectionInv'
<1> SUFFICES ASSUME Settled', NEW h \in Tainted', h \notin sections'
             PROVE  Opening(t, h)'
  BY DEF SectionInv
<1>1. PICK op, r : Kernel(t, op, r)
  BY KernelKernel
<1>2. /\ UNCHANGED <<scStack, kcalls, stray, fds, sections, taint_stdin, taint_net, status>>
      /\ pc[t] = "kernel" /\ pc' = [pc EXCEPT ![t] = "return"]
  BY <1>1 DEF Kernel, stacks, tracker, knobs
<1>3. Settled
  BY <1>2, KernelClean DEF Settled
<1>4. /\ Alone /\ fds = Believed /\ Top(t).state = taintPreSC(Now(t))
  BY <1>2, <1>3 DEF FollowInv, InKernel
<1>5. \A u \in Threads : pc[u] # "return"
  BY <1>2, <1>4 DEF TypeInv, ThreadInv, Alone
<1>6. h \notin Tainted
  BY <1>2, <1>3, <1>5 DEF SectionInv, Opening
<1>7. Sources' = Sources
  BY <1>2 DEF Sources
<1>8. CASE KernelSection(t)
  <2>1. PICK d \in Fds :
          /\ Kernel(t, "section", d) /\ Now(t).fd \in DOMAIN kfds
          /\ ksections' = With(ksections, d, OpenFile(t).file)
    BY <1>8 DEF KernelSection
  <2>2. h = d /\ OpenFile(t).file \in Sources
    BY <1>6, <1>7, <2>1 DEF Tainted, With
  <2>3. Now(t).fd \in DOMAIN fds
    BY <1>4, <2>1, <2>2 DEF Believed, Tracked, OpenFile
  <2>4. Now(t).op = "section" /\ ret'[t] = h /\ pc'[t] = "return"
    BY <1>2, <2>1, <2>2 DEF Kernel, TypeInv, ThreadInv
  <2>5. Top(t).state = "section"
    BY <1>4, <2>4 DEF taintPreSC, Relevant
  <2> QED
    BY <1>2, <2>3, <2>4, <2>5 DEF Opening, Top, Now
<1>9. CASE KernelClose(t)
  BY <1>6, <1>7, <1>9 DEF KernelClose, Without, Tainted
<1>10. CASE UNCHANGED ksections
  BY <1>6, <1>7, <1>10 DEF Tainted
<1>11. KernelSection(t) \/ KernelClose(t) \/ UNCHANGED ksections
  BY DEF KernelStep, KernelOpen, KernelSocket, NewDescriptor, KernelDup2,
         KernelRead, KernelReadAt, KernelPending, Fills, KernelLseek, KernelMmap,
         KernelMap, KernelFails, kernel
<1> QED
  BY <1>8, <1>9, <1>10, <1>11

(* SyscallExit learns the new one.                                         *)
LEMMA SectionExit ==
  ASSUME TypeInv, FollowInv, SectionInv, NEW t \in Threads, ExitStep(t)
  PROVE  SectionInv'
<1> SUFFICES ASSUME Settled', NEW h \in Tainted' PROVE h \in sections'
  BY DEF SectionInv
<1>1. Exit(t)
  BY ExitExits
<1>2. /\ UNCHANGED <<ksections, taint_stdin, taint_net, clean>>
      /\ pc[t] = "return" /\ status = "running"
  BY <1>1 DEF Exit, kernel, knobs
<1>3. Settled /\ Alone
  BY <1>2 DEF Settled, FollowInv
<1>0. Popped(t) = Now(t)
  BY <1>2, <1>3, OwnCall DEF TypeInv, Settled
<1>4. h \in Tainted
  BY <1>2 DEF Tainted, Sources
<1>5. h \in sections \/ Opening(t, h)
  BY <1>2, <1>3, <1>4 DEF SectionInv, Opening, Alone
<1>6. h # Fail
  <2>1. h \in Nat
    BY <1>4 DEF Tainted, TypeInv, KernelTypes
  <2> QED
    BY <2>1 DEF Fail
<1>7. CASE ExitSection(t)
  BY <1>0, <1>5, <1>7 DEF ExitSection, Opening
<1>8. CASE ~ExitSection(t)
  <2>1. sections' = sections
    BY <1>8 DEF ExitStep, ExitRead, ExitRecv, FromFd, introMemTaint, ExitSocket,
                ExitOpen, ExitClose, ExitLseek, ExitMmap, ExitMap, introFresh,
                ExitOther, NoIntro, tracker
  <2>2. ~Opening(t, h)
    BY <1>6, <1>8 DEF Opening, ExitStep, ExitRead, ExitRecv, ExitSocket,
                      ExitOpen, ExitClose, ExitLseek, ExitMmap, ExitMap, ExitOther,
                      Settled
  <2> QED
    BY <1>5, <2>1, <2>2
<1> QED
  BY <1>7, <1>8

(* Every step keeps the sections known.                                    *)
LEMMA SectionNext ==
  TypeInv /\ FollowInv /\ SectionInv /\ [Next]_vars => SectionInv'
<1> SUFFICES ASSUME TypeInv, FollowInv, SectionInv, [Next]_vars PROVE SectionInv'
  OBVIOUS
<1>1. ASSUME UNCHANGED <<pc, ret, scStack, kcalls, ksections, fds, sections,
                         taint_stdin, taint_net, status>>, clean' => clean
      PROVE  SectionInv'
  <2> SUFFICES ASSUME Settled', NEW h \in Tainted'
               PROVE  h \in sections' \/ \E t \in Threads : Opening(t, h)'
    BY DEF SectionInv
  <2>1. Settled /\ h \in Tainted
    BY <1>1 DEF Settled, Tainted, Sources
  <2>2. CASE h \in sections
    BY <1>1, <2>2
  <2>3. ASSUME NEW t \in Threads, Opening(t, h) PROVE Opening(t, h)'
    BY <1>1, <2>3 DEF Opening, Top, Now
  <2> QED
    BY <2>1, <2>2, <2>3 DEF SectionInv
<1>2. CASE UNCHANGED vars
  BY <1>1, <1>2 DEF vars, stacks, kernel, tracker, knobs
<1>3. ASSUME NEW t \in Threads, SyscallEntry(t) PROVE SectionInv'
  <2> SUFFICES ASSUME Settled', NEW h \in Tainted' PROVE h \in sections'
    BY DEF SectionInv
  <2>1. /\ UNCHANGED <<ksections, sections, taint_stdin, taint_net, status>>
        /\ clean /\ pc[t] = "app" /\ \A u \in Threads \ {t} : pc[u] = "app"
    BY <1>3 DEF SyscallEntry, Calling, Apart, kernel, tracker, knobs, Settled
  <2>2. h \in Tainted /\ Settled
    BY <2>1 DEF Tainted, Sources, Settled
  <2>3. \A u \in Threads : ~Opening(u, h)
    BY <2>1 DEF Opening
  <2> QED
    BY <2>1, <2>2, <2>3 DEF SectionInv
<1>4. CASE ThreadStart
  BY <1>1, <1>4 DEF ThreadStart, introFresh, stacks, kernel, knobs
<1>5. ASSUME NEW t \in Threads, GetEnvWWrap(t) PROVE SectionInv'
  BY <1>1, <1>5 DEF GetEnvWWrap, introFresh, stacks, knobs
<1>6. ASSUME NEW t \in Threads, KernelCallsBack(t) \/ CallbackReturns(t)
      PROVE  SectionInv'
  BY <1>6, CallbackUnsettled DEF SectionInv
<1> QED
  BY <1>2, <1>3, <1>4, <1>5, <1>6, SectionKernel, SectionExit
     DEF Next, KernelStep, ExitStep

(* The tracker's descriptors are those of the tainted files, at the        *)
(* kernel's offsets, and it knows the handles of their sections.           *)
THEOREM FollowTheorem == Spec => []FdsFollowKernel
<1>1. FollowInv /\ SectionInv => FdsFollowKernel
  <2> SUFFICES ASSUME FollowInv, SectionInv, Quiet PROVE
        /\ DOMAIN fds = Tracked
        /\ \A d \in DOMAIN fds : fds[d] = [name |-> ofds[kfds[d]].file,
                                         off |-> ofds[kfds[d]].off]
        /\ Tainted \subseteq sections
    BY DEF FdsFollowKernel, Tracked, Tainted
  <2>1. fds = Believed
    BY DEF FollowInv, Quiet, Settled
  <2>2. Tainted \subseteq sections
    BY DEF SectionInv, Quiet, Settled, Opening
  <2> QED
    BY <2>1, <2>2 DEF Believed
<1>2. Init => FollowInv /\ SectionInv
  BY FollowInit, SectionInit
<1>3. TypeInv /\ FollowInv /\ SectionInv /\ [Next]_vars => FollowInv' /\ SectionInv'
  BY FollowNext, SectionNext
<1> QED
  BY <1>1, <1>2, <1>3, TypeInvariant, PTL DEF Spec

-----------------------------------------------------------------------------
(* Before the program runs its buffer is empty.                            *)

StartInv ==
  startup # <<>> =>
    /\ \A a \in Addrs : content[a] = NoByte
    /\ \A t \in Threads : pc[t] = "app" /\ kcalls[t] = <<>>

(* No call starts before.                                                  *)
LEMMA StartNext == TypeInv /\ StartInv /\ [Next]_vars => StartInv'
<1> SUFFICES ASSUME TypeInv, StartInv, [Next]_vars, startup' # <<>>
             PROVE  /\ \A a \in Addrs : content'[a] = NoByte
                    /\ \A t \in Threads : pc'[t] = "app" /\ kcalls'[t] = <<>>
  BY DEF StartInv
<1>1. CASE UNCHANGED vars
  BY <1>1 DEF vars, stacks, kernel, StartInv
<1>2. CASE ThreadStart
  BY <1>2 DEF ThreadStart, stacks, kernel, StartInv
<1>3. ASSUME NEW t \in Threads, SyscallEntry(t) \/ GetEnvWWrap(t) PROVE FALSE
  BY <1>3 DEF SyscallEntry, GetEnvWWrap, Calling
<1>4. ASSUME NEW t \in Threads, KernelStep(t) PROVE FALSE
  BY <1>4, KernelKernel DEF Kernel, StartInv
<1>5. ASSUME NEW t \in Threads, ExitStep(t) PROVE FALSE
  BY <1>5, ExitExits DEF Exit, StartInv
<1>6. ASSUME NEW t \in Threads, KernelCallsBack(t) \/ CallbackReturns(t)
      PROVE  FALSE
  BY <1>6 DEF KernelCallsBack, CallbackReturns, StartInv
<1> QED
  BY <1>1, <1>2, <1>3, <1>4, <1>5, <1>6 DEF Next, KernelStep, ExitStep

-----------------------------------------------------------------------------
(* No byte of a source is untainted in the buffer, but those that a call   *)
(* has read or mapped and that SyscallExit will introduce.                 *)

Told(a) ==
  /\ content[a].name \in Sources =>
       content[a] \in DOMAIN taint_mappings /\ memory[a] = taint_mappings[content[a]]
  /\ content[a].name = "view" => memory[a] # NOTAINT

Filling(t, a) ==
  /\ pc[t] = "return" /\ Top(t).state \in {"read", "recv", "map"} /\ ret[t] # Fail
  /\ a \in Now(t).addr..(Now(t).addr + ret[t] - 1)

Filled(t, a) ==
  IF Top(t).state = "map" THEN content[a].name \in {"view", "none"}
  ELSE content[a] = Resource(fds[Now(t).fd].name,
                             fds[Now(t).fd].off + (a - Now(t).addr))

MissedInv ==
  Settled /\ g_skipTaints = 0 =>
    \A a \in Addrs :
      /\ (\A t \in Threads : ~Filling(t, a)) => Told(a)
      /\ \A t \in Threads : Filling(t, a) => Filled(t, a)

(* At the start the buffer holds nothing.                                  *)
LEMMA MissedInit == Init => MissedInv
BY SourceFacts DEF Init, MissedInv, Told, Filling, NoByte

(* A call begins: nothing moves.                                           *)
LEMMA MissedEntry ==
  ASSUME TypeInv, MissedInv, NEW t \in Threads, SyscallEntry(t)
  PROVE  MissedInv'
<1> SUFFICES ASSUME Settled', (g_skipTaints = 0)', NEW a \in Addrs
             PROVE  Told(a)' /\ \A u \in Threads : ~Filling(u, a)'
  BY DEF MissedInv
<1>1. /\ UNCHANGED <<content, taint_mappings, memory, taint_stdin, taint_net,
                     g_skipTaints, status>>
      /\ pc[t] = "app" /\ clean /\ \A u \in Threads \ {t} : pc[u] = "app"
  BY DEF SyscallEntry, Calling, Apart, kernel, tracker, knobs, Settled
<1>2. PICK c \in Calls :
        pc' = [pc EXCEPT ![t] = IF c.op = "sigreturn" THEN "app" ELSE "kernel"]
  BY DEF SyscallEntry
<1>3. \A u \in Threads : pc[u] # "return" /\ pc'[u] # "return"
  BY <1>1, <1>2 DEF TypeInv, ThreadInv
<1>4. Told(a)
  BY <1>1, <1>3 DEF MissedInv, Settled, Filling
<1> QED
  BY <1>1, <1>3, <1>4 DEF Told, Filling, Sources

(* ThreadStart: the buffer is empty.                                       *)
LEMMA MissedStart ==
  ASSUME StartInv, ThreadStart
  PROVE  MissedInv'
<1>1. /\ \A a \in Addrs : content'[a] = NoByte
      /\ \A t \in Threads : pc'[t] = "app"
  BY DEF ThreadStart, StartInv, kernel
<1>2. Sources' = Sources
  BY DEF ThreadStart, knobs, Sources
<1>3. \A a \in Addrs : content'[a].name = "none"
  BY <1>1 DEF NoByte
<1> QED
  BY <1>1, <1>2, <1>3, SourceFacts DEF MissedInv, Told, Filling

(* GetEnvironmentStringsW: the variable is not of a source.                *)
LEMMA MissedEnv ==
  ASSUME TypeInv, MissedInv, NEW t \in Threads, GetEnvWWrap(t)
  PROVE  MissedInv'
<1> SUFFICES ASSUME Settled', (g_skipTaints = 0)', NEW a \in Addrs
             PROVE  Told(a)' /\ \A u \in Threads : ~Filling(u, a)'
  BY DEF MissedInv
<1> DEFINE range == EnvVar.addr..(EnvVar.addr + EnvVar.len - 1)
<1>1. /\ UNCHANGED <<pc, taint_mappings, taint_stdin, taint_net, g_skipTaints, status>>
      /\ pc[t] = "app" /\ clean /\ \A u \in Threads \ {t} : pc[u] = "app"
      /\ content'[a] = IF a \in range THEN NoByte ELSE content[a]
      /\ a \notin range => memory'[a] = memory[a]
  BY DEF GetEnvWWrap, introFresh, Calling, Apart, knobs, Settled
<1>2. Sources' = Sources
  BY <1>1 DEF Sources
<1>3. Told(a) /\ \A u \in Threads : ~Filling(u, a)'
  BY <1>1 DEF MissedInv, Settled, Filling
<1>4. CASE a \in range
  <2>1. content'[a].name = "none"
    BY <1>1, <1>4 DEF NoByte
  <2> QED
    BY <1>2, <1>3, <2>1, SourceFacts DEF Told
<1>5. CASE a \notin range
  BY <1>1, <1>2, <1>3, <1>5 DEF Told
<1> QED
  BY <1>4, <1>5

(* The kernel fills the buffer.                                            *)
LEMMA MissedKernel ==
  ASSUME TypeInv, FollowInv, SectionInv, MissedInv, NEW t \in Threads, KernelStep(t)
  PROVE  MissedInv'
<1> SUFFICES ASSUME Settled', (g_skipTaints = 0)', NEW a \in Addrs
             PROVE  /\ (\A u \in Threads : ~Filling(u, a)') => Told(a)'
                    /\ \A u \in Threads : Filling(u, a)' => Filled(u, a)'
  BY DEF MissedInv
<1>1. PICK op, r : Kernel(t, op, r)
  BY KernelKernel
<1>2. /\ UNCHANGED <<scStack, kcalls, stray, fds, sections, taint_stdin, taint_net, g_skipTaints,
                     memory, taint_mappings, status>>
      /\ pc[t] = "kernel" /\ pc' = [pc EXCEPT ![t] = "return"]
  BY <1>1 DEF Kernel, stacks, tracker, knobs
<1>3. clean
  BY KernelClean DEF Settled
<1>4. Settled
  BY <1>2, <1>3 DEF Settled
<1>5. /\ Alone /\ fds = Believed
      /\ Top(t).state = taintPreSC(Now(t)) /\ Now(t).op \notin Unfollowed
  BY <1>2, <1>4 DEF FollowInv, InKernel
<1>6. Top(t)' = Top(t) /\ Now(t)' = Now(t)
  BY <1>2 DEF Top, Now
<1>7. \A u \in Threads : pc[u] # "return" /\ (u # t => pc'[u] = "app")
  BY <1>2, <1>5 DEF TypeInv, ThreadInv, Alone
<1>8. Told(a)
  BY <1>2, <1>4, <1>7 DEF MissedInv, Filling
<1>9. Sources' = Sources
  BY <1>2 DEF Sources
<1>10. \A u \in Threads : Filling(u, a)' => u = t
  BY <1>7 DEF Filling
<1>11. CASE content'[a] = content[a] /\ ~Filling(t, a)'
  BY <1>2, <1>8, <1>9, <1>10, <1>11 DEF Told
<1>12. CASE content' = content
            /\ (Now(t).op \notin {"read", "recv", "map"} \/ ret'[t] = Fail)
  <2>1. Top(t).state \in {Now(t).op, "nosyscall"}
    BY <1>2, <1>3, OwnCall DEF TypeInv
  <2>2. ~Filling(t, a)'
    BY <1>6, <1>12, <2>1 DEF Filling
  <2> QED
    BY <1>11, <1>12, <2>2
<1>13. CASE KernelRead(t)
  <2> DEFINE d == Now(t).fd
             low == Now(t).addr
  <2>1. PICK n \in 0..Size, op2 \in {"read", "recv"} :
          /\ Kernel(t, op2, n) /\ d \in DOMAIN kfds
          /\ op2 = "recv" => IsSocket(ofds[kfds[d]].file)
          /\ content' = [b \in Addrs |->
                IF b \in low..(low + n - 1)
                THEN [name |-> ofds[kfds[d]].file, off |-> ofds[kfds[d]].off + b - low]
                ELSE content[b]]
    BY <1>13 DEF KernelRead, OpenFile, Fills
  <2>2. Now(t).op = op2 /\ ret'[t] = n /\ n # Fail
    <3>1. 0..Size \subseteq Nat /\ Fail \notin Nat
      BY DEF Fail
    <3> QED
      BY <2>1, <3>1 DEF Kernel, TypeInv, ThreadInv
  <2>3. Relevant(Now(t)) <=> ofds[kfds[d]].file \in Sources
    <3>1. d \in DOMAIN fds <=> ofds[kfds[d]].file \in Sources
      BY <1>5, <2>1 DEF Believed, Tracked
    <3>2. CASE op2 = "read"
      BY <2>2, <3>1, <3>2 DEF Relevant, SocketOps
    <3>3. CASE op2 = "recv"
      BY <2>1, <2>2, <3>3, SourceFacts DEF Relevant, SocketOps, IsSocket, SocketNames
    <3> QED
      BY <2>1, <3>2, <3>3
  <2>4. CASE a \notin low..(low + n - 1)
    <3>1. content'[a] = content[a]
      BY <2>1, <2>4
    <3>2. ~Filling(t, a)'
      BY <1>6, <2>2, <2>4 DEF Filling
    <3> QED
      BY <1>11, <3>1, <3>2
  <2>5. CASE a \in low..(low + n - 1) /\ ofds[kfds[d]].file \notin Sources
    <3>0. content'[a].name = ofds[kfds[d]].file
      BY <2>1, <2>5
    <3>1. content'[a].name # "view"
      <4>1. ofds[kfds[d]] \in OpenFiles
        BY <2>1 DEF TypeInv, KernelTypes
      <4>2. ofds[kfds[d]].file \in Files \union SocketNames
        BY <4>1 DEF OpenFiles
      <4> QED
        BY <3>0, <4>2 DEF SocketNames
    <3>2. Told(a)'
      BY <1>9, <2>5, <3>0, <3>1 DEF Told
    <3>3. ~Filling(t, a)'
      BY <1>5, <1>6, <2>3, <2>5 DEF Filling, taintPreSC
    <3> QED
      BY <1>10, <3>2, <3>3
  <2>6. CASE a \in low..(low + n - 1) /\ ofds[kfds[d]].file \in Sources
    <3>1. d \in Tracked /\ fds[d] = [name |-> ofds[kfds[d]].file,
                                     off |-> ofds[kfds[d]].off]
      BY <1>5, <2>1, <2>6 DEF Believed, Tracked
    <3>2. Filling(t, a)' /\ Top(t)'.state # "map"
      BY <1>2, <1>5, <1>6, <2>1, <2>2, <2>3, <2>6
         DEF Filling, taintPreSC, TypeInv, ThreadInv
    <3>3. content'[a] = [name |-> fds[d].name, off |-> fds[d].off + a - low]
      BY <2>1, <2>6, <3>1
    <3>4. fds[d].off + a - low = fds[d].off + (a - low)
      <4>1. fds[d].off \in Nat /\ a \in Nat /\ low \in Nat
        <5>1. Now(t) \in Calls
          BY <1>2, CallTypes DEF TypeInv
        <5>2. d \in DOMAIN fds
          BY <1>5, <3>1 DEF Believed
        <5> QED
          BY <5>1, <5>2 DEF TypeInv, FdsTypes, Calls, Addrs
      <4> QED
        BY <4>1
    <3>5. Filled(t, a)'
      BY <1>2, <1>6, <3>2, <3>3, <3>4 DEF Filled, Resource
    <3> QED
      BY <1>10, <3>2, <3>5
  <2> QED
    BY <2>4, <2>5, <2>6
<1>14. ASSUME NEW res, Kernel(t, Now(t).op, res) PROVE ret'[t] = res
  BY <1>14 DEF Kernel, TypeInv, ThreadInv
<1>15. CASE KernelOpen(t) \/ KernelSocket(t)
  BY <1>12, <1>15 DEF KernelOpen, KernelSocket, NewDescriptor, Kernel
<1>16. CASE \/ KernelClose(t) \/ KernelLseek(t) \/ KernelMmap(t) \/ KernelDup2(t)
            \/ KernelSection(t)
  BY <1>12, <1>16 DEF KernelClose, KernelLseek, KernelMmap, KernelDup2,
                      KernelSection, Kernel, kernel
<1>17. CASE KernelFails(t)
  <2>1. Kernel(t, Now(t).op, Fail) /\ content' = content
    BY <1>17 DEF KernelFails, Kernel, kernel
  <2> QED
    BY <1>12, <1>14, <2>1
<1>18. CASE KernelMap(t)
  <2> DEFINE d == Now(t).fd
             low == Now(t).addr
  <2>1. PICK n \in 1..Size :
          /\ Kernel(t, "map", n) /\ d \in DOMAIN ksections
          /\ content' = [b \in Addrs |-> IF b \in low..(low + n - 1)
                                         THEN Viewed(ksections[d]) ELSE content[b]]
    BY <1>18 DEF KernelMap
  <2>2. Now(t).op = "map" /\ ret'[t] = n
    BY <1>14, <2>1 DEF Kernel
  <2>3. CASE a \notin low..(low + n - 1)
    <3>1. content'[a] = content[a] /\ ~Filling(t, a)'
      BY <1>6, <2>1, <2>2, <2>3 DEF Filling
    <3> QED
      BY <1>11, <3>1
  <2>4. CASE a \in low..(low + n - 1) /\ d \in sections
    <3>1. Top(t)'.state = "map"
      BY <1>5, <1>6, <2>2, <2>4 DEF taintPreSC, Relevant
    <3>2. n # Fail
      <4>1. n \in Nat
        BY <2>1
      <4> QED
        BY <4>1 DEF Fail
    <3>3. Filling(t, a)'
      BY <1>2, <1>6, <2>2, <2>4, <3>1, <3>2 DEF Filling, TypeInv, ThreadInv
    <3>4. Filled(t, a)'
      BY <2>1, <2>4, <3>1 DEF Filled, Viewed
    <3> QED
      BY <1>10, <3>3, <3>4
  <2>5. CASE a \in low..(low + n - 1) /\ d \notin sections
    <3>1. d \notin Tainted
      BY <1>4, <1>7, <2>5 DEF SectionInv, Opening
    <3>2. content'[a].name = "none"
      BY <2>1, <2>5, <3>1 DEF Tainted, Viewed
    <3>3. ~Filling(t, a)'
      BY <1>5, <1>6, <2>2, <2>5 DEF Filling, taintPreSC, Relevant, SocketOps
    <3> QED
      BY <1>9, <1>10, <3>2, <3>3, SourceFacts DEF Told
  <2> QED
    BY <2>3, <2>4, <2>5
<1>19. ~KernelReadAt(t) /\ ~KernelPending(t)
  BY <1>5, KernelClean DEF KernelReadAt, Kernel, Unfollowed, Settled
<1> QED
  BY <1>13, <1>15, <1>16, <1>17, <1>18, <1>19 DEF KernelStep

(* SyscallExit introduces what has been filled.                            *)
LEMMA MissedExit ==
  ASSUME TypeInv, FollowInv, MissedInv, NEW t \in Threads, ExitStep(t)
  PROVE  MissedInv'
<1>1. Exit(t)
  BY ExitExits
<1>2. /\ UNCHANGED <<content, taint_stdin, taint_net, windows, g_skipTaints, clean>>
      /\ pc[t] = "return" /\ pc' = [pc EXCEPT ![t] = "app"] /\ status = "running"
  BY <1>1 DEF Exit, kernel, knobs
<1> SUFFICES ASSUME Settled', g_skipTaints = 0, NEW a \in Addrs PROVE Told(a)'
  <2>1. Settled' => Settled
    BY <1>2 DEF Settled
  <2>2. ASSUME Settled' PROVE \A u \in Threads : pc'[u] = "app"
    BY <1>2, <2>1, <2>2 DEF FollowInv, Alone, TypeInv, ThreadInv
  <2> QED
    BY <1>2, <2>2 DEF MissedInv, Filling
<1>3. Settled /\ status' = "running"
  BY <1>2 DEF Settled
<1>0. Popped(t) = Now(t)
  BY <1>2, <1>3, OwnCall DEF TypeInv, Settled
<1> USE <1>0
<1>4. Alone /\ InReturn(t)
  BY <1>2, <1>3 DEF FollowInv
<1>5. \A u \in Threads : Filling(u, a) => u = t
  BY <1>2, <1>4 DEF Alone, Filling
<1>6. Sources' = Sources
  BY <1>2 DEF Sources
<1>7. CASE UNCHANGED numbers /\ ~Filling(t, a)
  <2>1. Told(a)
    BY <1>3, <1>5, <1>7 DEF MissedInv
  <2> QED
    BY <1>2, <1>6, <1>7, <2>1 DEF Told, numbers
<1>9. /\ Top(t).state \in {Now(t).op, "nosyscall"} /\ Now(t).op \notin Unfollowed
      /\ Now(t) \in Calls /\ ret[t] \in Nat \union {Fail} /\ 0 # Fail
  BY <1>2, <1>3, <1>4, CallTypes, OwnCall
     DEF TypeInv, ThreadInv, Returned, InReturn, Fail, Settled
<1>8. ASSUME ret[t] \in Nat, FromFd(t, ret[t]), Top(t).state \in {"read", "recv"},
             ret[t] # Fail
      PROVE  Told(a)'
  <2> DEFINE d == Now(t).fd
             low == Now(t).addr
             n == ret[t]
             name == fds[d].name
             off == fds[d].off
             b == Resource(name, off + (a - low))
  <2>1. introMemTaint(low, n, name, off) /\ d \in DOMAIN fds
    BY <1>3, <1>8 DEF FromFd
  <2>2. off \in Nat /\ a \in Nat /\ low \in Nat
    <3>1. Now(t) \in Calls
      BY <1>2, CallTypes DEF TypeInv
    <3> QED
      BY <2>1, <3>1 DEF TypeInv, FdsTypes, Calls, Addrs
  <2>3. intronum >= g_skipTaints
    BY DEF TypeInv, IntroInv
  <2>4. CASE a \in low..(low + n - 1)
    <3>1. Filling(t, a) /\ n > 0
      BY <1>2, <1>8, <2>2, <2>4 DEF Filling
    <3>2. content[a] = b
      BY <1>3, <1>8, <3>1 DEF MissedInv, Filled
    <3>3. a - low \in 0..(n - 1) /\ b.off - off = a - low
      BY <1>8, <2>2, <2>4 DEF Resource
    <3>4. /\ b \in DOMAIN taint_mappings'
          /\ taint_mappings'[b] = IF b \in DOMAIN taint_mappings
                                  THEN taint_mappings[b] ELSE Tag(name, off, b.off - off)
          /\ memory'[a] = Tag(name, off, a - low)
      BY <2>1, <2>3, <2>4, <3>1, <3>3 DEF introMemTaint
    <3>5. Tag(name, off, a - low) = IF b \in DOMAIN taint_mappings
                                    THEN taint_mappings[b] ELSE Tag(name, off, a - low)
      BY DEF Tag
    <3>6. b.name # "view"
      <4>1. name \in Names
        BY <2>1 DEF TypeInv, FdsTypes
      <4> QED
        BY <4>1 DEF Names, SocketNames, Resource
    <3> QED
      BY <1>2, <3>2, <3>3, <3>4, <3>5, <3>6 DEF Told
  <2>5. CASE a \notin low..(low + n - 1)
    <3>1. Told(a)
      BY <1>3, <1>5, <2>5 DEF MissedInv, Filling
    <3>2. /\ DOMAIN taint_mappings \subseteq DOMAIN taint_mappings'
          /\ \A r \in DOMAIN taint_mappings : taint_mappings'[r] = taint_mappings[r]
          /\ memory'[a] = memory[a]
      BY <2>1, <2>5 DEF introMemTaint
    <3> QED
      BY <1>2, <1>6, <3>1, <3>2 DEF Told
  <2> QED
    BY <2>4, <2>5
<1>20. CASE ExitRead(t)
  <2>1. ret[t] \in Nat /\ Top(t).state = "read"
    BY <1>9, <1>20 DEF ExitRead, Unfollowed
  <2> QED
    BY <1>8, <1>20, <2>1 DEF ExitRead
<1>21. CASE ExitRecv(t)
  <2>1. Top(t).state = "recv" /\ ret[t] \in 0..Size /\ ret[t] # Fail
    BY <1>4, <1>21 DEF ExitRecv, InReturn
  <2>2. Size \in Nat /\ Word \in Nat /\ Word > Size + 1
    OBVIOUS
  <2>3. ret[t] \in Nat /\ ret[t] < Word
    BY <2>1, <2>2
  <2>4. ret[t] % Word = ret[t]
    BY <2>2, <2>3
  <2> QED
    BY <1>8, <1>21, <2>1, <2>3, <2>4 DEF ExitRecv
<1>22. CASE ExitSocket(t)
  BY <1>7, <1>22 DEF ExitSocket, NoIntro, Filling
<1>23. CASE ExitOpen(t)
  BY <1>7, <1>23 DEF ExitOpen, NoIntro, Filling
<1>24. CASE ExitClose(t)
  BY <1>7, <1>24 DEF ExitClose, NoIntro, Filling
<1>25. CASE ExitLseek(t)
  BY <1>7, <1>25 DEF ExitLseek, NoIntro, Filling
<1>26. CASE ExitMmap(t)
  BY <1>3, <1>26 DEF ExitMmap
<1>27. CASE ExitOther(t)
  <2>1. ~Filling(t, a)
    <3>1. CASE Top(t).state = "nosyscall" \/ ret[t] = Fail
      BY <3>1 DEF Filling
    <3>2. CASE ret[t] = 0
      <4>1. Now(t).addr \in Nat /\ a \in Nat
        BY <1>9 DEF Calls, Addrs
      <4> QED
        BY <3>2, <4>1 DEF Filling
    <3> QED
      BY <1>27, <3>1, <3>2 DEF ExitOther
  <2> QED
    BY <1>7, <1>27, <2>1 DEF ExitOther, NoIntro
<1>28. CASE ExitSection(t)
  BY <1>7, <1>28 DEF ExitSection, Filling
<1>29. CASE ExitMap(t)
  <2> DEFINE low == Now(t).addr
             n == ret[t]
  <2>1. introFresh(low, n, TRUE) /\ Top(t).state = "map" /\ n # Fail /\ n \in Nat
    BY <1>9, <1>29 DEF ExitMap
  <2>2. low \in Nat /\ a \in Nat /\ intronum >= g_skipTaints
        /\ taintnum \in Nat \ {0} /\ taint_mappings' = taint_mappings
    BY <1>9, <2>1 DEF Calls, Addrs, introFresh, TypeInv, IntroInv, NumberTypes
  <2>3. CASE a \in low..(low + n - 1)
    <3>1. content[a].name \in {"view", "none"}
      BY <1>2, <1>3, <2>1, <2>3 DEF MissedInv, Filling, Filled
    <3>2. n > 0 /\ memory'[a] = taintnum + (a - low)
      BY <2>1, <2>2, <2>3, SMTT(30) DEF introFresh
    <3>3. memory'[a] # NOTAINT
      BY <2>2, <2>3, <3>2 DEF NOTAINT
    <3> QED
      BY <1>2, <1>6, <3>1, <3>3, SourceFacts DEF Told
  <2>4. CASE a \notin low..(low + n - 1)
    <3>1. Told(a)
      BY <1>3, <1>5, <2>4 DEF MissedInv, Filling
    <3>2. memory'[a] = memory[a]
      BY <2>1, <2>4 DEF introFresh
    <3> QED
      BY <1>2, <1>6, <2>2, <3>1, <3>2 DEF Told
  <2> QED
    BY <2>3, <2>4
<1> QED
  BY <1>20, <1>21, <1>22, <1>23, <1>24, <1>25, <1>26, <1>27, <1>28, <1>29
     DEF ExitStep

(* Every step keeps what is filled told or about to be.                    *)
LEMMA MissedNext ==
  TypeInv /\ FollowInv /\ SectionInv /\ StartInv /\ MissedInv /\ [Next]_vars
    => MissedInv'
<1> SUFFICES ASSUME TypeInv, FollowInv, SectionInv, StartInv, MissedInv, [Next]_vars
             PROVE  MissedInv'
  OBVIOUS
<1>1. CASE UNCHANGED vars
  BY <1>1, SMTT(30) DEF vars, stacks, kernel, tracker, knobs, MissedInv, Settled, Told, Filling,
              Filled, Sources, Top, Now, Resource
<1>3. ASSUME NEW t \in Threads, KernelCallsBack(t) \/ CallbackReturns(t)
      PROVE  MissedInv'
  BY <1>3, CallbackUnsettled DEF MissedInv
<1>2. CASE Next
  BY <1>2, <1>3, MissedEntry, MissedStart, MissedEnv, MissedKernel, MissedExit
     DEF Next, KernelStep, ExitStep
<1> QED
  BY <1>1, <1>2

(* Every byte of a source that is in the buffer between calls is tainted   *)
(* with its number, and every byte of the view of one is tainted.          *)
THEOREM MissedTheorem == Spec => []NoMissedTaint
<1>1. FollowInv /\ MissedInv => NoMissedTaint
  BY DEF MissedInv, NoMissedTaint, Quiet, Settled, Told, Filling
<1>2. Init => FollowInv /\ SectionInv /\ StartInv /\ MissedInv
  BY FollowInit, SectionInit, MissedInit DEF Init, StartInv
<1>3. TypeInv /\ FollowInv /\ SectionInv /\ StartInv /\ MissedInv /\ [Next]_vars
        => FollowInv' /\ SectionInv' /\ StartInv' /\ MissedInv'
  BY FollowNext, SectionNext, StartNext, MissedNext
<1> QED
  BY <1>1, <1>2, <1>3, TypeInvariant, PTL DEF Spec
=============================================================================
