--------------------------- MODULE ForkExecProofs ---------------------------
(***************************************************************************)
(* Theorems about ForkExec for every number of processes and threads,      *)
(* every size of the name and every limit: children write files of their   *)
(* own, and in them their own instructions only, and all of them when they *)
(* have ended, unless two threads of one process fork at the same time.    *)
(***************************************************************************)
EXTENDS ForkExec, FiniteSetTheorems, SequenceTheorems, TLAPS

USE ForkAssumption

-----------------------------------------------------------------------------
(* Names. *)

(* u begins with s.                                                        *)
Begins(s, u) == Len(s) <= Len(u) /\ \A i \in 1..Len(s) : s[i] = u[i]

(* A name with one letter more.                                            *)
LEMMA OneMore ==
  ASSUME NEW s \in Seq(Letters), NEW x \in Letters
  PROVE  /\ Append(s, x) \in Seq(Letters)
         /\ Len(s) \in Nat /\ Len(Append(s, x)) = Len(s) + 1
         /\ Append(s, x)[Len(s) + 1] = x
         /\ \A i \in 1..Len(s) : Append(s, x)[i] = s[i]
BY AppendProperties, LenProperties

(* A letter more at the end of either.                                     *)
LEMMA BeginsLonger ==
  ASSUME NEW s \in Seq(Letters), NEW u \in Seq(Letters), NEW x \in Letters
  PROVE  /\ Begins(Append(s, x), u) => Begins(s, u)
         /\ Begins(s, u) => Begins(s, Append(u, x))
         /\ Begins(s, Append(u, x)) => Begins(s, u) \/ Begins(u, s)
<1>1. Len(s) \in Nat /\ Len(u) \in Nat
  BY LenProperties
<1>2. Begins(Append(s, x), u) => Begins(s, u)
  BY <1>1, OneMore DEF Begins
<1>3. Begins(s, u) => Begins(s, Append(u, x))
  BY <1>1, OneMore DEF Begins
<1>4. ASSUME Begins(s, Append(u, x)) PROVE Begins(s, u) \/ Begins(u, s)
  <2>1. CASE Len(s) <= Len(u)
    BY <1>1, <1>4, <2>1, OneMore DEF Begins
  <2>2. CASE Len(s) > Len(u)
    BY <1>1, <1>4, <2>2, OneMore DEF Begins
  <2> QED
    BY <1>1, <2>1, <2>2
<1> QED
  BY <1>2, <1>3, <1>4

(* A name does not begin with a longer one, or with its sibling.           *)
LEMMA BeginsNot ==
  ASSUME NEW s \in Seq(Letters), NEW x \in Letters, NEW y \in Letters, x # y
  PROVE  /\ ~Begins(Append(s, x), s)
         /\ ~Begins(Append(s, x), Append(s, y))
<1>1. Len(s) + 1 \in 1..(Len(s) + 1) /\ Len(s) \in Nat
  BY LenProperties
<1> QED
  BY <1>1, OneMore DEF Begins

(* Every name begins with itself.                                          *)
LEMMA BeginsSelf == ASSUME NEW s \in Seq(Letters) PROVE Begins(s, s)
BY LenProperties DEF Begins

-----------------------------------------------------------------------------
(* Types. *)

TypeInv ==
  /\ NameSize \in NameSizes
  /\ pc \in [Procs -> [Threads -> Places]]
  /\ lock \in [Procs -> Threads \union {NoThread}]
  /\ g_threadname \in [Procs -> Seq(Letters)]
  /\ \A p \in Procs : Len(g_threadname[p]) \in 1..NameSize
  /\ DOMAIN g_twnew = Procs
  /\ \A p \in Procs : g_twnew[p] \in DOMAIN files /\ g_twnew[p] \in Seq(Letters)
  /\ g_buffer \in [Procs -> Seq(Frames)]
  /\ \A f \in DOMAIN files : files[f] \in Seq(Frames)
  /\ g_logcount \in [Procs -> Nat]
  /\ status \in [Procs -> {"unborn", "running", "finished", "assert"}]
  /\ issued \in [Procs -> [Threads -> 0..MaxFrames]]
  /\ quiet \subseteq Procs /\ raced \in BOOLEAN

(* The invariant gives the types.                                          *)
LEMMA TypeInvIsEnough == TypeInv => TypeOK
BY DEF TypeInv, TypeOK

(* All types hold at the start.                                            *)
LEMMA TypeInit == Init => TypeInv
<1> SUFFICES ASSUME Init PROVE TypeInv
  OBVIOUS
<1>1. pc \in [Procs -> [Threads -> Places]]
  BY DEF Init, Places
<1>2. /\ <<"s">> \in Seq(Letters) /\ Len(<<"s">>) = 1
      /\ MainFile \in Seq(Letters)
  BY DEF Letters, MainFile
<1>3. NameSize \in Nat /\ 1 \in 1..NameSize
  BY DEF Init
<1>4. /\ g_threadname \in [Procs -> Seq(Letters)]
      /\ \A p \in Procs : Len(g_threadname[p]) \in 1..NameSize
  BY <1>2, <1>3 DEF Init
<1>5. /\ DOMAIN g_twnew = Procs
      /\ \A p \in Procs : g_twnew[p] \in DOMAIN files /\ g_twnew[p] \in Seq(Letters)
  BY <1>2 DEF Init
<1>6. /\ g_buffer \in [Procs -> Seq(Frames)]
      /\ \A f \in DOMAIN files : files[f] \in Seq(Frames)
  BY DEF Init
<1>7. quiet \subseteq Procs
  BY DEF Init, Procs
<1>8. issued \in [Procs -> [Threads -> 0..MaxFrames]]
  BY DEF Init
<1> QED
  BY <1>1, <1>4, <1>5, <1>6, <1>7, <1>8 DEF Init, TypeInv

(* A thread with less than the bound may make one frame more.              *)
LEMMA IssueBound ==
  ASSUME TypeInv, NEW p \in Procs, NEW t \in Threads, CanIssue
  PROVE  issued[p][t] + 1 \in 0..MaxFrames
<1> DEFINE all == Procs \X Threads \X (1..MaxFrames)
           made == {x \in all : x[3] <= issued[x[1]][x[2]]}
           mine == [n \in 1..MaxFrames |-> <<p, t, n>>]
           img == {mine[n] : n \in 1..MaxFrames}
<1>1. issued[p][t] \in 0..MaxFrames /\ MaxFrames \in Nat
  BY DEF TypeInv
<1>2. SUFFICES ASSUME issued[p][t] = MaxFrames PROVE FALSE
  BY <1>1
<1>3. IsFiniteSet(all)
  <2>1. IsFiniteSet(Procs) /\ IsFiniteSet(1..MaxFrames) /\ IsFiniteSet(Threads)
    BY FS_Interval DEF Procs
  <2> DEFINE pairs == Procs \X (Threads \X (1..MaxFrames))
             f == [x \in pairs |-> <<x[1], x[2][1], x[2][2]>>]
  <2>2. IsFiniteSet(Threads \X (1..MaxFrames))
    BY <2>1, FS_Product
  <2>3. IsFiniteSet(pairs)
    BY <2>1, <2>2, FS_Product
  <2>4. ASSUME NEW x \in all PROVE \E y \in pairs : x = f[y]
    <3>1. <<x[1], <<x[2], x[3]>>>> \in pairs
      OBVIOUS
    <3>2. x = f[<<x[1], <<x[2], x[3]>>>>]
      BY <3>1
    <3> QED
      BY <3>1, <3>2
  <2>5. IsFiniteSet({f[x] : x \in pairs})
    <3>1. f \in Surjection(pairs, {f[x] : x \in pairs})
      BY DEF Surjection
    <3> HIDE DEF pairs, f
    <3> QED
      BY <2>3, <3>1, FS_Surjection
  <2>6. all \subseteq {f[x] : x \in pairs}
    <3> HIDE DEF all, pairs, f
    <3> QED
      BY <2>4
  <2> HIDE DEF all, pairs, f
  <2> QED
    BY <2>5, <2>6, FS_Subset
<1>4. img \subseteq made
  BY <1>1, <1>2
<1>5. IsFiniteSet(made)
  BY <1>3, FS_Subset
<1>6. Cardinality(img) = MaxFrames /\ IsFiniteSet(img)
  <2>1. IsFiniteSet(1..MaxFrames) /\ Cardinality(1..MaxFrames) = MaxFrames
    BY <1>1, FS_Interval
  <2>2. mine \in Bijection(1..MaxFrames, img)
    BY DEF Bijection, Injection, Surjection, IsInjective
  <2>3. ExistsBijection(1..MaxFrames, img)
    BY <2>2 DEF ExistsBijection
  <2> HIDE DEF mine, img
  <2> QED
    BY <2>1, <2>3, FS_Bijection
<1>7. Cardinality(img) <= Cardinality(made)
  <2> HIDE DEF img, made
  <2> QED
    BY <1>4, <1>5, FS_Subset
<1>8. Cardinality(made) < MaxFrames
  BY DEF CanIssue
<1>9. Cardinality(made) \in Nat
  BY <1>5, FS_CardinalityType
<1> HIDE DEF made, img
<1> QED
  BY <1>1, <1>6, <1>7, <1>8, <1>9

-----------------------------------------------------------------------------
(* What the steps keep of the types. *)

(* Appending the buffer to the file.                                       *)
LEMMA FlushTypes ==
  ASSUME TypeInv, NEW p \in Procs, FlushInstructions(p),
         UNCHANGED <<NameSize, g_threadname, g_twnew, status, history>>,
         pc' \in [Procs -> [Threads -> Places]],
         lock' \in [Procs -> Threads \union {NoThread}]
  PROVE  TypeInv'
<1>1. /\ g_buffer[p] \in Seq(Frames) /\ Len(g_buffer[p]) \in Nat
      /\ g_twnew[p] \in DOMAIN files /\ files[g_twnew[p]] \in Seq(Frames)
  BY LenProperties DEF TypeInv
<1>2. files[g_twnew[p]] \o g_buffer[p] \in Seq(Frames)
  BY <1>1, ConcatProperties
<1>3. /\ DOMAIN files' = DOMAIN files
      /\ \A f \in DOMAIN files' : files'[f] \in Seq(Frames)
  BY <1>1, <1>2 DEF FlushInstructions, TypeInv
<1>4. g_buffer' \in [Procs -> Seq(Frames)]
  BY DEF FlushInstructions, TypeInv
<1>5. g_logcount' \in [Procs -> Nat]
  BY <1>1 DEF FlushInstructions, TypeInv
<1> QED
  BY <1>3, <1>4, <1>5 DEF FlushInstructions, TypeInv, history

(* A thread goes to another place.                                         *)
LEMMA MoveTypes ==
  ASSUME TypeInv, NEW p \in Procs, NEW t \in Threads, NEW place \in Places,
         Move(p, t, place)
  PROVE  pc' \in [Procs -> [Threads -> Places]]
BY DEF TypeInv, Move

(* A flush, whether it ends in Cleanup or not, keeps the types.            *)
LEMMA FlushBufferTypes ==
  ASSUME TypeInv, NEW p \in Procs, NEW t \in Threads, NEW from, NEW place \in Places,
         FlushBuffer(p, t, from, place), UNCHANGED NameSize
  PROVE  TypeInv'
<1>1. "cleanup" \in Places
  BY DEF Places
<1>2. \/ Move(p, t, "cleanup") /\ lock' = [lock EXCEPT ![p] = t]
      \/ Move(p, t, place) /\ lock' = lock
  BY DEF FlushBuffer, Locked
<1>3. pc' \in [Procs -> [Threads -> Places]]
  BY <1>1, <1>2, MoveTypes
<1>4. lock' \in [Procs -> Threads \union {NoThread}]
  BY <1>2 DEF TypeInv
<1> QED
  BY <1>3, <1>4, FlushTypes DEF FlushBuffer

(* The process that a fork makes has a number that was free.               *)
Numbered == \E k \in Procs : Born = 1..k

(* The number of the next process: not born yet, and not 1.                *)
LEMMA NextNumber ==
  ASSUME Numbered
  PROVE  /\ Cardinality(Born) + 1 \in Nat \ Born
         /\ Cardinality(Born) + 1 # 1
         /\ 1 \in Born
         /\ Born \union {Cardinality(Born) + 1} = 1..(Cardinality(Born) + 1)
<1>1. PICK k \in Procs : Born = 1..k
  BY DEF Numbered
<1>2. k \in Nat /\ k >= 1
  BY DEF Procs
<1>3. Cardinality(Born) = k
  BY <1>1, <1>2, FS_Interval
<1> QED
  BY <1>1, <1>2, <1>3

(* The child has state of the same types as its parent.                    *)
LEMMA TypeFork ==
  ASSUME TypeInv, NEW p \in Procs, NEW t \in Threads, Fork(p, t), UNCHANGED NameSize
  PROVE  TypeInv'
<1> DEFINE q == Cardinality(Born) + 1
<1>1. q \in Procs
  BY DEF Fork
<1>2. {"forked", "born", "none"} \subseteq Places
  BY DEF Places
<1> HIDE DEF q
<1>3. pc' \in [Procs -> [Threads -> Places]]
  <2>1. pc' = [pc EXCEPT ![p][t] = "forked",
                         ![q] = [u \in Threads |-> IF u = t THEN "born" ELSE "none"]]
    BY DEF Fork, q
  <2>2. [u \in Threads |-> IF u = t THEN "born" ELSE "none"] \in [Threads -> Places]
    BY <1>2
  <2> QED
    BY <1>1, <1>2, <2>1, <2>2 DEF TypeInv
<1>4. lock' \in [Procs -> Threads \union {NoThread}]
  BY <1>1 DEF Fork, q, TypeInv
<1>5. /\ g_threadname' = [g_threadname EXCEPT ![q] = g_threadname[p]]
      /\ g_twnew' = [g_twnew EXCEPT ![q] = g_twnew[p]]
      /\ g_buffer' = [g_buffer EXCEPT ![q] = g_buffer[p]]
      /\ g_logcount' = [g_logcount EXCEPT ![q] = g_logcount[p]]
      /\ status' = [status EXCEPT ![q] = "running"]
      /\ quiet' \subseteq quiet \union {q}
      /\ UNCHANGED <<files, issued>>
  BY DEF Fork, q
<1>6. /\ g_threadname' \in [Procs -> Seq(Letters)]
      /\ \A r \in Procs : Len(g_threadname'[r]) \in 1..NameSize
  BY <1>1, <1>5 DEF TypeInv
<1>7. raced' \in BOOLEAN
  BY DEF Fork, TypeInv
<1>8. /\ DOMAIN g_twnew' = Procs
      /\ \A r \in Procs : g_twnew'[r] \in DOMAIN files' /\ g_twnew'[r] \in Seq(Letters)
  BY <1>1, <1>5 DEF TypeInv
<1> QED
  BY <1>1, <1>3, <1>4, <1>5, <1>6, <1>7, <1>8 DEF TypeInv

(* One letter more fits.                                                   *)
LEMMA RenameTypes ==
  ASSUME TypeInv, NEW p \in Procs, NEW c \in Letters, NameFits(p), Rename(p, c)
  PROVE  /\ g_threadname' \in [Procs -> Seq(Letters)]
         /\ \A r \in Procs : Len(g_threadname'[r]) \in 1..NameSize
         /\ g_threadname'[p] = Append(g_threadname[p], c)
<1>1. g_threadname[p] \in Seq(Letters) /\ Len(g_threadname[p]) \in 1..NameSize
  BY DEF TypeInv
<1>2. NameSize \in Nat
  BY DEF TypeInv
<1>3. /\ Append(g_threadname[p], c) \in Seq(Letters)
      /\ Len(Append(g_threadname[p], c)) \in 1..NameSize
  BY <1>1, <1>2, OneMore DEF NameFits
<1> QED
  BY <1>3 DEF TypeInv, Rename

(* A failed assertion keeps the types.                                     *)
LEMMA TypeAbort ==
  ASSUME TypeInv, NEW p \in Procs, NEW t \in Threads, NEW from, Abort(p, t, from),
         UNCHANGED NameSize
  PROVE  TypeInv'
<1>1. pc' \in [Procs -> [Threads -> Places]]
  BY DEF Abort, TypeInv, Places
<1> QED
  BY <1>1 DEF Abort, TypeInv, trace, history

(* The parent of a fork keeps the types.                                   *)
LEMMA TypeFollowParent ==
  ASSUME TypeInv, NEW p \in Procs, NEW t \in Threads, FollowParent(p, t),
         UNCHANGED NameSize
  PROVE  TypeInv'
<1>1. "return" \in Places /\ "p" \in Letters
  BY DEF Places, Letters
<1>2. CASE Abort(p, t, "forked")
  BY <1>2, TypeAbort
<1>3. CASE /\ NameFits(p) /\ Locked(p, t, "forked", "return") /\ Rename(p, "p")
           /\ UNCHANGED <<g_twnew, trace, status, history>>
  <2>1. pc' \in [Procs -> [Threads -> Places]] /\ lock' = lock
    BY <1>1, <1>3, MoveTypes DEF Locked
  <2>2. /\ g_threadname' \in [Procs -> Seq(Letters)]
        /\ \A r \in Procs : Len(g_threadname'[r]) \in 1..NameSize
    BY <1>1, <1>3, RenameTypes
  <2> QED
    BY <1>3, <2>1, <2>2 DEF TypeInv, trace, history
<1> QED
  BY <1>2, <1>3 DEF FollowParent

(* What FollowChild does when the name fits.                               *)
ChildStep(p, t, name) ==
  /\ NameFits(p) /\ Locked(p, t, "born", "return") /\ Rename(p, "c")
  /\ name \in NamesRead(Append(g_threadname[p], "c"))
  /\ Open(name) /\ g_twnew' = [g_twnew EXCEPT ![p] = name]
  /\ g_buffer' = [g_buffer EXCEPT ![p] = <<>>]
  /\ g_logcount' = [g_logcount EXCEPT ![p] = 0]
  /\ UNCHANGED <<issued, status, history>>

(* FollowChild aborts or does what ChildStep says.                         *)
LEMMA ChildSteps ==
  ASSUME NEW p \in Procs, NEW t \in Threads, FollowChild(p, t)
  PROVE  Abort(p, t, "born") \/ \E name : ChildStep(p, t, name)
BY DEF FollowChild, ChildStep

(* The child, with its new container, keeps the types.                     *)
LEMMA TypeFollowChild ==
  ASSUME TypeInv, NEW p \in Procs, NEW t \in Threads, FollowChild(p, t),
         UNCHANGED NameSize
  PROVE  TypeInv'
<1>1. "return" \in Places /\ "c" \in Letters /\ "?" \in Letters
  BY DEF Places, Letters
<1>2. CASE Abort(p, t, "born")
  BY <1>2, TypeAbort
<1>3. ASSUME NEW name, ChildStep(p, t, name) PROVE TypeInv'
  <2>1. pc' \in [Procs -> [Threads -> Places]] /\ lock' = lock
    BY <1>1, <1>3, MoveTypes DEF Locked, ChildStep
  <2>2. /\ g_threadname' \in [Procs -> Seq(Letters)]
        /\ \A r \in Procs : Len(g_threadname'[r]) \in 1..NameSize
    BY <1>1, <1>3, RenameTypes DEF ChildStep
  <2>3. name \in Seq(Letters)
    <3>1. Append(g_threadname[p], "c") \in Seq(Letters)
      BY <1>1, OneMore DEF TypeInv
    <3>2. Append(Append(g_threadname[p], "c"), "?") \in Seq(Letters)
      BY <1>1, <3>1, OneMore
    <3> QED
      BY <1>3, <3>1, <3>2 DEF ChildStep, NamesRead
  <2>4. /\ DOMAIN files' = DOMAIN files \union {name}
        /\ \A f \in DOMAIN files' : files'[f] \in Seq(Frames)
    BY <1>3 DEF ChildStep, Open, TypeInv
  <2>5. /\ DOMAIN g_twnew' = Procs
        /\ \A r \in Procs : g_twnew'[r] \in DOMAIN files' /\ g_twnew'[r] \in Seq(Letters)
    BY <1>3, <2>3, <2>4 DEF ChildStep, TypeInv
  <2>6. g_buffer' \in [Procs -> Seq(Frames)] /\ g_logcount' \in [Procs -> Nat]
    BY <1>3 DEF ChildStep, TypeInv
  <2> QED
    BY <1>3, <2>1, <2>2, <2>4, <2>5, <2>6 DEF ChildStep, TypeInv, history
<1> QED
  BY <1>2, <1>3, ChildSteps

(* A frame more keeps the types.                                           *)
LEMMA TypeAppendBuffer ==
  ASSUME TypeInv, NEW p \in Procs, NEW t \in Threads, AppendBuffer(p, t),
         UNCHANGED NameSize
  PROVE  TypeInv'
<1>1. issued[p][t] + 1 \in 0..MaxFrames /\ issued[p][t] \in 0..MaxFrames
  BY IssueBound, SMTT(30) DEF AppendBuffer, TypeInv
<1> DEFINE frame == [proc |-> p, tid |-> t, n |-> issued[p][t] + 1]
<1>2. frame \in Frames
  BY <1>1 DEF Frames
<1>3. Append(g_buffer[p], frame) \in Seq(Frames)
  BY <1>2, AppendProperties DEF TypeInv
<1>4. g_buffer' \in [Procs -> Seq(Frames)]
  BY <1>3 DEF AppendBuffer, TypeInv
<1>5. issued' \in [Procs -> [Threads -> 0..MaxFrames]]
  BY <1>1 DEF AppendBuffer, TypeInv
<1>6. pc' \in [Procs -> [Threads -> Places]]
  BY MoveTypes DEF AppendBuffer, Places
<1>7. lock' \in [Procs -> Threads \union {NoThread}]
  BY DEF AppendBuffer, TypeInv
<1> QED
  BY <1>4, <1>5, <1>6, <1>7 DEF AppendBuffer, TypeInv, history

(* Every step keeps all types.                                             *)
LEMMA TypeStep ==
  ASSUME TypeInv, [Next]_vars
  PROVE  TypeInv'
<1>1. CASE UNCHANGED vars
  BY <1>1 DEF TypeInv, vars, trace, history
<1>2. ASSUME NEW p \in Procs, NEW t \in Threads, UNCHANGED NameSize,
             EnterAppendBuffer(p, t) \/ AppendBuffer(p, t) \/ FlushForBlock(p, t)
               \/ SyscallEntry(p, t) \/ SyscallExit(p, t)
               \/ Fork(p, t) \/ FollowParent(p, t) \/ FollowChild(p, t)
               \/ FollowExec(p, t) \/ Fini(p, t) \/ Cleanup(p, t)
      PROVE  TypeInv'
  <2>0. {"app", "append", "kernel", "return", "cleanup", "gone"} \subseteq Places
    BY DEF Places
  <2>1. CASE EnterAppendBuffer(p, t)
    <3>1. pc' \in [Procs -> [Threads -> Places]]
      BY <2>0, <2>1, MoveTypes DEF EnterAppendBuffer
    <3>2. lock' \in [Procs -> Threads \union {NoThread}]
      BY <2>1 DEF EnterAppendBuffer, TypeInv
    <3> QED
      BY <1>2, <2>1, <3>1, <3>2 DEF EnterAppendBuffer, TypeInv, trace, history
  <2>2. CASE AppendBuffer(p, t)
    BY <1>2, <2>2, TypeAppendBuffer
  <2>3. CASE FlushForBlock(p, t)
    BY <1>2, <2>0, <2>3, FlushBufferTypes DEF FlushForBlock
  <2>4. CASE SyscallEntry(p, t)
    BY <1>2, <2>0, <2>4, FlushBufferTypes DEF SyscallEntry
  <2>5. CASE SyscallExit(p, t)
    <3>1. Move(p, t, "app") /\ lock' = lock
      BY <2>5 DEF SyscallExit, Locked
    <3>2. pc' \in [Procs -> [Threads -> Places]]
      BY <2>0, <3>1, MoveTypes
    <3> QED
      BY <1>2, <2>5, <3>1, <3>2 DEF SyscallExit, TypeInv, trace, history
  <2>6. CASE Fork(p, t)
    BY <1>2, <2>6, TypeFork
  <2>7. CASE FollowParent(p, t)
    BY <1>2, <2>7, TypeFollowParent
  <2>8. CASE FollowChild(p, t)
    BY <1>2, <2>8, TypeFollowChild
  <2>9. CASE FollowExec(p, t)
    BY <1>2, <2>0, <2>9, FlushBufferTypes DEF FollowExec
  <2>10. CASE Fini(p, t)
    <3>1. pc' \in [Procs -> [Threads -> Places]]
      BY <2>0, <2>10, MoveTypes DEF Fini
    <3> QED
      BY <1>2, <2>10, <3>1 DEF Fini, TypeInv, trace, history
  <2>11. CASE Cleanup(p, t)
    <3>1. pc' \in [Procs -> [Threads -> Places]]
      BY <2>0, <2>11 DEF Cleanup, TypeInv
    <3> QED
      BY <1>2, <2>11, <3>1 DEF Cleanup, TypeInv, trace, history
  <2> QED
    BY <1>2, <2>1, <2>2, <2>3, <2>4, <2>5, <2>6, <2>7, <2>8, <2>9, <2>10, <2>11
<1> QED
  BY <1>1, <1>2 DEF Next

(* Every variable keeps its type; the frames made stay within their bound. *)
THEOREM TypeCorrect == Spec => []TypeOK
<1>1. Spec => []TypeInv
  BY TypeInit, TypeStep, PTL DEF Spec
<1> QED
  BY <1>1, TypeInvIsEnough, PTL

-----------------------------------------------------------------------------
(* Names: no process that runs has a name that begins with another's, or   *)
(* with which the name of another's file begins.                           *)

Forked(p) == \E t \in Threads : pc[p][t] = "forked"
Newborn(p) == \E t \in Threads : pc[p][t] = "born"

(* The name a process will have when a fork it is in has been followed.    *)
Mine(p) == IF Forked(p) THEN Append(g_threadname[p], "p")
           ELSE IF Newborn(p) THEN Append(g_threadname[p], "c")
           ELSE g_threadname[p]

(* A process has one thread when it is born, and 1 is not born.            *)
ProcInv ==
  /\ Numbered
  /\ \A p \in Procs, t, u \in Threads : pc[p][t] = "born" /\ u # t => pc[p][u] = "none"
  /\ ~Newborn(1) /\ g_twnew[1] = MainFile

OneFork == \A p \in Procs, t, u \in Threads :
  pc[p][t] = "forked" /\ pc[p][u] = "forked" => t = u

Apart == \A p, q \in Procs :
  p # q /\ Alive(p) /\ Alive(q) => ~Begins(Mine(p), Mine(q))

Ahead == \A p, q \in Procs :
  p # q /\ Opened(p) /\ Alive(q) => ~Begins(Mine(q), g_twnew[p])

OwnFile == \A p \in Procs \ {1} : Alive(p) /\ Opened(p) =>
  \/ Begins(g_twnew[p], g_threadname[p])
  \/ g_twnew[p] = Append(g_threadname[p], "?") /\ ~NameFits(p)

Distinct == \A p, q \in Procs :
  p # q /\ Opened(p) /\ Opened(q) => g_twnew[p] # g_twnew[q]

NameInv == ~raced => OneFork /\ Apart /\ Ahead /\ OwnFile /\ Distinct

(* The invariant of names is stronger than the property.                   *)
LEMMA NameInvIsEnough == NameInv => NamesDistinct
BY DEF NameInv, Distinct, NamesDistinct, Born

(* The name to come is a name.                                             *)
LEMMA MineType ==
  ASSUME TypeInv, NEW p \in Procs
  PROVE  Mine(p) \in Seq(Letters)
<1>1. "p" \in Letters /\ "c" \in Letters /\ g_threadname[p] \in Seq(Letters)
  BY DEF Letters, TypeInv
<1> QED
  BY <1>1, OneMore DEF Mine

(* At the start process 1 is alone.                                        *)
LEMMA ProcInit == Init => ProcInv
<1> SUFFICES ASSUME Init PROVE ProcInv
  OBVIOUS
<1>1. 1 \in Procs /\ Born = 1..1
  BY DEF Init, Born, Procs
<1>2. \A p \in Procs, t \in Threads : pc[p][t] # "born"
  BY DEF Init
<1> QED
  BY <1>1, <1>2 DEF Init, ProcInv, Numbered, Newborn

(* At the start there is one name.                                         *)
LEMMA NameInit == Init => NameInv
<1> SUFFICES ASSUME Init PROVE NameInv
  OBVIOUS
<1>1. \A p \in Procs : Alive(p) \/ Opened(p) => p = 1
  BY DEF Init, Alive, Opened
<1>2. \A p \in Procs, t \in Threads : pc[p][t] # "forked"
  BY DEF Init
<1> QED
  BY <1>1, <1>2 DEF NameInv, OneFork, Apart, Ahead, OwnFile, Distinct

-----------------------------------------------------------------------------
(* Steps that make no process and give no name. *)

Calm ==
  /\ UNCHANGED <<NameSize, g_threadname, g_twnew, raced>>
  /\ Born' = Born
  /\ \A p \in Procs :
      /\ Alive(p)' => Alive(p)
      /\ Opened(p)' => Opened(p)
      /\ \A t \in Threads : pc'[p][t] = "born" =>
           pc[p][t] = "born" /\ pc'[p] = pc[p]
      /\ \A t \in Threads : pc'[p][t] = "forked" => pc[p][t] = "forked"
      /\ Alive(p)' => \A t \in Threads :
           /\ pc[p][t] = "forked" => pc'[p][t] = "forked"
           /\ pc[p][t] = "born" => pc'[p][t] = "born"

(* A calm step keeps what is said of processes and names.                  *)
LEMMA CalmStep ==
  ASSUME ProcInv, NameInv, Calm
  PROVE  ProcInv' /\ NameInv'
<1>1. ASSUME NEW p \in Procs, Alive(p)' PROVE Alive(p) /\ Mine(p)' = Mine(p)
  <2>1. Alive(p) /\ (Forked(p)' <=> Forked(p)) /\ (Newborn(p)' <=> Newborn(p))
    BY <1>1 DEF Calm, Forked, Newborn
  <2> QED
    BY <2>1 DEF Mine, Calm
<1>2. ProcInv'
  <2>1. 1 \in Procs
    BY DEF Procs
  <2>2. ~Newborn(1)'
    BY <2>1 DEF Calm, ProcInv, Newborn
  <2>3. \A p \in Procs, t, u \in Threads :
          pc'[p][t] = "born" /\ u # t => pc'[p][u] = "none"
    BY DEF Calm, ProcInv
  <2> QED
    BY <2>2, <2>3 DEF Calm, ProcInv, Numbered
<1>3. ASSUME ~raced' PROVE OneFork' /\ Apart' /\ Ahead' /\ OwnFile' /\ Distinct'
  <2>0. OneFork /\ Apart /\ Ahead /\ OwnFile /\ Distinct
    BY <1>3 DEF NameInv, Calm
  <2>1. OneFork'
    BY <2>0 DEF OneFork, Calm
  <2>2. Apart'
    BY <1>1, <2>0 DEF Apart
  <2>3. Ahead'
    BY <1>1, <2>0 DEF Ahead, Calm
  <2>4. OwnFile'
    BY <2>0 DEF OwnFile, Calm, NameFits
  <2>5. Distinct'
    BY <2>0 DEF Distinct, Calm
  <2> QED
    BY <2>1, <2>2, <2>3, <2>4, <2>5
<1> QED
  BY <1>2, <1>3 DEF NameInv

(* A thread that is in no fork goes to a place that is in none.            *)
LEMMA MoveIsCalm ==
  ASSUME TypeInv, ProcInv, NEW p \in Procs, NEW t \in Threads, NEW place,
         Move(p, t, place), place \notin {"forked", "born", "none"},
         pc[p][t] \notin {"forked", "born", "none"},
         UNCHANGED <<NameSize, g_threadname, g_twnew, status, raced>>
  PROVE  Calm
<1>1. \A u \in Threads : pc[p][u] # "born"
  BY DEF ProcInv
<1>2. /\ \A r \in Procs : r # p => pc'[r] = pc[r]
      /\ \A u \in Threads : pc'[p][u] = IF u = t THEN place ELSE pc[p][u]
  BY DEF TypeInv, Move
<1>3. Born' = Born
  BY DEF Born
<1>4. \A r \in Procs : Alive(r)' = Alive(r)
  BY DEF Alive
<1>5. \A r \in Procs : Opened(r)' => Opened(r)
  BY <1>1, <1>2 DEF Opened
<1> QED
  BY <1>1, <1>2, <1>3, <1>4, <1>5 DEF Calm

(* A process ends.                                                         *)
LEMMA EndIsCalm ==
  ASSUME TypeInv, ProcInv, NEW p \in Procs, Alive(p),
         NEW how \in {"assert", "finished"},
         how = "finished" => ~Newborn(p),
         status' = [status EXCEPT ![p] = how],
         pc' = [pc EXCEPT ![p] = [u \in Threads |-> "gone"]],
         UNCHANGED <<NameSize, g_threadname, g_twnew, raced>>
  PROVE  Calm
<1>1. /\ \A r \in Procs : r # p => pc'[r] = pc[r] /\ status'[r] = status[r]
      /\ \A u \in Threads : pc'[p][u] = "gone"
      /\ status'[p] = how
  BY DEF TypeInv
<1>2. Born' = Born
  BY <1>1 DEF Born, Alive
<1>3. \A r \in Procs : Alive(r)' => Alive(r) /\ r # p
  BY <1>1 DEF Alive
<1>4. \A r \in Procs : Opened(r)' => Opened(r)
  BY <1>1 DEF Opened, Newborn, Alive
<1> QED
  BY <1>1, <1>2, <1>3, <1>4 DEF Calm

(* A process that aborts takes no name with it.                            *)
LEMMA AbortIsCalm ==
  ASSUME TypeInv, ProcInv, NEW p \in Procs, NEW t \in Threads, NEW from,
         Abort(p, t, from), UNCHANGED NameSize
  PROVE  Calm
BY EndIsCalm DEF Abort, trace, history

(* A flush gives no name.                                                  *)
LEMMA FlushBufferIsCalm ==
  ASSUME TypeInv, ProcInv, NEW p \in Procs, NEW t \in Threads, NEW from, NEW place,
         FlushBuffer(p, t, from, place), UNCHANGED NameSize,
         place \in {"app", "kernel", "cleanup"}, from \in {"app", "kernel"}
  PROVE  Calm
<1>1. /\ Move(p, t, place) \/ Move(p, t, "cleanup")
      /\ pc[p][t] = from
      /\ UNCHANGED <<g_threadname, g_twnew, status, raced>>
  BY DEF FlushBuffer, Locked, history
<1> QED
  BY <1>1, MoveIsCalm

-----------------------------------------------------------------------------
(* The steps that do.                                                      *)

(* A fork gives parent and child names to come that differ.                *)
LEMMA ForkStep ==
  ASSUME TypeInv, ProcInv, NameInv, NEW p \in Procs, NEW t \in Threads,
         Fork(p, t), UNCHANGED NameSize
  PROVE  ProcInv' /\ NameInv'
<1>0. PICK q : q = Cardinality(Born) + 1
  OBVIOUS
<1>1. q \in Procs /\ q \notin Born /\ q # 1 /\ Born \union {q} = 1..q
  BY <1>0, NextNumber DEF Fork, ProcInv
<1>2. /\ pc' = [pc EXCEPT ![p][t] = "forked",
                          ![q] = [u \in Threads |-> IF u = t THEN "born" ELSE "none"]]
      /\ g_threadname' = [g_threadname EXCEPT ![q] = g_threadname[p]]
      /\ g_twnew' = [g_twnew EXCEPT ![q] = g_twnew[p]]
      /\ status' = [status EXCEPT ![q] = "running"]
      /\ raced' = (raced \/ \E u \in Threads \ {t} : pc[p][u] = "forked")
      /\ Alive(p) /\ pc[p][t] = "kernel"
  BY <1>0 DEF Fork
<1>3. p \in Born /\ p # q
  BY <1>1, <1>2 DEF Born, Alive
<1>4. /\ \A r \in Procs : r \notin {p, q} => pc'[r] = pc[r]
      /\ \A r \in Procs : r # q => /\ status'[r] = status[r]
                                   /\ g_threadname'[r] = g_threadname[r]
                                   /\ g_twnew'[r] = g_twnew[r]
      /\ \A u \in Threads : pc'[p][u] = IF u = t THEN "forked" ELSE pc[p][u]
      /\ \A u \in Threads : pc'[q][u] = IF u = t THEN "born" ELSE "none"
      /\ status'[q] = "running"
      /\ g_threadname'[q] = g_threadname[p] /\ g_twnew'[q] = g_twnew[p]
  BY <1>1, <1>2, <1>3 DEF TypeInv
<1>5. \A u \in Threads : pc[p][u] # "born"
  BY <1>2 DEF ProcInv
<1>6. ProcInv'
  <2>1. Born' = Born \union {q}
    BY <1>1, <1>4 DEF Born
  <2>2. Numbered'
    BY <1>1, <2>1 DEF Numbered
  <2>3. \A r \in Procs, u, v \in Threads :
          pc'[r][u] = "born" /\ v # u => pc'[r][v] = "none"
    BY <1>4, <1>5 DEF ProcInv
  <2>4. 1 \in Procs
    BY DEF Procs
  <2>5. ~Newborn(1)' /\ g_twnew'[1] = MainFile
    BY <1>1, <1>4, <2>4 DEF ProcInv, Newborn
  <2> QED
    BY <2>2, <2>3, <2>5 DEF ProcInv
<1>7. ASSUME ~raced' PROVE OneFork' /\ Apart' /\ Ahead' /\ OwnFile' /\ Distinct'
  <2> DEFINE name == g_threadname[p]
  <2>0. OneFork /\ Apart /\ Ahead /\ OwnFile /\ Distinct
    BY <1>2, <1>7 DEF NameInv
  <2>1. ~Forked(p) /\ ~Newborn(p) /\ Mine(p) = name
    <3>1. ~Forked(p)
      BY <1>2, <1>7 DEF Forked
    <3>2. ~Newborn(p)
      BY <1>5 DEF Newborn
    <3> QED
      BY <3>1, <3>2 DEF Mine
  <2>2. Mine(p)' = Append(name, "p")
    BY <1>2, <1>3, <1>4, ZenonT(60) DEF Mine, Forked
  <2>3. Mine(q)' = Append(name, "c")
    BY <1>1, <1>4 DEF Mine, Forked, Newborn
  <2>4. ASSUME NEW r \in Procs, r \notin {p, q}
        PROVE  /\ Alive(r)' = Alive(r) /\ Opened(r)' = Opened(r)
               /\ Mine(r)' = Mine(r) /\ g_twnew'[r] = g_twnew[r]
    BY <1>4, <2>4 DEF Alive, Opened, Mine, Forked, Newborn
  <2>5. Opened(p) /\ ~Opened(q)' /\ g_twnew'[p] = g_twnew[p]
    BY <1>1, <1>2, <1>3, <1>4, <1>5, ZenonT(60) DEF Opened, Alive
  <2>6. /\ name \in Seq(Letters) /\ Len(name) >= 1 /\ Len(name) \in Nat
        /\ "p" \in Letters /\ "c" \in Letters /\ "?" \in Letters
        /\ g_twnew[p] \in Seq(Letters)
    BY DEF TypeInv, Letters
  <2>7. \A r \in Procs : Mine(r) \in Seq(Letters) /\ g_twnew[r] \in Seq(Letters)
    BY MineType DEF TypeInv
  <2> HIDE DEF name
  <2>8. OneFork'
    <3>1. ASSUME NEW r \in Procs, NEW u \in Threads, NEW v \in Threads,
                 pc'[r][u] = "forked", pc'[r][v] = "forked"
          PROVE  u = v
      <4>1. CASE r = p
        BY <1>4, <2>1, <3>1, <4>1 DEF Forked
      <4>2. CASE r = q
        BY <1>4, <3>1, <4>2
      <4>3. CASE r \notin {p, q}
        BY <1>4, <2>0, <3>1, <4>3 DEF OneFork
      <4> QED
        BY <4>1, <4>2, <4>3
    <3> QED
      BY <3>1 DEF OneFork
  <2>9. Apart'
    <3>1. ASSUME NEW r \in Procs, r \notin {p, q}, Alive(r)', NEW x \in {"p", "c"}
          PROVE  ~Begins(Append(name, x), Mine(r)) /\ ~Begins(Mine(r), Append(name, x))
      <4>1. ~Begins(name, Mine(r)) /\ ~Begins(Mine(r), name)
        BY <1>2, <2>0, <2>1, <2>4, <3>1 DEF Apart
      <4> QED
        BY <2>6, <2>7, <3>1, <4>1, BeginsLonger
    <3>2. ~Begins(Append(name, "p"), Append(name, "c"))
      BY <2>6, BeginsNot
    <3>3. ~Begins(Append(name, "c"), Append(name, "p"))
      BY <2>6, BeginsNot
    <3>4. ASSUME NEW r \in Procs, NEW w \in Procs, r # w, Alive(r)', Alive(w)'
          PROVE  ~Begins(Mine(r)', Mine(w)')
      <4>1. CASE r \notin {p, q} /\ w \notin {p, q}
        BY <2>0, <2>4, <3>4, <4>1 DEF Apart
      <4>2. CASE r \notin {p, q} /\ w \in {p, q}
        BY <2>2, <2>3, <2>4, <3>1, <3>4, <4>2
      <4>3. CASE r \in {p, q} /\ w \notin {p, q}
        BY <2>2, <2>3, <2>4, <3>1, <3>4, <4>3
      <4>4. CASE r \in {p, q} /\ w \in {p, q}
        <5>1. (r = p /\ w = q) \/ (r = q /\ w = p)
          BY <3>4, <4>4
        <5> QED
          BY <2>2, <2>3, <3>2, <3>3, <5>1, Zenon
      <4> QED
        BY <4>1, <4>2, <4>3, <4>4
    <3> QED
      BY <3>4 DEF Apart
  <2>10. Ahead'
    <3>1. ~Begins(Append(name, "c"), g_twnew[p])
      <4>1. CASE p = 1
        <5>1. g_twnew[p] = MainFile
          BY <4>1 DEF ProcInv
        <5> QED
          BY <2>6, <5>1, OneMore DEF Begins, MainFile
      <4>2. CASE p # 1
        <5>1. \/ Begins(g_twnew[p], name) \/ g_twnew[p] = Append(name, "?")
          BY <1>2, <2>0, <2>5, <4>2 DEF OwnFile, name
        <5>2. ASSUME Begins(g_twnew[p], name), Begins(Append(name, "c"), g_twnew[p])
              PROVE  FALSE
          BY <2>6, <5>2, OneMore, LenProperties DEF Begins
        <5>3. ~Begins(Append(name, "c"), Append(name, "?"))
          BY <2>6, BeginsNot
        <5> QED
          BY <5>1, <5>2, <5>3
      <4> QED
        BY <4>1, <4>2
    <3>2. ASSUME NEW r \in Procs, r \notin {p, q}, Opened(r), NEW x \in {"p", "c"}
          PROVE  ~Begins(Append(name, x), g_twnew[r])
      <4>1. ~Begins(name, g_twnew[r])
        BY <1>2, <2>0, <2>1, <3>2 DEF Ahead
      <4> QED
        BY <2>6, <2>7, <3>2, <4>1, BeginsLonger
    <3>3. ASSUME NEW r \in Procs, NEW w \in Procs, r # w, Opened(r)', Alive(w)'
          PROVE  ~Begins(Mine(w)', g_twnew'[r])
      <4>1. CASE r = p /\ w = q
        BY <2>3, <2>5, <3>1, <4>1
      <4>2. CASE r = p /\ w # q
        BY <2>0, <2>4, <2>5, <3>3, <4>2 DEF Ahead
      <4>3. CASE r \notin {p, q} /\ w \in {p, q}
        BY <2>2, <2>3, <2>4, <3>2, <3>3, <4>3
      <4>4. CASE r \notin {p, q} /\ w \notin {p, q}
        BY <2>0, <2>4, <3>3, <4>4 DEF Ahead
      <4> QED
        BY <2>5, <3>3, <4>1, <4>2, <4>3, <4>4
    <3> QED
      BY <3>3 DEF Ahead
  <2>11. OwnFile'
    <3>1. ASSUME NEW r \in Procs \ {1}, Alive(r)', Opened(r)'
          PROVE  /\ r # q /\ Alive(r) /\ Opened(r) /\ g_twnew'[r] = g_twnew[r]
                 /\ g_threadname'[r] = g_threadname[r]
      BY <1>2, <1>4, <2>4, <2>5, <3>1
    <3> QED
      BY <2>0, <3>1 DEF OwnFile, NameFits
  <2>12. Distinct'
    <3>1. ASSUME NEW r \in Procs, Opened(r)'
          PROVE  Opened(r) /\ g_twnew'[r] = g_twnew[r]
      BY <2>4, <2>5, <3>1
    <3> QED
      BY <2>0, <3>1 DEF Distinct
  <2> QED
    BY <2>8, <2>9, <2>10, <2>11, <2>12
<1> QED
  BY <1>6, <1>7 DEF NameInv

(* The process p gets the name it was to have; nothing else changes but    *)
(* its own file.                                                           *)
LEMMA FollowParentStep ==
  ASSUME TypeInv, ProcInv, NameInv, NEW p \in Procs, NEW t \in Threads,
         FollowParent(p, t), UNCHANGED NameSize
  PROVE  ProcInv' /\ NameInv'
<1>1. CASE Abort(p, t, "forked")
  BY <1>1, AbortIsCalm, CalmStep
<1>2. CASE /\ NameFits(p) /\ Locked(p, t, "forked", "return") /\ Rename(p, "p")
           /\ UNCHANGED <<g_twnew, trace, status, history>>
  <2>1. /\ pc[p][t] = "forked" /\ Alive(p)
        /\ \A r \in Procs : r # p => pc'[r] = pc[r] /\ g_threadname'[r] = g_threadname[r]
        /\ \A u \in Threads : pc'[p][u] = IF u = t THEN "return" ELSE pc[p][u]
        /\ g_threadname'[p] = Append(g_threadname[p], "p")
        /\ UNCHANGED <<g_twnew, status, raced>>
    BY <1>2 DEF Locked, Move, Rename, TypeInv, history
  <2>2. \A u \in Threads : pc[p][u] # "born"
    BY <2>1 DEF ProcInv
  <2>3. ProcInv'
    <3>1. Born' = Born
      BY <2>1 DEF Born
    <3>2. \A r \in Procs, u, v \in Threads :
            pc'[r][u] = "born" /\ v # u => pc'[r][v] = "none"
      BY <2>1, <2>2 DEF ProcInv
    <3>3. 1 \in Procs
      BY DEF Procs
    <3>4. ~Newborn(1)'
      BY <2>1, <2>2, <3>3 DEF ProcInv, Newborn
    <3> QED
      BY <2>1, <3>1, <3>2, <3>4 DEF ProcInv, Numbered
  <2>4. ASSUME ~raced' PROVE OneFork' /\ Apart' /\ Ahead' /\ OwnFile' /\ Distinct'
    <3>0. OneFork /\ Apart /\ Ahead /\ OwnFile /\ Distinct
      BY <2>1, <2>4 DEF NameInv
    <3>1. Alive(p) /\ \A r \in Procs : (Alive(r)' <=> Alive(r)) /\ (Opened(r)' <=> Opened(r))
      BY <2>1, <2>2 DEF Alive, Opened
    <3>2. ASSUME NEW r \in Procs PROVE Mine(r)' = Mine(r)
      <4>1. CASE r # p
        BY <2>1, <4>1 DEF Mine, Forked, Newborn
      <4>2. CASE r = p
        <5>1. Mine(p) = Append(g_threadname[p], "p")
          BY <2>1 DEF Mine, Forked
        <5>2. ~Forked(p)' /\ ~Newborn(p)'
          BY <2>1, <2>2, <3>0 DEF Forked, Newborn, OneFork
        <5>3. Mine(p)' = g_threadname'[p]
          BY <5>2 DEF Mine
        <5> QED
          BY <2>1, <4>2, <5>1, <5>3
      <4> QED
        BY <4>1, <4>2
    <3>3. OneFork'
      BY <2>1, <3>0 DEF OneFork
    <3>4. Apart' /\ Ahead' /\ Distinct'
      BY <2>1, <3>0, <3>1, <3>2 DEF Apart, Ahead, Distinct
    <3>5. OwnFile'
      <4>1. ASSUME NEW r \in Procs \ {1}, Alive(r)', Opened(r)'
            PROVE  \/ Begins(g_twnew'[r], g_threadname'[r])
                   \/ g_twnew'[r] = Append(g_threadname'[r], "?") /\ ~NameFits(r)'
        <5>1. CASE r # p
          BY <2>1, <3>0, <3>1, <4>1, <5>1 DEF OwnFile, NameFits
        <5>2. CASE r = p
          <6>1. Begins(g_twnew[p], g_threadname[p])
            BY <1>2, <3>0, <3>1, <4>1, <5>2 DEF OwnFile
          <6>2. /\ g_twnew[p] \in Seq(Letters) /\ g_threadname[p] \in Seq(Letters)
                /\ "p" \in Letters
            BY DEF TypeInv, Letters
          <6>3. Begins(g_twnew[p], Append(g_threadname[p], "p"))
            BY <6>1, <6>2, BeginsLonger
          <6> QED
            BY <2>1, <5>2, <6>3
        <5> QED
          BY <5>1, <5>2
      <4> QED
        BY <4>1 DEF OwnFile
    <3> QED
      BY <3>3, <3>4, <3>5
  <2> QED
    BY <2>3, <2>4 DEF NameInv
<1> QED
  BY <1>1, <1>2 DEF FollowParent

(* What a child that has opened its container knows of its name.           *)
LEMMA ChildName ==
  ASSUME TypeInv, ProcInv, NEW p \in Procs, NEW t \in Threads, NEW name,
         ChildStep(p, t, name), UNCHANGED NameSize
  PROVE  /\ Alive(p) /\ p # 1 /\ pc[p][t] = "born" /\ ~Opened(p) /\ Opened(p)'
         /\ Mine(p) = Append(g_threadname[p], "c")
         /\ Mine(p)' = Mine(p) /\ g_threadname'[p] = Mine(p)
         /\ \/ name = Mine(p)
            \/ name = Append(Mine(p), "?") /\ ~NameFits(p)'
         /\ g_twnew'[p] = name
         /\ \A u \in Threads : pc'[p][u] \notin {"born", "forked"}
         /\ \A r \in Procs : r # p =>
              /\ pc'[r] = pc[r] /\ g_threadname'[r] = g_threadname[r]
              /\ g_twnew'[r] = g_twnew[r]
              /\ Mine(r)' = Mine(r) /\ Opened(r)' = Opened(r)
         /\ \A r \in Procs : Alive(r)' = Alive(r)
         /\ Born' = Born /\ UNCHANGED <<status, raced>>
<1>1. /\ pc[p][t] = "born" /\ Alive(p)
      /\ \A r \in Procs : r # p => /\ pc'[r] = pc[r] /\ g_threadname'[r] = g_threadname[r]
                                   /\ g_twnew'[r] = g_twnew[r]
      /\ \A u \in Threads : pc'[p][u] = IF u = t THEN "return" ELSE pc[p][u]
      /\ g_threadname'[p] = Append(g_threadname[p], "c")
      /\ g_twnew'[p] = name
      /\ UNCHANGED <<status, raced>>
  BY DEF ChildStep, Locked, Move, Rename, TypeInv, history
<1>2. \A u \in Threads : u # t => pc[p][u] = "none"
  BY <1>1 DEF ProcInv
<1>3. /\ ~Forked(p) /\ Newborn(p) /\ ~Forked(p)' /\ ~Newborn(p)'
      /\ \A u \in Threads : pc'[p][u] \notin {"born", "forked"}
  BY <1>1, <1>2 DEF Forked, Newborn
<1>4. Mine(p) = Append(g_threadname[p], "c") /\ Mine(p)' = g_threadname'[p]
  BY <1>3 DEF Mine
<1>5. \A r \in Procs : r # p => Mine(r)' = Mine(r) /\ Opened(r)' = Opened(r)
  BY <1>1 DEF Mine, Forked, Newborn, Opened
<1>6. /\ p # 1 /\ ~Opened(p) /\ Opened(p)' /\ Born' = Born
      /\ \A r \in Procs : Alive(r)' = Alive(r)
  BY <1>1, <1>3 DEF ProcInv, Newborn, Opened, Born, Alive
<1>7. \/ name = Mine(p)
      \/ name = Append(Mine(p), "?") /\ ~NameFits(p)'
  BY <1>1, <1>4 DEF ChildStep, NamesRead, NameFits
<1> QED
  BY <1>1, <1>3, <1>4, <1>5, <1>6, <1>7

(* The child takes its name and opens a file that no one has.              *)
LEMMA FollowChildStep ==
  ASSUME TypeInv, ProcInv, NameInv, NEW p \in Procs, NEW t \in Threads,
         FollowChild(p, t), UNCHANGED NameSize
  PROVE  ProcInv' /\ NameInv'
<1>1. CASE Abort(p, t, "born")
  BY <1>1, AbortIsCalm, CalmStep
<1>2. ASSUME NEW name, ChildStep(p, t, name) PROVE ProcInv' /\ NameInv'
  <2>1. ProcInv'
    <3>1. 1 \in Procs
      BY DEF Procs
    <3>2. ~Newborn(1)' /\ g_twnew'[1] = MainFile
      BY <1>2, <3>1, ChildName DEF ProcInv, Newborn
    <3>3. \A r \in Procs, u, v \in Threads :
            pc'[r][u] = "born" /\ v # u => pc'[r][v] = "none"
      BY <1>2, ChildName DEF ProcInv
    <3> QED
      BY <1>2, <3>2, <3>3, ChildName DEF ProcInv, Numbered
  <2>2. ASSUME ~raced' PROVE OneFork' /\ Apart' /\ Ahead' /\ OwnFile' /\ Distinct'
    <3>0. OneFork /\ Apart /\ Ahead /\ OwnFile /\ Distinct
      BY <1>2, <2>2, ChildName DEF NameInv
    <3>1. /\ "?" \in Letters
          /\ \A r \in Procs : Mine(r) \in Seq(Letters) /\ g_twnew[r] \in Seq(Letters)
      BY MineType DEF TypeInv, Letters
    <3>2. OneFork'
      BY <1>2, <3>0, ChildName DEF OneFork
    <3>3. Apart'
      BY <1>2, <3>0, ChildName DEF Apart
    <3>4. ASSUME NEW r \in Procs, r # p, Alive(r) PROVE ~Begins(Mine(r), name)
      <4>1. ~Begins(Mine(r), Mine(p)) /\ ~Begins(Mine(p), Mine(r))
        BY <1>2, <3>0, <3>4, ChildName DEF Apart
      <4>2. ~Begins(Mine(r), Append(Mine(p), "?"))
        BY <3>1, <4>1, BeginsLonger
      <4>3. name = Mine(p) \/ name = Append(Mine(p), "?")
        BY <1>2, ChildName
      <4> QED
        BY <4>1, <4>2, <4>3, Zenon
    <3>5. ASSUME NEW r \in Procs, r # p, Opened(r) PROVE g_twnew[r] # name
      <4>1. ~Begins(Mine(p), g_twnew[r])
        BY <1>2, <3>0, <3>5, ChildName DEF Ahead
      <4>2. Begins(Mine(p), name)
        <5>1. Begins(Mine(p), Mine(p))
          BY <3>1, BeginsSelf
        <5>2. Begins(Mine(p), Append(Mine(p), "?"))
          BY <3>1, <5>1, BeginsLonger
        <5>3. name = Mine(p) \/ name = Append(Mine(p), "?")
          BY <1>2, ChildName
        <5> QED
          BY <5>1, <5>2, <5>3, Zenon
      <4> QED
        BY <4>1, <4>2
    <3>6. Ahead'
      <4>1. ASSUME NEW r \in Procs, NEW w \in Procs, r # w, Opened(r)', Alive(w)'
            PROVE  ~Begins(Mine(w)', g_twnew'[r])
        <5>0. Mine(w)' = Mine(w) /\ Alive(w)
          BY <1>2, <4>1, ChildName
        <5>1. CASE r = p
          BY <1>2, <3>4, <4>1, <5>0, <5>1, ChildName
        <5>2. CASE r # p
          BY <1>2, <3>0, <4>1, <5>0, <5>2, ChildName DEF Ahead
        <5> QED
          BY <5>1, <5>2
      <4> QED
        BY <4>1 DEF Ahead
    <3>7. OwnFile'
      <4>1. ASSUME NEW r \in Procs \ {1}, Alive(r)', Opened(r)'
            PROVE  \/ Begins(g_twnew'[r], g_threadname'[r])
                   \/ g_twnew'[r] = Append(g_threadname'[r], "?") /\ ~NameFits(r)'
        <5>1. CASE r # p
          <6>1. /\ g_twnew'[r] = g_twnew[r] /\ g_threadname'[r] = g_threadname[r]
                /\ Alive(r) /\ Opened(r)
            BY <1>2, <4>1, <5>1, ChildName
          <6> QED
            BY <3>0, <6>1 DEF OwnFile, NameFits
        <5>2. CASE r = p
          <6>1. Begins(Mine(p), Mine(p))
            BY <3>1, BeginsSelf
          <6> QED
            BY <1>2, <5>2, <6>1, ChildName
        <5> QED
          BY <5>1, <5>2
      <4> QED
        BY <4>1 DEF OwnFile
    <3>8. Distinct'
      <4>1. ASSUME NEW r \in Procs, NEW w \in Procs, r # w, Opened(r)', Opened(w)'
            PROVE  g_twnew'[r] # g_twnew'[w]
        <5>1. CASE r = p
          BY <1>2, <3>5, <4>1, <5>1, ChildName
        <5>2. CASE w = p
          BY <1>2, <3>5, <4>1, <5>2, ChildName
        <5>3. CASE r # p /\ w # p
          BY <1>2, <3>0, <4>1, <5>3, ChildName DEF Distinct
        <5> QED
          BY <5>1, <5>2, <5>3
      <4> QED
        BY <4>1 DEF Distinct
    <3> QED
      BY <3>2, <3>3, <3>6, <3>7, <3>8
  <2> QED
    BY <2>1, <2>2 DEF NameInv
<1> QED
  BY <1>1, <1>2, ChildSteps

(* Every step keeps what is said of processes and names.                   *)
LEMMA NameStep ==
  ASSUME TypeInv, ProcInv, NameInv, [Next]_vars
  PROVE  ProcInv' /\ NameInv'
<1>1. CASE UNCHANGED vars
  <2>1. Calm
    BY <1>1 DEF vars, history, Calm, Born, Alive, Opened
  <2> QED
    BY <2>1, CalmStep
<1>2. ASSUME NEW p \in Procs, NEW t \in Threads, UNCHANGED NameSize,
             EnterAppendBuffer(p, t) \/ AppendBuffer(p, t) \/ FlushForBlock(p, t)
               \/ SyscallEntry(p, t) \/ SyscallExit(p, t)
               \/ Fork(p, t) \/ FollowParent(p, t) \/ FollowChild(p, t)
               \/ FollowExec(p, t) \/ Fini(p, t) \/ Cleanup(p, t)
      PROVE  ProcInv' /\ NameInv'
  <2>1. CASE EnterAppendBuffer(p, t)
    <3>1. Calm
      BY <1>2, <2>1, MoveIsCalm DEF EnterAppendBuffer, history
    <3> QED
      BY <3>1, CalmStep
  <2>2. CASE AppendBuffer(p, t)
    <3>1. Calm
      BY <1>2, <2>2, MoveIsCalm DEF AppendBuffer, history
    <3> QED
      BY <3>1, CalmStep
  <2>3. CASE FlushForBlock(p, t) \/ SyscallEntry(p, t) \/ FollowExec(p, t)
    <3>1. Calm
      BY <1>2, <2>3, FlushBufferIsCalm DEF FlushForBlock, SyscallEntry, FollowExec
    <3> QED
      BY <3>1, CalmStep
  <2>4. CASE SyscallExit(p, t)
    <3>1. /\ Move(p, t, "app") /\ pc[p][t] \in {"kernel", "return"}
          /\ UNCHANGED <<g_threadname, g_twnew, status, raced>>
      BY <2>4 DEF SyscallExit, Locked, history
    <3>2. Calm
      BY <1>2, <3>1, MoveIsCalm
    <3> QED
      BY <3>2, CalmStep
  <2>5. CASE Fini(p, t)
    <3>1. Calm
      BY <1>2, <2>5, MoveIsCalm DEF Fini, history
    <3> QED
      BY <3>1, CalmStep
  <2>6. CASE Cleanup(p, t)
    <3>1. ~Newborn(p)
      BY <2>6 DEF Cleanup, ProcInv, Newborn
    <3>2. Calm
      BY <1>2, <2>6, <3>1, EndIsCalm DEF Cleanup, history
    <3> QED
      BY <3>2, CalmStep
  <2> QED
    BY <1>2, <2>1, <2>2, <2>3, <2>4, <2>5, <2>6, ForkStep, FollowParentStep,
       FollowChildStep
<1> QED
  BY <1>1, <1>2 DEF Next

(* Types, processes and names, together.                                   *)
LEMMA ForkInvariant == Spec => [](TypeInv /\ ProcInv /\ NameInv)
<1>1. Init => TypeInv /\ ProcInv /\ NameInv
  BY TypeInit, ProcInit, NameInit
<1>2. TypeInv /\ ProcInv /\ NameInv /\ [Next]_vars => (TypeInv /\ ProcInv /\ NameInv)'
  BY TypeStep, NameStep
<1> QED
  BY <1>1, <1>2, PTL DEF Spec

(* No two processes write the same file, unless two threads of a process   *)
(* fork at the same time: forks one after the other, of children and       *)
(* grandchildren, append different letters to the name.                    *)
THEOREM NamesTheorem == Spec => []NamesDistinct
BY ForkInvariant, NameInvIsEnough, PTL

-----------------------------------------------------------------------------
(* The frames in a process's file and buffer are its own.                  *)

AllOf(p, s) == \A i \in 1..Len(s) : s[i].proc = p

OwnsFile(p) ==
  /\ AllOf(p, files[g_twnew[p]])
  /\ g_logcount[p] = Len(files[g_twnew[p]])

OwnsBuffer(p) == AllOf(p, g_buffer[p])

FramesInv == ~raced => \A p \in Procs : Opened(p) => OwnsFile(p) /\ OwnsBuffer(p)

(* Frames of p after frames of p.                                          *)
LEMMA OwnConcat ==
  ASSUME NEW p, NEW s \in Seq(Frames), NEW u \in Seq(Frames),
         AllOf(p, s), AllOf(p, u)
  PROVE  /\ Len(s \o u) = Len(s) + Len(u) /\ DOMAIN (s \o u) = 1..Len(s \o u)
         /\ AllOf(p, s \o u)
<1>1. /\ Len(s) \in Nat /\ Len(u) \in Nat /\ s \o u \in Seq(Frames)
      /\ Len(s \o u) = Len(s) + Len(u)
      /\ \A i \in 1..(Len(s) + Len(u)) :
           (s \o u)[i] = IF i <= Len(s) THEN s[i] ELSE u[i - Len(s)]
  BY ConcatProperties, LenProperties
<1>2. DOMAIN (s \o u) = 1..Len(s \o u)
  BY <1>1, LenProperties
<1>3. ASSUME NEW i \in 1..Len(s \o u) PROVE (s \o u)[i].proc = p
  <2>1. CASE i <= Len(s)
    BY <1>1, <2>1 DEF AllOf
  <2>2. CASE i > Len(s)
    <3>1. i - Len(s) \in 1..Len(u)
      BY <1>1, <2>2
    <3> QED
      BY <1>1, <2>2, <3>1 DEF AllOf
  <2> QED
    BY <1>1, <2>1, <2>2
<1> QED
  BY <1>1, <1>2, <1>3 DEF AllOf

(* The invariant of frames is stronger than the property.                  *)
LEMMA FramesInvIsEnough ==
  ASSUME TypeInv, FramesInv
  PROVE  OwnFrames
<1> SUFFICES ASSUME ~raced, NEW p \in Born, Opened(p)
             PROVE  LET all == files[g_twnew[p]] \o g_buffer[p]
                    IN  /\ \A i \in DOMAIN all : all[i].proc = p
                        /\ g_logcount[p] = Len(files[g_twnew[p]])
  BY DEF OwnFrames
<1>1. p \in Procs /\ OwnsFile(p) /\ OwnsBuffer(p)
  BY DEF Born, FramesInv
<1>2. files[g_twnew[p]] \in Seq(Frames) /\ g_buffer[p] \in Seq(Frames)
  BY <1>1 DEF TypeInv
<1>3. \A i \in DOMAIN (files[g_twnew[p]] \o g_buffer[p]) :
        (files[g_twnew[p]] \o g_buffer[p])[i].proc = p
  <2>1. /\ AllOf(p, files[g_twnew[p]] \o g_buffer[p])
        /\ DOMAIN (files[g_twnew[p]] \o g_buffer[p]) = 1..Len(files[g_twnew[p]] \o g_buffer[p])
    BY <1>1, <1>2, OwnConcat DEF OwnsFile, OwnsBuffer
  <2> QED
    BY <2>1 DEF AllOf
<1> QED
  BY <1>1, <1>3 DEF OwnsFile

(* At the start there is no frame.                                         *)
LEMMA FramesInit == Init => FramesInv
<1> SUFFICES ASSUME Init PROVE FramesInv
  OBVIOUS
<1>1. \A p \in Procs : Opened(p) => p = 1
  BY DEF Init, Opened
<1>2. 1 \in Procs
  BY DEF Procs
<1>3. OwnsFile(1) /\ OwnsBuffer(1)
  BY <1>2 DEF Init, OwnsFile, OwnsBuffer, AllOf
<1> QED
  BY <1>1, <1>3 DEF FramesInv

(* A step that leaves the files, buffers and counts of all processes.      *)
LEMMA FramesKept ==
  ASSUME TypeInv, FramesInv, Calm,
         UNCHANGED <<g_buffer, g_logcount, files>>
  PROVE  FramesInv'
BY DEF FramesInv, Calm, OwnsFile, OwnsBuffer

(* A process flushes its buffer into its file, which is no one else's.     *)
LEMMA FramesFlush ==
  ASSUME TypeInv, ProcInv, NameInv, FramesInv, NEW p \in Procs, Opened(p), Calm,
         FlushInstructions(p)
  PROVE  FramesInv'
<1> SUFFICES ASSUME ~raced', NEW r \in Procs, Opened(r)'
             PROVE  OwnsFile(r)' /\ OwnsBuffer(r)'
  BY DEF FramesInv
<1>0. g_twnew' = g_twnew /\ raced' = raced /\ Opened(r)
  BY DEF Calm
<1>1. /\ files' = [files EXCEPT ![g_twnew[p]] = files[g_twnew[p]] \o g_buffer[p]]
      /\ g_logcount' = [g_logcount EXCEPT ![p] = g_logcount[p] + Len(g_buffer[p])]
      /\ g_buffer' = [g_buffer EXCEPT ![p] = <<>>]
  BY DEF FlushInstructions
<1>2. /\ files[g_twnew[p]] \in Seq(Frames) /\ g_buffer[p] \in Seq(Frames)
      /\ g_twnew[p] \in DOMAIN files /\ g_twnew[r] \in DOMAIN files
  BY DEF TypeInv
<1>3. OwnsFile(r) /\ OwnsBuffer(r) /\ OwnsFile(p) /\ OwnsBuffer(p)
  BY <1>0 DEF FramesInv
<1>4. CASE r # p
  <2>1. g_twnew[r] # g_twnew[p]
    BY <1>0, <1>4 DEF NameInv, Distinct
  <2> QED
    BY <1>0, <1>1, <1>2, <1>3, <1>4, <2>1 DEF OwnsFile, OwnsBuffer, TypeInv
<1>5. CASE r = p
  <2> DEFINE new == files[g_twnew[p]] \o g_buffer[p]
  <2>1. /\ Len(new) = Len(files[g_twnew[p]]) + Len(g_buffer[p])
        /\ AllOf(p, new)
    BY <1>2, <1>3, OwnConcat DEF OwnsFile, OwnsBuffer
  <2>2. /\ files'[g_twnew'[r]] = new
        /\ g_logcount'[r] = g_logcount[r] + Len(g_buffer[p])
        /\ g_buffer'[r] = <<>>
    BY <1>0, <1>1, <1>2, <1>5 DEF TypeInv
  <2>3. OwnsBuffer(r)'
    BY <2>2 DEF OwnsBuffer, AllOf
  <2> HIDE DEF new
  <2>4. OwnsFile(r)'
    BY <1>3, <1>5, <2>1, <2>2 DEF OwnsFile
  <2> QED
    BY <2>3, <2>4
<1> QED
  BY <1>4, <1>5

(* All flushes are by processes that have opened their files.              *)
LEMMA FramesFlushBuffer ==
  ASSUME TypeInv, ProcInv, NameInv, FramesInv, NEW p \in Procs, NEW t \in Threads,
         NEW from, NEW place, FlushBuffer(p, t, from, place), UNCHANGED NameSize,
         place \in {"app", "kernel", "cleanup"}, from \in {"app", "kernel"}
  PROVE  FramesInv'
<1>1. Calm
  BY FlushBufferIsCalm
<1>2. Alive(p) /\ pc[p][t] = from /\ FlushInstructions(p)
  BY DEF FlushBuffer, Locked
<1>3. Opened(p)
  BY <1>2 DEF Opened, Alive, ProcInv
<1> QED
  BY <1>1, <1>2, <1>3, FramesFlush

(* A thread appends a frame of its own process.                            *)
LEMMA FramesAppend ==
  ASSUME TypeInv, ProcInv, FramesInv, NEW p \in Procs, NEW t \in Threads,
         AppendBuffer(p, t), UNCHANGED NameSize
  PROVE  FramesInv'
<1> SUFFICES ASSUME ~raced', NEW r \in Procs, Opened(r)'
             PROVE  OwnsFile(r)' /\ OwnsBuffer(r)'
  BY DEF FramesInv
<1> DEFINE frame == [proc |-> p, tid |-> t, n |-> issued[p][t] + 1]
<1>1. Calm
  BY MoveIsCalm DEF AppendBuffer, history
<1>2. OwnsFile(r) /\ OwnsBuffer(r)
  BY <1>1 DEF FramesInv, Calm
<1>3. /\ g_buffer' = [g_buffer EXCEPT ![p] = Append(g_buffer[p], frame)]
      /\ UNCHANGED <<g_twnew, g_logcount, files>>
  BY DEF AppendBuffer
<1>4. frame \in Frames /\ frame.proc = p
  <2>1. issued[p][t] + 1 \in Nat
    BY DEF TypeInv
  <2> QED
    BY <2>1 DEF Frames
<1>5. OwnsFile(r)'
  BY <1>2, <1>3 DEF OwnsFile
<1> HIDE DEF frame
<1>6. OwnsBuffer(r)'
  <2>1. g_buffer[p] \in Seq(Frames)
    BY DEF TypeInv
  <2>2. CASE r # p
    BY <1>2, <1>3, <2>2 DEF OwnsBuffer, TypeInv
  <2>3. CASE r = p
    <3>1. g_buffer'[r] = Append(g_buffer[p], frame)
      BY <1>3, <2>3 DEF TypeInv
    <3>2. AllOf(p, Append(g_buffer[p], frame))
      BY <1>2, <1>4, <2>1, <2>3, AppendProperties, LenProperties DEF OwnsBuffer, AllOf
    <3> QED
      BY <2>3, <3>1, <3>2 DEF OwnsBuffer
  <2> QED
    BY <2>2, <2>3
<1> QED
  BY <1>5, <1>6

(* The child has not opened a file; nothing is said of it yet.             *)
LEMMA FramesFork ==
  ASSUME TypeInv, ProcInv, FramesInv, NEW p \in Procs, NEW t \in Threads,
         Fork(p, t), UNCHANGED NameSize
  PROVE  FramesInv'
<1>0. PICK q : q = Cardinality(Born) + 1
  OBVIOUS
<1>1. q \in Procs /\ q \notin Born
  BY <1>0, NextNumber DEF Fork, ProcInv
<1>2. /\ pc' = [pc EXCEPT ![p][t] = "forked",
                          ![q] = [u \in Threads |-> IF u = t THEN "born" ELSE "none"]]
      /\ g_twnew' = [g_twnew EXCEPT ![q] = g_twnew[p]]
      /\ g_buffer' = [g_buffer EXCEPT ![q] = g_buffer[p]]
      /\ g_logcount' = [g_logcount EXCEPT ![q] = g_logcount[p]]
      /\ status' = [status EXCEPT ![q] = "running"]
      /\ files' = files /\ (raced => raced')
      /\ Alive(p) /\ pc[p][t] = "kernel"
  BY <1>0 DEF Fork
<1>3. p # q
  BY <1>1, <1>2 DEF Born, Alive
<1>4. ~Opened(q)'
  BY <1>1, <1>2, <1>3 DEF Opened, TypeInv
<1>5. ASSUME NEW r \in Procs, r # q, Opened(r)'
      PROVE  /\ Opened(r) /\ g_twnew'[r] = g_twnew[r] /\ g_buffer'[r] = g_buffer[r]
             /\ g_logcount'[r] = g_logcount[r]
  <2>1. \A u \in Threads : pc'[r][u] # "born" => pc[r][u] # "born"
    BY <1>1, <1>2, <1>3, <1>5 DEF TypeInv
  <2> QED
    BY <1>1, <1>2, <1>5, <2>1 DEF Opened, TypeInv
<1> QED
  BY <1>2, <1>4, <1>5 DEF FramesInv, OwnsFile, OwnsBuffer

(* The parent keeps its frames.                                            *)
LEMMA FramesFollowParent ==
  ASSUME TypeInv, ProcInv, FramesInv, NEW p \in Procs, NEW t \in Threads,
         FollowParent(p, t), UNCHANGED NameSize
  PROVE  FramesInv'
<1>1. CASE Abort(p, t, "forked")
  BY <1>1, AbortIsCalm, FramesKept DEF Abort, trace
<1>2. CASE /\ Locked(p, t, "forked", "return")
           /\ UNCHANGED <<g_twnew, trace, status, history>>
  <2>1. \A u \in Threads : pc[p][u] # "born"
    BY <1>2 DEF Locked, ProcInv
  <2>2. \A r \in Procs : Opened(r)' => Opened(r)
    BY <1>2, <2>1 DEF Locked, Move, Opened, TypeInv
  <2> QED
    BY <1>2, <2>2 DEF FramesInv, OwnsFile, OwnsBuffer, trace, history
<1> QED
  BY <1>1, <1>2 DEF FollowParent

(* The child drops what it inherits; its file is new.                      *)
LEMMA FramesFollowChild ==
  ASSUME TypeInv, ProcInv, NameInv, ProcInv', NameInv', FramesInv,
         NEW p \in Procs, NEW t \in Threads, FollowChild(p, t), UNCHANGED NameSize
  PROVE  FramesInv'
<1>1. CASE Abort(p, t, "born")
  BY <1>1, AbortIsCalm, FramesKept DEF Abort, trace
<1>2. ASSUME NEW name, ChildStep(p, t, name), ~raced', NEW r \in Procs, Opened(r)'
      PROVE  OwnsFile(r)' /\ OwnsBuffer(r)'
  <2>1. /\ files' = [f \in DOMAIN files \union {name} |->
                       IF f = name THEN <<>> ELSE files[f]]
        /\ g_buffer' = [g_buffer EXCEPT ![p] = <<>>]
        /\ g_logcount' = [g_logcount EXCEPT ![p] = 0]
    BY <1>2 DEF ChildStep, Open
  <2>2. CASE r = p
    <3>1. g_twnew'[r] = name
      BY <1>2, <2>2, ChildName
    <3> QED
      BY <2>1, <2>2, <3>1 DEF OwnsFile, OwnsBuffer, AllOf, TypeInv
  <2>3. CASE r # p
    <3>1. /\ g_twnew'[r] = g_twnew[r] /\ g_twnew'[p] = name /\ Opened(p)'
          /\ Opened(r) /\ raced' = raced
      BY <1>2, <2>3, ChildName
    <3>2. g_twnew[r] # name
      BY <1>2, <2>3, <3>1 DEF NameInv, Distinct
    <3>3. g_twnew[r] \in DOMAIN files
      BY DEF TypeInv
    <3>4. files'[g_twnew'[r]] = files[g_twnew[r]]
      BY <2>1, <3>1, <3>2, <3>3
    <3>5. g_buffer'[r] = g_buffer[r] /\ g_logcount'[r] = g_logcount[r]
      BY <2>1, <2>3 DEF TypeInv
    <3>6. OwnsFile(r) /\ OwnsBuffer(r)
      BY <1>2, <3>1 DEF FramesInv
    <3> QED
      BY <3>4, <3>5, <3>6 DEF OwnsFile, OwnsBuffer
  <2> QED
    BY <2>2, <2>3
<1> QED
  BY <1>1, <1>2, ChildSteps DEF FramesInv

(* Every step leaves each process its own frames.                          *)
LEMMA FramesStep ==
  ASSUME TypeInv, ProcInv, NameInv, FramesInv, [Next]_vars
  PROVE  FramesInv'
<1>0. ProcInv' /\ NameInv'
  BY NameStep
<1>1. CASE UNCHANGED vars
  <2>1. Calm
    BY <1>1 DEF vars, history, Calm, Born, Alive, Opened
  <2> QED
    BY <1>1, <2>1, FramesKept DEF vars, trace
<1>2. ASSUME NEW p \in Procs, NEW t \in Threads, UNCHANGED NameSize,
             EnterAppendBuffer(p, t) \/ AppendBuffer(p, t) \/ FlushForBlock(p, t)
               \/ SyscallEntry(p, t) \/ SyscallExit(p, t)
               \/ Fork(p, t) \/ FollowParent(p, t) \/ FollowChild(p, t)
               \/ FollowExec(p, t) \/ Fini(p, t) \/ Cleanup(p, t)
      PROVE  FramesInv'
  <2>1. CASE EnterAppendBuffer(p, t)
    <3>1. Calm
      BY <1>2, <2>1, MoveIsCalm DEF EnterAppendBuffer, history
    <3> QED
      BY <2>1, <3>1, FramesKept DEF EnterAppendBuffer, trace
  <2>2. CASE AppendBuffer(p, t)
    BY <1>2, <2>2, FramesAppend
  <2>3. CASE FlushForBlock(p, t) \/ SyscallEntry(p, t) \/ FollowExec(p, t)
    BY <1>2, <2>3, FramesFlushBuffer DEF FlushForBlock, SyscallEntry, FollowExec
  <2>4. CASE SyscallExit(p, t)
    <3>1. /\ Move(p, t, "app") /\ pc[p][t] \in {"kernel", "return"}
          /\ UNCHANGED <<g_threadname, g_twnew, trace, status, raced>>
      BY <2>4 DEF SyscallExit, Locked, history
    <3>2. Calm
      BY <1>2, <3>1, MoveIsCalm
    <3> QED
      BY <3>1, <3>2, FramesKept DEF trace
  <2>5. CASE Fini(p, t)
    <3>1. Calm
      BY <1>2, <2>5, MoveIsCalm DEF Fini, history
    <3> QED
      BY <2>5, <3>1, FramesKept DEF Fini, trace
  <2>6. CASE Cleanup(p, t)
    <3>1. ~Newborn(p)
      BY <2>6 DEF Cleanup, ProcInv, Newborn
    <3>2. Calm
      BY <1>2, <2>6, <3>1, EndIsCalm DEF Cleanup, history
    <3> QED
      BY <2>6, <3>2, FramesKept DEF Cleanup, trace
  <2> QED
    BY <1>0, <1>2, <2>1, <2>2, <2>3, <2>4, <2>5, <2>6, FramesFork, FramesFollowParent,
       FramesFollowChild
<1> QED
  BY <1>1, <1>2 DEF Next

(* A process counts and writes its own instructions only: what the parent  *)
(* had in its buffer when it forked is written once, by the parent.        *)
THEOREM FramesTheorem == Spec => []OwnFrames
<1>1. Init => TypeInv /\ ProcInv /\ NameInv /\ FramesInv
  BY TypeInit, ProcInit, NameInit, FramesInit
<1>2. TypeInv /\ ProcInv /\ NameInv /\ FramesInv /\ [Next]_vars
        => (TypeInv /\ ProcInv /\ NameInv /\ FramesInv)'
  BY TypeStep, NameStep, FramesStep
<1>3. TypeInv /\ ProcInv /\ NameInv /\ FramesInv => OwnFrames
  BY FramesInvIsEnough
<1> QED
  BY <1>1, <1>2, <1>3, PTL DEF Spec

-----------------------------------------------------------------------------
(* The frames of a child are all it made.  A child has one thread, so what *)
(* that thread is doing tells whether the buffer is empty: it is from the  *)
(* flush of SyscallEntry until the system call is over.                    *)

Lone(p) == \A t, u \in Threads : pc[p][t] # "none" /\ pc[p][u] # "none" => t = u

Fresh(p) == \A t \in Threads : issued[p][t] = 0

LoneInv == \A p \in Procs \ {1} :
  /\ Alive(p) => Lone(p)
  /\ status[p] = "unborn" \/ Newborn(p) => Fresh(p)
  /\ Newborn(p) => Alive(p)

Numbers(s) == {<<s[i].tid, s[i].n>> : i \in 1..Len(s)}

Holds(p) == Numbers(files[g_twnew[p]]) \union Numbers(g_buffer[p]) = MadeBy(p)

InCall == {"kernel", "forked", "return", "cleanup"}

Flushed(p) ==
  status[p] = "finished" \/ (\E t \in Threads : pc[p][t] \in InCall)
    => g_buffer[p] = <<>>

CompleteInv == ~raced => \A p \in Procs \ {1} : Opened(p) => Holds(p) /\ Flushed(p)

(* The numbers of frames, one sequence after the other.                    *)
LEMMA NumbersOf ==
  ASSUME NEW s \in Seq(Frames), NEW u \in Seq(Frames)
  PROVE  /\ Numbers(s \o u) = Numbers(s) \union Numbers(u)
         /\ Numbers(<<>>) = {}
         /\ DOMAIN s = 1..Len(s)
<1>1. /\ Len(s) \in Nat /\ Len(u) \in Nat /\ DOMAIN s = 1..Len(s)
      /\ Len(s \o u) = Len(s) + Len(u)
      /\ \A i \in 1..(Len(s) + Len(u)) :
           (s \o u)[i] = IF i <= Len(s) THEN s[i] ELSE u[i - Len(s)]
  BY ConcatProperties, LenProperties
<1>2. Numbers(s \o u) \subseteq Numbers(s) \union Numbers(u)
  <2>1. ASSUME NEW i \in 1..(Len(s) + Len(u))
        PROVE  \/ \E j \in 1..Len(s) : (s \o u)[i] = s[j]
               \/ \E j \in 1..Len(u) : (s \o u)[i] = u[j]
    <3>1. CASE i <= Len(s)
      BY <1>1, <3>1
    <3>2. CASE i > Len(s)
      <4>1. i - Len(s) \in 1..Len(u) /\ (s \o u)[i] = u[i - Len(s)]
        BY <1>1, <3>2
      <4> QED
        BY <4>1
    <3> QED
      BY <1>1, <3>1, <3>2
  <2> QED
    BY <1>1, <2>1 DEF Numbers
<1>3. Numbers(s) \subseteq Numbers(s \o u)
  <2>1. \A i \in 1..Len(s) : i \in 1..(Len(s) + Len(u)) /\ (s \o u)[i] = s[i]
    BY <1>1
  <2> QED
    BY <1>1, <2>1 DEF Numbers
<1>4. Numbers(u) \subseteq Numbers(s \o u)
  <2>1. ASSUME NEW i \in 1..Len(u)
        PROVE  Len(s) + i \in 1..(Len(s) + Len(u)) /\ (s \o u)[Len(s) + i] = u[i]
    <3>1. Len(s) + i \in 1..(Len(s) + Len(u)) /\ ~(Len(s) + i <= Len(s))
          /\ (Len(s) + i) - Len(s) = i
      BY <1>1
    <3> QED
      BY <1>1, <3>1
  <2> QED
    BY <1>1, <2>1 DEF Numbers
<1>5. Numbers(<<>>) = {}
  BY DEF Numbers
<1> QED
  BY <1>1, <1>2, <1>3, <1>4, <1>5

(* One frame more.                                                         *)
LEMMA NumbersMore ==
  ASSUME NEW s \in Seq(Frames), NEW f \in Frames
  PROVE  Numbers(Append(s, f)) = Numbers(s) \union {<<f.tid, f.n>>}
<1>1. /\ Len(s) \in Nat
      /\ Len(Append(s, f)) = Len(s) + 1 /\ Append(s, f)[Len(s) + 1] = f
      /\ \A i \in 1..Len(s) : Append(s, f)[i] = s[i]
  BY AppendProperties, LenProperties
<1>2. 1..(Len(s) + 1) = 1..Len(s) \union {Len(s) + 1}
  BY <1>1
<1> QED
  BY <1>1, <1>2 DEF Numbers

(* The invariant of complete files is stronger than the property.          *)
LEMMA CompleteInvIsEnough ==
  ASSUME TypeInv, LoneInv, CompleteInv
  PROVE  ChildComplete
<1> SUFFICES ASSUME ~raced, NEW p \in Procs \ {1}, status[p] = "finished"
             PROVE  /\ g_buffer[p] = <<>>
                    /\ {<<f.tid, f.n>> : f \in {files[g_twnew[p]][i] :
                            i \in DOMAIN files[g_twnew[p]]}} = MadeBy(p)
  BY DEF ChildComplete
<1>1. Opened(p)
  BY DEF LoneInv, Newborn, Alive, Opened
<1>2. g_buffer[p] = <<>> /\ Holds(p)
  BY <1>1 DEF CompleteInv, Flushed
<1>3. files[g_twnew[p]] \in Seq(Frames)
  BY DEF TypeInv
<1>4. Numbers(files[g_twnew[p]]) = MadeBy(p)
  BY <1>2 DEF Holds, Numbers
<1>5. {<<f.tid, f.n>> : f \in {files[g_twnew[p]][i] : i \in DOMAIN files[g_twnew[p]]}}
        = Numbers(files[g_twnew[p]])
  BY <1>3, LenProperties DEF Numbers
<1> QED
  BY <1>2, <1>4, <1>5

(* At the start there is no child.                                         *)
LEMMA CompleteInit == Init => LoneInv /\ CompleteInv
<1> SUFFICES ASSUME Init PROVE LoneInv /\ CompleteInv
  OBVIOUS
<1>1. \A p \in Procs \ {1} : ~Alive(p) /\ ~Opened(p) /\ Fresh(p) /\ ~Newborn(p)
  BY DEF Init, Alive, Opened, Fresh, Newborn
<1> QED
  BY <1>1 DEF LoneInv, CompleteInv

(* Steps that make no thread and no frame.                                 *)
LEMMA LoneKept ==
  ASSUME LoneInv, Calm, UNCHANGED issued,
         \A r \in Procs, u \in Threads :
           Alive(r)' /\ pc'[r][u] # "none" => pc[r][u] # "none",
         \A r \in Procs : Newborn(r)' => status'[r] = status[r]
  PROVE  LoneInv'
<1> SUFFICES ASSUME NEW r \in Procs \ {1}
             PROVE  /\ Alive(r)' => Lone(r)'
                    /\ status'[r] = "unborn" \/ Newborn(r)' => Fresh(r)'
                    /\ Newborn(r)' => Alive(r)'
  BY DEF LoneInv
<1>1. Alive(r)' => Lone(r)'
  BY DEF LoneInv, Lone, Calm
<1>2. Newborn(r)' => Newborn(r)
  BY DEF Newborn, Calm
<1>3. status'[r] = "unborn" => status[r] = "unborn"
  BY DEF Calm, Born
<1>4. Newborn(r)' => Alive(r)'
  BY <1>2 DEF LoneInv, Alive
<1> QED
  BY <1>1, <1>2, <1>3, <1>4 DEF LoneInv, Fresh

(* Steps that change no frame.                                             *)
LEMMA CompleteKept ==
  ASSUME CompleteInv, Calm, UNCHANGED <<g_buffer, files, issued>>,
         \A r \in Procs : Opened(r)' /\ Flushed(r) => Flushed(r)'
  PROVE  CompleteInv'
BY DEF CompleteInv, Calm, Holds, MadeBy

(* A thread that is there goes to a place.                                 *)
LEMMA MoveLone ==
  ASSUME TypeInv, NEW p \in Procs, NEW t \in Threads, NEW place,
         Move(p, t, place), pc[p][t] # "none", UNCHANGED status
  PROVE  /\ \A r \in Procs, u \in Threads : pc'[r][u] # "none" => pc[r][u] # "none"
         /\ \A r \in Procs : Newborn(r)' => status'[r] = status[r]
BY DEF TypeInv, Move

(* It enters the system call by a flush only.                              *)
LEMMA MoveFlushed ==
  ASSUME TypeInv, NEW p \in Procs, NEW t \in Threads, NEW place,
         Move(p, t, place), pc[p][t] # "none", UNCHANGED <<status, g_buffer>>,
         place \in InCall => pc[p][t] \in InCall
  PROVE  \A r \in Procs : Flushed(r) => Flushed(r)'
<1>1. /\ \A r \in Procs : r # p => pc'[r] = pc[r]
      /\ \A u \in Threads : pc'[p][u] = IF u = t THEN place ELSE pc[p][u]
  BY DEF TypeInv, Move
<1>2. \A r \in Procs, u \in Threads :
        pc'[r][u] \in InCall => \E w \in Threads : pc[r][w] \in InCall
  BY <1>1
<1> QED
  BY <1>1, <1>2 DEF Flushed

(* A process ends.                                                         *)
LEMMA EndKeeps ==
  ASSUME TypeInv, NEW p \in Procs, NEW how \in {"assert", "finished"},
         how = "finished" => \E t \in Threads : pc[p][t] = "cleanup",
         status' = [status EXCEPT ![p] = how],
         pc' = [pc EXCEPT ![p] = [u \in Threads |-> "gone"]],
         UNCHANGED g_buffer
  PROVE  /\ \A r \in Procs, u \in Threads :
              Alive(r)' /\ pc'[r][u] # "none" => pc[r][u] # "none"
         /\ \A r \in Procs : Newborn(r)' => status'[r] = status[r]
         /\ \A r \in Procs : Opened(r)' /\ Flushed(r) => Flushed(r)'
<1>1. /\ \A r \in Procs : r # p => pc'[r] = pc[r] /\ status'[r] = status[r]
      /\ \A u \in Threads : pc'[p][u] = "gone"
      /\ status'[p] = how
  BY DEF TypeInv
<1>2. ~Alive(p)' /\ ~Newborn(p)'
  BY <1>1 DEF Alive, Newborn
<1>3. Opened(p)' /\ Flushed(p) => Flushed(p)'
  BY <1>1 DEF Opened, Flushed, InCall
<1>4. \A r \in Procs : r # p /\ Flushed(r) => Flushed(r)'
  BY <1>1 DEF Flushed
<1> QED
  BY <1>1, <1>2, <1>3, <1>4

(* A failed assertion makes no frame.                                      *)
LEMMA CompleteAbort ==
  ASSUME TypeInv, ProcInv, LoneInv, CompleteInv, NEW p \in Procs, NEW t \in Threads,
         NEW from, Abort(p, t, from), UNCHANGED NameSize
  PROVE  LoneInv' /\ CompleteInv'
<1>1. Calm
  BY AbortIsCalm
<1>2. /\ UNCHANGED <<g_buffer, files, issued>>
      /\ \A r \in Procs, u \in Threads :
           Alive(r)' /\ pc'[r][u] # "none" => pc[r][u] # "none"
      /\ \A r \in Procs : Newborn(r)' => status'[r] = status[r]
      /\ \A r \in Procs : Opened(r)' /\ Flushed(r) => Flushed(r)'
  BY EndKeeps DEF Abort, trace
<1> QED
  BY <1>1, <1>2, LoneKept, CompleteKept

(* A move that is calm and makes no frame.                                 *)
LEMMA CompleteMove ==
  ASSUME TypeInv, ProcInv, LoneInv, CompleteInv, NEW p \in Procs, NEW t \in Threads,
         NEW place, Move(p, t, place), place \notin {"forked", "born", "none"},
         pc[p][t] \notin {"forked", "born", "none"},
         place \in InCall => pc[p][t] \in InCall,
         UNCHANGED <<NameSize, g_threadname, g_twnew, status, raced>>,
         UNCHANGED <<g_buffer, files, issued>>
  PROVE  LoneInv' /\ CompleteInv'
<1>1. Calm
  BY MoveIsCalm
<1>2. /\ \A r \in Procs, u \in Threads : pc'[r][u] # "none" => pc[r][u] # "none"
      /\ \A r \in Procs : Newborn(r)' => status'[r] = status[r]
      /\ \A r \in Procs : Flushed(r) => Flushed(r)'
  BY MoveLone, MoveFlushed
<1> QED
  BY <1>1, <1>2, LoneKept, CompleteKept

(* A process puts the frames of its buffer into its file.                  *)
LEMMA CompleteFlush ==
  ASSUME TypeInv, ProcInv, NameInv, LoneInv, CompleteInv, NEW p \in Procs,
         NEW t \in Threads, NEW from, NEW place, FlushBuffer(p, t, from, place),
         UNCHANGED NameSize,
         place \in {"app", "kernel", "cleanup"}, from \in {"app", "kernel"}
  PROVE  LoneInv' /\ CompleteInv'
<1>1. Calm
  BY FlushBufferIsCalm
<1>2. /\ Alive(p) /\ pc[p][t] = from /\ FlushInstructions(p)
      /\ Move(p, t, place) \/ Move(p, t, "cleanup")
      /\ UNCHANGED <<status, raced>>
  BY DEF FlushBuffer, Locked, history
<1>3. /\ files' = [files EXCEPT ![g_twnew[p]] = files[g_twnew[p]] \o g_buffer[p]]
      /\ g_buffer' = [g_buffer EXCEPT ![p] = <<>>]
      /\ issued' = issued /\ g_twnew' = g_twnew
  BY <1>1, <1>2 DEF FlushInstructions, Calm
<1>4. LoneInv'
  <2>1. /\ \A r \in Procs, u \in Threads : pc'[r][u] # "none" => pc[r][u] # "none"
        /\ \A r \in Procs : Newborn(r)' => status'[r] = status[r]
    BY <1>2, MoveLone
  <2> QED
    BY <1>1, <1>3, <2>1, LoneKept
<1>5. ASSUME ~raced', NEW r \in Procs \ {1}, Opened(r)'
      PROVE  Holds(r)' /\ Flushed(r)'
  <2>1. /\ files[g_twnew[p]] \in Seq(Frames) /\ g_buffer[p] \in Seq(Frames)
        /\ g_twnew[p] \in DOMAIN files /\ g_twnew[r] \in DOMAIN files
    BY DEF TypeInv
  <2>2. Opened(r) /\ ~raced /\ Holds(r) /\ Flushed(r)
    BY <1>1, <1>2, <1>5 DEF Calm, CompleteInv
  <2>3. CASE r # p
    <3>1. g_twnew[r] # g_twnew[p]
      <4>1. Opened(p)
        BY <1>2 DEF Opened, Alive, ProcInv
      <4> QED
        BY <2>2, <2>3, <4>1 DEF NameInv, Distinct
    <3>2. files'[g_twnew'[r]] = files[g_twnew[r]] /\ g_buffer'[r] = g_buffer[r]
      BY <1>3, <2>1, <2>3, <3>1 DEF TypeInv
    <3>3. pc'[r] = pc[r] /\ status'[r] = status[r]
      BY <1>2, <2>3 DEF Move, TypeInv
    <3> QED
      BY <1>3, <2>2, <3>2, <3>3 DEF Holds, MadeBy, Flushed
  <2>4. CASE r = p
    <3>1. /\ files'[g_twnew'[p]] = files[g_twnew[p]] \o g_buffer[p]
          /\ g_buffer'[p] = <<>>
      BY <1>3, <2>1 DEF TypeInv
    <3>2. /\ Numbers(files[g_twnew[p]] \o g_buffer[p])
               = Numbers(files[g_twnew[p]]) \union Numbers(g_buffer[p])
          /\ Numbers(<<>>) = {}
      BY <2>1, NumbersOf
    <3>3. Holds(p)'
      BY <1>3, <2>2, <2>4, <3>1, <3>2 DEF Holds, MadeBy
    <3> QED
      BY <2>4, <3>1, <3>3 DEF Flushed
  <2> QED
    BY <2>3, <2>4
<1> QED
  BY <1>4, <1>5 DEF CompleteInv

(* A thread makes a frame and appends it; a child has no other thread, so  *)
(* none of it is in a system call.                                         *)
LEMMA CompleteAppend ==
  ASSUME TypeInv, ProcInv, LoneInv, CompleteInv, NEW p \in Procs, NEW t \in Threads,
         AppendBuffer(p, t), UNCHANGED NameSize
  PROVE  LoneInv' /\ CompleteInv'
<1>1. Calm
  BY MoveIsCalm DEF AppendBuffer, history
<1> DEFINE frame == [proc |-> p, tid |-> t, n |-> issued[p][t] + 1]
<1>2. /\ Alive(p) /\ pc[p][t] = "append" /\ Move(p, t, "app")
      /\ g_buffer' = [g_buffer EXCEPT ![p] = Append(g_buffer[p], frame)]
      /\ issued' = [issued EXCEPT ![p][t] = issued[p][t] + 1]
      /\ UNCHANGED <<files, status, raced, g_twnew>>
  BY DEF AppendBuffer, history
<1>3. issued[p][t] + 1 \in 1..MaxFrames /\ issued[p][t] \in 0..MaxFrames
  <2>1. issued[p][t] + 1 \in 0..MaxFrames /\ issued[p][t] \in 0..MaxFrames
    BY IssueBound, SMTT(30) DEF AppendBuffer, TypeInv
  <2> QED
    BY <2>1
<1>4. frame \in Frames /\ frame.tid = t /\ frame.n = issued[p][t] + 1
  BY <1>3 DEF Frames
<1>5. /\ \A r \in Procs : r # p => /\ pc'[r] = pc[r] /\ issued'[r] = issued[r]
                                   /\ g_buffer'[r] = g_buffer[r]
      /\ \A u \in Threads : /\ pc'[p][u] = IF u = t THEN "app" ELSE pc[p][u]
                            /\ issued'[p][u] = IF u = t THEN issued[p][t] + 1
                                               ELSE issued[p][u]
      /\ g_buffer'[p] = Append(g_buffer[p], frame)
  BY <1>2 DEF TypeInv, Move
<1> HIDE DEF frame
<1>6. ~Newborn(p)' /\ ~Newborn(p)
  BY <1>2, <1>5 DEF ProcInv, Newborn
<1>7. LoneInv'
  <2>1. ASSUME NEW r \in Procs \ {1}, Alive(r)' PROVE Lone(r)'
    BY <1>2, <1>5, <2>1 DEF LoneInv, Lone, Alive
  <2>2. ASSUME NEW r \in Procs \ {1}, status'[r] = "unborn" \/ Newborn(r)'
        PROVE  Fresh(r)'
    <3>1. r # p
      BY <1>2, <1>6, <2>2 DEF Alive
    <3> QED
      BY <1>2, <1>5, <2>2, <3>1 DEF LoneInv, Fresh, Newborn
  <2>3. ASSUME NEW r \in Procs \ {1}, Newborn(r)' PROVE Alive(r)'
    BY <1>2, <1>5, <1>6, <2>3 DEF LoneInv, Newborn, Alive
  <2> QED
    BY <2>1, <2>2, <2>3 DEF LoneInv
<1>8. ASSUME ~raced', NEW r \in Procs \ {1}, Opened(r)'
      PROVE  Holds(r)' /\ Flushed(r)'
  <2>1. Holds(r) /\ Flushed(r)
    BY <1>1, <1>2, <1>8 DEF Calm, CompleteInv
  <2>2. CASE r # p
    BY <1>2, <1>5, <2>1, <2>2 DEF Holds, MadeBy, Flushed
  <2>3. CASE r = p
    <3>1. Flushed(p)'
      <4>1. ASSUME NEW u \in Threads PROVE pc'[p][u] \notin InCall
        <5>1. CASE u = t
          BY <1>5, <5>1 DEF InCall
        <5>2. CASE u # t
          <6>1. pc[p][u] = "none"
            BY <1>2, <2>3, <5>2 DEF LoneInv, Lone
          <6> QED
            BY <1>5, <5>2, <6>1 DEF InCall
        <5> QED
          BY <5>1, <5>2
      <4>2. status'[p] # "finished"
        BY <1>2 DEF Alive
      <4> QED
        BY <4>1, <4>2 DEF Flushed
    <3>2. Numbers(g_buffer'[p]) = Numbers(g_buffer[p]) \union {<<t, issued[p][t] + 1>>}
      <4>1. g_buffer[p] \in Seq(Frames)
        BY DEF TypeInv
      <4> QED
        BY <1>4, <1>5, <4>1, NumbersMore
    <3>3. MadeBy(p)' = MadeBy(p) \union {<<t, issued[p][t] + 1>>}
      <4>1. ASSUME NEW x \in Threads \X (1..MaxFrames)
            PROVE  (x[2] <= issued'[p][x[1]])
                     <=> (x[2] <= issued[p][x[1]] \/ x = <<t, issued[p][t] + 1>>)
        <5>1. x[1] \in Threads /\ x[2] \in 1..MaxFrames /\ x = <<x[1], x[2]>>
          OBVIOUS
        <5>2. CASE x[1] # t
          BY <1>5, <5>1, <5>2
        <5>3. CASE x[1] = t
          <6>1. issued'[p][x[1]] = issued[p][t] + 1
            BY <1>5, <5>3
          <6> QED
            BY <1>3, <5>1, <5>3, <6>1
        <5> QED
          BY <5>2, <5>3
      <4>2. <<t, issued[p][t] + 1>> \in Threads \X (1..MaxFrames)
        BY <1>3
      <4> QED
        BY <4>1, <4>2 DEF MadeBy
    <3>4. Holds(p)'
      BY <1>2, <2>1, <2>3, <3>2, <3>3 DEF Holds
    <3> QED
      BY <2>3, <3>1, <3>4
  <2> QED
    BY <2>2, <2>3
<1> QED
  BY <1>7, <1>8 DEF CompleteInv

(* The child of a fork has made no frame, and has not opened its file; the *)
(* parent has flushed its buffer before it went into the kernel.           *)
LEMMA CompleteFork ==
  ASSUME TypeInv, ProcInv, LoneInv, CompleteInv, NEW p \in Procs, NEW t \in Threads,
         Fork(p, t), UNCHANGED NameSize
  PROVE  LoneInv' /\ CompleteInv'
<1>0. PICK q : q = Cardinality(Born) + 1
  OBVIOUS
<1>1. q \in Procs /\ q \notin Born
  BY <1>0, NextNumber DEF Fork, ProcInv
<1>2. /\ pc' = [pc EXCEPT ![p][t] = "forked",
                          ![q] = [u \in Threads |-> IF u = t THEN "born" ELSE "none"]]
      /\ g_twnew' = [g_twnew EXCEPT ![q] = g_twnew[p]]
      /\ g_buffer' = [g_buffer EXCEPT ![q] = g_buffer[p]]
      /\ status' = [status EXCEPT ![q] = "running"]
      /\ files' = files /\ issued' = issued /\ (raced => raced')
      /\ Alive(p) /\ pc[p][t] = "kernel"
  BY <1>0 DEF Fork
<1>3. p # q /\ status[q] = "unborn"
  BY <1>1, <1>2 DEF Born, Alive
<1>4. /\ \A r \in Procs : r \notin {p, q} => pc'[r] = pc[r]
      /\ \A r \in Procs : r # q => /\ status'[r] = status[r] /\ g_twnew'[r] = g_twnew[r]
                                   /\ g_buffer'[r] = g_buffer[r]
      /\ \A u \in Threads : pc'[p][u] = IF u = t THEN "forked" ELSE pc[p][u]
      /\ \A u \in Threads : pc'[q][u] = IF u = t THEN "born" ELSE "none"
      /\ status'[q] = "running"
  BY <1>1, <1>2, <1>3 DEF TypeInv
<1>5. LoneInv'
  <2>1. ASSUME NEW r \in Procs \ {1}, Alive(r)' PROVE Lone(r)'
    <3>1. CASE r = q
      BY <1>4, <3>1 DEF Lone
    <3>2. CASE r # q
      <4>1. Lone(r)
        BY <1>4, <2>1, <3>2 DEF LoneInv, Alive
      <4>2. \A u \in Threads : pc'[r][u] # "none" => pc[r][u] # "none"
        BY <1>2, <1>4, <3>2
      <4> QED
        BY <4>1, <4>2 DEF Lone
    <3> QED
      BY <3>1, <3>2
  <2>2. ASSUME NEW r \in Procs \ {1}
        PROVE  /\ status'[r] = "unborn" \/ Newborn(r)' => Fresh(r)'
               /\ Newborn(r)' => Alive(r)'
    <3>1. CASE r = q
      BY <1>2, <1>3, <1>4, <3>1 DEF LoneInv, Fresh, Alive
    <3>2. CASE r # q
      <4>1. Newborn(r)' => Newborn(r)
        BY <1>4, <3>2 DEF Newborn
      <4> QED
        BY <1>2, <1>4, <3>2, <4>1 DEF LoneInv, Fresh, Alive
    <3> QED
      BY <3>1, <3>2
  <2> QED
    BY <2>1, <2>2 DEF LoneInv
<1>6. ASSUME ~raced', NEW r \in Procs \ {1}, Opened(r)'
      PROVE  Holds(r)' /\ Flushed(r)'
  <2>1. r # q
    BY <1>1, <1>4, <1>6 DEF Opened
  <2>2. Opened(r)
    <3>1. \A u \in Threads : pc[r][u] = "born" => pc'[r][u] = "born"
      BY <1>2, <1>4, <2>1
    <3> QED
      BY <1>4, <1>6, <2>1, <3>1 DEF Opened
  <2>3. Holds(r) /\ Flushed(r)
    BY <1>2, <1>6, <2>2 DEF CompleteInv
  <2>4. Holds(r)'
    BY <1>2, <1>4, <2>1, <2>3 DEF Holds, MadeBy
  <2>5. Flushed(r)'
    <3>1. \A u \in Threads :
            pc'[r][u] \in InCall => \E w \in Threads : pc[r][w] \in InCall
      BY <1>2, <1>4, <2>1 DEF InCall
    <3> QED
      BY <1>4, <2>1, <2>3, <3>1 DEF Flushed
  <2> QED
    BY <2>4, <2>5
<1> QED
  BY <1>5, <1>6 DEF CompleteInv

(* The parent has frames as before.                                        *)
LEMMA CompleteFollowParent ==
  ASSUME TypeInv, ProcInv, LoneInv, CompleteInv, NEW p \in Procs, NEW t \in Threads,
         FollowParent(p, t), UNCHANGED NameSize
  PROVE  LoneInv' /\ CompleteInv'
<1>1. CASE Abort(p, t, "forked")
  BY <1>1, CompleteAbort
<1>2. CASE /\ Locked(p, t, "forked", "return")
           /\ UNCHANGED <<g_twnew, trace, status, history>>
  <2>1. /\ Move(p, t, "return") /\ pc[p][t] = "forked"
        /\ UNCHANGED <<g_twnew, g_buffer, files, issued, status, raced>>
    BY <1>2 DEF Locked, trace, history
  <2>2. /\ \A r \in Procs, u \in Threads : pc'[r][u] # "none" => pc[r][u] # "none"
        /\ \A r \in Procs : Flushed(r) => Flushed(r)'
    BY <2>1, MoveLone, MoveFlushed DEF InCall
  <2>3. \A r \in Procs : (Newborn(r)' => Newborn(r)) /\ (Opened(r)' => Opened(r))
    <3>1. \A u \in Threads : pc[p][u] # "born"
      BY <2>1 DEF ProcInv
    <3> QED
      BY <2>1, <3>1 DEF Move, Newborn, Opened, TypeInv
  <2>4. LoneInv'
    BY <2>1, <2>2, <2>3 DEF LoneInv, Lone, Fresh, Alive
  <2>5. CompleteInv'
    BY <2>1, <2>2, <2>3 DEF CompleteInv, Holds, MadeBy
  <2> QED
    BY <2>4, <2>5
<1> QED
  BY <1>1, <1>2 DEF FollowParent

(* The child drops what it inherits, and has made no frame itself.         *)
LEMMA CompleteFollowChild ==
  ASSUME TypeInv, ProcInv, NameInv, ProcInv', NameInv', LoneInv, CompleteInv,
         NEW p \in Procs, NEW t \in Threads, FollowChild(p, t), UNCHANGED NameSize
  PROVE  LoneInv' /\ CompleteInv'
<1>1. CASE Abort(p, t, "born")
  BY <1>1, CompleteAbort
<1>2. ASSUME NEW name, ChildStep(p, t, name) PROVE LoneInv' /\ CompleteInv'
  <2>1. /\ files' = [f \in DOMAIN files \union {name} |->
                       IF f = name THEN <<>> ELSE files[f]]
        /\ g_buffer' = [g_buffer EXCEPT ![p] = <<>>]
        /\ issued' = issued /\ status' = status /\ raced' = raced
        /\ Move(p, t, "return") /\ pc[p][t] = "born"
    BY <1>2 DEF ChildStep, Open, Locked, history
  <2>2. \A r \in Procs, u \in Threads : pc'[r][u] # "none" => pc[r][u] # "none"
    BY <2>1, MoveLone
  <2>3. \A r \in Procs : Newborn(r)' => Newborn(r)
    <3>1. ~Newborn(p)'
      BY <1>2, ChildName DEF Newborn
    <3>2. \A r \in Procs : r # p => pc'[r] = pc[r]
      BY <1>2, ChildName
    <3> QED
      BY <3>1, <3>2 DEF Newborn
  <2>4. LoneInv'
    BY <2>1, <2>2, <2>3 DEF LoneInv, Lone, Fresh, Alive
  <2>5. ASSUME ~raced', NEW r \in Procs \ {1}, Opened(r)'
        PROVE  Holds(r)' /\ Flushed(r)'
    <3>1. CASE r = p
      <4>1. g_twnew'[r] = name /\ files'[name] = <<>> /\ g_buffer'[r] = <<>>
        BY <1>2, <2>1, <3>1, ChildName DEF TypeInv
      <4>2. \A u \in Threads : issued[p][u] = 0
        BY <2>1, <3>1 DEF LoneInv, Newborn, Fresh
      <4>3. MadeBy(r)' = {}
        BY <2>1, <3>1, <4>2 DEF MadeBy
      <4>4. Numbers(<<>>) = {}
        BY DEF Numbers
      <4> QED
        BY <4>1, <4>3, <4>4 DEF Holds, Flushed
    <3>2. CASE r # p
      <4>1. /\ g_twnew'[r] = g_twnew[r] /\ g_twnew'[p] = name /\ Opened(p)'
            /\ Opened(r) /\ pc'[r] = pc[r]
        BY <1>2, <2>5, <3>2, ChildName
      <4>2. g_twnew[r] # name
        BY <2>5, <3>2, <4>1 DEF NameInv, Distinct
      <4>3. g_twnew[r] \in DOMAIN files
        BY DEF TypeInv
      <4>4. files'[g_twnew'[r]] = files[g_twnew[r]] /\ g_buffer'[r] = g_buffer[r]
        BY <2>1, <3>2, <4>1, <4>2, <4>3 DEF TypeInv
      <4>5. Holds(r) /\ Flushed(r)
        BY <2>1, <2>5, <4>1 DEF CompleteInv
      <4> QED
        BY <2>1, <4>1, <4>4, <4>5 DEF Holds, MadeBy, Flushed
    <3> QED
      BY <3>1, <3>2
  <2> QED
    BY <2>4, <2>5 DEF CompleteInv
<1> QED
  BY <1>1, <1>2, ChildSteps

(* Every step leaves the files of children complete.                       *)
LEMMA CompleteStep ==
  ASSUME TypeInv, ProcInv, NameInv, LoneInv, CompleteInv, [Next]_vars
  PROVE  LoneInv' /\ CompleteInv'
<1>0. ProcInv' /\ NameInv'
  BY NameStep
<1>1. CASE UNCHANGED vars
  <2>1. UNCHANGED <<pc, status, g_twnew, g_buffer, files, issued, raced>>
    BY <1>1 DEF vars, trace, history
  <2>2. LoneInv'
    BY <2>1 DEF LoneInv, Lone, Fresh, Newborn, Alive
  <2>3. CompleteInv'
    BY <2>1 DEF CompleteInv, Opened, Holds, MadeBy, Flushed
  <2> QED
    BY <2>2, <2>3
<1>2. ASSUME NEW p \in Procs, NEW t \in Threads, UNCHANGED NameSize,
             EnterAppendBuffer(p, t) \/ AppendBuffer(p, t) \/ FlushForBlock(p, t)
               \/ SyscallEntry(p, t) \/ SyscallExit(p, t)
               \/ Fork(p, t) \/ FollowParent(p, t) \/ FollowChild(p, t)
               \/ FollowExec(p, t) \/ Fini(p, t) \/ Cleanup(p, t)
      PROVE  LoneInv' /\ CompleteInv'
  <2>1. CASE EnterAppendBuffer(p, t)
    BY <1>2, <2>1, CompleteMove DEF EnterAppendBuffer, trace, history, InCall
  <2>2. CASE AppendBuffer(p, t)
    BY <1>2, <2>2, CompleteAppend
  <2>3. CASE FlushForBlock(p, t) \/ SyscallEntry(p, t) \/ FollowExec(p, t)
    BY <1>2, <2>3, CompleteFlush DEF FlushForBlock, SyscallEntry, FollowExec
  <2>4. CASE SyscallExit(p, t)
    <3>1. /\ Move(p, t, "app") /\ pc[p][t] \in {"kernel", "return"}
          /\ UNCHANGED <<g_threadname, g_twnew, g_buffer, files, issued, status, raced>>
      BY <2>4 DEF SyscallExit, Locked, trace, history
    <3> QED
      BY <1>2, <3>1, CompleteMove DEF InCall
  <2>5. CASE Fini(p, t)
    BY <1>2, <2>5, CompleteMove DEF Fini, trace, history, InCall
  <2>6. CASE Cleanup(p, t)
    <3>1. Calm
      <4>1. ~Newborn(p)
        BY <2>6 DEF Cleanup, ProcInv, Newborn
      <4> QED
        BY <1>2, <2>6, <4>1, EndIsCalm DEF Cleanup, history
    <3>2. /\ UNCHANGED <<g_buffer, files, issued>>
          /\ \A r \in Procs, u \in Threads :
               Alive(r)' /\ pc'[r][u] # "none" => pc[r][u] # "none"
          /\ \A r \in Procs : Newborn(r)' => status'[r] = status[r]
          /\ \A r \in Procs : Opened(r)' /\ Flushed(r) => Flushed(r)'
      BY <2>6, EndKeeps DEF Cleanup, trace
    <3> QED
      BY <3>1, <3>2, LoneKept, CompleteKept
  <2> QED
    BY <1>0, <1>2, <2>1, <2>2, <2>3, <2>4, <2>5, <2>6, CompleteFork,
       CompleteFollowParent, CompleteFollowChild
<1> QED
  BY <1>1, <1>2 DEF Next

(* A child that has ended, whatever way it took, has written every frame   *)
(* it made: the flush in SyscallEntry comes before fork, exec and exit,    *)
(* and its one thread makes no frame in between.                           *)
THEOREM CompleteTheorem == Spec => []ChildComplete
<1>1. Init => TypeInv /\ ProcInv /\ NameInv /\ LoneInv /\ CompleteInv
  BY TypeInit, ProcInit, NameInit, CompleteInit
<1>2. TypeInv /\ ProcInv /\ NameInv /\ LoneInv /\ CompleteInv /\ [Next]_vars
        => (TypeInv /\ ProcInv /\ NameInv /\ LoneInv /\ CompleteInv)'
  BY TypeStep, NameStep, CompleteStep
<1>3. TypeInv /\ ProcInv /\ NameInv /\ LoneInv /\ CompleteInv => ChildComplete
  BY CompleteInvIsEnough
<1> QED
  BY <1>1, <1>2, <1>3, PTL DEF Spec
=============================================================================
