------------------------- MODULE FrameBufferProofs -------------------------
(***************************************************************************)
(* Theorems about FrameBuffer for every number of threads, every size of   *)
(* the buffer and every setting of the knobs.                              *)
(***************************************************************************)
EXTENDS FrameBuffer, InductionLemmas, FiniteSetTheorems, SequenceTheorems, TLAPS

USE SizesAssumption

-----------------------------------------------------------------------------
(* Lemmas about the operators the actions are built from. *)

(* A numbered or unnumbered entry of a thread is a frame.                  *)
LEMMA FrameTypes ==
  ASSUME TypeOK, NEW t \in Threads, NEW kind \in Kinds
  PROVE  Numbered(kind, t) \in Frames /\ Unnumbered(kind, t) \in Frames
BY DEF TypeOK, ThreadTypes, Numbered, Unnumbered, Frames

(* FlushBuffer keeps the types of what it changes and empties the buffer.  *)
LEMMA FlushTypes ==
  ASSUME TypeOK, NEW t \in Threads, NEW addKeyframe \in BOOLEAN,
         NEW buf \in Seq(Frames), NEW after \in Seq(Frames),
         FlushBuffer(t, buf, addKeyframe, after)
  PROVE  /\ g_buffer' = <<>>
         /\ out' \in Seq(Frames)
         /\ g_logcount' = g_logcount + Len(buf) /\ g_logcount' \in Nat
         /\ g_kfcount' \in Nat
<1>1. g_logcount \in Nat /\ g_kfcount \in Nat /\ out \in Seq(Frames)
      /\ Len(buf) \in Nat
  BY DEF TypeOK, TraceTypes
<1>2. /\ g_buffer' = <<>>
      /\ g_logcount' = g_logcount + Len(buf)
      /\ g_kfcount' = IF KeyframeDue(Len(buf), addKeyframe)
                      THEN 0 ELSE g_kfcount + Len(buf)
      /\ out' = out \o Written(t, buf, addKeyframe)
                    \o (IF LimitReached(Len(buf)) THEN <<>> ELSE after)
  BY DEF FlushBuffer, FlushInstructions
<1>3. Unnumbered("key", t) \in Frames
  BY FrameTypes DEF Kinds
<1>4. <<Unnumbered("key", t)>> \in Seq(Frames) /\ <<>> \in Seq(Frames)
  BY <1>3
<1>5. Written(t, buf, addKeyframe) \in Seq(Frames)
  BY <1>4 DEF Written
<1>6. (IF LimitReached(Len(buf)) THEN <<>> ELSE after) \in Seq(Frames)
  BY <1>4
<1>7. out' \in Seq(Frames)
  BY <1>1, <1>2, <1>5, <1>6
<1> QED
  BY <1>1, <1>2, <1>7

(* Frames that are issued get the next serial numbers.                     *)
LEMMA IssueTypes ==
  ASSUME TypeOK, NEW t \in Threads, NEW did \in BOOLEAN, Issue(t, did)
  PROVE  issued' \in [Threads -> Nat]
BY DEF TypeOK, ThreadTypes, Issue

(* A frame more in the buffer, or the buffer as it was.                    *)
LEMMA AppendTypes ==
  ASSUME TypeOK, NEW t \in Threads, NEW logged \in BOOLEAN, HasRoom(logged)
  PROVE  /\ AfterAppend(t, logged) \in Seq(Frames)
         /\ Len(AfterAppend(t, logged)) <= BufferSize
<1>1. Numbered("std", t) \in Frames
  BY FrameTypes DEF Kinds
<1> QED
  BY <1>1 DEF TypeOK, TraceTypes, AfterAppend, HasRoom, g_bufidx

(* Where a thread goes after a flush, and who has the lock.                *)
LEMMA ReturnTypes ==
  ASSUME TypeOK, NEW t \in Threads, NEW buf, NEW next \in Places,
         Return(t, buf, next)
  PROVE  /\ lock' \in Threads \union {NoThread}
         /\ \E p \in {"limit", next} : pc' = [pc EXCEPT ![t] = p]
BY DEF TypeOK, TraceTypes, Return, Quit, Release

(* A step that leaves the block, or happens outside blocks. *)
LEMMA OutsideTypes ==
  ASSUME TypeOK, NEW t \in Threads, NEW p \in Places \ InBlock,
         pc' = [pc EXCEPT ![t] = p],
         Leave(t) \/ (pc[t] \notin InBlock /\ UNCHANGED <<left, rep>>)
  PROVE  /\ pc' \in [Threads -> Places]
         /\ left' \in [Threads -> 0..MaxBlock]
         /\ rep' \in [Threads -> 0..MaxRep]
         /\ \A u \in Threads : BlockShape(u)'
<1>1. 0 \in 0..MaxBlock /\ 0 \in 0..MaxRep
  OBVIOUS
<1>2. /\ pc' \in [Threads -> Places]
      /\ left' \in [Threads -> 0..MaxBlock]
      /\ rep' \in [Threads -> 0..MaxRep]
  BY <1>1 DEF TypeOK, ThreadTypes, Leave
<1>3. ASSUME NEW u \in Threads PROVE BlockShape(u)'
  <2>1. CASE u = t
    <3>1. pc'[t] = p /\ left'[t] = 0 /\ rep'[t] = 0
      BY <2>1 DEF TypeOK, ThreadTypes, BlockShape, Leave
    <3> QED
      BY <2>1, <3>1 DEF BlockShape, InBlock
  <2>2. CASE u # t
    <3>1. pc'[u] = pc[u] /\ left'[u] = left[u] /\ rep'[u] = rep[u]
      BY <2>2 DEF TypeOK, ThreadTypes, Leave
    <3> QED
      BY <3>1 DEF TypeOK, BlockShape
  <2> QED
    BY <2>1, <2>2
<1> QED
  BY <1>2, <1>3

(* A step inside a block: it gives t a place, instructions and iterations. *)
LEMMA InsideTypes ==
  ASSUME TypeOK, NEW t \in Threads, NEW p \in InBlock \union {"app"},
         NEW n \in 0..MaxBlock, NEW c \in 0..MaxRep,
         IF p = "app" THEN n = 0 /\ c = 0 ELSE n > 0,
         p = "flush" => c = 0,
         pc' = [pc EXCEPT ![t] = p],
         left' = [left EXCEPT ![t] = n],
         rep' = [rep EXCEPT ![t] = c]
  PROVE  /\ pc' \in [Threads -> Places]
         /\ left' \in [Threads -> 0..MaxBlock]
         /\ rep' \in [Threads -> 0..MaxRep]
         /\ \A u \in Threads : BlockShape(u)'
<1>1. p \in Places
  BY DEF InBlock, Places
<1>2. /\ pc' \in [Threads -> Places]
      /\ left' \in [Threads -> 0..MaxBlock]
      /\ rep' \in [Threads -> 0..MaxRep]
  BY <1>1 DEF TypeOK, ThreadTypes
<1>3. ASSUME NEW u \in Threads PROVE BlockShape(u)'
  <2>1. CASE u = t
    <3>1. pc'[t] = p /\ left'[t] = n /\ rep'[t] = c
      BY DEF TypeOK, ThreadTypes
    <3> QED
      BY <2>1, <3>1 DEF BlockShape, InBlock
  <2>2. CASE u # t
    <3>1. pc'[u] = pc[u] /\ left'[u] = left[u] /\ rep'[u] = rep[u]
      BY <2>2 DEF TypeOK, ThreadTypes
    <3> QED
      BY <3>1 DEF TypeOK, BlockShape
  <2> QED
    BY <2>1, <2>2
<1> QED
  BY <1>2, <1>3

(* The whole process ends. *)
LEMMA GoneTypes ==
  ASSUME TypeOK,
         pc' = [u \in Threads |-> "gone"],
         left' = [u \in Threads |-> 0],
         rep' = [u \in Threads |-> 0]
  PROVE  /\ pc' \in [Threads -> Places]
         /\ left' \in [Threads -> 0..MaxBlock]
         /\ rep' \in [Threads -> 0..MaxRep]
         /\ \A u \in Threads : BlockShape(u)'
<1>1. 0 \in 0..MaxBlock /\ 0 \in 0..MaxRep /\ "gone" \in Places
  BY DEF Places
<1>2. \A u \in Threads : BlockShape(u)'
  BY DEF BlockShape, InBlock
<1> QED
  BY <1>1, <1>2

(* A step that flushes changes the trace variables only through FlushBuffer. *)
LEMMA FlushTraceTypes ==
  ASSUME TypeOK, NEW t \in Threads, NEW addKeyframe \in BOOLEAN,
         NEW buf \in Seq(Frames), NEW after \in Seq(Frames),
         FlushBuffer(t, buf, addKeyframe, after),
         lock' \in Threads \union {NoThread},
         UNCHANGED <<g_exit_next, status>>
  PROVE  TraceTypes'
<1>1. <<>> \in Seq(Frames) /\ Len(<<>>) <= BufferSize
  OBVIOUS
<1>2. /\ g_buffer' = <<>> /\ out' \in Seq(Frames)
      /\ g_logcount' \in Nat /\ g_kfcount' \in Nat
  BY FlushTypes
<1> QED
  BY <1>1, <1>2 DEF TypeOK, TraceTypes

(* Steps that touch no frame keep the types of frames.                     *)
LEMMA SameTraceTypes ==
  ASSUME TypeOK, NoFlush, UNCHANGED lock, g_exit_next' \in BOOLEAN,
         status' \in {"running", "assert"} \union ExitPoints
  PROVE  TraceTypes'
BY DEF TypeOK, TraceTypes, NoFlush

-----------------------------------------------------------------------------
(* Type correctness. *)

(* The types hold initially.                                               *)
THEOREM TypeInit == Init => TypeOK
<1> SUFFICES ASSUME Init PROVE TypeOK
  OBVIOUS
<1>1. ThreadTypes
  <2>1. 0 \in 0..MaxBlock /\ 0 \in 0..MaxRep /\ 0 \in Nat
    OBVIOUS
  <2>2. "new" \in Places
    BY DEF Places
  <2>3. pc \in [Threads -> Places]
    BY <2>2 DEF Init
  <2>4. left \in [Threads -> 0..MaxBlock] /\ rep \in [Threads -> 0..MaxRep]
    BY <2>1 DEF Init
  <2>5. redo \in [Threads -> {"no", "next", "lost"}]
    BY DEF Init
  <2>6. issued \in [Threads -> Nat]
    BY <2>1 DEF Init
  <2> QED
    BY <2>3, <2>4, <2>5, <2>6 DEF ThreadTypes
<1>2. TraceTypes
  <2>1. <<>> \in Seq(Frames) /\ Len(<<>>) <= BufferSize
    OBVIOUS
  <2> QED
    BY <2>1 DEF Init, TraceTypes
<1>3. \A t \in Threads : BlockShape(t)
  BY DEF Init, BlockShape, InBlock
<1> QED
  BY <1>1, <1>2, <1>3 DEF TypeOK

(* Every step keeps the types. *)
THEOREM TypeNext == TypeOK /\ [Next]_vars => TypeOK'
<1> SUFFICES ASSUME TypeOK, [Next]_vars PROVE TypeOK'
  OBVIOUS
<1> DEFINE Shapes == \A u \in Threads : BlockShape(u)'
<1>u. CASE UNCHANGED vars
  BY <1>u DEF vars, threadVars, TypeOK, ThreadTypes, TraceTypes, BlockShape
<1>n. CASE Terminated
  BY <1>n, <1>u DEF Terminated
<1>t. ASSUME NEW t \in Threads PROVE pc[t] \in Places /\ left[t] \in 0..MaxBlock
        /\ rep[t] \in 0..MaxRep /\ redo[t] \in {"no", "next", "lost"}
        /\ (pc[t] \in InBlock => left[t] > 0)
        /\ (pc[t] \notin InBlock => left[t] = 0 /\ rep[t] = 0)
        /\ (pc[t] = "flush" => rep[t] = 0)
        /\ g_buffer \in Seq(Frames) /\ out \in Seq(Frames)
        /\ g_exit_next \in BOOLEAN
        /\ status \in {"running", "assert"} \union ExitPoints
        /\ lock \in Threads \union {NoThread}
        /\ <<>> \in Seq(Frames)
  BY <1>t DEF TypeOK, ThreadTypes, TraceTypes, BlockShape
<1>1. ASSUME NEW t \in Threads, EnterBlock(t) PROVE TypeOK'
  <2>1. PICK n \in 1..MaxBlock :
          /\ left' = [left EXCEPT ![t] = n]
          /\ pc' = [pc EXCEPT ![t] = IF CheckBuffer(n) THEN "flush" ELSE "block"]
    BY <1>1 DEF EnterBlock
  <2>2. rep[t] = 0 /\ rep' = [rep EXCEPT ![t] = 0]
    BY <1>1, <1>t DEF EnterBlock, InBlock, TypeOK, ThreadTypes
  <2>3. ThreadTypes' /\ Shapes
    <3> DEFINE p == IF CheckBuffer(n) THEN "flush" ELSE "block"
    <3>1. p \in InBlock /\ n \in 0..MaxBlock /\ n > 0 /\ 0 \in 0..MaxRep
      BY DEF InBlock
    <3>2. pc' = [pc EXCEPT ![t] = p]
      BY <2>1
    <3> HIDE DEF p
    <3>3. /\ pc' \in [Threads -> Places] /\ Shapes
          /\ left' \in [Threads -> 0..MaxBlock] /\ rep' \in [Threads -> 0..MaxRep]
      BY <2>1, <2>2, <3>1, <3>2, InsideTypes DEF InBlock
    <3> QED
      BY <1>1, <3>3 DEF EnterBlock, TypeOK, ThreadTypes
  <2>4. TraceTypes'
    BY <1>1, <1>t, SameTraceTypes DEF EnterBlock
  <2> QED
    BY <2>3, <2>4 DEF TypeOK
<1>2. ASSUME NEW t \in Threads, EnterRep(t) PROVE TypeOK'
  <2>1. PICK c \in 1..MaxRep :
          /\ rep' = [rep EXCEPT ![t] = c]
          /\ pc' = [pc EXCEPT ![t] = IF CheckBufferEx(c, left[t])
                                     THEN "repflush" ELSE "block"]
    BY <1>2 DEF EnterRep
  <2>2. left[t] > 0 /\ left' = [left EXCEPT ![t] = left[t]]
    BY <1>2, <1>t DEF EnterRep, InBlock, TypeOK, ThreadTypes
  <2>3. ThreadTypes' /\ Shapes
    <3> DEFINE p == IF CheckBufferEx(c, left[t]) THEN "repflush" ELSE "block"
    <3>1. p \in InBlock /\ p # "flush" /\ p # "app" /\ c \in 0..MaxRep
      BY DEF InBlock
    <3>2. pc' = [pc EXCEPT ![t] = p]
      BY <2>1
    <3> HIDE DEF p
    <3>3. /\ pc' \in [Threads -> Places] /\ Shapes
          /\ left' \in [Threads -> 0..MaxBlock] /\ rep' \in [Threads -> 0..MaxRep]
      BY <1>t, <2>1, <2>2, <3>1, <3>2, InsideTypes
    <3> QED
      BY <1>2, <3>3 DEF EnterRep, TypeOK, ThreadTypes
  <2>4. TraceTypes'
    BY <1>2, <1>t, SameTraceTypes DEF EnterRep
  <2> QED
    BY <2>3, <2>4 DEF TypeOK
<1>3. ASSUME NEW t \in Threads, FlushForBlock(t) PROVE TypeOK'
  <2>1. lock' \in Threads \union {NoThread}
    BY <1>3, ReturnTypes DEF FlushForBlock, Places
  <2>2. TraceTypes'
    BY <1>3, <1>t, <2>1, FlushTraceTypes DEF FlushForBlock
  <2>3. CASE LimitReached(g_bufidx)
    <3>1. pc' = [pc EXCEPT ![t] = "limit"] /\ Leave(t)
      BY <1>3, <2>3 DEF FlushForBlock, Return, Quit, g_bufidx
    <3>2. "limit" \in Places \ InBlock
      BY DEF Places, ExitPoints, LockedExits, InBlock
    <3> QED
      BY <1>3, <2>2, <3>1, <3>2, OutsideTypes
      DEF FlushForBlock, TypeOK, ThreadTypes
  <2>4. CASE ~LimitReached(g_bufidx)
    <3>1. /\ pc' = [pc EXCEPT ![t] = "block"]
          /\ left' = [left EXCEPT ![t] = left[t]]
          /\ rep' = [rep EXCEPT ![t] = rep[t]]
      BY <1>3, <2>4
      DEF FlushForBlock, Return, Release, g_bufidx, TypeOK, ThreadTypes
    <3>2. left[t] > 0
      BY <1>3, <1>t DEF FlushForBlock, InBlock
    <3>3. /\ pc' \in [Threads -> Places] /\ Shapes
          /\ left' \in [Threads -> 0..MaxBlock] /\ rep' \in [Threads -> 0..MaxRep]
      BY <1>t, <3>1, <3>2, InsideTypes DEF InBlock
    <3> QED
      BY <1>3, <2>2, <3>3 DEF FlushForBlock, TypeOK, ThreadTypes
  <2> QED
    BY <2>3, <2>4
<1>4. ASSUME NEW t \in Threads, LeaveBlock(t) PROVE TypeOK'
  <2>1. rep' = [rep EXCEPT ![t] = 0]
    BY <1>4, <1>t DEF LeaveBlock, TypeOK, ThreadTypes
  <2>2. Leave(t)
    BY <1>4, <2>1 DEF LeaveBlock, Leave
  <2>3. TraceTypes'
    BY <1>4, <1>t, SameTraceTypes DEF LeaveBlock
  <2>4. "app" \in Places \ InBlock
    BY DEF Places, InBlock
  <2> QED
    BY <1>4, <2>2, <2>3, <2>4, OutsideTypes DEF LeaveBlock, TypeOK, ThreadTypes
<1>5. ASSUME NEW t \in Threads, StopRep(t) PROVE TypeOK'
  <2> DEFINE p == IF left[t] = 1 THEN "app" ELSE "block"
  <2>1. left[t] \in 1..MaxBlock
    BY <1>5, <1>t DEF StopRep, InBlock
  <2>2. /\ p \in InBlock \union {"app"} /\ p # "flush"
        /\ left[t] - 1 \in 0..MaxBlock /\ 0 \in 0..MaxRep
        /\ IF p = "app" THEN left[t] - 1 = 0 /\ 0 = 0 ELSE left[t] - 1 > 0
    BY <2>1 DEF InBlock
  <2>3. /\ pc' = [pc EXCEPT ![t] = p]
        /\ left' = [left EXCEPT ![t] = left[t] - 1]
        /\ rep' = [rep EXCEPT ![t] = 0]
    BY <1>5 DEF StopRep, TypeOK, ThreadTypes
  <2> HIDE DEF p
  <2>4. /\ pc' \in [Threads -> Places] /\ Shapes
        /\ left' \in [Threads -> 0..MaxBlock] /\ rep' \in [Threads -> 0..MaxRep]
    BY <2>2, <2>3, InsideTypes
  <2>5. TraceTypes'
    BY <1>5, <1>t, SameTraceTypes DEF StopRep
  <2> QED
    BY <1>5, <2>4, <2>5 DEF StopRep, TypeOK, ThreadTypes
<1>6. ASSUME NEW t \in Threads, AppendAndGoOn(t) PROVE TypeOK'
  <2>1. PICK logged \in BOOLEAN :
          /\ InAppendBuffer(t, logged) /\ HasRoom(logged)
          /\ g_buffer' = AfterAppend(t, logged)
          /\ Issue(t, logged)
          /\ Advance(t, "block")
          /\ UNCHANGED <<redo, out, g_logcount, g_kfcount, g_exit_next, status>>
    BY <1>6 DEF AppendAndGoOn
  <2> DEFINE last == rep[t] <= 1 /\ left[t] = 1
             p == IF last THEN "app" ELSE "block"
             n == IF rep[t] > 1 THEN left[t] ELSE left[t] - 1
             c == IF rep[t] > 1 THEN rep[t] - 1 ELSE 0
  <2>2. left[t] \in 1..MaxBlock /\ rep[t] \in 0..MaxRep
    BY <2>1, <1>t DEF InAppendBuffer, InBlock
  <2>3. /\ p \in InBlock \union {"app"} /\ p # "flush"
        /\ n \in 0..MaxBlock /\ c \in 0..MaxRep
        /\ IF p = "app" THEN n = 0 /\ c = 0 ELSE n > 0
    BY <2>2 DEF InBlock
  <2>4. /\ pc' = [pc EXCEPT ![t] = p] /\ UNCHANGED lock
        /\ left' = [left EXCEPT ![t] = n]
        /\ rep' = [rep EXCEPT ![t] = c]
    BY <2>1 DEF Advance, Release, TypeOK, ThreadTypes
  <2> HIDE DEF last, p, n, c
  <2>5. /\ pc' \in [Threads -> Places] /\ Shapes
        /\ left' \in [Threads -> 0..MaxBlock] /\ rep' \in [Threads -> 0..MaxRep]
    BY <2>3, <2>4, InsideTypes
  <2>6. TraceTypes'
    BY <2>1, <2>4, AppendTypes DEF TypeOK, TraceTypes
  <2> QED
    BY <2>1, <2>5, <2>6, IssueTypes DEF TypeOK, ThreadTypes
<1>7. ASSUME NEW t \in Threads, AppendLastOne(t) PROVE TypeOK'
  <2>1. PICK logged \in BOOLEAN :
          /\ InAppendBuffer(t, logged) /\ HasRoom(logged)
          /\ g_buffer' = AfterAppend(t, logged)
          /\ Issue(t, logged)
          /\ Release(t, "post") /\ Leave(t)
          /\ UNCHANGED <<redo, out, g_logcount, g_kfcount, g_exit_next, status>>
    BY <1>7 DEF AppendLastOne
  <2>2. TraceTypes'
    BY <2>1, AppendTypes DEF Release, TypeOK, TraceTypes
  <2>3. "post" \in Places \ InBlock
    BY DEF Places, InBlock
  <2> QED
    BY <2>1, <2>2, <2>3, OutsideTypes, IssueTypes
    DEF Release, TypeOK, ThreadTypes
<1>8. ASSUME NEW t \in Threads, AppendAndExit(t) PROVE TypeOK'
  <2>1. PICK logged \in BOOLEAN, abort \in BOOLEAN :
          /\ InAppendBuffer(t, logged) /\ HasRoom(logged)
          /\ FlushBuffer(t, AfterAppend(t, logged), TRUE, <<>>)
          /\ Issue(t, logged)
          /\ Quit(t, IF LimitReached(Len(AfterAppend(t, logged))) THEN "limit"
                     ELSE IF abort THEN "smash" ELSE "exitnext")
          /\ Leave(t) /\ Rerun(t)
          /\ UNCHANGED <<g_exit_next, status>>
    BY <1>8 DEF AppendAndExit
  <2>2. /\ lock' \in Threads \union {NoThread}
        /\ \E p \in {"limit", "smash", "exitnext"} : pc' = [pc EXCEPT ![t] = p]
    BY <2>1 DEF Quit
  <2>3. TraceTypes'
    BY <1>t, <2>1, <2>2, AppendTypes, FlushTraceTypes
  <2>4. {"limit", "smash", "exitnext"} \subseteq Places \ InBlock
    BY DEF Places, ExitPoints, LockedExits, InBlock
  <2>5. redo' \in [Threads -> {"no", "next", "lost"}]
    BY <2>1 DEF Rerun, TypeOK, ThreadTypes
  <2> QED
    BY <2>1, <2>2, <2>3, <2>4, <2>5, OutsideTypes, IssueTypes
    DEF TypeOK, ThreadTypes
<1>9. ASSUME NEW t \in Threads, AppendOverflow(t) PROVE TypeOK'
  <2>1. TraceTypes'
    BY <1>9, <1>t, SameTraceTypes DEF AppendOverflow
  <2> QED
    BY <1>9, <2>1, GoneTypes DEF AppendOverflow, TypeOK, ThreadTypes
<1>10. ASSUME NEW t \in Threads, PostInstruction(t) PROVE TypeOK'
  <2>1. TraceTypes'
    BY <1>10, <1>t, SameTraceTypes DEF PostInstruction
  <2>2. redo' \in [Threads -> {"no", "next", "lost"}]
    BY <1>10 DEF PostInstruction, TypeOK, ThreadTypes
  <2>3. "app" \in Places \ InBlock /\ "post" \notin InBlock
    BY DEF Places, InBlock
  <2> QED
    BY <1>10, <2>1, <2>2, <2>3, OutsideTypes
    DEF PostInstruction, TypeOK, ThreadTypes
<1>11. ASSUME NEW t \in Threads, ThreadStart(t) PROVE TypeOK'
  <2>1. PICK tainted \in BOOLEAN :
          /\ out' = IF tainted THEN Append(out, Numbered("intro", t)) ELSE out
          /\ Issue(t, tainted)
    BY <1>11 DEF ThreadStart
  <2>2. out' \in Seq(Frames)
    BY <2>1, <1>t, FrameTypes DEF Kinds
  <2>3. TraceTypes'
    BY <1>11, <2>2 DEF ThreadStart, Release, TypeOK, TraceTypes
  <2>4. "app" \in Places \ InBlock /\ "new" \notin InBlock
    BY DEF Places, InBlock
  <2> QED
    BY <1>11, <2>1, <2>3, <2>4, OutsideTypes, IssueTypes
    DEF ThreadStart, Release, threadVars, TypeOK, ThreadTypes
<1>12. ASSUME NEW t \in Threads, ThreadEnd(t) PROVE TypeOK'
  <2>1. TraceTypes'
    BY <1>12, <1>t, SameTraceTypes DEF ThreadEnd
  <2>2. "done" \in Places \ InBlock /\ "kernel" \notin InBlock
    BY DEF Places, InBlock
  <2> QED
    BY <1>12, <2>1, <2>2, OutsideTypes
    DEF ThreadEnd, threadVars, TypeOK, ThreadTypes
<1>13. ASSUME NEW t \in Threads, SyscallEntry(t) PROVE TypeOK'
  <2> DEFINE after == IF LogAllSyscalls THEN <<Numbered("sys", t)>> ELSE <<>>
  <2>1. after \in Seq(Frames)
    BY <1>t, FrameTypes DEF Kinds
  <2>2. FlushBuffer(t, g_buffer, TRUE, after)
    BY <1>13 DEF SyscallEntry
  <2> HIDE DEF after
  <2>3. /\ lock' \in Threads \union {NoThread}
        /\ \E p \in {"limit", "kernel"} : pc' = [pc EXCEPT ![t] = p]
    BY <1>13, ReturnTypes DEF SyscallEntry, Places
  <2>4. TraceTypes'
    BY <1>13, <1>t, <2>1, <2>2, <2>3, FlushTraceTypes DEF SyscallEntry
  <2>5. {"limit", "kernel"} \subseteq Places \ InBlock /\ "app" \notin InBlock
    BY DEF Places, ExitPoints, LockedExits, InBlock
  <2>6. issued' \in [Threads -> Nat]
    BY <1>13 DEF SyscallEntry, Issue, TypeOK, ThreadTypes
  <2> QED
    BY <1>13, <2>3, <2>4, <2>5, <2>6, OutsideTypes
    DEF SyscallEntry, threadVars, TypeOK, ThreadTypes
<1>14. ASSUME NEW t \in Threads, SyscallExit(t) PROVE TypeOK'
  <2>1. PICK tainted \in BOOLEAN :
          /\ out' = IF tainted THEN Append(out, Numbered("intro", t)) ELSE out
          /\ Issue(t, tainted)
    BY <1>14 DEF SyscallExit
  <2>2. out' \in Seq(Frames)
    BY <2>1, <1>t, FrameTypes DEF Kinds
  <2>3. TraceTypes'
    BY <1>14, <2>2 DEF SyscallExit, Release, TypeOK, TraceTypes
  <2>4. "app" \in Places \ InBlock /\ "kernel" \notin InBlock
    BY DEF Places, InBlock
  <2> QED
    BY <1>14, <2>1, <2>3, <2>4, OutsideTypes, IssueTypes
    DEF SyscallExit, Release, threadVars, TypeOK, ThreadTypes
<1>15. ASSUME NEW t \in Threads, ModLoad(t) PROVE TypeOK'
  <2>1. out' \in Seq(Frames)
    BY <1>15, <1>t, FrameTypes DEF ModLoad, Kinds
  <2> QED
    BY <1>15, <2>1
    DEF ModLoad, threadVars, TypeOK, ThreadTypes, TraceTypes, BlockShape
<1>16. ASSUME NEW t \in Threads, ExceptionHandler(t) PROVE TypeOK'
  <2> DEFINE after == <<Numbered("exc", t)>>
  <2>1. after \in Seq(Frames)
    BY <1>t, FrameTypes DEF Kinds
  <2>2. FlushBuffer(t, g_buffer, FALSE, after)
    BY <1>16 DEF ExceptionHandler
  <2> HIDE DEF after
  <2>3. /\ lock' \in Threads \union {NoThread}
        /\ \E p \in {"limit", "signal", "app"} : pc' = [pc EXCEPT ![t] = p]
    BY <1>16, <1>t DEF ExceptionHandler, Return, Quit, Release
  <2>4. TraceTypes'
    BY <1>16, <1>t, <2>1, <2>2, <2>3, FlushTraceTypes DEF ExceptionHandler
  <2>5. {"limit", "signal", "app"} \subseteq Places \ InBlock
    BY DEF Places, ExitPoints, LockedExits, InBlock
  <2>6. issued' \in [Threads -> Nat] /\ redo' \in [Threads -> {"no", "next", "lost"}]
    BY <1>16 DEF ExceptionHandler, Issue, TypeOK, ThreadTypes
  <2> QED
    BY <1>16, <2>3, <2>4, <2>5, <2>6, OutsideTypes
    DEF ExceptionHandler, TypeOK, ThreadTypes
<1>17. ASSUME NEW t \in Threads, FollowExec(t) PROVE TypeOK'
  <2>1. "execdone" \in Places
    BY DEF Places, ExitPoints
  <2>2. /\ lock' \in Threads \union {NoThread}
        /\ \E p \in {"limit", "execdone"} : pc' = [pc EXCEPT ![t] = p]
    BY <1>17, <2>1, ReturnTypes DEF FollowExec
  <2>3. TraceTypes'
    BY <1>17, <1>t, <2>2, FlushTraceTypes DEF FollowExec
  <2>4. {"limit", "execdone"} \subseteq Places \ InBlock /\ "kernel" \notin InBlock
    BY DEF Places, ExitPoints, LockedExits, InBlock
  <2> QED
    BY <1>17, <2>2, <2>3, <2>4, OutsideTypes
    DEF FollowExec, threadVars, TypeOK, ThreadTypes
<1>18. ASSUME NEW t \in Threads, Fini(t) PROVE TypeOK'
  <2>1. TraceTypes'
    BY <1>18, <1>t, SameTraceTypes DEF Fini
  <2>2. "fini" \in Places \ InBlock /\ "kernel" \notin InBlock
    BY DEF Places, ExitPoints, InBlock
  <2> QED
    BY <1>18, <2>1, <2>2, OutsideTypes DEF Fini, threadVars, TypeOK, ThreadTypes
<1>19. ASSUME NEW t \in Threads, Cleanup(t) PROVE TypeOK'
  <2>1. TraceTypes'
    BY <1>19, <1>t, SameTraceTypes DEF Cleanup
  <2> QED
    BY <1>19, <2>1, GoneTypes DEF Cleanup, TypeOK, ThreadTypes
<1> QED
  BY <1>1, <1>2, <1>3, <1>4, <1>5, <1>6, <1>7, <1>8, <1>9, <1>10, <1>11,
     <1>12, <1>13, <1>14, <1>15, <1>16, <1>17, <1>18, <1>19, <1>n, <1>u
  DEF Next

(* TypeOK, which says among other things that the array is never written   *)
(* beyond its end, holds in every reachable state.                         *)
THEOREM TypeCorrect == Spec => []TypeOK
BY TypeInit, TypeNext, PTL DEF Spec

-----------------------------------------------------------------------------
(* The buffer does not overflow in a roomy configuration.                  *)
(*                                                                         *)
(* What the threads owe is counted by a finite set, one element for each   *)
(* instruction still owed; an append takes one element away, a check that  *)
(* does not ask for a flush has seen room for one thread's elements, and   *)
(* Roomy leaves room for those of the others.                              *)

SlotsOf(w) == {p \in Threads \X (1..Burst) : p[2] <= w[p[1]]}

(* What one thread may owe is a number.                                    *)
LEMMA BurstType == Burst \in Nat /\ MaxBlock <= Burst
BY DEF Burst

(* The number of threads is a number.                                      *)
LEMMA ThreadsCount ==
  ASSUME NEW t \in Threads
  PROVE  /\ Cardinality(Threads) \in Nat
         /\ IsFiniteSet(Threads \ {t})
         /\ Cardinality(Threads \ {t}) = Cardinality(Threads) - 1
BY ThreadsAssumption, FS_CardinalityType, FS_RemoveElement

(* What all threads owe is bounded.                                        *)
LEMMA SlotsBound ==
  ASSUME NEW w
  PROVE  /\ IsFiniteSet(SlotsOf(w))
         /\ Cardinality(SlotsOf(w)) \in Nat
         /\ Cardinality(SlotsOf(w)) <= Cardinality(Threads) * Burst
<1>1. IsFiniteSet(1..Burst) /\ Cardinality(1..Burst) = Burst
  BY BurstType, FS_Interval
<1>2. /\ IsFiniteSet(Threads \X (1..Burst))
      /\ Cardinality(Threads \X (1..Burst)) = Cardinality(Threads) * Burst
  BY <1>1, ThreadsAssumption, FS_Product
<1>3. SlotsOf(w) \subseteq Threads \X (1..Burst)
  BY DEF SlotsOf
<1>4. /\ IsFiniteSet(SlotsOf(w))
      /\ Cardinality(SlotsOf(w)) <= Cardinality(Threads \X (1..Burst))
  BY <1>2, <1>3, FS_Subset
<1> QED
  BY <1>2, <1>4, FS_CardinalityType

(* Fewer instructions owed, fewer slots. *)
LEMMA SlotsMonotone ==
  ASSUME NEW w \in [Threads -> Nat], NEW v \in [Threads -> Nat],
         \A t \in Threads : v[t] <= w[t]
  PROVE  Cardinality(SlotsOf(v)) <= Cardinality(SlotsOf(w))
<1>1. SlotsOf(v) \subseteq SlotsOf(w)
  <2>1. ASSUME NEW p \in Threads \X (1..Burst), p[2] <= v[p[1]]
        PROVE  p[2] <= w[p[1]]
    <3>1. p[1] \in Threads /\ p[2] \in Nat
      BY <2>1
    <3> QED
      BY <2>1, <3>1
  <2> QED
    BY <2>1 DEF SlotsOf
<1> QED
  BY <1>1, SlotsBound, FS_Subset

(* One instruction less owed by t, at least one slot less. *)
LEMMA SlotsDrop ==
  ASSUME NEW w \in [Threads -> 0..Burst], NEW v \in [Threads -> Nat],
         \A u \in Threads : v[u] <= w[u],
         NEW t \in Threads, v[t] < w[t]
  PROVE  Cardinality(SlotsOf(v)) + 1 <= Cardinality(SlotsOf(w))
<1> DEFINE x == <<t, w[t]>>
<1>1. x \in SlotsOf(w)
  <2>1. w[t] \in 1..Burst
    BY BurstType
  <2> QED
    BY <2>1 DEF SlotsOf
<1>2. SlotsOf(v) \subseteq SlotsOf(w) \ {x}
  <2>1. ASSUME NEW p \in Threads \X (1..Burst), p[2] <= v[p[1]]
        PROVE  p[2] <= w[p[1]] /\ p # x
    <3>1. p[1] \in Threads /\ p[2] \in Nat
      BY <2>1
    <3>2. w[p[1]] \in Nat /\ v[p[1]] \in Nat
      BY <3>1, BurstType
    <3> QED
      BY <2>1, <3>1, <3>2, BurstType
  <2> QED
    BY <2>1 DEF SlotsOf
<1>3. /\ IsFiniteSet(SlotsOf(w) \ {x})
      /\ Cardinality(SlotsOf(w) \ {x}) = Cardinality(SlotsOf(w)) - 1
  BY <1>1, SlotsBound, FS_RemoveElement
<1>4. Cardinality(SlotsOf(v)) <= Cardinality(SlotsOf(w) \ {x})
  BY <1>2, <1>3, FS_Subset
<1> QED
  BY <1>3, <1>4, SlotsBound

(* t owes v[t]; the others owe a burst each at most. *)
LEMMA SlotsOfOne ==
  ASSUME NEW v \in [Threads -> 0..Burst], NEW t \in Threads
  PROVE  Cardinality(SlotsOf(v)) <= v[t] + (Cardinality(Threads) - 1) * Burst
<1> DEFINE Mine == {t} \X (1..v[t])
           Others == (Threads \ {t}) \X (1..Burst)
           rest == (Cardinality(Threads) - 1) * Burst
<1>1. v[t] \in 0..Burst /\ v[t] \in Int /\ Burst \in Int
  BY BurstType
<1>2. IsFiniteSet(1..v[t]) /\ Cardinality(1..v[t]) = v[t]
  BY <1>1, FS_Interval
<1>3. IsFiniteSet(1..Burst) /\ Cardinality(1..Burst) = Burst
  BY BurstType, FS_Interval
<1>4. IsFiniteSet({t}) /\ Cardinality({t}) = 1
  BY FS_Singleton
<1>5. IsFiniteSet(Mine) /\ Cardinality(Mine) = v[t]
  <2>1. IsFiniteSet(Mine) /\ Cardinality(Mine) = 1 * v[t]
    BY <1>2, <1>4, FS_Product
  <2> QED
    BY <2>1, <1>1
<1>6. /\ IsFiniteSet(Others)
      /\ Cardinality(Others) = rest
  <2>1. /\ IsFiniteSet(Threads \ {t})
        /\ Cardinality(Threads \ {t}) = Cardinality(Threads) - 1
    BY ThreadsCount
  <2>2. /\ IsFiniteSet(Others)
        /\ Cardinality(Others) =
             Cardinality(Threads \ {t}) * Cardinality(1..Burst)
    BY <1>3, <2>1, FS_Product
  <2> QED
    BY <1>3, <2>1, <2>2, Zenon
<1> HIDE DEF rest
<1>7. SlotsOf(v) \subseteq Mine \union Others
  <2>1. ASSUME NEW p \in Threads \X (1..Burst), p[2] <= v[p[1]]
        PROVE  p \in Mine \union Others
    <3>1. CASE p[1] = t
      <4>1. p = <<t, p[2]>> /\ p[2] \in 1..v[t]
        BY <2>1, <3>1, <1>1
      <4> QED
        BY <4>1
    <3>2. CASE p[1] # t
      BY <2>1, <3>2
    <3> QED
      BY <3>1, <3>2
  <2> QED
    BY <2>1 DEF SlotsOf
<1> HIDE DEF Mine, Others
<1>8. /\ IsFiniteSet(Mine \union Others)
      /\ Cardinality(Mine \union Others) =
           Cardinality(Mine) + Cardinality(Others) - Cardinality(Mine \cap Others)
  BY <1>5, <1>6, FS_Union
<1>9. Cardinality(Mine \cap Others) \in Nat
  <2>1. IsFiniteSet(Mine \cap Others)
    BY <1>5, FS_Subset
  <2> QED
    BY <2>1, FS_CardinalityType
<1>10. Cardinality(SlotsOf(v)) <= Cardinality(Mine \union Others)
  BY <1>7, <1>8, FS_Subset
<1>11. Cardinality(Mine) \in Nat /\ Cardinality(Others) \in Nat
       /\ Cardinality(Mine \union Others) \in Nat
  BY <1>5, <1>6, <1>8, FS_CardinalityType
<1>12. Cardinality(SlotsOf(v)) <= v[t] + rest
  BY <1>1, <1>5, <1>6, <1>8, <1>9, <1>10, <1>11, SlotsBound
<1> QED
  BY <1>12 DEF rest

Owing == [t \in Threads |-> Owed(t)]

OwingOK ==
  /\ Owing \in [Threads -> 0..Burst]
  /\ \A t \in Threads : Owing[t] = Owed(t)
  /\ Slots = SlotsOf(Owing)
  /\ g_bufidx \in Nat

(* What each thread owes is known while types are right.                   *)
LEMMA OwingType == TypeOK => OwingOK
<1> SUFFICES ASSUME TypeOK PROVE OwingOK
  OBVIOUS
<1>1. ASSUME NEW t \in Threads PROVE Owed(t) \in 0..Burst
  <2>1. left[t] \in 0..MaxBlock /\ rep[t] \in 0..MaxRep
        /\ (pc[t] = "block" => left[t] > 0)
    BY DEF TypeOK, ThreadTypes, BlockShape, InBlock
  <2> QED
    BY <2>1 DEF Owed, Burst
<1>2. /\ Owing \in [Threads -> 0..Burst]
      /\ \A t \in Threads : Owing[t] = Owed(t)
  BY <1>1 DEF Owing
<1>3. Slots = SlotsOf(Owing)
  <2>1. \A p \in Threads \X (1..Burst) : Owing[p[1]] = Owed(p[1])
    BY <1>2
  <2> QED
    BY <2>1 DEF Slots, SlotsOf
<1>4. g_bufidx \in Nat
  BY DEF TypeOK, TraceTypes, g_bufidx
<1> QED
  BY <1>2, <1>3, <1>4 DEF OwingOK

(* The same in the next state.                                             *)
LEMMA OwingTypeNext == TypeOK' => OwingOK'
BY OwingType, PTL

(* Nothing is appended and nobody owes more. *)
LEMMA RoomKept ==
  ASSUME TypeOK, TypeOK', RoomForOwed, g_bufidx' <= g_bufidx,
         \A u \in Threads : Owed(u)' <= Owed(u)
  PROVE  RoomForOwed'
<1>1. \A u \in Threads : Owing'[u] <= Owing[u]
  BY OwingType, OwingTypeNext DEF OwingOK
<1>2. Owing \in [Threads -> Nat] /\ Owing' \in [Threads -> Nat]
  BY OwingType, OwingTypeNext, BurstType DEF OwingOK
<1>3. Cardinality(SlotsOf(Owing')) <= Cardinality(SlotsOf(Owing))
  BY <1>1, <1>2, SlotsMonotone
<1>4. Cardinality(SlotsOf(Owing)) \in Nat /\ Cardinality(SlotsOf(Owing')) \in Nat
  BY SlotsBound
<1> QED
  BY <1>3, <1>4, OwingType, OwingTypeNext DEF OwingOK, RoomForOwed

(* One instruction that t owed is appended, or passed over. *)
LEMMA RoomUsed ==
  ASSUME TypeOK, TypeOK', RoomForOwed, NEW t \in Threads,
         g_bufidx' <= g_bufidx + 1, Owed(t)' < Owed(t),
         \A u \in Threads : Owed(u)' <= Owed(u)
  PROVE  RoomForOwed'
<1>1. (\A u \in Threads : Owing'[u] <= Owing[u]) /\ Owing'[t] < Owing[t]
  BY OwingType, OwingTypeNext DEF OwingOK
<1>2. Owing' \in [Threads -> Nat] /\ Owing \in [Threads -> 0..Burst]
  BY OwingType, OwingTypeNext, BurstType DEF OwingOK
<1>3. Cardinality(SlotsOf(Owing')) + 1 <= Cardinality(SlotsOf(Owing))
  BY <1>1, <1>2, SlotsDrop
<1>4. Cardinality(SlotsOf(Owing)) \in Nat /\ Cardinality(SlotsOf(Owing')) \in Nat
  BY SlotsBound
<1> QED
  BY <1>3, <1>4, OwingType, OwingTypeNext DEF OwingOK, RoomForOwed

(* The buffer has been flushed. *)
LEMMA RoomFlushed ==
  ASSUME Roomy, TypeOK', g_bufidx' = 0
  PROVE  RoomForOwed'
<1> DEFINE total == Cardinality(Threads) * Burst
<1>1. total \in Nat
  BY BurstType, ThreadsAssumption, FS_CardinalityType
<1>2. Cardinality(SlotsOf(Owing')) <= total /\ total <= BufferSize
      /\ Cardinality(SlotsOf(Owing')) \in Nat
  BY SlotsBound DEF Roomy
<1> HIDE DEF total
<1> QED
  BY <1>1, <1>2, OwingTypeNext DEF OwingOK, RoomForOwed

(* A check has found room for all that t owes now. *)
LEMMA RoomChecked ==
  ASSUME Roomy, TypeOK', NEW t \in Threads,
         g_bufidx' + Owed(t)' < BufferSize - Fudge
  PROVE  RoomForOwed'
<1> DEFINE rest == (Cardinality(Threads) - 1) * Burst
<1>1. Owing' \in [Threads -> 0..Burst] /\ Owing'[t] = Owed(t)'
      /\ g_bufidx' \in Nat /\ Owed(t)' \in Nat
  BY OwingTypeNext, BurstType DEF OwingOK
<1>2. Cardinality(SlotsOf(Owing')) <= Owed(t)' + rest
  BY <1>1, SlotsOfOne
<1>3. rest <= Fudge + 1
  BY DEF Roomy
<1>4. rest \in Int
  <2>1. Cardinality(Threads) \in Nat /\ Burst \in Nat
    BY BurstType, ThreadsCount
  <2> QED
    BY <2>1
<1>5. Cardinality(SlotsOf(Owing')) \in Nat
  BY SlotsBound
<1> HIDE DEF rest
<1> QED
  BY <1>1, <1>2, <1>3, <1>4, <1>5, OwingTypeNext DEF OwingOK, RoomForOwed

(* RoomForOwed and NoOverflow, together with the types, are inductive. *)
THEOREM RoomNext ==
  ASSUME Roomy, TypeOK, TypeOK', RoomForOwed, NoOverflow, [Next]_vars
  PROVE  NoOverflow' /\ RoomForOwed'
<1>u. CASE UNCHANGED vars
  BY <1>u DEF vars, threadVars, NoOverflow, RoomForOwed, Slots, Owed, g_bufidx
<1>n. CASE Terminated
  BY <1>n, <1>u DEF Terminated
<1>o. \A u \in Threads : Owed(u) \in Nat /\ Owed(u)' \in Nat
  BY OwingType, OwingTypeNext, BurstType DEF OwingOK
<1>p. pc \in [Threads -> Places] /\ left \in [Threads -> 0..MaxBlock]
      /\ rep \in [Threads -> 0..MaxRep]
      /\ \A u \in Threads : BlockShape(u)
      /\ g_bufidx \in Nat /\ g_buffer \in Seq(Frames)
      /\ g_bufidx <= BufferSize
  <2>1. pc \in [Threads -> Places] /\ left \in [Threads -> 0..MaxBlock]
        /\ rep \in [Threads -> 0..MaxRep]
    BY DEF TypeOK, ThreadTypes
  <2>2. \A u \in Threads : BlockShape(u)
    BY DEF TypeOK
  <2>3. g_buffer \in Seq(Frames) /\ g_bufidx <= BufferSize
    BY DEF TypeOK, TraceTypes, g_bufidx
  <2>4. g_bufidx \in Nat
    BY <2>3 DEF g_bufidx
  <2> QED
    BY <2>1, <2>2, <2>3, <2>4
<1>1. ASSUME NEW t \in Threads, EnterBlock(t)
      PROVE  NoOverflow' /\ RoomForOwed'
  <2>1. PICK n \in 1..MaxBlock :
          /\ left' = [left EXCEPT ![t] = n]
          /\ pc' = [pc EXCEPT ![t] = IF CheckBuffer(n) THEN "flush" ELSE "block"]
    BY <1>1 DEF EnterBlock
  <2>2. g_bufidx' = g_bufidx /\ NoOverflow' /\ rep' = rep /\ pc[t] = "app"
        /\ rep[t] = 0
    BY <1>1, <1>p DEF EnterBlock, NoFlush, NoOverflow, g_bufidx, BlockShape, InBlock
  <2>3. CASE CheckBuffer(n)
    <3>1. \A u \in Threads : Owed(u)' <= Owed(u)
      BY <2>1, <2>2, <2>3, <1>p DEF Owed
    <3> QED
      BY <2>2, <3>1, <1>p, RoomKept
  <2>4. CASE ~CheckBuffer(n)
    <3>1. Owed(t)' = n
      BY <2>1, <2>2, <2>4, <1>p DEF Owed
    <3>2. g_bufidx + n < BufferSize - Fudge
      <4>1. g_bufidx + n \in 0..(Word - 1)
        BY <1>p
      <4>2. (g_bufidx + n) % Word = g_bufidx + n
        BY <4>1
      <4> QED
        BY <2>4, <4>2, <1>p DEF CheckBuffer
    <3> QED
      BY <2>2, <3>1, <3>2, RoomChecked
  <2> QED
    BY <2>3, <2>4
<1>2. ASSUME NEW t \in Threads, EnterRep(t)
      PROVE  NoOverflow' /\ RoomForOwed'
  <2>1. PICK c \in 1..MaxRep :
          /\ rep' = [rep EXCEPT ![t] = c]
          /\ pc' = [pc EXCEPT ![t] = IF CheckBufferEx(c, left[t])
                                     THEN "repflush" ELSE "block"]
    BY <1>2 DEF EnterRep
  <2>2. g_bufidx' = g_bufidx /\ NoOverflow' /\ left' = left /\ pc[t] = "block"
        /\ left[t] \in 1..MaxBlock
    BY <1>2, <1>p DEF EnterRep, NoFlush, NoOverflow, g_bufidx, BlockShape, InBlock
  <2>3. CASE CheckBufferEx(c, left[t])
    <3>1. \A u \in Threads : Owed(u)' <= Owed(u)
      BY <2>1, <2>2, <2>3, <1>p DEF Owed
    <3> QED
      BY <2>2, <3>1, <1>p, RoomKept
  <2>4. CASE ~CheckBufferEx(c, left[t])
    <3>1. Owed(t)' = c + left[t] - 1
      BY <2>1, <2>2, <2>4, <1>p DEF Owed
    <3>2. g_bufidx + c + left[t] < BufferSize - Fudge
      <4>1. g_bufidx + c + left[t] \in 0..(Word - 1)
        BY <1>p, <2>2 DEF Roomy
      <4>2. (g_bufidx + c + left[t]) % Word = g_bufidx + c + left[t]
        BY <4>1
      <4> QED
        BY <2>4, <4>2, <1>p, <2>2 DEF CheckBufferEx
    <3>3. g_bufidx' + Owed(t)' < BufferSize - Fudge
      BY <2>2, <3>1, <3>2, <1>p
    <3> QED
      BY <2>2, <3>3, RoomChecked
  <2> QED
    BY <2>3, <2>4
<1>3. ASSUME NEW t \in Threads, FlushForBlock(t)
      PROVE  NoOverflow' /\ RoomForOwed'
  BY <1>3, RoomFlushed
  DEF FlushForBlock, FlushBuffer, FlushInstructions, NoOverflow, g_bufidx
<1>4. ASSUME NEW t \in Threads, LeaveBlock(t)
      PROVE  NoOverflow' /\ RoomForOwed'
  <2>1. g_bufidx' = g_bufidx /\ NoOverflow'
    BY <1>4 DEF LeaveBlock, NoFlush, NoOverflow, g_bufidx
  <2>2. \A u \in Threads : Owed(u)' <= Owed(u)
    BY <1>4, <1>p DEF LeaveBlock, Owed
  <2> QED
    BY <2>1, <2>2, <1>p, RoomKept
<1>5. ASSUME NEW t \in Threads, StopRep(t)
      PROVE  NoOverflow' /\ RoomForOwed'
  <2>1. g_bufidx' = g_bufidx /\ NoOverflow'
    BY <1>5 DEF StopRep, NoFlush, NoOverflow, g_bufidx
  <2>2. \A u \in Threads : Owed(u)' <= Owed(u)
    BY <1>5, <1>p DEF StopRep, Owed, BlockShape, InBlock
  <2> QED
    BY <2>1, <2>2, <1>p, RoomKept
<1>6. ASSUME NEW t \in Threads, AppendAndGoOn(t)
      PROVE  NoOverflow' /\ RoomForOwed'
  <2>1. PICK logged \in BOOLEAN :
          /\ InAppendBuffer(t, logged)
          /\ g_buffer' = AfterAppend(t, logged)
          /\ Advance(t, "block")
          /\ UNCHANGED status
    BY <1>6 DEF AppendAndGoOn
  <2>2. g_bufidx' <= g_bufidx + 1
    BY <2>1, <1>p DEF AfterAppend, g_bufidx
  <2>3. pc[t] = "block" /\ left[t] > 0
    BY <2>1, <1>p DEF InAppendBuffer, BlockShape, InBlock
  <2>4. Owed(t)' < Owed(t)
    BY <2>1, <2>3, <1>p DEF Advance, Release, Owed
  <2>5. \A u \in Threads : Owed(u)' <= Owed(u)
    <3>1. ASSUME NEW u \in Threads, u # t PROVE Owed(u)' = Owed(u)
      BY <2>1, <3>1, <1>p DEF Advance, Release, Owed
    <3>2. ASSUME NEW u \in Threads PROVE Owed(u)' <= Owed(u)
      BY <2>4, <3>1, <1>o
    <3> QED
      BY <3>2
  <2> QED
    BY <2>1, <2>2, <2>4, <2>5, RoomUsed DEF NoOverflow
<1>7. ASSUME NEW t \in Threads, AppendLastOne(t)
      PROVE  NoOverflow' /\ RoomForOwed'
  <2>1. PICK logged \in BOOLEAN :
          /\ InAppendBuffer(t, logged)
          /\ g_buffer' = AfterAppend(t, logged)
          /\ Release(t, "post") /\ Leave(t)
          /\ UNCHANGED status
    BY <1>7 DEF AppendLastOne
  <2>2. g_bufidx' <= g_bufidx + 1
    BY <2>1, <1>p DEF AfterAppend, g_bufidx
  <2>3. pc[t] = "block" /\ left[t] > 0
    BY <2>1, <1>p DEF InAppendBuffer, BlockShape, InBlock
  <2>4. Owed(t)' < Owed(t)
    BY <2>1, <2>3, <1>p DEF Release, Owed
  <2>5. \A u \in Threads : Owed(u)' <= Owed(u)
    <3>1. ASSUME NEW u \in Threads, u # t PROVE Owed(u)' = Owed(u)
      BY <2>1, <3>1, <1>p DEF Leave, Release, Owed
    <3>2. ASSUME NEW u \in Threads PROVE Owed(u)' <= Owed(u)
      BY <2>4, <3>1, <1>o
    <3> QED
      BY <3>2
  <2> QED
    BY <2>1, <2>2, <2>4, <2>5, RoomUsed DEF NoOverflow
<1>8. ASSUME NEW t \in Threads, AppendAndExit(t)
      PROVE  NoOverflow' /\ RoomForOwed'
  <2>1. PICK logged \in BOOLEAN :
          FlushBuffer(t, AfterAppend(t, logged), TRUE, <<>>) /\ UNCHANGED status
    BY <1>8 DEF AppendAndExit
  <2> QED
    BY <2>1, RoomFlushed DEF FlushBuffer, FlushInstructions, NoOverflow, g_bufidx
<1>9. ASSUME NEW t \in Threads, AppendOverflow(t)
      PROVE  NoOverflow' /\ RoomForOwed'
  <2>1. g_bufidx >= BufferSize /\ pc[t] = "block"
    BY <1>9, <1>p DEF AppendOverflow, InAppendBuffer, HasRoom
  <2>2. Owed(t) >= 1 /\ Owed(t) \in 1..Burst
    <3>1. left[t] > 0 /\ left[t] \in 0..MaxBlock /\ rep[t] \in 0..MaxRep
      BY <2>1, <1>p DEF BlockShape, InBlock
    <3> QED
      BY <2>1, <3>1 DEF Owed, Burst
  <2>3. <<t, Owed(t)>> \in Slots
    BY <2>2 DEF Slots
  <2>4. IsFiniteSet(Slots) /\ Cardinality(Slots) \in Nat
    BY OwingType, SlotsBound DEF OwingOK
  <2>5. Cardinality(Slots) # 0
    BY <2>3, <2>4, FS_EmptySet
  <2> QED
    BY <2>1, <2>4, <2>5, <1>p DEF RoomForOwed
<1>10. ASSUME NEW t \in Threads, PostInstruction(t)
      PROVE  NoOverflow' /\ RoomForOwed'
  <2>1. g_bufidx' = g_bufidx /\ NoOverflow'
    BY <1>10 DEF PostInstruction, NoFlush, NoOverflow, g_bufidx
  <2>2. \A u \in Threads : Owed(u)' <= Owed(u)
    BY <1>10, <1>p DEF PostInstruction, NoFlush, Owed
  <2> QED
    BY <2>1, <2>2, <1>p, RoomKept
<1>11. ASSUME NEW t \in Threads, ThreadStart(t)
      PROVE  NoOverflow' /\ RoomForOwed'
  <2>1. g_bufidx' = g_bufidx /\ NoOverflow'
    BY <1>11 DEF ThreadStart, Release, threadVars, NoOverflow, g_bufidx
  <2>2. \A u \in Threads : Owed(u)' <= Owed(u)
    BY <1>11, <1>p DEF ThreadStart, Release, threadVars, Owed
  <2> QED
    BY <2>1, <2>2, <1>p, RoomKept
<1>12. ASSUME NEW t \in Threads, ThreadEnd(t)
      PROVE  NoOverflow' /\ RoomForOwed'
  <2>1. g_bufidx' = g_bufidx /\ NoOverflow'
    BY <1>12 DEF ThreadEnd, NoFlush, threadVars, NoOverflow, g_bufidx
  <2>2. \A u \in Threads : Owed(u)' <= Owed(u)
    BY <1>12, <1>p DEF ThreadEnd, NoFlush, threadVars, Owed
  <2> QED
    BY <2>1, <2>2, <1>p, RoomKept
<1>13. ASSUME NEW t \in Threads, SyscallEntry(t)
      PROVE  NoOverflow' /\ RoomForOwed'
  BY <1>13, RoomFlushed
  DEF SyscallEntry, FlushBuffer, FlushInstructions, NoOverflow, g_bufidx
<1>14. ASSUME NEW t \in Threads, SyscallExit(t)
      PROVE  NoOverflow' /\ RoomForOwed'
  <2>1. g_bufidx' = g_bufidx /\ NoOverflow'
    BY <1>14 DEF SyscallExit, Release, threadVars, NoOverflow, g_bufidx
  <2>2. \A u \in Threads : Owed(u)' <= Owed(u)
    BY <1>14, <1>p DEF SyscallExit, Release, threadVars, Owed
  <2> QED
    BY <2>1, <2>2, <1>p, RoomKept
<1>15. ASSUME NEW t \in Threads, ModLoad(t)
      PROVE  NoOverflow' /\ RoomForOwed'
  <2>1. g_bufidx' = g_bufidx /\ NoOverflow'
    BY <1>15 DEF ModLoad, threadVars, NoOverflow, g_bufidx
  <2>2. \A u \in Threads : Owed(u)' <= Owed(u)
    BY <1>15, <1>p DEF ModLoad, threadVars, Owed
  <2> QED
    BY <2>1, <2>2, <1>p, RoomKept
<1>16. ASSUME NEW t \in Threads, ExceptionHandler(t)
      PROVE  NoOverflow' /\ RoomForOwed'
  <2>1. FlushBuffer(t, g_buffer, FALSE, <<Numbered("exc", t)>>)
        /\ UNCHANGED status
    BY <1>16 DEF ExceptionHandler
  <2> QED
    BY <2>1, RoomFlushed DEF FlushBuffer, FlushInstructions, NoOverflow, g_bufidx
<1>17. ASSUME NEW t \in Threads, FollowExec(t)
      PROVE  NoOverflow' /\ RoomForOwed'
  BY <1>17, RoomFlushed
  DEF FollowExec, FlushBuffer, FlushInstructions, NoOverflow, g_bufidx
<1>18. ASSUME NEW t \in Threads, Fini(t)
      PROVE  NoOverflow' /\ RoomForOwed'
  <2>1. g_bufidx' = g_bufidx /\ NoOverflow'
    BY <1>18 DEF Fini, NoFlush, threadVars, NoOverflow, g_bufidx
  <2>2. \A u \in Threads : Owed(u)' <= Owed(u)
    BY <1>18, <1>p DEF Fini, NoFlush, threadVars, Owed
  <2> QED
    BY <2>1, <2>2, <1>p, RoomKept
<1>19. ASSUME NEW t \in Threads, Cleanup(t)
      PROVE  NoOverflow' /\ RoomForOwed'
  <2>1. g_bufidx' = g_bufidx /\ NoOverflow'
    BY <1>19 DEF Cleanup, NoFlush, NoOverflow, g_bufidx, ExitPoints, LockedExits
  <2>2. \A u \in Threads : Owed(u)' <= Owed(u)
    BY <1>19, <1>p DEF Cleanup, Owed
  <2> QED
    BY <2>1, <2>2, <1>p, RoomKept
<1> QED
  BY <1>1, <1>2, <1>3, <1>4, <1>5, <1>6, <1>7, <1>8, <1>9,
     <1>10, <1>11, <1>12, <1>13, <1>14, <1>15, <1>16, <1>17, <1>18, <1>19, <1>n, <1>u
  DEF Next

(* At the start the buffer has room for every thread.                      *)
LEMMA RoomInit == Roomy /\ Init => NoOverflow /\ RoomForOwed
<1> SUFFICES ASSUME Roomy, Init PROVE NoOverflow /\ RoomForOwed
  OBVIOUS
<1>1. g_bufidx = 0 /\ NoOverflow /\ \A t \in Threads : Owed(t) = 0
  BY DEF Init, g_bufidx, NoOverflow, Owed
<1>2. Slots = {}
  BY <1>1, BurstType DEF Slots
<1> QED
  BY <1>1, <1>2, FS_EmptySet DEF RoomForOwed

(* In a roomy configuration AppendBuffer's assertion never fails, although *)
(* the checks of the buffer are made outside the lock.                     *)
THEOREM NoOverflowTheorem == ASSUME Roomy PROVE Spec => []NoOverflow
<1>1. Init => TypeOK /\ NoOverflow /\ RoomForOwed
  BY TypeInit, RoomInit
<1>2. TypeOK /\ NoOverflow /\ RoomForOwed /\ [Next]_vars
      => (TypeOK /\ NoOverflow /\ RoomForOwed)'
  BY TypeNext, RoomNext
<1> QED
  BY <1>1, <1>2, PTL DEF Spec

-----------------------------------------------------------------------------
(* What the lock guarantees at the end of the process. *)

(* The lock is free initially.                                             *)
LEMMA LockInit == Init => LockInv
BY DEF Init, LockInv, LockedExits

(* A step that changes neither the lock nor the trace. *)
LEMMA QuietLock ==
  ASSUME TypeOK, LockInv, NEW t \in Threads, NEW p,
         p \notin LockedExits, pc' = [pc EXCEPT ![t] = p],
         UNCHANGED <<lock, g_buffer, g_logcount, status>>
  PROVE  LockInv'
<1>1. \A u \in Threads : pc'[u] \in LockedExits => pc[u] \in LockedExits
  BY DEF TypeOK, ThreadTypes
<1> QED
  BY <1>1 DEF LockInv

(* A step that holds the lock for its duration and flushes. *)
LEMMA FlushLock ==
  ASSUME TypeOK, LockInv, lock = NoThread, NEW t \in Threads, NEW p,
         NEW buf \in Seq(Frames), Len(buf) <= BufferSize,
         g_buffer' = <<>>, g_logcount' = g_logcount + Len(buf),
         pc' = [pc EXCEPT ![t] = p], UNCHANGED status,
         \/ lock' = t
         \/ lock' = lock /\ p \notin LockedExits /\ ~LimitReached(Len(buf))
  PROVE  LockInv'
<1>1. g_logcount \in Nat /\ Len(buf) \in Nat /\ g_logcount' \in Nat
  BY DEF TypeOK, TraceTypes
<1>2. \A u \in Threads : u # t => pc'[u] \notin LockedExits
  BY ThreadsAssumption DEF TypeOK, ThreadTypes, LockInv
<1>3. pc'[t] = p /\ t # NoThread
  BY ThreadsAssumption DEF TypeOK, ThreadTypes
<1>4. LogLimit # 0 => g_logcount' < LogLimit + BufferSize
  BY <1>1 DEF LockInv
<1>5. CASE lock' = t
  BY <1>2, <1>3, <1>4, <1>5 DEF LockInv
<1>6. CASE lock' = lock /\ p \notin LockedExits /\ ~LimitReached(Len(buf))
  <2>1. LogLimit # 0 => g_logcount' < LogLimit
    BY <1>1, <1>6 DEF LimitReached
  <2> QED
    BY <1>2, <1>3, <1>4, <1>6, <2>1 DEF LockInv
<1> QED
  BY <1>5, <1>6

(* Every step keeps the lock with the thread that took it.                 *)
THEOREM LockNext == TypeOK /\ LockInv /\ [Next]_vars => LockInv'
<1> SUFFICES ASSUME TypeOK, LockInv, [Next]_vars PROVE LockInv'
  OBVIOUS
<1>u. CASE UNCHANGED vars
  BY <1>u DEF vars, threadVars, LockInv
<1>n. CASE Terminated
  BY <1>n, <1>u DEF Terminated
<1>b. /\ g_buffer \in Seq(Frames) /\ Len(g_buffer) <= BufferSize
      /\ pc \in [Threads -> Places]
  BY DEF TypeOK, ThreadTypes, TraceTypes
<1>l. {"app", "flush", "repflush", "block", "post", "kernel", "done", "gone",
       "execdone", "fini"} \intersect LockedExits = {}
  BY DEF LockedExits
<1>1. ASSUME NEW t \in Threads, EnterBlock(t) PROVE LockInv'
  <2>1. \E p \in {"flush", "block"} : pc' = [pc EXCEPT ![t] = p]
    BY <1>1 DEF EnterBlock
  <2> QED
    BY <1>1, <1>l, <2>1, QuietLock DEF EnterBlock, NoFlush
<1>2. ASSUME NEW t \in Threads, EnterRep(t) PROVE LockInv'
  <2>1. \E p \in {"repflush", "block"} : pc' = [pc EXCEPT ![t] = p]
    BY <1>2 DEF EnterRep
  <2> QED
    BY <1>2, <1>l, <2>1, QuietLock DEF EnterRep, NoFlush
<1>3. ASSUME NEW t \in Threads, FlushForBlock(t) PROVE LockInv'
  <2>1. \E p \in {"limit", "block"} :
          /\ pc' = [pc EXCEPT ![t] = p]
          /\ \/ lock' = t
             \/ lock' = lock /\ p = "block" /\ ~LimitReached(Len(g_buffer))
    BY <1>3 DEF FlushForBlock, Return, Quit, Release
  <2> QED
    BY <1>3, <1>b, <1>l, <2>1, FlushLock
    DEF FlushForBlock, FlushBuffer, FlushInstructions
<1>4. ASSUME NEW t \in Threads, LeaveBlock(t) PROVE LockInv'
  <2>1. \E p \in {"app"} : pc' = [pc EXCEPT ![t] = p]
    BY <1>4 DEF LeaveBlock
  <2> QED
    BY <1>4, <1>l, <2>1, QuietLock DEF LeaveBlock, NoFlush
<1>5. ASSUME NEW t \in Threads, StopRep(t) PROVE LockInv'
  <2>1. \E p \in {"app", "block"} : pc' = [pc EXCEPT ![t] = p]
    BY <1>5 DEF StopRep
  <2> QED
    BY <1>5, <1>l, <2>1, QuietLock DEF StopRep, NoFlush
<1>6. ASSUME NEW t \in Threads, AppendAndGoOn(t) PROVE LockInv'
  <2>1. /\ lock = NoThread /\ lock' = lock
        /\ UNCHANGED <<g_logcount, status>>
        /\ \E p \in {"app", "block"} : pc' = [pc EXCEPT ![t] = p]
    BY <1>6 DEF AppendAndGoOn, InAppendBuffer, Advance, Release
  <2>2. \A u \in Threads : pc'[u] \in LockedExits => pc[u] \in LockedExits
    BY <1>b, <1>l, <2>1
  <2> QED
    BY <2>1, <2>2 DEF LockInv
<1>7. ASSUME NEW t \in Threads, AppendLastOne(t) PROVE LockInv'
  <2>1. /\ lock = NoThread /\ lock' = lock
        /\ UNCHANGED <<g_logcount, status>>
        /\ pc' = [pc EXCEPT ![t] = "post"]
    BY <1>7 DEF AppendLastOne, InAppendBuffer, Release
  <2>2. \A u \in Threads : pc'[u] \in LockedExits => pc[u] \in LockedExits
    BY <1>b, <1>l, <2>1
  <2> QED
    BY <2>1, <2>2 DEF LockInv
<1>8. ASSUME NEW t \in Threads, AppendAndExit(t) PROVE LockInv'
  <2>1. PICK logged \in BOOLEAN :
          /\ lock = NoThread /\ HasRoom(logged)
          /\ FlushBuffer(t, AfterAppend(t, logged), TRUE, <<>>)
          /\ lock' = t /\ UNCHANGED status
          /\ \E p \in {"limit", "smash", "exitnext"} : pc' = [pc EXCEPT ![t] = p]
    BY <1>8 DEF AppendAndExit, InAppendBuffer, Quit
  <2>2. /\ AfterAppend(t, logged) \in Seq(Frames)
        /\ Len(AfterAppend(t, logged)) <= BufferSize
    BY <2>1, AppendTypes
  <2> QED
    BY <2>1, <2>2, FlushLock DEF FlushBuffer, FlushInstructions
<1>9. ASSUME NEW t \in Threads, AppendOverflow(t) PROVE LockInv'
  <2>1. \A u \in Threads : pc'[u] \notin LockedExits
    BY <1>9, <1>l DEF AppendOverflow
  <2>2. status' \notin LockedExits
    BY <1>9 DEF AppendOverflow, LockedExits
  <2> QED
    BY <1>9, <2>1, <2>2 DEF AppendOverflow, NoFlush, LockInv
<1>10. ASSUME NEW t \in Threads, PostInstruction(t) PROVE LockInv'
  <2>1. \E p \in {"app"} : pc' = [pc EXCEPT ![t] = p]
    BY <1>10 DEF PostInstruction
  <2> QED
    BY <1>10, <1>l, <2>1, QuietLock DEF PostInstruction, NoFlush
<1>11. ASSUME NEW t \in Threads, ThreadStart(t) PROVE LockInv'
  <2>1. \E p \in {"app"} : pc' = [pc EXCEPT ![t] = p]
    BY <1>11 DEF ThreadStart, Release
  <2> QED
    BY <1>11, <1>l, <2>1, QuietLock DEF ThreadStart, NoFlush, Release
<1>12. ASSUME NEW t \in Threads, ThreadEnd(t) PROVE LockInv'
  <2>1. \E p \in {"done"} : pc' = [pc EXCEPT ![t] = p]
    BY <1>12 DEF ThreadEnd
  <2> QED
    BY <1>12, <1>l, <2>1, QuietLock DEF ThreadEnd, NoFlush
<1>13. ASSUME NEW t \in Threads, SyscallEntry(t) PROVE LockInv'
  <2>1. \E p \in {"limit", "kernel"} :
          /\ pc' = [pc EXCEPT ![t] = p]
          /\ \/ lock' = t
             \/ lock' = lock /\ p = "kernel" /\ ~LimitReached(Len(g_buffer))
    BY <1>13 DEF SyscallEntry, Return, Quit, Release
  <2> QED
    BY <1>13, <1>b, <1>l, <2>1, FlushLock
    DEF SyscallEntry, FlushBuffer, FlushInstructions
<1>14. ASSUME NEW t \in Threads, SyscallExit(t) PROVE LockInv'
  <2>1. \E p \in {"app"} : pc' = [pc EXCEPT ![t] = p]
    BY <1>14 DEF SyscallExit, Release
  <2> QED
    BY <1>14, <1>l, <2>1, QuietLock DEF SyscallExit, NoFlush, Release
<1>15. ASSUME NEW t \in Threads, ModLoad(t) PROVE LockInv'
  BY <1>15 DEF ModLoad, LockInv
<1>16. ASSUME NEW t \in Threads, ExceptionHandler(t) PROVE LockInv'
  <2>1. \E p \in {"limit", "signal", "app"} :
          /\ pc' = [pc EXCEPT ![t] = p]
          /\ \/ lock' = t
             \/ lock' = lock /\ p = "app" /\ ~LimitReached(Len(g_buffer))
    BY <1>16 DEF ExceptionHandler, Return, Quit, Release, g_bufidx
  <2> QED
    BY <1>16, <1>b, <1>l, <2>1, FlushLock
    DEF ExceptionHandler, FlushBuffer, FlushInstructions
<1>17. ASSUME NEW t \in Threads, FollowExec(t) PROVE LockInv'
  <2>1. \E p \in {"limit", "execdone"} :
          /\ pc' = [pc EXCEPT ![t] = p]
          /\ \/ lock' = t
             \/ lock' = lock /\ p = "execdone" /\ ~LimitReached(Len(g_buffer))
    BY <1>17 DEF FollowExec, Return, Quit, Release
  <2> QED
    BY <1>17, <1>b, <1>l, <2>1, FlushLock
    DEF FollowExec, FlushBuffer, FlushInstructions
<1>18. ASSUME NEW t \in Threads, Fini(t) PROVE LockInv'
  <2>1. \E p \in {"fini"} : pc' = [pc EXCEPT ![t] = p]
    BY <1>18 DEF Fini
  <2> QED
    BY <1>18, <1>l, <2>1, QuietLock DEF Fini, NoFlush
<1>19. ASSUME NEW t \in Threads, Cleanup(t) PROVE LockInv'
  <2>1. \A u \in Threads : pc'[u] \notin LockedExits
    BY <1>19, <1>l DEF Cleanup
  <2>2. status' \in LockedExits => lock # NoThread
    BY <1>19, ThreadsAssumption DEF Cleanup, LockInv
  <2> QED
    BY <1>19, <2>1, <2>2 DEF Cleanup, NoFlush, LockInv
<1> QED
  BY <1>1, <1>2, <1>3, <1>4, <1>5, <1>6, <1>7, <1>8, <1>9,
     <1>10, <1>11, <1>12, <1>13, <1>14, <1>15, <1>16, <1>17, <1>18, <1>19, <1>n, <1>u
  DEF Next

(* Types and the lock, together.                                           *)
LEMMA LockInvariant == Spec => [](TypeOK /\ LockInv)
<1>1. Init => TypeOK /\ LockInv
  BY TypeInit, LockInit
<1>2. TypeOK /\ LockInv /\ [Next]_vars => (TypeOK /\ LockInv)'
  BY TypeNext, LockNext
<1> QED
  BY <1>1, <1>2, PTL DEF Spec

(* The count of logged instructions stays within a buffer of -log-limit.   *)
THEOREM LogLimitTheorem == Spec => []LogLimitBound
<1>1. LockInv => LogLimitBound
  BY DEF LockInv, LogLimitBound
<1> QED
  BY <1>1, LockInvariant, PTL

(* No exit taken under the lock leaves a frame in the buffer. *)
THEOREM ExitCompleteTheorem == Spec => []ExitComplete
<1>1. LockInv => ExitComplete
  BY DEF LockInv, ExitComplete
<1> QED
  BY <1>1, LockInvariant, PTL

-----------------------------------------------------------------------------
(* A system call's frames follow those of the instructions before it. *)

(* Each step leaves no frame of a thread in a system call.                 *)
LEMMA FlushedStep ==
  ASSUME TypeOK, FlushedInSyscall, NEW t \in Threads, NEW p \in Places,
         pc' = [pc EXCEPT ![t] = p],
         g_buffer' = <<>> \/ (g_buffer' = g_buffer
                              /\ (p \in {"kernel", "fini"} => pc[t] = "kernel"))
  PROVE  FlushedInSyscall'
BY DEF TypeOK, ThreadTypes, FlushedInSyscall

(* A frame of a thread that is not in a system call.                       *)
LEMMA AppendFlushed ==
  ASSUME TypeOK, FlushedInSyscall, NEW t \in Threads, NEW logged \in BOOLEAN,
         NEW p \in {"app", "block", "post"},
         pc' = [pc EXCEPT ![t] = p], g_buffer' = AfterAppend(t, logged)
  PROVE  FlushedInSyscall'
<1> SUFFICES ASSUME NEW u \in Threads, pc'[u] \in {"kernel", "fini"},
                    NEW i \in DOMAIN g_buffer'
             PROVE  g_buffer'[i].tid # u
  BY DEF FlushedInSyscall
<1>1. u # t /\ pc[u] \in {"kernel", "fini"}
  BY DEF TypeOK, ThreadTypes
<1>2. g_buffer \in Seq(Frames) /\ Numbered("std", t) \in Frames
      /\ Numbered("std", t).tid = t
  BY FrameTypes DEF TypeOK, TraceTypes, Kinds, Numbered
<1>3. CASE i \in DOMAIN g_buffer
  BY <1>1, <1>2, <1>3 DEF AfterAppend, FlushedInSyscall
<1>4. CASE i \notin DOMAIN g_buffer
  BY <1>1, <1>2, <1>4 DEF AfterAppend
<1> QED
  BY <1>3, <1>4

(* No step leaves frames of a thread that is in a system call.             *)
LEMMA FlushedNext == TypeOK /\ FlushedInSyscall /\ [Next]_vars => FlushedInSyscall'
<1> SUFFICES ASSUME TypeOK, FlushedInSyscall, [Next]_vars
             PROVE  FlushedInSyscall'
  OBVIOUS
<1>u. CASE UNCHANGED vars
  BY <1>u DEF vars, threadVars, FlushedInSyscall
<1>n. CASE Terminated
  BY <1>n, <1>u DEF Terminated
<1>l. {"app", "flush", "repflush", "block", "post", "kernel", "done", "gone",
       "execdone", "fini", "limit", "smash", "exitnext", "signal"} \subseteq Places
  BY DEF Places, ExitPoints, LockedExits
<1>1. ASSUME NEW t \in Threads, EnterBlock(t) PROVE FlushedInSyscall'
  <2>1. /\ \E p \in {"flush", "block"} : pc' = [pc EXCEPT ![t] = p]
        /\ g_buffer' = g_buffer
    BY <1>1 DEF EnterBlock, NoFlush
  <2> QED
    BY <1>1, <1>l, <2>1, FlushedStep DEF EnterBlock
<1>2. ASSUME NEW t \in Threads, EnterRep(t) PROVE FlushedInSyscall'
  <2>1. /\ \E p \in {"repflush", "block"} : pc' = [pc EXCEPT ![t] = p]
        /\ g_buffer' = g_buffer
    BY <1>2 DEF EnterRep, NoFlush
  <2> QED
    BY <1>2, <1>l, <2>1, FlushedStep DEF EnterRep
<1>3. ASSUME NEW t \in Threads, FlushForBlock(t) PROVE FlushedInSyscall'
  <2>1. /\ \E p \in {"limit", "block"} : pc' = [pc EXCEPT ![t] = p]
        /\ g_buffer' = <<>>
    BY <1>3 DEF FlushForBlock, Return, Quit, Release, FlushBuffer, FlushInstructions
  <2> QED
    BY <1>l, <2>1, FlushedStep
<1>4. ASSUME NEW t \in Threads, LeaveBlock(t) PROVE FlushedInSyscall'
  <2>1. /\ \E p \in {"app"} : pc' = [pc EXCEPT ![t] = p]
        /\ g_buffer' = g_buffer
    BY <1>4 DEF LeaveBlock, NoFlush
  <2> QED
    BY <1>4, <1>l, <2>1, FlushedStep DEF LeaveBlock
<1>5. ASSUME NEW t \in Threads, StopRep(t) PROVE FlushedInSyscall'
  <2>1. /\ \E p \in {"app", "block"} : pc' = [pc EXCEPT ![t] = p]
        /\ g_buffer' = g_buffer
    BY <1>5 DEF StopRep, NoFlush
  <2> QED
    BY <1>5, <1>l, <2>1, FlushedStep DEF StopRep
<1>6. ASSUME NEW t \in Threads, AppendAndGoOn(t) PROVE FlushedInSyscall'
  <2>1. \E logged \in BOOLEAN : \E p \in {"app", "block", "post"} :
          pc' = [pc EXCEPT ![t] = p] /\ g_buffer' = AfterAppend(t, logged)
    BY <1>6 DEF AppendAndGoOn, Advance, Release
  <2> QED
    BY <2>1, AppendFlushed
<1>7. ASSUME NEW t \in Threads, AppendLastOne(t) PROVE FlushedInSyscall'
  <2>1. \E logged \in BOOLEAN : \E p \in {"app", "block", "post"} :
          pc' = [pc EXCEPT ![t] = p] /\ g_buffer' = AfterAppend(t, logged)
    BY <1>7 DEF AppendLastOne, Release
  <2> QED
    BY <2>1, AppendFlushed
<1>8. ASSUME NEW t \in Threads, AppendAndExit(t) PROVE FlushedInSyscall'
  <2>1. /\ \E p \in {"limit", "smash", "exitnext"} : pc' = [pc EXCEPT ![t] = p]
        /\ g_buffer' = <<>>
    BY <1>8 DEF AppendAndExit, Quit, FlushBuffer, FlushInstructions
  <2> QED
    BY <1>l, <2>1, FlushedStep
<1>9. ASSUME NEW t \in Threads, AppendOverflow(t) PROVE FlushedInSyscall'
  BY <1>9 DEF AppendOverflow, FlushedInSyscall
<1>10. ASSUME NEW t \in Threads, PostInstruction(t) PROVE FlushedInSyscall'
  <2>1. /\ \E p \in {"app"} : pc' = [pc EXCEPT ![t] = p]
        /\ g_buffer' = g_buffer
    BY <1>10 DEF PostInstruction, NoFlush
  <2> QED
    BY <1>10, <1>l, <2>1, FlushedStep DEF PostInstruction
<1>11. ASSUME NEW t \in Threads, ThreadStart(t) PROVE FlushedInSyscall'
  <2>1. /\ \E p \in {"app"} : pc' = [pc EXCEPT ![t] = p]
        /\ g_buffer' = g_buffer
    BY <1>11 DEF ThreadStart, NoFlush, Release
  <2> QED
    BY <1>11, <1>l, <2>1, FlushedStep DEF ThreadStart
<1>12. ASSUME NEW t \in Threads, ThreadEnd(t) PROVE FlushedInSyscall'
  <2>1. /\ \E p \in {"done"} : pc' = [pc EXCEPT ![t] = p]
        /\ g_buffer' = g_buffer
    BY <1>12 DEF ThreadEnd, NoFlush
  <2> QED
    BY <1>12, <1>l, <2>1, FlushedStep DEF ThreadEnd
<1>13. ASSUME NEW t \in Threads, SyscallEntry(t) PROVE FlushedInSyscall'
  <2>1. /\ \E p \in {"limit", "kernel"} : pc' = [pc EXCEPT ![t] = p]
        /\ g_buffer' = <<>>
    BY <1>13 DEF SyscallEntry, Return, Quit, Release, FlushBuffer, FlushInstructions
  <2> QED
    BY <1>l, <2>1, FlushedStep
<1>14. ASSUME NEW t \in Threads, SyscallExit(t) PROVE FlushedInSyscall'
  <2>1. /\ \E p \in {"app"} : pc' = [pc EXCEPT ![t] = p]
        /\ g_buffer' = g_buffer
    BY <1>14 DEF SyscallExit, NoFlush, Release
  <2> QED
    BY <1>14, <1>l, <2>1, FlushedStep DEF SyscallExit
<1>15. ASSUME NEW t \in Threads, ModLoad(t) PROVE FlushedInSyscall'
  BY <1>15 DEF ModLoad, FlushedInSyscall
<1>16. ASSUME NEW t \in Threads, ExceptionHandler(t) PROVE FlushedInSyscall'
  <2>1. /\ \E p \in {"limit", "signal", "app"} : pc' = [pc EXCEPT ![t] = p]
        /\ g_buffer' = <<>>
    BY <1>16 DEF ExceptionHandler, Return, Quit, Release, FlushBuffer, FlushInstructions
  <2> QED
    BY <1>l, <2>1, FlushedStep
<1>17. ASSUME NEW t \in Threads, FollowExec(t) PROVE FlushedInSyscall'
  <2>1. /\ \E p \in {"limit", "execdone"} : pc' = [pc EXCEPT ![t] = p]
        /\ g_buffer' = <<>>
    BY <1>17 DEF FollowExec, Return, Quit, Release, FlushBuffer, FlushInstructions
  <2> QED
    BY <1>l, <2>1, FlushedStep
<1>18. ASSUME NEW t \in Threads, Fini(t) PROVE FlushedInSyscall'
  <2>1. /\ \E p \in {"fini"} : pc' = [pc EXCEPT ![t] = p]
        /\ g_buffer' = g_buffer
    BY <1>18 DEF Fini, NoFlush
  <2> QED
    BY <1>18, <1>l, <2>1, FlushedStep DEF Fini
<1>19. ASSUME NEW t \in Threads, Cleanup(t) PROVE FlushedInSyscall'
  BY <1>19 DEF Cleanup, FlushedInSyscall
<1> QED
  BY <1>1, <1>2, <1>3, <1>4, <1>5, <1>6, <1>7, <1>8, <1>9,
     <1>10, <1>11, <1>12, <1>13, <1>14, <1>15, <1>16, <1>17, <1>18, <1>19, <1>n, <1>u
  DEF Next

(* None of a thread's frames is still in the buffer during its system call. *)
THEOREM FlushedTheorem == Spec => []FlushedInSyscall
<1>1. Init => FlushedInSyscall
  BY DEF Init, FlushedInSyscall
<1> QED
  BY <1>1, TypeInit, TypeNext, FlushedNext, PTL DEF Spec

-----------------------------------------------------------------------------
(***************************************************************************)
(* Theorems about the frames FrameBuffer adds to the container: how many   *)
(* instructions there are, how far key frames are apart, what is last.     *)
(***************************************************************************)

-----------------------------------------------------------------------------
(* Sequences of frames. *)

StdAfter(s, i) == {k \in StdIn(s) : i < k}
StdBetween(s, i, j) == {k \in StdIn(s) : i < k /\ k < j}

AllStd(s) == \A i \in DOMAIN s : s[i].kind = "std"
NoStdOrKey(s) == \A i \in DOMAIN s : s[i].kind \notin {"std", "key"}

(* The counters lc and kc say what they should of the trace s: lc that it  *)
(* has so many instructions, kc at least so many after each key frame.     *)
Accounted(s, lc, kc) ==
  /\ s \in Seq(Frames) /\ lc \in Nat /\ kc \in Nat
  /\ lc = Cardinality(StdIn(s))
  /\ \A i \in DOMAIN s : s[i].kind = "key" => kc <= Cardinality(StdAfter(s, i))
  /\ \A i, j \in DOMAIN s :
       i < j /\ s[i].kind = "key" /\ s[j].kind = "key"
       => Cardinality(StdBetween(s, i, j)) >= KeyframeFreq

(* What a sequence of frames followed by another one is.                   *)
LEMMA Joined ==
  ASSUME NEW s \in Seq(Frames), NEW b \in Seq(Frames)
  PROVE  /\ s \o b \in Seq(Frames)
         /\ Len(s) \in Nat /\ Len(b) \in Nat
         /\ DOMAIN s = 1..Len(s) /\ DOMAIN b = 1..Len(b)
         /\ DOMAIN (s \o b) = 1..(Len(s) + Len(b))
         /\ \A k \in DOMAIN s : (s \o b)[k] = s[k]
         /\ \A k \in DOMAIN (s \o b) : k \notin DOMAIN s =>
              k - Len(s) \in DOMAIN b /\ (s \o b)[k] = b[k - Len(s)]
<1>1. /\ s \o b \in Seq(Frames) /\ Len(s \o b) = Len(s) + Len(b)
      /\ \A i \in 1..(Len(s) + Len(b)) :
           (s \o b)[i] = IF i <= Len(s) THEN s[i] ELSE b[i - Len(s)]
  BY ConcatProperties
<1>2. /\ Len(s) \in Nat /\ Len(b) \in Nat
      /\ DOMAIN s = 1..Len(s) /\ DOMAIN b = 1..Len(b)
      /\ DOMAIN (s \o b) = 1..Len(s \o b)
  BY <1>1, LenProperties
<1>3. \A k \in DOMAIN s : k \in 1..(Len(s) + Len(b)) /\ k <= Len(s)
  BY <1>2
<1>4. \A k \in 1..(Len(s) + Len(b)) : k \notin DOMAIN s =>
        ~(k <= Len(s)) /\ k - Len(s) \in DOMAIN b
  BY <1>2
<1> QED
  BY <1>1, <1>2, <1>3, <1>4

(* The instructions of a trace are finitely many.                          *)
LEMMA StdFinite ==
  ASSUME NEW s \in Seq(Frames), NEW i, NEW j
  PROVE  /\ IsFiniteSet(StdIn(s)) /\ Cardinality(StdIn(s)) \in Nat
         /\ IsFiniteSet(StdAfter(s, i)) /\ Cardinality(StdAfter(s, i)) \in Nat
         /\ IsFiniteSet(StdBetween(s, i, j))
         /\ Cardinality(StdBetween(s, i, j)) \in Nat
<1>1. DOMAIN s = 1..Len(s) /\ Len(s) \in Nat
  BY LenProperties
<1>2. IsFiniteSet(DOMAIN s)
  BY <1>1, FS_Interval
<1>3. /\ StdIn(s) \subseteq DOMAIN s /\ StdAfter(s, i) \subseteq DOMAIN s
      /\ StdBetween(s, i, j) \subseteq DOMAIN s
  BY DEF StdIn, StdAfter, StdBetween
<1> QED
  BY <1>2, <1>3, FS_Subset, FS_CardinalityType

(* Frames added to a trace come after everything in it.                    *)
LEMMA BetweenSame ==
  ASSUME NEW s \in Seq(Frames), NEW b \in Seq(Frames),
         NEW i \in DOMAIN s, NEW j \in DOMAIN s
  PROVE  StdBetween(s \o b, i, j) = StdBetween(s, i, j)
<1>1. \A k \in DOMAIN (s \o b) : k < j => k \in DOMAIN s
  BY Joined
<1>2. \A k \in DOMAIN s : k \in DOMAIN (s \o b) /\ (s \o b)[k] = s[k]
  BY Joined
<1> QED
  BY <1>1, <1>2 DEF StdBetween, StdIn

(* A flush adds n instructions: each count grows by n.                     *)
LEMMA StdGrow ==
  ASSUME NEW s \in Seq(Frames), NEW b \in Seq(Frames), AllStd(b),
         NEW S, NEW T, S \subseteq DOMAIN s, IsFiniteSet(S),
         T = S \union (Len(s) + 1)..(Len(s) + Len(b))
  PROVE  Cardinality(T) = Cardinality(S) + Len(b)
<1> DEFINE new == (Len(s) + 1)..(Len(s) + Len(b))
<1>1. Len(s) \in Nat /\ Len(b) \in Nat /\ DOMAIN s = 1..Len(s)
  BY Joined
<1>2. IsFiniteSet(new) /\ Cardinality(new) = Len(b)
  <2>1. Len(s) + 1 \in Int /\ Len(s) + Len(b) \in Int
    BY <1>1
  <2>2. /\ IsFiniteSet(new)
        /\ Cardinality(new) = IF Len(s) + 1 > Len(s) + Len(b) THEN 0
                              ELSE (Len(s) + Len(b)) - (Len(s) + 1) + 1
    BY <2>1, FS_Interval
  <2> QED
    BY <1>1, <2>2
<1>3. S \cap new = {}
  BY <1>1
<1>4. Cardinality(S \cap new) = 0
  BY <1>3, FS_EmptySet
<1>5. Cardinality(S \union new) = Cardinality(S) + Cardinality(new)
                                  - Cardinality(S \cap new)
  BY <1>2, FS_Union
<1>6. Cardinality(S) \in Nat
  BY FS_CardinalityType
<1> QED
  BY <1>1, <1>2, <1>4, <1>5, <1>6

(* A key frame, or none of instructions and key frames: counts stay.       *)
LEMMA StdSame ==
  ASSUME NEW s \in Seq(Frames), NEW b \in Seq(Frames),
         \A k \in DOMAIN b : b[k].kind # "std"
  PROVE  StdIn(s \o b) = StdIn(s)
BY Joined DEF StdIn

-----------------------------------------------------------------------------
(* What is added keeps the account. *)

(* Instructions keep the account when both counts grow by them.            *)
LEMMA AddInstructions ==
  ASSUME NEW s, NEW lc, NEW kc, Accounted(s, lc, kc),
         NEW b \in Seq(Frames), AllStd(b)
  PROVE  Accounted(s \o b, lc + Len(b), kc + Len(b))
<1>1. /\ s \in Seq(Frames) /\ lc \in Nat /\ kc \in Nat
      /\ s \o b \in Seq(Frames) /\ Len(b) \in Nat /\ Len(s) \in Nat
  BY Joined DEF Accounted
<1> DEFINE new == (Len(s) + 1)..(Len(s) + Len(b))
<1>2. StdIn(s \o b) = StdIn(s) \union new
  <2>1. \A k \in DOMAIN (s \o b) : (s \o b)[k].kind = "std"
          <=> k \in StdIn(s) \/ k \in new
    BY <1>1, Joined DEF StdIn, AllStd
  <2>2. StdIn(s) \subseteq DOMAIN (s \o b) /\ new \subseteq DOMAIN (s \o b)
    BY <1>1, Joined DEF StdIn
  <2> QED
    BY <2>1, <2>2 DEF StdIn
<1>3. Cardinality(StdIn(s \o b)) = Cardinality(StdIn(s)) + Len(b)
  BY <1>1, <1>2, StdGrow, StdFinite DEF StdIn
<1>4. ASSUME NEW i \in DOMAIN s
      PROVE  Cardinality(StdAfter(s \o b, i)) = Cardinality(StdAfter(s, i)) + Len(b)
  <2>1. StdAfter(s \o b, i) = StdAfter(s, i) \union new
    <3>1. \A k \in new : i < k
      BY <1>1, Joined
    <3> QED
      BY <1>2, <3>1 DEF StdAfter
  <2>2. StdAfter(s, i) \subseteq DOMAIN s
    BY DEF StdAfter, StdIn
  <2> QED
    BY <1>1, <2>1, <2>2, StdGrow, StdFinite
<1>5. ASSUME NEW i \in DOMAIN (s \o b), (s \o b)[i].kind = "key"
      PROVE  i \in DOMAIN s /\ s[i].kind = "key"
  BY <1>1, <1>5, Joined DEF AllStd
<1>6. ASSUME NEW i \in DOMAIN (s \o b), (s \o b)[i].kind = "key"
      PROVE  kc + Len(b) <= Cardinality(StdAfter(s \o b, i))
  <2>1. kc <= Cardinality(StdAfter(s, i)) /\ Cardinality(StdAfter(s, i)) \in Nat
    BY <1>1, <1>5, <1>6, StdFinite DEF Accounted
  <2> QED
    BY <1>1, <1>4, <1>5, <1>6, <2>1
<1>7. ASSUME NEW i \in DOMAIN (s \o b), NEW j \in DOMAIN (s \o b), i < j,
             (s \o b)[i].kind = "key", (s \o b)[j].kind = "key"
      PROVE  Cardinality(StdBetween(s \o b, i, j)) >= KeyframeFreq
  BY <1>1, <1>5, <1>7, BetweenSame DEF Accounted
<1> QED
  BY <1>1, <1>3, <1>6, <1>7, SMTT(30) DEF Accounted

(* Frames that are neither instructions nor key frames keep it.            *)
LEMMA AddOthers ==
  ASSUME NEW s, NEW lc, NEW kc, Accounted(s, lc, kc),
         NEW b \in Seq(Frames), NoStdOrKey(b)
  PROVE  Accounted(s \o b, lc, kc)
<1>1. s \in Seq(Frames) /\ s \o b \in Seq(Frames)
  BY Joined DEF Accounted
<1>2. StdIn(s \o b) = StdIn(s)
  BY <1>1, StdSame DEF NoStdOrKey
<1>3. \A i : StdAfter(s \o b, i) = StdAfter(s, i)
  BY <1>2 DEF StdAfter
<1>4. \A i \in DOMAIN (s \o b) : (s \o b)[i].kind = "key" =>
        i \in DOMAIN s /\ s[i].kind = "key"
  BY <1>1, Joined DEF NoStdOrKey
<1>5. \A i, j : StdBetween(s \o b, i, j) = StdBetween(s, i, j)
  BY <1>2 DEF StdBetween
<1> QED
  BY <1>1, <1>2, <1>3, <1>4, <1>5 DEF Accounted

(* A key frame that is due keeps it, and resets its count.                 *)
LEMMA AddKeyFrame ==
  ASSUME NEW s, NEW lc, NEW kc, Accounted(s, lc, kc), kc >= KeyframeFreq,
         NEW f \in Frames, f.kind = "key"
  PROVE  Accounted(s \o <<f>>, lc, 0)
<1> DEFINE b == <<f>>
           r == s \o b
<1>0. b \in Seq(Frames) /\ Len(b) = 1 /\ b[1] = f /\ DOMAIN b = {1}
  <2>1. f \in Frames => <<f>> \in Seq(Frames)
    OBVIOUS
  <2> QED
    BY <2>1
<1>1. /\ s \in Seq(Frames) /\ r \in Seq(Frames) /\ Len(s) \in Nat /\ kc \in Nat
      /\ DOMAIN r = 1..(Len(s) + 1) /\ DOMAIN s = 1..Len(s)
  <2>1. s \in Seq(Frames) /\ kc \in Nat
    BY DEF Accounted
  <2> HIDE DEF b
  <2>2. /\ s \o b \in Seq(Frames) /\ Len(s) \in Nat /\ DOMAIN s = 1..Len(s)
        /\ DOMAIN (s \o b) = 1..(Len(s) + Len(b))
    BY <1>0, <2>1, Joined
  <2> QED
    BY <1>0, <2>1, <2>2
<1>2. StdIn(r) = StdIn(s)
  <2>1. \A k \in DOMAIN b : b[k].kind # "std"
    BY <1>0
  <2> HIDE DEF b
  <2> QED
    BY <1>0, <1>1, <2>1, StdSame
<1>3. \A i \in DOMAIN r : 0 <= Cardinality(StdAfter(r, i))
  <2> HIDE DEF r
  <2>1. ASSUME NEW i PROVE Cardinality(StdAfter(r, i)) \in Nat
    BY <1>1, StdFinite
  <2> QED
    BY <2>1
<1>4. \A i \in DOMAIN s : r[i] = s[i]
  <2> HIDE DEF b
  <2> QED
    BY <1>0, <1>1, Joined
<1>5. ASSUME NEW i \in DOMAIN r, NEW j \in DOMAIN r, i < j,
             r[i].kind = "key", r[j].kind = "key"
      PROVE  Cardinality(StdBetween(r, i, j)) >= KeyframeFreq
  <2>1. i \in DOMAIN s
    BY <1>1, <1>5
  <2>2. CASE j \in DOMAIN s
    <3>1. StdBetween(r, i, j) = StdBetween(s, i, j)
      BY <1>2 DEF StdBetween
    <3> QED
      BY <1>4, <1>5, <2>1, <2>2, <3>1 DEF Accounted
  <2>3. CASE j \notin DOMAIN s
    <3>1. j = Len(s) + 1
      BY <1>1, <2>3
    <3>2. \A k \in StdIn(s) : k < j
      BY <1>1, <3>1 DEF StdIn
    <3>3. StdBetween(r, i, j) = StdAfter(s, i)
      BY <1>2, <3>2 DEF StdBetween, StdAfter
    <3>4. kc <= Cardinality(StdAfter(s, i)) /\ Cardinality(StdAfter(s, i)) \in Nat
      BY <1>1, <1>4, <1>5, <2>1, StdFinite DEF Accounted
    <3> QED
      BY <1>1, <3>3, <3>4
  <2> QED
    BY <2>2, <2>3
<1> QED
  BY <1>1, <1>2, <1>3, <1>5 DEF Accounted

-----------------------------------------------------------------------------
(* What the steps do to the trace. *)

Untouched == UNCHANGED <<g_buffer, out, g_logcount, g_kfcount>>

Buffered ==
  \E f \in Frames :
    /\ f.kind = "std" /\ g_buffer' = Append(g_buffer, f)
    /\ UNCHANGED <<out, g_logcount, g_kfcount>>

AddedDirectly ==
  \E b \in Seq(Frames) :
    NoStdOrKey(b) /\ out' = out \o b /\ UNCHANGED <<g_buffer, g_logcount, g_kfcount>>

Flushed ==
  \E t \in Threads, buf \in Seq(Frames), after \in Seq(Frames), addKeyframe \in BOOLEAN :
    /\ buf = g_buffer \/ \E f \in Frames : f.kind = "std" /\ buf = Append(g_buffer, f)
    /\ NoStdOrKey(after)
    /\ FlushBuffer(t, buf, addKeyframe, after)

(* One frame.                                                              *)
LEMMA OneFrame ==
  ASSUME TypeOK, NEW t \in Threads, NEW kind \in Kinds \ {"std", "key"}
  PROVE  /\ <<Numbered(kind, t)>> \in Seq(Frames) /\ NoStdOrKey(<<Numbered(kind, t)>>)
         /\ <<Unnumbered(kind, t)>> \in Seq(Frames) /\ NoStdOrKey(<<Unnumbered(kind, t)>>)
         /\ <<>> \in Seq(Frames) /\ NoStdOrKey(<<>>)
<1>1. Numbered(kind, t) \in Frames /\ Numbered(kind, t).kind = kind
      /\ Unnumbered(kind, t) \in Frames /\ Unnumbered(kind, t).kind = kind
  BY FrameTypes DEF Numbered, Unnumbered
<1> QED
  BY <1>1 DEF NoStdOrKey

(* Frames are appended to the container one by one.                        *)
LEMMA AppendedOne ==
  ASSUME TypeOK, NEW f, <<f>> \in Seq(Frames), NoStdOrKey(<<f>>),
         NEW did \in BOOLEAN,
         out' = IF did THEN Append(out, f) ELSE out,
         UNCHANGED <<g_buffer, g_logcount, g_kfcount>>
  PROVE  Untouched \/ AddedDirectly
<1>1. Append(out, f) = out \o <<f>>
  BY DEF TypeOK, TraceTypes
<1> QED
  BY <1>1 DEF Untouched, AddedDirectly

(* Every step adds frames in one of four ways, or none.                    *)
LEMMA Shapes ==
  ASSUME TypeOK, [Next]_vars
  PROVE  Untouched \/ Buffered \/ AddedDirectly \/ Flushed
<1>0. g_buffer \in Seq(Frames)
  BY DEF TypeOK, TraceTypes
<1>e. <<>> \in Seq(Frames) /\ NoStdOrKey(<<>>)
  BY DEF NoStdOrKey
<1>u. CASE UNCHANGED vars \/ Terminated
  BY <1>u DEF vars, Terminated, Untouched
<1>q. ASSUME NEW t \in Threads,
             \/ EnterBlock(t) \/ EnterRep(t) \/ LeaveBlock(t) \/ StopRep(t)
             \/ AppendOverflow(t) \/ PostInstruction(t) \/ ThreadEnd(t)
             \/ Fini(t) \/ Cleanup(t)
      PROVE  Untouched
  BY <1>q DEF EnterBlock, EnterRep, LeaveBlock, StopRep, AppendOverflow,
              PostInstruction, ThreadEnd, Fini, Cleanup, NoFlush, Untouched
<1>a. ASSUME NEW t \in Threads, AppendAndGoOn(t) \/ AppendLastOne(t)
      PROVE  Untouched \/ Buffered
  <2>1. PICK logged \in BOOLEAN :
          g_buffer' = AfterAppend(t, logged)
          /\ UNCHANGED <<out, g_logcount, g_kfcount>>
    BY <1>a DEF AppendAndGoOn, AppendLastOne
  <2>2. Numbered("std", t) \in Frames /\ Numbered("std", t).kind = "std"
    BY FrameTypes DEF Numbered, Kinds
  <2> QED
    BY <2>1, <2>2 DEF AfterAppend, Untouched, Buffered
<1>x. ASSUME NEW t \in Threads, AppendAndExit(t) PROVE Flushed
  <2>1. PICK logged \in BOOLEAN : FlushBuffer(t, AfterAppend(t, logged), TRUE, <<>>)
    BY <1>x DEF AppendAndExit
  <2>2. Numbered("std", t) \in Frames /\ Numbered("std", t).kind = "std"
    BY FrameTypes DEF Numbered, Kinds
  <2>3. AfterAppend(t, logged) \in Seq(Frames)
    BY <1>0, <2>2 DEF AfterAppend
  <2>4. AfterAppend(t, logged) = g_buffer
        \/ \E f \in Frames : f.kind = "std" /\ AfterAppend(t, logged) = Append(g_buffer, f)
    BY <2>2 DEF AfterAppend
  <2> QED
    BY <1>e, <2>1, <2>3, <2>4 DEF Flushed
<1>f. ASSUME NEW t \in Threads, NEW addKeyframe \in BOOLEAN, NEW after \in Seq(Frames),
             NoStdOrKey(after), FlushBuffer(t, g_buffer, addKeyframe, after)
      PROVE  Flushed
  BY <1>0, <1>f DEF Flushed
<1>b. ASSUME NEW t \in Threads, FlushForBlock(t) \/ FollowExec(t) PROVE Flushed
  <2>1. (pc[t] = "flush") \in BOOLEAN
    OBVIOUS
  <2> QED
    BY <1>b, <1>e, <1>f, <2>1 DEF FlushForBlock, FollowExec
<1>s. ASSUME NEW t \in Threads, SyscallEntry(t) PROVE Flushed
  <2>1. <<Numbered("sys", t)>> \in Seq(Frames) /\ NoStdOrKey(<<Numbered("sys", t)>>)
    BY OneFrame DEF Kinds
  <2> QED
    BY <1>e, <1>f, <1>s, <2>1 DEF SyscallEntry
<1>g. ASSUME NEW t \in Threads, ExceptionHandler(t) PROVE Flushed
  <2>1. <<Numbered("exc", t)>> \in Seq(Frames) /\ NoStdOrKey(<<Numbered("exc", t)>>)
    BY OneFrame DEF Kinds
  <2> QED
    BY <1>f, <1>g, <2>1 DEF ExceptionHandler
<1>i. ASSUME NEW t \in Threads, ThreadStart(t) \/ SyscallExit(t)
      PROVE  Untouched \/ AddedDirectly
  <2>1. PICK tainted \in BOOLEAN :
          /\ out' = IF tainted THEN Append(out, Numbered("intro", t)) ELSE out
          /\ UNCHANGED <<g_buffer, g_logcount, g_kfcount>>
    BY <1>i DEF ThreadStart, SyscallExit
  <2>2. <<Numbered("intro", t)>> \in Seq(Frames) /\ NoStdOrKey(<<Numbered("intro", t)>>)
    BY OneFrame DEF Kinds
  <2> QED
    BY <2>1, <2>2, AppendedOne
<1>m. ASSUME NEW t \in Threads, ModLoad(t) PROVE Untouched \/ AddedDirectly
  <2>1. <<Unnumbered("mod", t)>> \in Seq(Frames) /\ NoStdOrKey(<<Unnumbered("mod", t)>>)
    BY OneFrame DEF Kinds
  <2>2. out' = (IF TRUE THEN Append(out, Unnumbered("mod", t)) ELSE out)
        /\ UNCHANGED <<g_buffer, g_logcount, g_kfcount>>
    BY <1>m DEF ModLoad
  <2> QED
    BY <2>1, <2>2, AppendedOne
<1> QED
  BY <1>u, <1>q, <1>a, <1>x, <1>b, <1>s, <1>g, <1>i, <1>m DEF Next

-----------------------------------------------------------------------------
(* The account of the container. *)

TraceInv == AllStd(g_buffer) /\ Accounted(out, g_logcount, g_kfcount)

(* At the start there is nothing.                                          *)
LEMMA TraceInit == Init => TraceInv
<1> SUFFICES ASSUME Init PROVE TraceInv
  OBVIOUS
<1>1. g_buffer = <<>> /\ out = <<>> /\ g_logcount = 0 /\ g_kfcount = 0
  BY DEF Init
<1>2. StdIn(<<>>) = {} /\ DOMAIN <<>> = {} /\ <<>> \in Seq(Frames)
  BY DEF StdIn
<1> QED
  BY <1>1, <1>2, FS_EmptySet DEF TraceInv, AllStd, Accounted

(* The buffer with one instruction more.                                   *)
LEMMA MoreStd ==
  ASSUME TypeOK, AllStd(g_buffer), NEW f \in Frames, f.kind = "std"
  PROVE  AllStd(Append(g_buffer, f))
<1>1. g_buffer \in Seq(Frames)
  BY DEF TypeOK, TraceTypes
<1> QED
  BY <1>1 DEF AllStd

(* FlushBuffer: the instructions, the key frame if it is due, the frame    *)
(* its caller adds.                                                        *)
LEMMA TraceFlush ==
  ASSUME TypeOK, TraceInv, Flushed
  PROVE  TraceInv'
<1>1. PICK t \in Threads, buf \in Seq(Frames), after \in Seq(Frames),
           addKeyframe \in BOOLEAN :
        /\ buf = g_buffer \/ \E f \in Frames : f.kind = "std" /\ buf = Append(g_buffer, f)
        /\ NoStdOrKey(after)
        /\ FlushBuffer(t, buf, addKeyframe, after)
  BY DEF Flushed
<1>2. AllStd(buf)
  BY <1>1, MoreStd DEF TraceInv
<1> DEFINE due == KeyframeDue(Len(buf), addKeyframe)
           last == IF LimitReached(Len(buf)) THEN <<>> ELSE after
           lc == g_logcount + Len(buf)
           kc == IF due THEN 0 ELSE g_kfcount + Len(buf)
           key == Unnumbered("key", t)
           middle == IF due THEN (out \o buf) \o <<key>> ELSE out \o buf
<1>3. out \in Seq(Frames) /\ Len(buf) \in Nat /\ key \in Frames /\ key.kind = "key"
      /\ <<>> \in Seq(Frames)
  <2>1. "key" \in Kinds
    BY DEF Kinds
  <2>2. key \in Frames
    BY <2>1, FrameTypes
  <2>3. key.kind = "key"
    BY DEF Unnumbered
  <2> QED
    BY <2>2, <2>3 DEF TypeOK, TraceTypes
<1>4. Accounted(out \o buf, lc, g_kfcount + Len(buf))
  BY <1>2, AddInstructions DEF TraceInv
<1>5. Accounted(middle, lc, kc)
  <2>1. CASE due
    <3>1. g_kfcount + Len(buf) >= KeyframeFreq
      BY <2>1 DEF KeyframeDue
    <3> HIDE DEF key
    <3> QED
      BY <1>3, <1>4, <2>1, <3>1, AddKeyFrame
  <2>2. CASE ~due
    BY <1>4, <2>2
  <2> QED
    BY <2>1, <2>2
<1>6. last \in Seq(Frames) /\ NoStdOrKey(last)
  BY <1>1, <1>3 DEF NoStdOrKey
<1>7. g_buffer' = <<>> /\ g_logcount' = lc /\ g_kfcount' = kc
      /\ out' = out \o Written(t, buf, addKeyframe) \o last
  BY <1>1 DEF FlushBuffer, FlushInstructions
<1>8. out' = middle \o last
  <2>1. CASE due
    <3>1. Written(t, buf, addKeyframe) = buf \o <<key>>
      BY <2>1 DEF Written
    <3>2. out \o (buf \o <<key>>) = (out \o buf) \o <<key>>
      BY <1>3, ConcatAssociative
    <3> QED
      BY <1>7, <2>1, <3>1, <3>2
  <2>2. CASE ~due
    <3>1. Written(t, buf, addKeyframe) = buf \o <<>>
      BY <2>2 DEF Written
    <3>2. buf \o <<>> = buf
      BY ConcatEmptySeq
    <3> QED
      BY <1>7, <2>2, <3>1, <3>2
  <2> QED
    BY <2>1, <2>2
<1> HIDE DEF middle, last, lc, kc
<1>9. Accounted(middle \o last, lc, kc)
  BY <1>5, <1>6, AddOthers
<1>10. Accounted(out', g_logcount', g_kfcount')
  BY <1>7, <1>8, <1>9
<1>11. Accounted(out, g_logcount, g_kfcount)'
  BY <1>10 DEF Accounted, StdAfter, StdBetween, StdIn
<1> QED
  BY <1>7, <1>11 DEF TraceInv, AllStd

(* Every step keeps the account.                                           *)
LEMMA TraceNext == TypeOK /\ TraceInv /\ [Next]_vars => TraceInv'
<1> SUFFICES ASSUME TypeOK, TraceInv, [Next]_vars PROVE TraceInv'
  OBVIOUS
<1>1. CASE Untouched
  BY <1>1 DEF Untouched, TraceInv, AllStd, Accounted, StdAfter, StdBetween, StdIn
<1>2. CASE Buffered
  <2>1. PICK f \in Frames : f.kind = "std" /\ g_buffer' = Append(g_buffer, f)
    BY <1>2 DEF Buffered
  <2>2. AllStd(g_buffer)'
    BY <2>1, MoreStd DEF TraceInv, AllStd
  <2>3. UNCHANGED <<out, g_logcount, g_kfcount>>
    BY <1>2 DEF Buffered
  <2>4. Accounted(out, g_logcount, g_kfcount)'
    BY <2>3 DEF TraceInv, Accounted, StdAfter, StdBetween, StdIn
  <2> QED
    BY <2>2, <2>4 DEF TraceInv
<1>3. CASE AddedDirectly
  <2>1. PICK b \in Seq(Frames) : NoStdOrKey(b) /\ out' = out \o b
    BY <1>3 DEF AddedDirectly
  <2>2. Accounted(out \o b, g_logcount, g_kfcount)
    BY <2>1, AddOthers DEF TraceInv
  <2>3. UNCHANGED <<g_buffer, g_logcount, g_kfcount>>
    BY <1>3 DEF AddedDirectly
  <2>4. Accounted(out', g_logcount, g_kfcount)
    BY <2>1, <2>2
  <2>5. Accounted(out, g_logcount, g_kfcount)'
    BY <2>3, <2>4 DEF Accounted, StdAfter, StdBetween, StdIn
  <2> QED
    BY <2>3, <2>5 DEF TraceInv, AllStd
<1>4. CASE Flushed
  BY <1>4, TraceFlush
<1> QED
  BY <1>1, <1>2, <1>3, <1>4, Shapes

(* The trace invariant holds always.                                       *)
LEMMA TraceInvariant == Spec => []TraceInv
<1>1. Init => TypeOK /\ TraceInv
  BY TypeInit, TraceInit
<1>2. TypeOK /\ TraceInv /\ [Next]_vars => (TypeOK /\ TraceInv)'
  BY TypeNext, TraceNext
<1> QED
  BY <1>1, <1>2, PTL DEF Spec

(* -log-limit counts the instructions in the container, each once.         *)
THEOREM LogCountTheorem == Spec => []LogCountExact
<1>1. TraceInv => LogCountExact
  BY DEF TraceInv, Accounted, LogCountExact
<1> QED
  BY <1>1, TraceInvariant, PTL

(* KEYFRAME_FREQ instructions lie between two key frames.                  *)
THEOREM KeyframeTheorem == Spec => []KeyframeSpacing
<1>1. TraceInv => KeyframeSpacing
  BY DEF TraceInv, Accounted, KeyframeSpacing, StdBetween
<1> QED
  BY <1>1, TraceInvariant, PTL

-----------------------------------------------------------------------------
(* The frame of a fatal signal is the last one. *)

EndsInException == out # <<>> /\ out[Len(out)].kind = "exc"

SignalInv ==
  /\ \A t \in Threads : pc[t] = "signal" => EndsInException
  /\ status = "signal" => EndsInException

(* Whoever adds to the container has found the lock free.                  *)
LEMMA AddsLocked ==
  ASSUME [Next]_vars
  PROVE  out' = out \/ lock = NoThread
BY ZenonT(60) DEF vars, Next, Terminated, EnterBlock, EnterRep, LeaveBlock, StopRep,
       AppendOverflow, PostInstruction, ThreadEnd, Fini, Cleanup, NoFlush,
       AppendAndGoOn, AppendLastOne, AppendAndExit, InAppendBuffer,
       FlushForBlock, FollowExec, SyscallEntry, SyscallExit, ThreadStart,
       ModLoad, ExceptionHandler

(* Only a signal that is fatal leads to its exit, after its frame.         *)
LEMMA ToSignal ==
  ASSUME TypeOK, [Next]_vars, NEW u \in Threads, pc'[u] = "signal", pc[u] # "signal"
  PROVE  EndsInException'
<1>1. ~UNCHANGED vars /\ ~Terminated
  BY DEF vars, Terminated
<1>2. PICK t \in Threads :
        \/ EnterBlock(t) \/ EnterRep(t) \/ FlushForBlock(t)
        \/ LeaveBlock(t) \/ StopRep(t)
        \/ AppendAndGoOn(t) \/ AppendLastOne(t) \/ AppendAndExit(t)
        \/ AppendOverflow(t) \/ PostInstruction(t)
        \/ ThreadStart(t) \/ ThreadEnd(t) \/ SyscallEntry(t) \/ SyscallExit(t)
        \/ ModLoad(t) \/ ExceptionHandler(t)
        \/ FollowExec(t) \/ Fini(t) \/ Cleanup(t)
  BY <1>1 DEF Next
<1>0. pc \in [Threads -> Places]
  BY DEF TypeOK, ThreadTypes
<1>3. CASE ExceptionHandler(t)
  <2>1. PICK fatal \in BOOLEAN :
          /\ FlushBuffer(t, g_buffer, FALSE, <<Numbered("exc", t)>>)
          /\ IF fatal /\ ~LimitReached(g_bufidx) THEN Quit(t, "signal")
                                                 ELSE Return(t, g_buffer, "app")
    BY <1>3 DEF ExceptionHandler
  <2>2. ~LimitReached(g_bufidx)
    <3>1. ASSUME LimitReached(g_bufidx) PROVE pc' = [pc EXCEPT ![t] = "limit"]
      BY <2>1, <3>1 DEF Return, Quit, g_bufidx
    <3> QED
      BY <1>0, <3>1
  <2>3. out' = out \o Written(t, g_buffer, FALSE) \o <<Numbered("exc", t)>>
    BY <2>1, <2>2 DEF FlushBuffer, g_bufidx
  <2>4. Written(t, g_buffer, FALSE) = g_buffer \o <<>>
    BY DEF Written, KeyframeDue
  <2>5. out \in Seq(Frames) /\ g_buffer \in Seq(Frames) /\ <<>> \in Seq(Frames)
    BY DEF TypeOK, TraceTypes
  <2>6. Numbered("exc", t) \in Frames /\ Numbered("exc", t).kind = "exc"
    BY FrameTypes DEF Numbered, Kinds
  <2> DEFINE w == out \o Written(t, g_buffer, FALSE)
             f == Numbered("exc", t)
  <2>7. w \in Seq(Frames)
    <3>1. Written(t, g_buffer, FALSE) \in Seq(Frames)
      BY <2>4, <2>5, ConcatEmptySeq
    <3> HIDE DEF f
    <3> QED
      BY <2>5, <3>1, ConcatProperties
  <2> HIDE DEF w, f
  <2>8. w \o <<f>> # <<>> /\ (w \o <<f>>)[Len(w \o <<f>>)] = f
    BY <2>6, <2>7 DEF f
  <2> QED
    BY <2>3, <2>6, <2>8 DEF w, f, EndsInException
<1>4. CASE ~ExceptionHandler(t)
  <2>1. ASSUME NEW p, p # "signal", pc' = [pc EXCEPT ![t] = p] PROVE FALSE
    BY <1>0, <2>1
  <2>2. pc' # pc
    OBVIOUS
  <2>3. CASE \/ EnterBlock(t) \/ EnterRep(t) \/ LeaveBlock(t) \/ StopRep(t)
             \/ PostInstruction(t) \/ ThreadEnd(t) \/ Fini(t)
    <3>1. \E p \in {"flush", "block", "repflush", "app", "done", "fini"} :
            pc' = [pc EXCEPT ![t] = p]
      BY <2>3 DEF EnterBlock, EnterRep, LeaveBlock, StopRep, PostInstruction,
                  ThreadEnd, Fini
    <3> QED
      BY <2>1, <3>1
  <2>4. CASE AppendOverflow(t) \/ Cleanup(t)
    BY <2>4 DEF AppendOverflow, Cleanup
  <2>5. CASE ModLoad(t)
    BY <2>2, <2>5 DEF ModLoad
  <2>6. CASE \/ FlushForBlock(t) \/ FollowExec(t) \/ SyscallEntry(t)
             \/ SyscallExit(t) \/ ThreadStart(t)
    <3>1. \E p \in {"limit", "block", "execdone", "kernel", "app"} :
            pc' = [pc EXCEPT ![t] = p]
      BY <2>6 DEF FlushForBlock, FollowExec, SyscallEntry, SyscallExit,
                  ThreadStart, Return, Release, Quit
    <3> QED
      BY <2>1, <3>1
  <2>7. CASE AppendAndGoOn(t) \/ AppendLastOne(t) \/ AppendAndExit(t)
    <3>1. \E p \in {"app", "block", "post", "limit", "smash", "exitnext"} :
            pc' = [pc EXCEPT ![t] = p]
      BY <2>7 DEF AppendAndGoOn, AppendLastOne, AppendAndExit, Advance,
                  Release, Quit
    <3> QED
      BY <2>1, <3>1
  <2> QED
    BY <1>2, <1>4, <2>3, <2>4, <2>5, <2>6, <2>7
<1> QED
  BY <1>3, <1>4

(* Every step leaves the frame of a fatal signal where it is.              *)
LEMMA SignalNext == TypeOK /\ LockInv /\ SignalInv /\ [Next]_vars => SignalInv'
<1> SUFFICES ASSUME TypeOK, LockInv, SignalInv, [Next]_vars PROVE SignalInv'
  OBVIOUS
<1>1. (\E t \in Threads : pc[t] = "signal") \/ status = "signal" => out' = out
  BY AddsLocked, ThreadsAssumption DEF LockInv, LockedExits
<1>2. ASSUME NEW t \in Threads, pc'[t] = "signal" PROVE EndsInException'
  BY <1>1, <1>2, ToSignal DEF SignalInv, EndsInException
<1>3. ASSUME status' = "signal" PROVE EndsInException'
  <2>1. status = "signal" \/ \E t \in Threads : Cleanup(t) /\ pc[t] = "signal"
    BY <1>3, ZenonT(60) DEF vars, Next, Terminated, EnterBlock, EnterRep, LeaveBlock, StopRep,
       AppendOverflow, PostInstruction, ThreadEnd, Fini, Cleanup,
       AppendAndGoOn, AppendLastOne, AppendAndExit,
       FlushForBlock, FollowExec, SyscallEntry, SyscallExit, ThreadStart,
       ModLoad, ExceptionHandler
  <2> QED
    BY <1>1, <2>1 DEF SignalInv, EndsInException
<1> QED
  BY <1>2, <1>3 DEF SignalInv

(* "The exception is the last thing in the trace when we crash."           *)
THEOREM ExceptionTheorem == Spec => []ExceptionLast
<1>1. Init => TypeOK /\ LockInv /\ SignalInv
  <2>1. Init => SignalInv
    BY DEF Init, SignalInv
  <2> QED
    BY <2>1, TypeInit, LockInit
<1>2. TypeOK /\ LockInv /\ SignalInv /\ [Next]_vars => (TypeOK /\ LockInv /\ SignalInv)'
  BY TypeNext, LockNext, SignalNext
<1>3. SignalInv => ExceptionLast
  BY DEF SignalInv, EndsInException, ExceptionLast
<1> QED
  BY <1>1, <1>2, <1>3, PTL DEF Spec

(* Where the checks of the buffer are enough, it has room at all times for *)
(* what the threads may still add.                                         *)
THEOREM RoomTheorem == ASSUME Roomy PROVE Spec => []RoomForOwed
<1>1. Init => TypeOK /\ NoOverflow /\ RoomForOwed
  BY TypeInit, RoomInit
<1>2. TypeOK /\ NoOverflow /\ RoomForOwed /\ [Next]_vars
      => (TypeOK /\ NoOverflow /\ RoomForOwed)'
  BY TypeNext, RoomNext
<1> QED
  BY <1>1, <1>2, PTL DEF Spec

-----------------------------------------------------------------------------
(***************************************************************************)
(* FrameBuffer implements ThreadLog.                                       *)
(***************************************************************************)

(* The number of a frame of t, as the trace of t counts it.                *)
NumberIn(t) == [f \in [kind : Kinds, tid : {t}, n : Nat \ {0}] |-> f.n]

(* Which frames those are.                                                 *)
LEMMA NumberInFacts ==
  ASSUME NEW t \in Threads
  PROVE  /\ Into(NumberIn(t), Nat)
         /\ \A f \in Frames : f \in DOMAIN NumberIn(t) <=> f.tid = t /\ f.n # 0
         /\ \A f \in Frames : f \in DOMAIN NumberIn(t) => NumberIn(t)[f] = f.n
<1> DEFINE mine == [kind : Kinds, tid : {t}, n : Nat \ {0}]
<1>1. \A f \in Frames : f \in mine <=> f.tid = t /\ f.n # 0
  BY DEF Frames
<1>2. \A f \in mine : f.n \in Nat
  OBVIOUS
<1> QED
  BY <1>1, <1>2 DEF NumberIn, Into

(* What numbering keeps of one frame more.                                 *)
LEMMA AddNumber ==
  ASSUME NEW t \in Threads, NEW f \in Frames, NEW u
  PROVE  AddImage(u, f, NumberIn(t)) = IF f.tid = t /\ f.n # 0 THEN Append(u, f.n)
                                   ELSE u
BY NumberInFacts, Zenon DEF AddImage

(* The recursion of Numbers is one that keeps images.                      *)
LEMMA NumbersAreImages ==
  ASSUME NEW t \in Threads, NEW s \in Seq(Frames)
  PROVE  Numbers(t, s) = Images(s, NumberIn(t))
<1> DEFINE n == Len(s)
           F == NumberIn(t)
           Equation(h) ==
             h = [i \in 0..n |->
                    IF i = 0 THEN <<>>
                    ELSE IF s[i].tid = t /\ s[i].n # 0
                         THEN Append(h[i - 1], s[i].n)
                    ELSE h[i - 1]]
<1>1. n \in Nat /\ \A i \in 1..n : s[i] \in Frames
  BY LenProperties
<1>2. ASSUME NEW h, NEW i \in 0..n
      PROVE  (IF i = 0 THEN <<>> ELSE IF s[i].tid = t /\ s[i].n # 0
                                      THEN Append(h[i - 1], s[i].n) ELSE h[i - 1])
             = (IF i = 0 THEN Nothing ELSE AddImage(h[i - 1], s[i], F))
  <2>1. CASE i = 0
    BY <2>1, Zenon DEF Nothing
  <2>2. CASE i # 0
    <3>1. s[i] \in Frames
      BY <1>1, <2>2
    <3> QED
      BY <2>2, <3>1, AddNumber, Zenon
  <2> QED
    BY <2>1, <2>2
<1>3. ASSUME NEW h PROVE Equation(h) <=> Recursion(h, n, s, F)
  <2> DEFINE X(i) == IF i = 0 THEN <<>> ELSE IF s[i].tid = t /\ s[i].n # 0
                     THEN Append(h[i - 1], s[i].n) ELSE h[i - 1]
             Y(i) == IF i = 0 THEN Nothing ELSE AddImage(h[i - 1], s[i], F)
  <2>1. \A i \in 0..n : X(i) = Y(i)
    BY <1>2
  <2>2. [i \in 0..n |-> X(i)] = [i \in 0..n |-> Y(i)]
    <3> HIDE DEF X, Y, n
    <3> QED
      BY <2>1, Zenon
  <2>3. Equation(h) <=> h = [i \in 0..n |-> X(i)]
    OBVIOUS
  <2>4. Recursion(h, n, s, F) <=> h = [i \in 0..n |-> Y(i)]
    BY DEF Recursion
  <2> HIDE DEF Equation, X, Y, F, n
  <2> QED
    BY <2>2, <2>3, <2>4
<1>4. Numbers(t, s) = (CHOOSE h : Equation(h))[n]
  BY Zenon DEF Numbers
<1>5. Into(F, Nat)
  BY NumberInFacts
<1>6. Recursion(ImagesUpTo(s, F), n, s, F)
  <2>1. ASSUME NEW B, NEW G, Into(G, B)
        PROVE  Recursion(ImagesUpTo(s, G), Len(s), s, G)
    BY <2>1, ImagesFacts
  <2> HIDE DEF F
  <2> QED
    BY <1>5, <2>1, Zenon
<1> HIDE DEF Equation
<1>7. Equation(CHOOSE h : Equation(h))
  BY <1>3, <1>6, Zenon
<1>8. Recursion(CHOOSE h : Equation(h), n, s, F)
  BY <1>3, <1>7, Zenon
<1> DEFINE g == CHOOSE h : Equation(h)
<1> HIDE DEF g, F
<1>9. g[Len(s)] = Images(s, F)
  <2>1. Recursion(g, Len(s), s, F)
    BY <1>8 DEF g
  <2> QED
    BY <1>5, <2>1, RecursionIsImages
<1> QED
  BY <1>4, <1>9 DEF g, F

(* The numbers of one sequence of frames after the other.                  *)
LEMMA NumbersConcat ==
  ASSUME NEW t \in Threads, NEW s \in Seq(Frames), NEW u \in Seq(Frames)
  PROVE  /\ Numbers(t, s) \in Seq(Nat) /\ Numbers(t, u) \in Seq(Nat)
         /\ Numbers(t, s \o u) = Numbers(t, s) \o Numbers(t, u)
<1> DEFINE F == NumberIn(t)
<1>1. Into(F, Nat) /\ s \o u \in Seq(Frames)
  BY NumberInFacts
<1>2. /\ Numbers(t, s) = Images(s, F) /\ Numbers(t, u) = Images(u, F)
      /\ Numbers(t, s \o u) = Images(s \o u, F)
  BY <1>1, NumbersAreImages
<1> HIDE DEF F
<1>3. /\ Images(s, F) \in Seq(Nat) /\ Images(u, F) \in Seq(Nat)
      /\ Images(s \o u, F) = Images(s, F) \o Images(u, F)
  <2>1. Images(s, F) \in Seq(Nat)
    BY <1>1, ImagesConcat, Zenon
  <2>2. Images(u, F) \in Seq(Nat)
    BY <1>1, ImagesConcat, Zenon
  <2>3. Images(s \o u, F) = Images(s, F) \o Images(u, F)
    BY <1>1, ImagesConcat, SMTT(30)
  <2> QED
    BY <2>1, <2>2, <2>3
<1> QED
  BY <1>2, <1>3

(* The numbers with one frame more.                                        *)
LEMMA NumbersAppend ==
  ASSUME NEW t \in Threads, NEW s \in Seq(Frames), NEW f \in Frames
  PROVE  Numbers(t, Append(s, f)) =
           IF f.tid = t /\ f.n # 0 THEN Append(Numbers(t, s), f.n)
           ELSE Numbers(t, s)
<1> DEFINE F == NumberIn(t)
<1>1. Into(F, Nat) /\ Append(s, f) \in Seq(Frames)
  BY NumberInFacts
<1>2. /\ Numbers(t, s) = Images(s, F)
      /\ Numbers(t, Append(s, f)) = Images(Append(s, f), F)
  BY <1>1, NumbersAreImages
<1>3. AddImage(Images(s, F), f, F) =
        IF f.tid = t /\ f.n # 0 THEN Append(Images(s, F), f.n) ELSE Images(s, F)
  BY AddNumber
<1> HIDE DEF F
<1>4. Images(Append(s, f), F) = AddImage(Images(s, F), f, F)
  BY <1>1, ImagesAppend
<1> QED
  BY <1>2, <1>3, <1>4

(* No frame of t, no number.                                               *)
LEMMA NumbersNone ==
  ASSUME NEW t \in Threads, NEW s \in Seq(Frames),
         \A i \in DOMAIN s : s[i].tid # t
  PROVE  Numbers(t, s) = <<>>
<1> DEFINE F == NumberIn(t)
<1>1. Into(F, Nat) /\ Numbers(t, s) = Images(s, F)
  BY NumberInFacts, NumbersAreImages
<1>2. \A i \in 1..Len(s) : s[i] \notin DOMAIN F
  <2>1. \A i \in 1..Len(s) : s[i] \in Frames /\ s[i].tid # t
    BY LenProperties
  <2> QED
    BY <2>1, NumberInFacts
<1> HIDE DEF F
<1>3. Images(s, F) = <<>>
  BY <1>1, <1>2, ImagesNone
<1> QED
  BY <1>1, <1>3

(* The order of the trace: each thread's frames are numbered from one, in  *)
(* the container and then in the buffer.  A thread that has not started    *)
(* has made none, and none is made when the process has ended.             *)
OrderInv ==
  /\ \A t \in Threads : Numbers(t, out \o g_buffer) = UpTo(issued[t])
  /\ \A t \in Threads : pc[t] = "new" => issued[t] = 0
  /\ status # "running" => \A t \in Threads : pc[t] = "gone"

(* A step of t numbers one frame, or none, and takes nothing back from the *)
(* container.                                                              *)
Grows(t, did) ==
  /\ Issue(t, did)
  /\ \A u \in Threads :
       /\ Numbers(u, out' \o g_buffer') =
            IF u = t /\ did THEN Append(Numbers(u, out \o g_buffer), issued[t] + 1)
            ELSE Numbers(u, out \o g_buffer)
       /\ Len(Numbers(u, out)) <= Len(Numbers(u, out'))

(* Where t comes from and goes to, and how the process ends.               *)
Moves(t) ==
  /\ pc[t] # "gone" /\ pc'[t] # "new"
  /\ \A u \in Threads : pc'[u] = "new" => pc[u] = "new"
  /\ \/ UNCHANGED status
     \/ /\ status' # "running" /\ \A u \in Threads : pc'[u] = "gone"
        /\ UNCHANGED <<out, g_buffer, issued>>

(* A frame that is numbered counts for its thread, others for none.        *)
LEMMA FrameNumbers ==
  ASSUME TypeOK, NEW t \in Threads, NEW kind \in Kinds
  PROVE  /\ Numbered(kind, t) \in Frames /\ Unnumbered(kind, t) \in Frames
         /\ Numbered(kind, t).tid = t /\ Numbered(kind, t).n = issued[t] + 1
         /\ Numbered(kind, t).n # 0 /\ Unnumbered(kind, t).n = 0
         /\ issued[t] \in Nat
<1>1. issued[t] \in Nat
  BY DEF TypeOK, ThreadTypes
<1> QED
  BY <1>1, FrameTypes DEF Numbered, Unnumbered

(* The container with more frames has no fewer numbers.                    *)
LEMMA NumbersMonotone ==
  ASSUME NEW t \in Threads, NEW s \in Seq(Frames), NEW u \in Seq(Frames)
  PROVE  Len(Numbers(t, s)) <= Len(Numbers(t, s \o u))
<1> DEFINE a == Numbers(t, s)
           b == Numbers(t, u)
<1>1. a \in Seq(Nat) /\ b \in Seq(Nat) /\ Numbers(t, s \o u) = a \o b
  BY NumbersConcat
<1> HIDE DEF a, b
<1>2. Len(a \o b) = Len(a) + Len(b) /\ Len(a) \in Nat /\ Len(b) \in Nat
  BY <1>1
<1> QED
  BY <1>1, <1>2 DEF a

(* The numbers of no frame, and of one.                                    *)
LEMMA NumbersOne ==
  ASSUME NEW t \in Threads, NEW f \in Frames
  PROVE  /\ Numbers(t, <<>>) = <<>>
         /\ Numbers(t, <<f>>) = IF f.tid = t /\ f.n # 0 THEN <<f.n>> ELSE <<>>
<1>1. /\ Nothing \in Seq(Frames) /\ \A i \in DOMAIN Nothing : Nothing[i].tid # t
      /\ <<f>> = Append(Nothing, f) /\ <<f.n>> = Append(Nothing, f.n)
  BY DEF Nothing
<1>2. Numbers(t, Nothing) = Nothing
  BY <1>1, NumbersNone, Zenon DEF Nothing
<1>3. Numbers(t, Append(Nothing, f)) =
        IF f.tid = t /\ f.n # 0 THEN Append(Numbers(t, Nothing), f.n)
        ELSE Numbers(t, Nothing)
  BY <1>1, NumbersAppend, Zenon
<1>4. Numbers(t, <<f>>) = IF f.tid = t /\ f.n # 0 THEN <<f.n>> ELSE Nothing
  BY <1>1, <1>2, <1>3, Zenon
<1> QED
  BY <1>2, <1>4, Zenon DEF Nothing

(* No frame is touched. *)
LEMMA GrowQuiet ==
  ASSUME TypeOK, NEW t \in Threads, UNCHANGED <<out, g_buffer, issued>>
  PROVE  Grows(t, FALSE)
<1>1. \A u \in Threads : Numbers(u, out) \in Seq(Nat)
  BY NumbersConcat DEF TypeOK, TraceTypes
<1>2. \A u \in Threads : Len(Numbers(u, out)) \in Nat
  BY <1>1
<1> QED
  BY <1>2 DEF Grows, Issue

(* AppendBuffer puts a frame into the buffer, or none. *)
LEMMA GrowBuffer ==
  ASSUME TypeOK, NEW t \in Threads, NEW did \in BOOLEAN, Issue(t, did),
         g_buffer' = AfterAppend(t, did), UNCHANGED out
  PROVE  Grows(t, did)
<1>0. out \in Seq(Frames) /\ g_buffer \in Seq(Frames)
      /\ out \o g_buffer \in Seq(Frames)
  BY DEF TypeOK, TraceTypes
<1>1. CASE ~did
  <2>1. UNCHANGED <<out, g_buffer, issued>>
    BY <1>1 DEF Issue, AfterAppend
  <2> QED
    BY <1>1, <2>1, GrowQuiet
<1>2. CASE did
  <2> DEFINE f == Numbered("std", t)
  <2>1. f \in Frames /\ f.tid = t /\ f.n = issued[t] + 1 /\ f.n # 0
    BY FrameNumbers DEF Kinds
  <2>2. g_buffer' = Append(g_buffer, f)
    BY <1>2 DEF AfterAppend
  <2> HIDE DEF f
  <2>3. out' \o g_buffer' = Append(out \o g_buffer, f)
    BY <1>0, <2>1, <2>2, ConcatAppend
  <2>4. ASSUME NEW u \in Threads
        PROVE  Numbers(u, out' \o g_buffer') =
                 IF u = t THEN Append(Numbers(u, out \o g_buffer), issued[t] + 1)
                 ELSE Numbers(u, out \o g_buffer)
    <3> DEFINE all == out \o g_buffer
    <3>1. all \in Seq(Frames)
      BY <1>0
    <3> HIDE DEF all
    <3>2. Numbers(u, Append(all, f)) =
            IF f.tid = u /\ f.n # 0 THEN Append(Numbers(u, all), f.n)
            ELSE Numbers(u, all)
      BY <2>1, <3>1, NumbersAppend, Zenon
    <3> QED
      BY <2>1, <2>3, <3>2, Zenon DEF all
  <2>5. \A u \in Threads : Len(Numbers(u, out)) \in Nat
    <3>1. \A u \in Threads : Numbers(u, out) \in Seq(Nat)
      BY <1>0, NumbersConcat
    <3> QED
      BY <3>1
  <2>6. \A u \in Threads : Len(Numbers(u, out)) <= Len(Numbers(u, out'))
    BY <2>5
  <2> QED
    BY <1>2, <2>4, <2>6, Zenon DEF Grows
<1> QED
  BY <1>1, <1>2

(* What the caller of FlushBuffer adds, if FlushBuffer returns.            *)
Rest(buf, after) == IF LimitReached(Len(buf)) THEN <<>> ELSE after

(* FlushBuffer: the buffer goes into the container, then the rest.         *)
LEMMA FlushNumbers ==
  ASSUME TypeOK, NEW t \in Threads, NEW addKeyframe \in BOOLEAN,
         NEW buf \in Seq(Frames), NEW after \in Seq(Frames),
         FlushBuffer(t, buf, addKeyframe, after), NEW u \in Threads
  PROVE  /\ Numbers(u, out' \o g_buffer') =
              Numbers(u, out \o buf) \o Numbers(u, Rest(buf, after))
         /\ Len(Numbers(u, out)) <= Len(Numbers(u, out'))
<1> DEFINE w == Written(t, buf, addKeyframe)
           r == Rest(buf, after)
           key == Unnumbered("key", t)
<1>0. out \in Seq(Frames)
  BY DEF TypeOK, TraceTypes
<1>1. r \in Seq(Frames)
  BY DEF Rest
<1>2. key \in Frames /\ key.n = 0
  BY FrameNumbers DEF Kinds
<1>3. g_buffer' = <<>> /\ out' = out \o w \o r
  BY DEF FlushBuffer, FlushInstructions, Rest
<1> HIDE DEF key
<1>4. w \in Seq(Frames) /\ Numbers(u, w) = Numbers(u, buf)
  <2>1. CASE KeyframeDue(Len(buf), addKeyframe)
    <3>1. w = Append(buf, key)
      BY <1>2, <2>1 DEF Written, key
    <3> HIDE DEF w
    <3> QED
      BY <1>2, <3>1, NumbersAppend
  <2>2. CASE ~KeyframeDue(Len(buf), addKeyframe)
    <3>1. w = buf
      BY <2>2 DEF Written
    <3> QED
      BY <3>1
  <2> QED
    BY <2>1, <2>2
<1> HIDE DEF w, r
<1>5. out' = out \o (w \o r) /\ w \o r \in Seq(Frames) /\ out \o w \in Seq(Frames)
      /\ out' \in Seq(Frames)
  <2>1. w \o r \in Seq(Frames) /\ out \o w \in Seq(Frames)
    BY <1>0, <1>1, <1>4
  <2>2. (out \o w) \o r = out \o (w \o r)
    BY <1>0, <1>1, <1>4, ConcatAssociative, SMT
  <2>3. out \o (w \o r) \in Seq(Frames)
    BY <1>0, <2>1
  <2> QED
    BY <1>3, <2>1, <2>2, <2>3
<1>6. out' \o g_buffer' = out'
  <2>1. ASSUME NEW s \in Seq(Frames) PROVE s \o <<>> = s
    BY ConcatEmptySeq
  <2> QED
    BY <1>3, <1>5, <2>1, Zenon
<1>7. Numbers(u, out') = Numbers(u, out \o w) \o Numbers(u, r)
  <2> DEFINE x == out \o w
  <2>1. x \in Seq(Frames) /\ out' = x \o r
    BY <1>3, <1>5
  <2> HIDE DEF x
  <2>2. ASSUME NEW a \in Seq(Frames), NEW b \in Seq(Frames)
        PROVE  Numbers(u, a \o b) = Numbers(u, a) \o Numbers(u, b)
    BY NumbersConcat
  <2>3. Numbers(u, x \o r) = Numbers(u, x) \o Numbers(u, r)
    BY <1>1, <2>1, <2>2, Zenon
  <2> QED
    BY <2>1, <2>3, Zenon DEF x
<1>8. Numbers(u, out \o w) = Numbers(u, out \o buf)
  <2>1. Numbers(u, out \o w) = Numbers(u, out) \o Numbers(u, w)
    BY <1>0, <1>4, NumbersConcat
  <2>2. Numbers(u, out \o buf) = Numbers(u, out) \o Numbers(u, buf)
    BY <1>0, NumbersConcat
  <2> QED
    BY <1>4, <2>1, <2>2
<1>9. Len(Numbers(u, out)) <= Len(Numbers(u, out'))
  BY <1>0, <1>5, NumbersMonotone
<1> QED
  BY <1>6, <1>7, <1>8, <1>9 DEF r

(* A flush, and nothing or one numbered frame after it. *)
LEMMA GrowFlush ==
  ASSUME TypeOK, NEW t \in Threads, NEW addKeyframe \in BOOLEAN,
         NEW kind \in Kinds, NEW add \in BOOLEAN, NEW did \in BOOLEAN,
         FlushBuffer(t, g_buffer, addKeyframe,
                     IF add THEN <<Numbered(kind, t)>> ELSE <<>>),
         did = (add /\ ~LimitReached(Len(g_buffer))), Issue(t, did)
  PROVE  Grows(t, did)
<1> DEFINE f == Numbered(kind, t)
           after == IF add THEN <<f>> ELSE <<>>
<1>0. out \in Seq(Frames) /\ g_buffer \in Seq(Frames)
      /\ out \o g_buffer \in Seq(Frames)
  BY DEF TypeOK, TraceTypes
<1>1. f \in Frames /\ f.tid = t /\ f.n = issued[t] + 1 /\ f.n # 0
  BY FrameNumbers
<1>2. FlushBuffer(t, g_buffer, addKeyframe, after)
  OBVIOUS
<1> HIDE DEF f
<1>3. after \in Seq(Frames)
  BY <1>1
<1>4. Rest(g_buffer, after) = IF did THEN <<f>> ELSE <<>>
  BY Zenon DEF Rest
<1> HIDE DEF after
<1>5. ASSUME NEW u \in Threads
      PROVE  /\ Numbers(u, out' \o g_buffer') =
                  IF u = t /\ did
                  THEN Append(Numbers(u, out \o g_buffer), issued[t] + 1)
                  ELSE Numbers(u, out \o g_buffer)
             /\ Len(Numbers(u, out)) <= Len(Numbers(u, out'))
  <2> DEFINE a == Numbers(u, out \o g_buffer)
             b == Numbers(u, Rest(g_buffer, after))
  <2>1. /\ Numbers(u, out' \o g_buffer') = a \o b
        /\ Len(Numbers(u, out)) <= Len(Numbers(u, out'))
    BY <1>0, <1>2, <1>3, FlushNumbers
  <2>2. a \in Seq(Nat)
    BY <1>0, NumbersConcat
  <2>3. /\ Numbers(u, <<>>) = <<>>
        /\ Numbers(u, <<f>>) = IF f.tid = u /\ f.n # 0 THEN <<f.n>> ELSE <<>>
    BY <1>1, NumbersOne, Zenon
  <2>4. CASE u = t /\ did
    <3>1. b = <<issued[t] + 1>>
      BY <1>1, <1>4, <2>3, <2>4, Zenon
    <3>2. issued[t] + 1 \in Nat
      BY <1>1 DEF Frames
    <3> HIDE DEF a, b
    <3>3. a \o b = Append(a, issued[t] + 1)
      BY <2>2, <3>1, <3>2
    <3> QED
      BY <2>1, <2>4, <3>3 DEF a
  <2>5. CASE ~(u = t /\ did)
    <3>1. b = <<>>
      BY <1>1, <1>4, <2>3, <2>5, Zenon
    <3> HIDE DEF a, b
    <3>2. a \o b = a
      BY <2>2, <3>1
    <3> QED
      BY <2>1, <2>5, <3>2 DEF a
  <2> QED
    BY <2>4, <2>5
<1> QED
  BY <1>5 DEF Grows

(* AppendBuffer flushes the frame it has just made, if any. *)
LEMMA GrowExit ==
  ASSUME TypeOK, NEW t \in Threads, NEW did \in BOOLEAN,
         FlushBuffer(t, AfterAppend(t, did), TRUE, <<>>), Issue(t, did)
  PROVE  Grows(t, did)
<1> DEFINE f == Numbered("std", t)
           buf == AfterAppend(t, did)
<1>0. out \in Seq(Frames) /\ g_buffer \in Seq(Frames)
      /\ out \o g_buffer \in Seq(Frames) /\ <<>> \in Seq(Frames)
  BY DEF TypeOK, TraceTypes
<1>1. f \in Frames /\ f.tid = t /\ f.n = issued[t] + 1 /\ f.n # 0
  BY FrameNumbers DEF Kinds
<1>2. buf = IF did THEN Append(g_buffer, f) ELSE g_buffer
  BY DEF AfterAppend
<1> HIDE DEF f
<1>3. buf \in Seq(Frames)
  BY <1>0, <1>1, <1>2
<1>4. FlushBuffer(t, buf, TRUE, <<>>)
  OBVIOUS
<1> HIDE DEF buf
<1>5. ASSUME NEW u \in Threads
      PROVE  /\ Numbers(u, out' \o g_buffer') =
                  IF u = t /\ did
                  THEN Append(Numbers(u, out \o g_buffer), issued[t] + 1)
                  ELSE Numbers(u, out \o g_buffer)
             /\ Len(Numbers(u, out)) <= Len(Numbers(u, out'))
  <2> DEFINE a == Numbers(u, out \o buf)
  <2>1. /\ Numbers(u, out' \o g_buffer') = a \o Numbers(u, Rest(buf, <<>>))
        /\ Len(Numbers(u, out)) <= Len(Numbers(u, out'))
    BY <1>0, <1>3, <1>4, FlushNumbers, Zenon
  <2>2. Numbers(u, Rest(buf, <<>>)) = <<>>
    BY <1>1, NumbersOne, Zenon DEF Rest
  <2>3. a \in Seq(Nat)
    <3>1. out \o buf \in Seq(Frames)
      BY <1>0, <1>3
    <3>2. ASSUME NEW s \in Seq(Frames) PROVE Numbers(u, s) \in Seq(Nat)
      BY NumbersConcat
    <3> QED
      BY <3>1, <3>2, Zenon
  <2>4. a = IF u = t /\ did
            THEN Append(Numbers(u, out \o g_buffer), issued[t] + 1)
            ELSE Numbers(u, out \o g_buffer)
    <3> DEFINE all == out \o g_buffer
    <3>1. all \in Seq(Frames)
      BY <1>0
    <3>2. out \o buf = IF did THEN Append(all, f) ELSE all
      <4>1. out \o Append(g_buffer, f) = Append(all, f)
        BY <1>0, <1>1, ConcatAppend
      <4> HIDE DEF all
      <4> QED
        BY <1>2, <4>1, Zenon DEF all
    <3> HIDE DEF all
    <3>3. Numbers(u, Append(all, f)) =
            IF f.tid = u /\ f.n # 0 THEN Append(Numbers(u, all), f.n)
            ELSE Numbers(u, all)
      BY <1>1, <3>1, NumbersAppend, Zenon
    <3> QED
      BY <1>1, <3>2, <3>3, Zenon DEF all
  <2> HIDE DEF a
  <2>5. a \o <<>> = a
    BY <2>3, ConcatEmptySeq, Zenon
  <2> QED
    BY <2>1, <2>2, <2>4, <2>5, Zenon
<1> QED
  BY <1>5 DEF Grows

(* A callback adds a frame to the container directly, while the buffer has *)
(* none of the thread.                                                     *)
LEMMA GrowDirect ==
  ASSUME TypeOK, NEW t \in Threads, NEW did \in BOOLEAN, NEW add \in BOOLEAN,
         NEW f \in Frames, f.tid = t,
         IF did THEN add /\ f.n = issued[t] + 1 /\ Numbers(t, g_buffer) = <<>>
                ELSE add => f.n = 0,
         out' = IF add THEN Append(out, f) ELSE out,
         UNCHANGED g_buffer, Issue(t, did)
  PROVE  Grows(t, did)
<1>0. out \in Seq(Frames) /\ g_buffer \in Seq(Frames) /\ out' \in Seq(Frames)
      /\ issued[t] \in Nat
  BY DEF TypeOK, TraceTypes, ThreadTypes
<1>1. ASSUME NEW u \in Threads
      PROVE  /\ Numbers(u, out' \o g_buffer') =
                  IF u = t /\ did
                  THEN Append(Numbers(u, out \o g_buffer), issued[t] + 1)
                  ELSE Numbers(u, out \o g_buffer)
             /\ Len(Numbers(u, out)) <= Len(Numbers(u, out'))
  <2> DEFINE a == Numbers(u, out)
             b == Numbers(u, g_buffer)
             c == Numbers(u, out')
  <2>1. /\ a \in Seq(Nat) /\ b \in Seq(Nat) /\ c \in Seq(Nat)
        /\ Numbers(u, out \o g_buffer) = a \o b
        /\ Numbers(u, out' \o g_buffer') = c \o b
    BY <1>0, NumbersConcat
  <2>2. c = IF u = t /\ did THEN Append(a, issued[t] + 1) ELSE a
    <3>1. Numbers(u, Append(out, f)) =
            IF f.tid = u /\ f.n # 0 THEN Append(a, f.n) ELSE a
      BY <1>0, NumbersAppend, Zenon
    <3>2. issued[t] + 1 # 0
      BY <1>0
    <3> QED
      BY <3>1, <3>2, Zenon
  <2>3. u = t /\ did => b = <<>>
    OBVIOUS
  <2> HIDE DEF a, b, c
  <2>4. CASE u = t /\ did
    <3>1. c = Append(a, issued[t] + 1) /\ b = <<>>
      BY <2>2, <2>3, <2>4
    <3>2. c \o b = c /\ a \o b = a
      <4>1. ASSUME NEW s \in Seq(Nat) PROVE s \o <<>> = s
        BY ConcatEmptySeq
      <4> QED
        BY <2>1, <3>1, <4>1, Zenon
    <3>3. Len(c) = Len(a) + 1 /\ Len(a) \in Nat
      BY <2>1, <3>1
    <3>4. Len(a) <= Len(c)
      BY <3>3
    <3> QED
      BY <2>1, <2>4, <3>1, <3>2, <3>4, Zenon DEF a, c
  <2>5. CASE ~(u = t /\ did)
    <3>1. c = a /\ Len(a) \in Nat
      BY <2>1, <2>2, <2>5
    <3>2. Len(a) <= Len(c)
      BY <3>1
    <3> QED
      BY <2>1, <2>5, <3>1, <3>2, Zenon DEF a, c
  <2> QED
    BY <2>4, <2>5
<1> QED
  BY <1>1 DEF Grows

(* A thread whose frames are all in the container has none in the buffer.  *)
LEMMA NoneBuffered ==
  ASSUME TypeOK, FlushedInSyscall, OrderInv, NEW t \in Threads,
         pc[t] \in {"new", "kernel"}
  PROVE  Numbers(t, g_buffer) = <<>>
<1>0. out \in Seq(Frames) /\ g_buffer \in Seq(Frames)
  BY DEF TypeOK, TraceTypes
<1>1. CASE pc[t] = "kernel"
  BY <1>0, <1>1, NumbersNone DEF FlushedInSyscall
<1>2. CASE pc[t] = "new"
  <2> DEFINE a == Numbers(t, out)
             b == Numbers(t, g_buffer)
  <2>1. a \o b = UpTo(0)
    <3>1. Numbers(t, out \o g_buffer) = a \o b
      BY <1>0, NumbersConcat, Zenon
    <3>2. Numbers(t, out \o g_buffer) = UpTo(issued[t]) /\ issued[t] = 0
      BY <1>2, Zenon DEF OrderInv
    <3> QED
      BY <3>1, <3>2, Zenon
  <2>2. UpTo(0) = <<>>
    BY UpToFacts
  <2>3. a \in Seq(Nat) /\ b \in Seq(Nat)
    BY <1>0, NumbersConcat
  <2> HIDE DEF a, b
  <2>4. b = <<>>
    <3>1. ASSUME NEW u \in Seq(Nat), NEW v \in Seq(Nat), u \o v = <<>>
          PROVE  v = <<>>
      BY <3>1, ConcatEmptySeq
    <3> QED
      BY <2>1, <2>2, <2>3, <3>1, Zenon
  <2> QED
    BY <2>4 DEF b
<1> QED
  BY <1>1, <1>2

(* Every step of a thread numbers its next frame, or none.                 *)
LEMMA StepGrows ==
  ASSUME TypeOK, FlushedInSyscall, OrderInv, Next, ~Terminated
  PROVE  \E t \in Threads : \E did \in BOOLEAN : Grows(t, did) /\ Moves(t)
<1>q. ASSUME NEW t \in Threads,
             \/ EnterBlock(t) \/ EnterRep(t) \/ LeaveBlock(t) \/ StopRep(t)
             \/ PostInstruction(t) \/ ThreadEnd(t) \/ Fini(t)
      PROVE  Grows(t, FALSE) /\ Moves(t)
  <2>1. UNCHANGED <<out, g_buffer, issued>>
    BY <1>q DEF EnterBlock, EnterRep, LeaveBlock, StopRep, PostInstruction,
                ThreadEnd, Fini, NoFlush
  <2>2. Moves(t)
    BY <1>q DEF EnterBlock, EnterRep, LeaveBlock, StopRep, PostInstruction,
                ThreadEnd, Fini, NoFlush, Moves, TypeOK, ThreadTypes
  <2> QED
    BY <2>1, <2>2, GrowQuiet
<1>e. ASSUME NEW t \in Threads, AppendOverflow(t) \/ Cleanup(t)
      PROVE  Grows(t, FALSE) /\ Moves(t)
  <2>1. UNCHANGED <<out, g_buffer, issued>>
    BY <1>e DEF AppendOverflow, Cleanup, NoFlush
  <2>2. Moves(t)
    BY <1>e DEF AppendOverflow, InAppendBuffer, Cleanup, NoFlush, Moves,
                ExitPoints, LockedExits
  <2> QED
    BY <2>1, <2>2, GrowQuiet
<1>a. ASSUME NEW t \in Threads, AppendAndGoOn(t) \/ AppendLastOne(t)
      PROVE  \E did \in BOOLEAN : Grows(t, did) /\ Moves(t)
  <2>1. PICK did \in BOOLEAN :
          /\ g_buffer' = AfterAppend(t, did) /\ Issue(t, did) /\ UNCHANGED out
    BY <1>a DEF AppendAndGoOn, AppendLastOne
  <2>2. Moves(t)
    BY <1>a DEF AppendAndGoOn, AppendLastOne, InAppendBuffer, Advance, Release,
                Moves, TypeOK, ThreadTypes
  <2> QED
    BY <2>1, <2>2, GrowBuffer
<1>x. ASSUME NEW t \in Threads, AppendAndExit(t)
      PROVE  \E did \in BOOLEAN : Grows(t, did) /\ Moves(t)
  <2>1. PICK did \in BOOLEAN :
          FlushBuffer(t, AfterAppend(t, did), TRUE, <<>>) /\ Issue(t, did)
    BY <1>x DEF AppendAndExit
  <2>2. Moves(t)
    BY <1>x DEF AppendAndExit, InAppendBuffer, Quit, Moves, TypeOK, ThreadTypes
  <2> QED
    BY <2>1, <2>2, GrowExit
<1>f. ASSUME NEW t \in Threads, FlushForBlock(t) \/ FollowExec(t)
      PROVE  Grows(t, FALSE) /\ Moves(t)
  <2>1. PICK addKeyframe \in BOOLEAN : FlushBuffer(t, g_buffer, addKeyframe, <<>>)
    <3>1. (pc[t] = "flush") \in BOOLEAN
      OBVIOUS
    <3> QED
      BY <1>f, <3>1 DEF FlushForBlock, FollowExec
  <2>2. Issue(t, FALSE)
    BY <1>f DEF FlushForBlock, FollowExec, Issue
  <2>3. Moves(t)
    BY <1>f DEF FlushForBlock, FollowExec, Return, Quit, Release, Moves, TypeOK,
                ThreadTypes
  <2>4. FlushBuffer(t, g_buffer, addKeyframe,
                    IF FALSE THEN <<Numbered("std", t)>> ELSE <<>>)
    BY <2>1, Zenon
  <2> QED
    BY <2>2, <2>3, <2>4, GrowFlush DEF Kinds
<1>s. ASSUME NEW t \in Threads, SyscallEntry(t)
      PROVE  \E did \in BOOLEAN : Grows(t, did) /\ Moves(t)
  <2> DEFINE did == LogAllSyscalls /\ ~LimitReached(Len(g_buffer))
  <2>1. /\ FlushBuffer(t, g_buffer, TRUE,
                       IF LogAllSyscalls THEN <<Numbered("sys", t)>> ELSE <<>>)
        /\ Issue(t, did) /\ did \in BOOLEAN /\ LogAllSyscalls \in BOOLEAN
    BY <1>s, KnobsAssumption DEF SyscallEntry, g_bufidx
  <2>2. Moves(t)
    BY <1>s DEF SyscallEntry, Return, Quit, Release, Moves, TypeOK, ThreadTypes
  <2>3. Grows(t, did)
    BY <2>1, GrowFlush DEF Kinds
  <2> QED
    BY <2>1, <2>2, <2>3
<1>g. ASSUME NEW t \in Threads, ExceptionHandler(t)
      PROVE  \E did \in BOOLEAN : Grows(t, did) /\ Moves(t)
  <2> DEFINE did == ~LimitReached(Len(g_buffer))
  <2>1. /\ FlushBuffer(t, g_buffer, FALSE, <<Numbered("exc", t)>>)
        /\ Issue(t, did) /\ did \in BOOLEAN
    BY <1>g DEF ExceptionHandler, g_bufidx
  <2>2. Moves(t)
    BY <1>g DEF ExceptionHandler, Return, Quit, Release, Moves, TypeOK, ThreadTypes
  <2>3. FlushBuffer(t, g_buffer, FALSE,
                    IF TRUE THEN <<Numbered("exc", t)>> ELSE <<>>)
    BY <2>1, Zenon
  <2>4. Grows(t, did)
    BY <2>1, <2>3, GrowFlush DEF Kinds
  <2> QED
    BY <2>1, <2>2, <2>4
<1>i. ASSUME NEW t \in Threads, ThreadStart(t) \/ SyscallExit(t)
      PROVE  \E did \in BOOLEAN : Grows(t, did) /\ Moves(t)
  <2> DEFINE f == Numbered("intro", t)
  <2>1. PICK did \in BOOLEAN :
          /\ out' = IF did THEN Append(out, f) ELSE out
          /\ Issue(t, did) /\ UNCHANGED g_buffer
    BY <1>i DEF ThreadStart, SyscallExit
  <2>2. Moves(t)
    BY <1>i DEF ThreadStart, SyscallExit, Release, Moves, TypeOK, ThreadTypes
  <2>3. f \in Frames /\ f.tid = t /\ f.n = issued[t] + 1
    BY FrameNumbers DEF Kinds
  <2>4. Numbers(t, g_buffer) = <<>>
    BY <1>i, NoneBuffered DEF ThreadStart, SyscallExit
  <2> HIDE DEF f
  <2>5. Grows(t, did)
    BY <2>1, <2>3, <2>4, GrowDirect
  <2> QED
    BY <2>2, <2>5
<1>m. ASSUME NEW t \in Threads, ModLoad(t) PROVE Grows(t, FALSE) /\ Moves(t)
  <2> DEFINE f == Unnumbered("mod", t)
  <2>1. /\ out' = IF TRUE THEN Append(out, f) ELSE out
        /\ Issue(t, FALSE) /\ UNCHANGED g_buffer
    BY <1>m DEF ModLoad, Issue
  <2>2. Moves(t)
    BY <1>m DEF ModLoad, Moves
  <2>3. f \in Frames /\ f.tid = t /\ f.n = 0
    BY FrameNumbers DEF Kinds, Unnumbered
  <2> HIDE DEF f
  <2>4. Grows(t, FALSE)
    BY <2>1, <2>3, GrowDirect
  <2> QED
    BY <2>2, <2>4
<1> QED
  BY <1>q, <1>e, <1>a, <1>x, <1>f, <1>s, <1>g, <1>i, <1>m DEF Next

(* At the start there is no frame.                                         *)
LEMMA OrderInit == Init => OrderInv /\ Log!Init
<1> SUFFICES ASSUME Init PROVE OrderInv /\ Log!Init
  OBVIOUS
<1>1. ASSUME NEW t \in Threads PROVE Numbers(t, out \o g_buffer) = <<>>
  <2>1. ASSUME NEW s \in Seq(Frames), s = <<>>
        PROVE  s \o s = <<>>
    BY <2>1, ConcatEmptySeq
  <2>2. Nothing \in Seq(Frames)
    BY DEF Nothing
  <2>3. Nothing \o Nothing = Nothing
    BY <2>1, <2>2, Zenon DEF Nothing
  <2>4. Nothing \in Seq(Frames) /\ \A i \in DOMAIN Nothing : Nothing[i].tid # t
    BY DEF Nothing
  <2>5. Numbers(t, Nothing) = Nothing
    BY <2>4, NumbersNone, Zenon DEF Nothing
  <2> QED
    BY <2>3, <2>5, Zenon DEF Init, Nothing
<1>2. ASSUME NEW t \in Threads PROVE Len(Numbers(t, out)) = 0
  <2>1. Nothing \in Seq(Frames) /\ \A i \in DOMAIN Nothing : Nothing[i].tid # t
    BY DEF Nothing
  <2>2. Numbers(t, Nothing) = Nothing
    BY <2>1, NumbersNone, Zenon DEF Nothing
  <2>3. out = Nothing
    BY DEF Init, Nothing
  <2>4. Numbers(t, out) = Nothing
    BY <2>2, <2>3, Zenon
  <2>5. Len(Nothing) = 0
    BY DEF Nothing
  <2> QED
    BY <2>4, <2>5, Zenon
<1>3. UpTo(0) = <<>>
  BY UpToFacts
<1>4. \A t \in Threads : issued[t] = 0
  BY DEF Init
<1>5. OrderInv
  BY <1>1, <1>3, <1>4, Zenon DEF OrderInv, Init
<1>6. [t \in Threads |-> Numbers(t, out \o g_buffer)] = [t \in Threads |-> <<>>]
  BY <1>1, Zenon
<1>7. [t \in Threads |-> Len(Numbers(t, out))] = [t \in Threads |-> 0]
  BY <1>2, Zenon
<1>8. (status = "running") = TRUE
  BY DEF Init
<1> QED
  BY <1>5, <1>6, <1>7, <1>8, Zenon DEF Log!Init

(* The order is kept.                                                      *)
LEMMA OrderNext ==
  ASSUME TypeOK, FlushedInSyscall, OrderInv, [Next]_vars
  PROVE  OrderInv'
<1>1. CASE Terminated \/ UNCHANGED vars
  BY <1>1 DEF Terminated, vars, OrderInv
<1>2. CASE Next /\ ~Terminated
  <2>1. PICK t \in Threads, did \in BOOLEAN : Grows(t, did) /\ Moves(t)
    BY <1>2, StepGrows, Zenon
  <2>2. ASSUME NEW u \in Threads
        PROVE  /\ Numbers(u, out' \o g_buffer') = UpTo(issued'[u])
               /\ pc'[u] = "new" => issued'[u] = 0
    <3>1. /\ Numbers(u, out \o g_buffer) = UpTo(issued[u])
          /\ pc[u] = "new" => issued[u] = 0
      BY DEF OrderInv
    <3>2. issued[u] \in Nat
      BY DEF TypeOK, ThreadTypes
    <3>3. CASE u = t /\ did
      <4>1. issued'[u] = issued[u] + 1 /\ pc'[u] # "new"
        BY <2>1, <3>3 DEF Grows, Issue, Moves, TypeOK, ThreadTypes
      <4>2. Append(UpTo(issued[u]), issued[u] + 1) = UpTo(issued[u] + 1)
        BY <3>2, UpToFacts
      <4>3. Numbers(u, out' \o g_buffer') = Append(Numbers(u, out \o g_buffer), issued[u] + 1)
        BY <2>1, <3>3, Zenon DEF Grows
      <4> QED
        BY <3>1, <4>1, <4>2, <4>3, Zenon
    <3>4. CASE ~(u = t /\ did)
      <4>1. issued'[u] = issued[u] /\ (pc'[u] = "new" => pc[u] = "new")
        BY <2>1, <3>4 DEF Grows, Issue, Moves, TypeOK, ThreadTypes
      <4>2. Numbers(u, out' \o g_buffer') = Numbers(u, out \o g_buffer)
        BY <2>1, <3>4, Zenon DEF Grows
      <4> QED
        BY <3>1, <4>1, <4>2, Zenon
    <3> QED
      BY <3>3, <3>4
  <2>3. status' # "running" => \A u \in Threads : pc'[u] = "gone"
    BY <2>1 DEF Moves, OrderInv
  <2> QED
    BY <2>2, <2>3, Zenon DEF OrderInv
<1> QED
  BY <1>1, <1>2 DEF vars

(* Every step is one of the log: a thread issues its next frame, or none   *)
(* does, while the log is open; or the log is closed.                      *)
LEMMA OrderStep ==
  ASSUME TypeOK, FlushedInSyscall, OrderInv, OrderInv', [Next]_vars
  PROVE  [Log!Next]_Log!vars
<1> DEFINE log == [t \in Threads |-> Numbers(t, out \o g_buffer)]
           saved == [t \in Threads |-> Len(Numbers(t, out))]
           open == status = "running"
<1>1. CASE UNCHANGED <<out, g_buffer, status>>
  BY <1>1, Zenon DEF Log!vars
<1>2. CASE Terminated \/ UNCHANGED vars
  <2>1. UNCHANGED <<out, g_buffer, status>>
    BY <1>2 DEF Terminated, vars
  <2> QED
    BY <1>1, <2>1
<1>3. CASE Next /\ ~Terminated
  <2>1. PICK t \in Threads, did \in BOOLEAN : Grows(t, did) /\ Moves(t)
    BY <1>3, StepGrows, Zenon
  <2>2. Log!Persist
    <3>1. ASSUME NEW u \in Threads
          PROVE  /\ Len(Numbers(u, out)) <= Len(Numbers(u, out'))
                 /\ Len(Numbers(u, out')) <= Len(Numbers(u, out' \o g_buffer'))
      <4>1. Len(Numbers(u, out)) <= Len(Numbers(u, out'))
        BY <2>1, Zenon DEF Grows
      <4>2. out' \in Seq(Frames) /\ g_buffer' \in Seq(Frames)
        BY TypeNext DEF TypeOK, TraceTypes
      <4> DEFINE x == out'
                 y == g_buffer'
      <4> HIDE DEF x, y
      <4>3. Len(Numbers(u, x)) <= Len(Numbers(u, x \o y))
        BY <4>2, NumbersMonotone DEF x, y
      <4> QED
        BY <4>1, <4>3, Zenon DEF x, y
    <3> QED
      BY <3>1, Zenon DEF Log!Persist
  <2>3. CASE UNCHANGED status
    <3>1. open /\ UNCHANGED open
      BY <2>1, <2>3 DEF Moves, OrderInv
    <3>2. CASE did
      <4>1. ASSUME NEW u \in Threads
            PROVE  log'[u] = IF u = t THEN Append(log[t], Len(log[t]) + 1)
                             ELSE log[u]
        <5>1. Numbers(u, out' \o g_buffer') =
                IF u = t THEN Append(Numbers(u, out \o g_buffer), issued[t] + 1)
                ELSE Numbers(u, out \o g_buffer)
          BY <2>1, <3>2, Zenon DEF Grows
        <5>2. Len(Numbers(t, out \o g_buffer)) = issued[t]
          <6>1. issued[t] \in Nat
            BY DEF TypeOK, ThreadTypes
          <6>2. Len(UpTo(issued[t])) = issued[t]
            BY <6>1, UpToFacts
          <6> QED
            BY <6>2, Zenon DEF OrderInv
        <5> QED
          BY <5>1, <5>2, Zenon
      <4>2. log' = [u \in Threads |-> log'[u]]
        BY Zenon
      <4>3. log = [u \in Threads |-> log[u]]
        BY Zenon
      <4>4. log' = [log EXCEPT ![t] = Append(@, Len(@) + 1)]
        <5> HIDE DEF log
        <5> QED
          BY <4>1, <4>2, <4>3
      <4>5. Log!Issue(t)
        BY <4>4, Zenon DEF Log!Issue
      <4> QED
        BY <2>2, <3>1, <4>5, Zenon DEF Log!Next, Log!Step
    <3>3. CASE ~did
      <4>1. \A u \in Threads : Numbers(u, out' \o g_buffer') =
                               Numbers(u, out \o g_buffer)
        BY <2>1, <3>3, Zenon DEF Grows
      <4>2. UNCHANGED log
        BY <4>1, Zenon
      <4> QED
        BY <2>2, <3>1, <4>2, Zenon DEF Log!Next, Log!Step
    <3> QED
      BY <3>2, <3>3
  <2>4. CASE ~UNCHANGED status
    <3>1. open /\ open' = FALSE /\ UNCHANGED log
      BY <2>1, <2>4 DEF Moves, OrderInv
    <3> QED
      BY <2>2, <3>1 DEF Log!Next, Log!Close
  <2> QED
    BY <2>3, <2>4
<1> QED
  BY <1>2, <1>3 DEF vars

(* FrameBuffer implements the log of a thread: however buffer, flushes and *)
(* direct additions interleave, the frames of a thread are in the trace in *)
(* the order the thread made them, none is missing or twice, what is in    *)
(* the container is a prefix of them and stays there.                      *)
THEOREM OrderTheorem == Spec => ThreadOrder
<1>1. Init => TypeOK /\ FlushedInSyscall /\ OrderInv /\ Log!Init
  <2>1. Init => FlushedInSyscall
    BY DEF Init, FlushedInSyscall
  <2> QED
    BY <2>1, TypeInit, OrderInit
<1>2. TypeOK /\ FlushedInSyscall /\ OrderInv /\ [Next]_vars
        => (TypeOK /\ FlushedInSyscall /\ OrderInv)'
  BY TypeNext, FlushedNext, OrderNext
<1>3. /\ TypeOK /\ FlushedInSyscall /\ OrderInv /\ [Next]_vars /\ OrderInv'
        => [Log!Next]_Log!vars
  BY OrderStep
<1> QED
  BY <1>1, <1>2, <1>3, PTL DEF Spec, ThreadOrder, Log!Spec
=============================================================================
