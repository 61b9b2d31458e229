-------------------------- MODULE ActivationProofs --------------------------
(***************************************************************************)
(* Theorems about Activation for every number of threads and blocks, every *)
(* command line and all trigger counts.                                    *)
(***************************************************************************)
EXTENDS Activation, TLAPS

USE ActivationAssumption

-----------------------------------------------------------------------------
(* What has to be added to the properties to make them inductive. *)

(* A block that is being compiled was found active at its head as it will  *)
(* be at its instructions, or its code is about to be removed.             *)
CompiledAlike ==
  ~Activating => \A t \in Threads : /\ pc[t] = "checked" => g_active
                                    /\ pc[t] = "unchecked" => ~g_active

(* Where a thread has set g_active it is still set. *)
ActiveStays ==
  /\ \A t \in Threads : pc[t] \in {"remove", "tremove"} => g_active
  /\ redo # {} => g_active

(* A block calls CheckTrigger or AppendBuffer, and only when compiled. *)
CacheShape ==
  \A b \in Blocks : /\ cache[b].trig => ~cache[b].append
                    /\ cache[b].trig \/ cache[b].append => cache[b].compiled

(* Decrements may be lost, but none is made up: a countdown, the shared    *)
(* one or one a thread has loaded, was lowered at most once per execution  *)
(* let pass, or enough of them were.                                       *)
LowersFor(c) == \/ c + executed >= knobs.TrigCount
                \/ executed >= knobs.TrigCount - 1

CountedDown ==
  /\ g_trig_countdown + hits >= knobs.TrigCount
  /\ LowersFor(g_trig_countdown)
  /\ \A t \in Threads : pc[t] = "counted" =>
       /\ seen[t] + hits >= knobs.TrigCount
       /\ LowersFor(seen[t])

(* While no decrement is lost the countdown is what each thread has        *)
(* loaded, and every execution up to the last but one was let pass.        *)
NoneLost ==
  /\ \A t \in Threads :
       pc[t] = "counted" /\ seen[t] + hits = knobs.TrigCount =>
         g_trig_countdown = seen[t]
  /\ g_trig_countdown + hits = knobs.TrigCount =>
       executed = IF hits <= Before THEN hits ELSE Before

Reached ==
  \A t \in Threads : pc[t] \in {"activate", "remove"} => executed >= Before

(* Taint has a frame that introduces it, or the lock is held until it has, *)
(* or the trace is full.                                                   *)
HasIntro == \E i \in DOMAIN trace : trace[i] = "intro"

TaintHasIntro ==
  ~knobs.TaintEnv /\ tainted =>
    HasIntro \/ lock # NoThread \/ Len(trace) >= MaxTrace

Instrumented ==
  CacheFollowsActive /\ CompiledAlike /\ ActiveStays /\ CacheShape
    /\ TriggerInstrumented
Introduced == TaintHasIntro /\ IntroBeforeUse
Counted == CountedDown /\ NoneLost /\ Reached

IndInv == TypeOK /\ Instrumented /\ Counted /\ Introduced

-----------------------------------------------------------------------------
(* Every variable keeps its type and each lock its holder, from Init on.   *)
LEMMA TypeInit == Init => TypeOK
<1> SUFFICES ASSUME Init PROVE TypeOK
  OBVIOUS
<1>1. cache \in [Blocks -> Instrumentation]
  BY DEF Init, None, Instrumentation
<1>2. knobs \in Knobs /\ knobs.TrigCount \in Nat
  BY DEF Init, Knobs
<1>3. trace \in Seq({"intro", "use", "plain"})
  <2>1. <<>> \in Seq({"intro", "use", "plain"})
    OBVIOUS
  <2>2. <<"intro">> \in Seq({"intro", "use", "plain"})
    OBVIOUS
  <2> QED
    BY <2>1, <2>2 DEF Init
<1>4. {g_active, g_taint_introduced, firstTaint, tainted} \subseteq BOOLEAN
  BY <1>2 DEF Init, TaintEarly, Knobs
<1> QED
  BY <1>1, <1>2, <1>3, <1>4 DEF Init, TypeOK, Held, HoldsLock, HoldsVM, Places

(* One step per action. *)
LEMMA TypeNext == TypeOK /\ [Next]_vars => TypeOK'
<1> SUFFICES ASSUME TypeOK, [Next]_vars PROVE TypeOK'
  OBVIOUS
<1> USE DEF TypeOK, Held, HoldsLock, HoldsVM, Places, Move, local, code,
            flags, trigger, logs
<1>1. CASE UNCHANGED vars
  BY <1>1 DEF vars
<1>2. ASSUME NEW t \in Threads, InstrBlockHead(t) PROVE TypeOK'
  BY <1>2 DEF InstrBlockHead, Wants
<1>3. ASSUME NEW t \in Threads, InstrBlockBody(t) PROVE TypeOK'
  <2>1. cache' \in [Blocks -> Instrumentation]
    BY <1>3 DEF InstrBlockBody, Instrumentation, Knobs
  <2> QED
    BY <1>3, <2>1 DEF InstrBlockBody
<1>4. ASSUME NEW t \in Threads, RunBlock(t) PROVE TypeOK'
  BY <1>4 DEF RunBlock, Wants
<1>5. ASSUME NEW t \in Threads, AppendBuffer(t) PROVE TypeOK'
  BY <1>5 DEF AppendBuffer
<1>6. ASSUME NEW t \in Threads, CheckTrigger(t) PROVE TypeOK'
  BY <1>6 DEF CheckTrigger
<1>7. ASSUME NEW t \in Threads, CheckTriggerDone(t) PROVE TypeOK'
  <2>1. g_trig_countdown' \in Int /\ hits' \in Nat /\ executed' \in Nat
    BY <1>7 DEF CheckTriggerDone
  <2>2. UNCHANGED <<knobs, at, seen, redo, lock, vm, cache, g_active,
                    g_taint_introduced, firstTaint, tainted, trace>>
    BY <1>7 DEF CheckTriggerDone
  <2>3. /\ pc[t] = "counted"
        /\ \/ pc' = [pc EXCEPT ![t] = "activate"]
           \/ pc' = [pc EXCEPT ![t] = "app"]
    BY <1>7 DEF CheckTriggerDone
  <2>4. pc' \in [Threads -> Places] /\ Held'
    BY <2>2, <2>3
  <2> QED
    BY <2>1, <2>2, <2>4
<1>8. ASSUME NEW t \in Threads, Activate(t) PROVE TypeOK'
  BY <1>8 DEF Activate
<1>9. ASSUME NEW t \in Threads, SyscallEntry(t) PROVE TypeOK'
  BY <1>9 DEF SyscallEntry
<1>10. ASSUME NEW t \in Threads, SyscallReturn(t) PROVE TypeOK'
  BY <1>10 DEF SyscallReturn
<1>11. ASSUME NEW t \in Threads, SyscallExit(t) PROVE TypeOK'
  <2>1. trace' \in Seq({"intro", "use", "plain"}) /\ tainted' \in BOOLEAN
    <3>1. trace \in Seq({"intro", "use", "plain"}) /\ tainted \in BOOLEAN
      OBVIOUS
    <3>2. Append(trace, "intro") \in Seq({"intro", "use", "plain"})
      BY <3>1
    <3> QED
      BY <1>11, <3>1, <3>2 DEF SyscallExit, AddIntro
  <2> QED
    BY <1>11, <2>1 DEF SyscallExit
<1>12. ASSUME NEW t \in Threads, SyscallExitTaints(t) PROVE TypeOK'
  BY <1>12 DEF SyscallExitTaints
<1>13. ASSUME NEW t \in Threads, TActivate(t) PROVE TypeOK'
  BY <1>13 DEF TActivate
<1>14. ASSUME NEW t \in Threads, SyscallExitEnd(t) PROVE TypeOK'
  BY <1>14 DEF SyscallExitEnd, AddIntro
<1>15. ASSUME NEW t \in Threads, PIN_RemoveInstrumentation(t) PROVE TypeOK'
  BY <1>15 DEF PIN_RemoveInstrumentation, None, Instrumentation
<1> QED
  BY <1>1, <1>2, <1>3, <1>4, <1>5, <1>6, <1>7, <1>8, <1>9, <1>10, <1>11,
     <1>12, <1>13, <1>14, <1>15 DEF Next
-----------------------------------------------------------------------------
(* The instrumentation follows g_active. *)

(* Nothing is compiled initially.                                          *)
LEMMA InstrumentedInit == Init => Instrumented
BY DEF Init, Instrumented, CacheFollowsActive, CompiledAlike, ActiveStays,
       CacheShape, TriggerInstrumented, None

(* Only three kinds of steps matter: a block is compiled, g_active is set, *)
(* the cache is emptied.                                                   *)
LEMMA InstrumentedNext == TypeOK /\ Instrumented /\ [Next]_vars => Instrumented'
<1> SUFFICES ASSUME TypeOK, Instrumented, [Next]_vars PROVE Instrumented'
  OBVIOUS
<1> USE DEF TypeOK, Held, HoldsVM, Places, Move, local, code, flags, trigger,
            logs, Instrumented, ActiveStays, CacheShape, TriggerInstrumented,
            Activating, CacheFollowsActive, CompiledAlike, Instrumentation
<1>1. CASE UNCHANGED vars
  BY <1>1 DEF vars
<1>2. ASSUME NEW t \in Threads, InstrBlockHead(t) PROVE Instrumented'
  BY <1>2 DEF InstrBlockHead, Wants
<1>3. ASSUME NEW t \in Threads, InstrBlockBody(t) PROVE Instrumented'
  BY <1>3 DEF InstrBlockBody
<1>4. ASSUME NEW t \in Threads, RunBlock(t) PROVE Instrumented'
  BY <1>4 DEF RunBlock, Wants
<1>5. ASSUME NEW t \in Threads, AppendBuffer(t) PROVE Instrumented'
  BY <1>5 DEF AppendBuffer
<1>6. ASSUME NEW t \in Threads, CheckTrigger(t) PROVE Instrumented'
  BY <1>6 DEF CheckTrigger
<1>7. ASSUME NEW t \in Threads, CheckTriggerDone(t) PROVE Instrumented'
  BY <1>7 DEF CheckTriggerDone
<1>8. ASSUME NEW t \in Threads, Activate(t) PROVE Instrumented'
  BY <1>8 DEF Activate
<1>9. ASSUME NEW t \in Threads,
             SyscallEntry(t) \/ SyscallReturn(t) \/ SyscallExit(t)
               \/ SyscallExitTaints(t) \/ SyscallExitEnd(t)
      PROVE  Instrumented'
  BY <1>9 DEF SyscallEntry, SyscallReturn, SyscallExit, SyscallExitTaints,
              SyscallExitEnd
<1>10. ASSUME NEW t \in Threads, TActivate(t) PROVE Instrumented'
  BY <1>10 DEF TActivate
<1>11. ASSUME NEW t \in Threads, PIN_RemoveInstrumentation(t)
       PROVE  Instrumented'
  BY <1>11 DEF PIN_RemoveInstrumentation, None
<1> QED
  BY <1>1, <1>2, <1>3, <1>4, <1>5, <1>6, <1>7, <1>8, <1>9, <1>10, <1>11
     DEF Next

-----------------------------------------------------------------------------
(* The trigger. *)

(* The countdown starts at the count asked for.                            *)
LEMMA CountedInit == Init => Counted
BY DEF Init, Counted, CountedDown, LowersFor, NoneLost, Before, Reached, Knobs

(* What an execution of the trigger does to the counts. *)
LEMMA Counting ==
  ASSUME Counted, NEW t \in Threads, pc[t] = "counted",
         knobs.TrigCount \in Nat, seen \in [Threads -> Int],
         g_trig_countdown \in Int, hits \in Nat, executed \in Nat,
         pc \in [Threads -> Places],
         g_trig_countdown' = seen[t] - 1, hits' = hits + 1,
         UNCHANGED <<knobs, seen>>,
         \/ /\ seen[t] <= 1 /\ executed' = executed
            /\ pc' = [pc EXCEPT ![t] = "activate"]
         \/ /\ seen[t] > 1 /\ executed' = executed + 1
            /\ pc' = [pc EXCEPT ![t] = "app"]
  PROVE  Counted'
<1>1. PICK N \in Nat : N = knobs.TrigCount
  OBVIOUS
<1>2. seen[t] + hits >= N /\ LowersFor(seen[t])
  BY <1>1 DEF Counted, CountedDown
<1>3. /\ knobs'.TrigCount = N
      /\ Before = IF N = 0 THEN 0 ELSE N - 1
      /\ Before' = Before
  BY <1>1 DEF Before
<1>4. /\ g_trig_countdown' + hits' >= N
      /\ \/ g_trig_countdown' + executed' >= N
         \/ executed' >= N - 1
  BY <1>1, <1>2 DEF LowersFor
<1>5. ASSUME NEW u \in Threads, pc'[u] = "counted"
      PROVE  /\ seen'[u] + hits' > N
             /\ LowersFor(seen[u])'
  <2>1. pc[u] = "counted"
    BY <1>5
  <2>2. seen[u] + hits >= N /\ LowersFor(seen[u])
    BY <1>1, <2>1 DEF Counted, CountedDown
  <2>3. seen[u] \in Int /\ seen'[u] = seen[u]
    OBVIOUS
  <2> QED
    BY <1>1, <1>3, <2>2, <2>3 DEF LowersFor
<1>6. CountedDown'
  <2>1. \A u \in Threads : pc'[u] = "counted" =>
          seen'[u] + hits' >= N /\ LowersFor(seen[u])'
    <3> SUFFICES ASSUME NEW u \in Threads, pc'[u] = "counted"
                 PROVE  seen'[u] + hits' >= N /\ LowersFor(seen[u])'
      OBVIOUS
    <3>1. seen'[u] \in Int
      OBVIOUS
    <3> QED
      BY <1>5, <3>1
  <2> QED
    BY <1>3, <1>4, <2>1 DEF CountedDown, LowersFor
<1>7. ASSUME g_trig_countdown' + hits' = N
      PROVE  executed' = IF hits' <= Before THEN hits' ELSE Before
  <2>1. seen[t] \in Int /\ seen[t] + hits = N
    BY <1>7
  <2>2. g_trig_countdown = seen[t]
    BY <1>1, <2>1 DEF Counted, NoneLost
  <2>3. executed = IF hits <= Before THEN hits ELSE Before
    BY <1>1, <2>1, <2>2 DEF Counted, NoneLost
  <2> QED
    BY <1>3, <2>1, <2>3
<1>8. NoneLost'
  <2>1. ASSUME NEW u \in Threads, pc'[u] = "counted",
               seen'[u] + hits' = N
        PROVE  FALSE
    <3>1. seen'[u] \in Int
      OBVIOUS
    <3> QED
      BY <1>5, <2>1, <3>1
  <2> QED
    BY <1>3, <1>7, <2>1 DEF NoneLost
<1>9. Reached'
  <2>1. ASSUME NEW u \in Threads, pc'[u] \in {"activate", "remove"}
        PROVE  executed' >= Before
    <3>1. CASE u = t
      BY <1>2, <1>3, <2>1, <3>1, <1>1 DEF LowersFor
    <3>2. CASE u # t
      <4>1. pc[u] \in {"activate", "remove"}
        BY <2>1, <3>2
      <4>2. executed >= Before /\ executed' >= executed
        BY <4>1 DEF Counted, Reached
      <4> QED
        BY <1>3, <4>2
    <3> QED
      BY <3>1, <3>2
  <2> QED
    BY <1>3, <2>1 DEF Reached
<1> QED
  BY <1>6, <1>8, <1>9 DEF Counted

(* Every step keeps the count of triggers.                                 *)
LEMMA CountedNext == TypeOK /\ Counted /\ [Next]_vars => Counted'
<1> SUFFICES ASSUME TypeOK, Counted, [Next]_vars PROVE Counted'
  OBVIOUS
<1>0. knobs.TrigCount \in Nat
  BY DEF TypeOK, Knobs
<1> USE <1>0 DEF TypeOK, Places, Move, local, code, flags, trigger, logs,
            Counted, CountedDown, LowersFor, NoneLost, Before, Reached
<1>1. CASE UNCHANGED vars
  BY <1>1 DEF vars
<1>2. ASSUME NEW t \in Threads, CheckTrigger(t) PROVE Counted'
  BY <1>2 DEF CheckTrigger
<1>3. ASSUME NEW t \in Threads, CheckTriggerDone(t) PROVE Counted'
  <2>1. /\ pc[t] = "counted" /\ g_trig_countdown' = seen[t] - 1
        /\ hits' = hits + 1 /\ UNCHANGED <<knobs, seen>>
        /\ \/ /\ seen[t] <= 1 /\ executed' = executed
              /\ pc' = [pc EXCEPT ![t] = "activate"]
           \/ /\ seen[t] > 1 /\ executed' = executed + 1
              /\ pc' = [pc EXCEPT ![t] = "app"]
    BY <1>3 DEF CheckTriggerDone
  <2>2. /\ seen \in [Threads -> Int] /\ g_trig_countdown \in Int
        /\ hits \in Nat /\ executed \in Nat /\ pc \in [Threads -> Places]
    OBVIOUS
  <2> QED
    BY <1>0, <2>1, <2>2, Counting
<1>4. ASSUME NEW t \in Threads, Activate(t) PROVE Counted'
  BY <1>4 DEF Activate
<1>5. ASSUME NEW t \in Threads, PIN_RemoveInstrumentation(t) PROVE Counted'
  BY <1>5 DEF PIN_RemoveInstrumentation
<1>6. ASSUME NEW t \in Threads,
             InstrBlockHead(t) \/ InstrBlockBody(t) \/ RunBlock(t)
               \/ AppendBuffer(t)
      PROVE  Counted'
  BY <1>6 DEF InstrBlockHead, InstrBlockBody, RunBlock, AppendBuffer
<1>7. ASSUME NEW t \in Threads,
             SyscallEntry(t) \/ SyscallReturn(t) \/ SyscallExit(t)
               \/ SyscallExitTaints(t) \/ TActivate(t) \/ SyscallExitEnd(t)
      PROVE  Counted'
  BY <1>7 DEF SyscallEntry, SyscallReturn, SyscallExit, SyscallExitTaints,
              TActivate, SyscallExitEnd
<1> QED
  BY <1>1, <1>2, <1>3, <1>4, <1>5, <1>6, <1>7 DEF Next

-----------------------------------------------------------------------------
(* Introductions come before uses. *)

(* The trace is empty initially.                                           *)
LEMMA IntroducedInit == Init => Introduced
<1> SUFFICES ASSUME Init PROVE Introduced
  OBVIOUS
<1>1. TaintHasIntro
  BY DEF Init, TaintHasIntro, HasIntro, Knobs
<1>2. IntroBeforeUse
  BY DEF Init, IntroBeforeUse
<1> QED
  BY <1>1, <1>2 DEF Introduced

(* A frame at the end of the trace disturbs no introduction before it. *)
LEMMA Appending ==
  ASSUME TypeOK, Introduced, UNCHANGED knobs,
         NEW kind \in {"intro", "use", "plain"}, trace' = Append(trace, kind)
  PROVE  /\ HasIntro \/ kind = "intro" => HasIntro'
         /\ (kind = "use" => HasIntro \/ knobs.TaintEnv) => IntroBeforeUse'
<1>1. trace \in Seq({"intro", "use", "plain"})
  BY DEF TypeOK
<1>2. /\ Len(trace') = Len(trace) + 1
      /\ \A i \in 1..Len(trace) : trace'[i] = trace[i]
      /\ trace'[Len(trace) + 1] = kind
  BY <1>1
<1>3. HasIntro \/ kind = "intro" => HasIntro'
  BY <1>1, <1>2 DEF HasIntro
<1>4. ASSUME kind = "use" => HasIntro \/ knobs.TaintEnv PROVE IntroBeforeUse'
  <2> SUFFICES ASSUME ~knobs.TaintEnv, NEW i \in DOMAIN trace',
                      trace'[i] = "use"
               PROVE  \E j \in 1..i : trace'[j] = "intro"
    BY DEF IntroBeforeUse
  <2>1. CASE i \in DOMAIN trace
    <3>1. \E j \in 1..i : trace[j] = "intro"
      BY <1>1, <1>2, <2>1 DEF Introduced, IntroBeforeUse
    <3> QED
      BY <1>1, <1>2, <2>1, <3>1
  <2>2. CASE i = Len(trace) + 1
    BY <1>1, <1>2, <1>4, <2>2 DEF HasIntro
  <2> QED
    BY <1>1, <1>2, <2>1, <2>2
<1> QED
  BY <1>3, <1>4
(* AddIntro introduces, unless the trace is full. *)
LEMMA Adding ==
  ASSUME TypeOK, Introduced, UNCHANGED knobs, AddIntro
  PROVE  Introduced'
<1>1. CASE Len(trace) < MaxTrace
  <2>1. trace' = Append(trace, "intro")
    BY <1>1 DEF AddIntro
  <2> QED
    BY <2>1, Appending DEF Introduced, TaintHasIntro
<1>2. CASE ~(Len(trace) < MaxTrace)
  <2>1. trace' = trace /\ Len(trace) >= MaxTrace
    BY <1>2 DEF AddIntro, TypeOK
  <2> QED
    BY <2>1 DEF Introduced, TaintHasIntro, IntroBeforeUse
<1> QED
  BY <1>1, <1>2

(* Every step keeps taint introduced or unused.                            *)
LEMMA IntroducedNext == TypeOK /\ Introduced /\ [Next]_vars => Introduced'
<1> SUFFICES ASSUME TypeOK, Introduced, [Next]_vars PROVE Introduced'
  OBVIOUS
<1> USE DEF local, code, flags, trigger, logs, Move
<1>1. ASSUME UNCHANGED <<knobs, tainted, trace>>,
             lock' = lock \/ lock' # NoThread
      PROVE  Introduced'
  BY <1>1 DEF Introduced, TaintHasIntro, HasIntro, IntroBeforeUse
<1>2. CASE UNCHANGED vars
  BY <1>1, <1>2 DEF vars
<1>3. ASSUME NEW t \in Threads, AppendBuffer(t) PROVE Introduced'
  <2>1. PICK has_taint \in BOOLEAN :
          /\ lock = NoThread /\ lock' = lock
          /\ has_taint => tainted
          /\ UNCHANGED <<knobs, tainted>>
          /\ \/ trace' = trace
             \/ /\ Len(trace) < MaxTrace
                /\ trace' = Append(trace, IF has_taint THEN "use" ELSE "plain")
    BY <1>3 DEF AppendBuffer
  <2>2. CASE trace' = trace
    BY <1>1, <2>1, <2>2
  <2>3. CASE /\ Len(trace) < MaxTrace
             /\ trace' = Append(trace, IF has_taint THEN "use" ELSE "plain")
    <3>1. ~knobs.TaintEnv /\ tainted => HasIntro
      BY <2>1, <2>3 DEF Introduced, TaintHasIntro, TypeOK
    <3>2. IntroBeforeUse' /\ (HasIntro => HasIntro')
      BY <2>1, <2>3, <3>1, Appending
    <3> QED
      BY <2>1, <3>1, <3>2 DEF Introduced, TaintHasIntro
  <2> QED
    BY <2>1, <2>2, <2>3
<1>4. ASSUME NEW t \in Threads, SyscallExit(t) PROVE Introduced'
  BY <1>1, <1>4, Adding DEF SyscallExit
<1>5. ASSUME NEW t \in Threads, SyscallExitTaints(t) PROVE Introduced'
  <2>1. UNCHANGED <<knobs, trace>> /\ lock' # NoThread
    BY <1>5 DEF SyscallExitTaints
  <2> QED
    BY <2>1 DEF Introduced, TaintHasIntro, IntroBeforeUse
<1>6. ASSUME NEW t \in Threads, SyscallExitEnd(t) PROVE Introduced'
  BY <1>6, Adding DEF SyscallExitEnd
<1>7. ASSUME NEW t \in Threads,
             InstrBlockHead(t) \/ InstrBlockBody(t) \/ RunBlock(t)
               \/ CheckTrigger(t) \/ CheckTriggerDone(t) \/ Activate(t)
      PROVE  Introduced'
  BY <1>1, <1>7 DEF InstrBlockHead, InstrBlockBody, RunBlock, CheckTrigger,
                    CheckTriggerDone, Activate
<1>8. ASSUME NEW t \in Threads,
             SyscallEntry(t) \/ SyscallReturn(t) \/ TActivate(t)
               \/ PIN_RemoveInstrumentation(t)
      PROVE  Introduced'
  BY <1>1, <1>8 DEF SyscallEntry, SyscallReturn, TActivate,
                    PIN_RemoveInstrumentation
<1> QED
  BY <1>2, <1>3, <1>4, <1>5, <1>6, <1>7, <1>8 DEF Next

-----------------------------------------------------------------------------
(* All parts of the invariant hold together.                               *)
LEMMA Invariant == Spec => []IndInv
<1>1. Init => IndInv
  BY TypeInit, InstrumentedInit, CountedInit, IntroducedInit DEF IndInv
<1>2. IndInv /\ [Next]_vars => IndInv'
  BY TypeNext, InstrumentedNext, CountedNext, IntroducedNext DEF IndInv
<1> QED
  BY <1>1, <1>2, PTL DEF Spec

(* Types, and the locks: the lock is held by the one thread between        *)
(* SyscallExit's tainting and its frame, the VM lock by the one compiling. *)
THEOREM TypeCorrect == Spec => []TypeOK
<1>1. IndInv => TypeOK
  BY DEF IndInv
<1> QED
  BY <1>1, Invariant, PTL

(* Compiled code is instrumented as g_active says, although InstrBlock     *)
(* reads it twice and any thread may set it in between.                    *)
THEOREM CacheTheorem == Spec => []CacheFollowsActive
<1>1. IndInv => CacheFollowsActive
  BY DEF IndInv, Instrumented
<1> QED
  BY <1>1, Invariant, PTL

(* The thread that is sent back to the trigger finds it instrumented.      *)
THEOREM TriggerTheorem == Spec => []TriggerInstrumented
<1>1. IndInv => TriggerInstrumented
  BY DEF IndInv, Instrumented
<1> QED
  BY <1>1, Invariant, PTL

(* Activation comes at the head of the trig_count-th execution when no     *)
(* decrement is lost, later when some are, and never sooner.               *)
THEOREM TriggerCountTheorem == Spec => []TriggerAtCount
<1>1. IndInv => TriggerAtCount
  <2> SUFFICES ASSUME IndInv, NEW t \in Threads,
                      pc[t] \in {"activate", "remove"}
               PROVE  /\ executed >= Before
                      /\ g_trig_countdown + hits = knobs.TrigCount =>
                           executed = Before
    BY DEF TriggerAtCount
  <2>1. executed >= Before
    BY DEF IndInv, Counted, Reached
  <2>2. /\ knobs.TrigCount \in Nat /\ hits \in Nat /\ executed \in Nat
        /\ Before \in Nat
    <3>1. knobs \in Knobs /\ hits \in Nat /\ executed \in Nat
      BY DEF IndInv, TypeOK
    <3>2. knobs.TrigCount \in Nat
      BY <3>1 DEF Knobs
    <3> QED
      BY <3>1, <3>2 DEF Before
  <2>3. g_trig_countdown + hits = knobs.TrigCount =>
          executed = IF hits <= Before THEN hits ELSE Before
    BY DEF IndInv, Counted, NoneLost
  <2> QED
    <3> DEFINE N == knobs.TrigCount
               B == Before
    <3>1. ASSUME g_trig_countdown + hits = N PROVE executed = B
      <4>1. executed = IF hits <= B THEN hits ELSE B
        BY <2>3, <3>1
      <4>2. executed >= B /\ B \in Nat
        BY <2>1, <2>2
      <4> HIDE DEF B, N
      <4> QED
        BY <2>2, <4>1, <4>2
    <3> QED
      BY <2>1, <3>1
<1> QED
  BY <1>1, Invariant, PTL

(* The trace introduces taint before instructions use it.                  *)
THEOREM IntroTheorem == Spec => []IntroBeforeUse
<1>1. IndInv => IntroBeforeUse
  BY DEF IndInv, Introduced
<1> QED
  BY <1>1, Invariant, PTL
=============================================================================
