---------------------------- MODULE Activation -----------------------------
(***************************************************************************)
(* How gentrace.cpp starts logging: by the trigger address (CheckTrigger,  *)
(* Activate) or by the first tainted bytes of a system call (SyscallExit,  *)
(* TActivate).  Code is instrumented when PIN first compiles it, according *)
(* to g_active at that moment, and PIN_RemoveInstrumentation makes PIN     *)
(* compile it again.  PIN is modelled from what gentrace.cpp says of it:   *)
(* PIN_RemoveInstrumentation "obtains the VM lock, which is only possible  *)
(* when no analysis functions/etc are executing".  This is the Unix tool.  *)
(***************************************************************************)
EXTENDS Integers, Sequences

CONSTANTS
  Threads,
  NoThread,      \* the value of a lock nobody holds
  Blocks,        \* the blocks of the traced program
  TrigBlock,     \* the block that begins at g_trig_addr
  TrigCounts,    \* the values of -trig_count
  MaxTrace,      \* bound: length of the trace before nothing more is logged
  MaxHits        \* bound: executions of the trigger

ASSUME ActivationAssumption ==
  /\ NoThread \notin Threads
  /\ TrigBlock \in Blocks
  /\ TrigCounts \subseteq Nat /\ MaxTrace \in Nat /\ MaxHits \in Nat

VARIABLES
  knobs,      \* the command line, never changed
  pc,
  at,         \* at[t]: the block t runs or compiles
  seen,       \* seen[t]: the countdown CheckTrigger has loaded
  redo,       \* threads sent back to TrigBlock by PIN_ExecuteAt
  lock,       \* the tool's PIN_LOCK
  vm,         \* PIN's VM lock
  cache,      \* how each block is instrumented
  g_active, g_taint_introduced, g_trig_countdown, firstTaint,
  tainted,    \* some memory of the program is tainted
  hits,       \* completed calls of CheckTrigger
  executed,   \* executions of the trigger that CheckTrigger has let pass
  trace       \* "intro", "use" (of taint) and "plain" frames, in order

(* -trig_addr is given, and -trig_count; -taint-args; -taint-env;          *)
(* -logall-before; -logall-after.                                          *)
Knobs ==
  [UseTrigger : BOOLEAN, TrigCount : TrigCounts,
   TaintArgs : BOOLEAN, TaintEnv : BOOLEAN,
   LogAllBefore : BOOLEAN, LogAllAfter : BOOLEAN]

local == <<at, seen, redo>>
code == <<vm, cache>>
flags == <<g_active, g_taint_introduced>>
trigger == <<g_trig_countdown, hits, executed>>
logs == <<firstTaint, tainted, trace>>
vars == <<knobs, pc, local, lock, code, flags, trigger, logs>>

(* How a block is compiled: with CheckBuffer, AppendBuffer, CheckTrigger. *)
Instrumentation ==
  [compiled : BOOLEAN, check : BOOLEAN, append : BOOLEAN, trig : BOOLEAN]
None == [compiled |-> FALSE, check |-> FALSE, append |-> FALSE, trig |-> FALSE]

Move(t, p) == pc' = [pc EXCEPT ![t] = p]

TaintEarly == knobs.TaintArgs \/ knobs.TaintEnv

(* main: with a trigger nothing is active at first.  The first ThreadStart *)
(* then taints the arguments and the variable that are there; taintEnv     *)
(* returns no frame for the variable.                                      *)
Init ==
  /\ knobs \in Knobs
  /\ pc = [t \in Threads |-> "app"]
  /\ at = [t \in Threads |-> TrigBlock]
  /\ seen = [t \in Threads |-> 0]
  /\ redo = {}
  /\ lock = NoThread
  /\ vm = NoThread
  /\ cache = [b \in Blocks |-> None]
  /\ g_taint_introduced = TaintEarly
  /\ g_active = (~knobs.UseTrigger /\ (TaintEarly \/ knobs.LogAllBefore))
  /\ g_trig_countdown = knobs.TrigCount
  /\ firstTaint = TRUE
  /\ \E args, env \in BOOLEAN :
       /\ args => knobs.TaintArgs
       /\ env => knobs.TaintEnv
       /\ tainted = (args \/ env)
       /\ trace = IF args THEN <<"intro">> ELSE <<>>
  /\ hits = 0
  /\ executed = 0

-----------------------------------------------------------------------------
(* Compilation and execution of blocks. *)

Wants(t, b) == pc[t] = "app" /\ (t \in redo => b = TrigBlock)

(* InstrBlock reads g_active at the head of the block, for CheckBuffer ... *)
InstrBlockHead(t) ==
  /\ vm = NoThread
  /\ \E b \in Blocks :
       /\ Wants(t, b) /\ ~cache[b].compiled
       /\ at' = [at EXCEPT ![t] = b]
  /\ vm' = t
  /\ Move(t, IF g_active THEN "checked" ELSE "unchecked")
  /\ UNCHANGED <<knobs, seen, redo, lock, cache, flags, trigger, logs>>

(* ... and again at each instruction, for AppendBuffer or CheckTrigger.    *)
InstrBlockBody(t) ==
  /\ pc[t] \in {"checked", "unchecked"}
  /\ cache' = [cache EXCEPT ![at[t]] =
                 [compiled |-> TRUE,
                  check |-> pc[t] = "checked",
                  append |-> g_active,
                  trig |-> /\ ~g_active
                           /\ knobs.UseTrigger /\ at[t] = TrigBlock]]
  /\ vm' = NoThread
  /\ Move(t, "app")
  /\ UNCHANGED <<knobs, local, lock, flags, trigger, logs>>

(* A thread runs a compiled block, up to the first call of the tool. *)
RunBlock(t) ==
  \E b \in Blocks :
    /\ Wants(t, b)
    /\ cache[b].trig \/ cache[b].append
    /\ at' = [at EXCEPT ![t] = b]
    /\ Move(t, IF cache[b].trig THEN "trig" ELSE "append")
    /\ UNCHANGED <<knobs, seen, redo, lock, code, flags, trigger, logs>>

(* AppendBuffer, once it has the lock: the instruction is logged when it   *)
(* uses taint or when everything is.                                       *)
AppendBuffer(t) ==
  /\ pc[t] = "append" /\ lock = NoThread
  /\ \E has_taint \in BOOLEAN :
       LET log_all == knobs.LogAllBefore \/ (knobs.LogAllAfter /\ ~firstTaint)
           logged == (log_all \/ has_taint) /\ Len(trace) < MaxTrace
       IN  /\ has_taint => tainted
           /\ trace' = IF logged
                       THEN Append(trace, IF has_taint THEN "use" ELSE "plain")
                       ELSE trace
           /\ firstTaint' = (firstTaint /\ ~has_taint)
  /\ redo' = redo \ {t}
  /\ Move(t, "app")
  /\ UNCHANGED <<knobs, at, seen, lock, code, flags, trigger, tainted>>

-----------------------------------------------------------------------------
(* The trigger.  "--g_trig_countdown <= 0" is a load and a store, and no   *)
(* lock is taken.  CheckTrigger is called before the trigger executes: the *)
(* execution it ends at is not completed, PIN_ExecuteAt begins it again.   *)

CheckTrigger(t) ==
  /\ pc[t] = "trig"
  /\ seen' = [seen EXCEPT ![t] = g_trig_countdown]
  /\ Move(t, "counted")
  /\ UNCHANGED <<knobs, at, redo, lock, code, flags, trigger, logs>>

(* Mutant: the countdown is decremented after the comparison. *)
CheckTriggerDonePostfix(t) ==
  /\ pc[t] = "counted" /\ hits < MaxHits
  /\ g_trig_countdown' = seen[t] - 1
  /\ hits' = hits + 1
  /\ IF seen[t] <= 0
     THEN Move(t, "activate") /\ UNCHANGED executed
     ELSE Move(t, "app") /\ executed' = executed + 1
  /\ UNCHANGED <<knobs, local, lock, code, flags, logs>>

CheckTriggerDone(t) ==
  /\ pc[t] = "counted" /\ hits < MaxHits
  /\ g_trig_countdown' = seen[t] - 1
  /\ hits' = hits + 1
  /\ IF seen[t] - 1 <= 0
     THEN Move(t, "activate") /\ UNCHANGED executed
     ELSE Move(t, "app") /\ executed' = executed + 1
  /\ UNCHANGED <<knobs, local, lock, code, flags, logs>>

(* Mutant: the instrumentation is removed, but g_active is not set. *)
ActivateInactive(t) ==
  /\ pc[t] = "activate"
  /\ Move(t, "remove")
  /\ UNCHANGED <<knobs, local, lock, code, flags, trigger, logs>>

Activate(t) ==
  /\ pc[t] = "activate"
  /\ g_active' = TRUE
  /\ Move(t, "remove")
  /\ UNCHANGED <<knobs, local, lock, code, g_taint_introduced, trigger, logs>>

-----------------------------------------------------------------------------
(* System calls. *)

SyscallEntry(t) ==
  /\ pc[t] = "app" /\ t \notin redo /\ lock = NoThread
  /\ Move(t, "kernel")
  /\ UNCHANGED <<knobs, local, lock, code, flags, trigger, logs>>

SyscallReturn(t) ==
  /\ pc[t] = "kernel"
  /\ Move(t, "sysexit")
  /\ UNCHANGED <<knobs, local, lock, code, flags, trigger, logs>>

AddIntro == trace' = IF Len(trace) < MaxTrace THEN Append(trace, "intro")
                                              ELSE trace

(* taintPostSC has tainted nothing, or has and taint is not new. *)
SyscallExit(t) ==
  /\ pc[t] = "sysexit" /\ lock = NoThread
  /\ \/ UNCHANGED <<tainted, trace>>
     \/ g_taint_introduced /\ tainted' = TRUE /\ AddIntro
  /\ Move(t, "app")
  /\ UNCHANGED <<knobs, local, lock, code, flags, trigger, firstTaint>>

(* Mutant: the lock is released for TActivate, as AfterRecv does. *)
SyscallExitTaintsUnlocked(t) ==
  /\ pc[t] = "sysexit" /\ lock = NoThread
  /\ ~g_taint_introduced
  /\ tainted' = TRUE
  /\ Move(t, "tactivate")
  /\ UNCHANGED <<knobs, local, lock, code, flags, trigger, firstTaint, trace>>

(* The first tainted bytes: TActivate is called with the lock held ... *)
SyscallExitTaints(t) ==
  /\ pc[t] = "sysexit" /\ lock = NoThread
  /\ ~g_taint_introduced
  /\ tainted' = TRUE
  /\ lock' = t
  /\ Move(t, "tactivate")
  /\ UNCHANGED <<knobs, local, code, flags, trigger, firstTaint, trace>>

TActivate(t) ==
  /\ pc[t] = "tactivate"
  /\ g_active' = TRUE
  /\ g_taint_introduced' = TRUE
  /\ Move(t, "tremove")
  /\ UNCHANGED <<knobs, local, lock, code, trigger, logs>>

(* ... and the frame of the call is added when it has returned. *)
SyscallExitEnd(t) ==
  /\ pc[t] = "addintro"
  /\ AddIntro
  /\ lock' = NoThread
  /\ Move(t, "app")
  /\ UNCHANGED <<knobs, local, code, flags, trigger, firstTaint, tainted>>

(* PIN_RemoveInstrumentation waits for the VM lock, and so for every       *)
(* thread that is in a routine of the tool, itself waiting or not.         *)
InTool == {"append", "trig", "counted", "activate", "sysexit"}

(* Mutant: only the block of the trigger is compiled again. *)
RemoveTrigBlock(t) ==
  /\ pc[t] \in {"remove", "tremove"}
  /\ vm = NoThread
  /\ \A u \in Threads \ {t} : pc[u] \notin InTool
  /\ cache' = [cache EXCEPT ![TrigBlock] = None]
  /\ redo' = IF pc[t] = "remove" THEN redo \union {t} ELSE redo
  /\ Move(t, IF pc[t] = "remove" THEN "app" ELSE "addintro")
  /\ UNCHANGED <<knobs, at, seen, lock, vm, flags, trigger, logs>>

PIN_RemoveInstrumentation(t) ==
  /\ pc[t] \in {"remove", "tremove"}
  /\ vm = NoThread
  /\ \A u \in Threads \ {t} : pc[u] \notin InTool
  /\ cache' = [b \in Blocks |-> None]
  /\ redo' = IF pc[t] = "remove" THEN redo \union {t} ELSE redo
  /\ Move(t, IF pc[t] = "remove" THEN "app" ELSE "addintro")
  /\ UNCHANGED <<knobs, at, seen, lock, vm, flags, trigger, logs>>

Next ==
  \E t \in Threads :
    \/ InstrBlockHead(t) \/ InstrBlockBody(t) \/ RunBlock(t)
    \/ AppendBuffer(t) \/ CheckTrigger(t) \/ CheckTriggerDone(t) \/ Activate(t)
    \/ SyscallEntry(t) \/ SyscallReturn(t) \/ SyscallExit(t)
    \/ SyscallExitTaints(t) \/ TActivate(t) \/ SyscallExitEnd(t)
    \/ PIN_RemoveInstrumentation(t)

Spec == Init /\ [][Next]_vars

-----------------------------------------------------------------------------
(* Properties. *)

Places ==
  {"app", "checked", "unchecked", "append", "trig", "counted", "activate",
   "remove", "kernel", "sysexit", "tactivate", "tremove", "addintro"}

(* The locks are held by the thread whose place says so, and no other. *)
HoldsLock == {"tactivate", "tremove", "addintro"}
HoldsVM == {"checked", "unchecked"}

Held ==
  \A t \in Threads : /\ lock = t <=> pc[t] \in HoldsLock
                     /\ vm = t <=> pc[t] \in HoldsVM

TypeOK ==
  /\ Held
  /\ knobs \in Knobs
  /\ pc \in [Threads -> Places]
  /\ at \in [Threads -> Blocks]
  /\ seen \in [Threads -> Int]
  /\ redo \subseteq Threads
  /\ lock \in Threads \union {NoThread}
  /\ vm \in Threads \union {NoThread}
  /\ cache \in [Blocks -> Instrumentation]
  /\ {g_active, g_taint_introduced, firstTaint, tainted} \subseteq BOOLEAN
  /\ g_trig_countdown \in Int
  /\ hits \in Nat /\ executed \in Nat
  /\ trace \in Seq({"intro", "use", "plain"})

(* Between activations all compiled code is instrumented as g_active says: *)
(* no block keeps running without AppendBuffer after logging is activated, *)
(* and none has AppendBuffer without CheckBuffer although InstrBlock reads *)
(* g_active several times without a lock.                                  *)
Activating == \E t \in Threads : pc[t] \in {"remove", "tremove"}

CacheFollowsActive ==
  ~Activating =>
    \A b \in Blocks : cache[b].compiled =>
      cache[b].append = g_active /\ cache[b].check = g_active

(* "Number of times trigger will be executed before activating": the code  *)
(* activates one execution sooner, at the head of the trig_count-th, when  *)
(* trig_count - 1 are completed (none for 0 and 1).  Threads that count at *)
(* once can lose decrements, and then it is later, but never sooner.       *)
Before == IF knobs.TrigCount = 0 THEN 0 ELSE knobs.TrigCount - 1

TriggerAtCount ==
  \A t \in Threads : pc[t] \in {"activate", "remove"} =>
    /\ executed >= Before
    /\ g_trig_countdown + hits = knobs.TrigCount => executed = Before

(* The trigger instruction itself is logged: the thread that PIN_ExecuteAt *)
(* sends back to it finds it compiled with AppendBuffer.                   *)
TriggerInstrumented ==
  \A t \in redo : /\ pc[t] # "trig"
                  /\ cache[TrigBlock].compiled => cache[TrigBlock].append

(* In the trace, the frame that introduces taint comes before every        *)
(* instruction that uses taint; with -taint-env it is missing.             *)
IntroBeforeUse ==
  ~knobs.TaintEnv => \A i \in DOMAIN trace : trace[i] = "use" =>
    \E j \in 1..i : trace[j] = "intro"

(* "It's important to NOT hold locks when calling this function ... this   *)
(* will cause a deadlock": no thread waits for the VM lock while another,  *)
(* in a routine of the tool, waits for the lock the first one holds.       *)
NoCircularWait ==
  \A t, u \in Threads :
    pc[t] = "tremove" /\ lock = t => pc[u] \notin {"append", "sysexit"}

(* "No logging will occur until execution reaches this address." *)
NothingBeforeTrigger ==
  knobs.UseTrigger /\ hits = 0 => \A i \in DOMAIN trace : trace[i] = "intro"
=============================================================================
