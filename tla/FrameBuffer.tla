---------------------------- MODULE FrameBuffer ----------------------------
(***************************************************************************)
(* gentrace.cpp's trace buffer: the analysis routines and callbacks of the *)
(* traced program's threads fill the array g_buffer, flush it to the trace *)
(* container and, when a stop condition holds, finish the container and    *)
(* leave the process.                                                      *)
(*                                                                         *)
(* Every routine that takes the PIN lock "lock" touches shared state only  *)
(* while it holds it, so the body of a routine is one step, enabled when   *)
(* the lock is free; "lock" keeps a value only after a routine that leaves *)
(* the process without releasing it.  The reads that the code makes        *)
(* outside the lock (CheckBuffer, CheckBufferEx, PostInstruction, Cleanup  *)
(* from Fini and FollowExec) are steps of their own.                       *)
(***************************************************************************)
EXTENDS Integers, Sequences, FiniteSets

CONSTANTS
  Threads,         \* application threads
  NoThread,        \* the value of lock when no thread holds it
  BufferSize,      \* BUFFER_SIZE
  Fudge,           \* FUDGE
  Word,            \* 2^32: g_bufidx and the counts are 32 bits wide
  KeyframeFreq,    \* KEYFRAME_FREQ
  LogLimit,        \* -log-limit, 0 for none
  LogKeyFrames,    \* -log-key-frames
  LogAllSyscalls,  \* -log-syscalls
  LogOneAfter,     \* -logone-after
  SEHMode,         \* -seh-mode
  MaxBlock,        \* longest basic block; InstrBlock asserts <= BUFFER_SIZE
  MaxRep,          \* largest REP count register value
  MaxFrames,       \* bound: frames in the trace before threads stop adding
  MaxMods          \* bound: images loaded

ASSUME ThreadsAssumption == NoThread \notin Threads /\ IsFiniteSet(Threads)

ASSUME SizesAssumption ==
  /\ BufferSize \in Nat \ {0} /\ Fudge \in Nat /\ Fudge < BufferSize
  /\ KeyframeFreq \in Nat \ {0}
  /\ LogLimit \in Nat
  /\ MaxBlock \in 1..BufferSize
  /\ MaxRep \in Nat
  /\ MaxFrames \in Nat /\ MaxMods \in Nat
  /\ Word \in Nat /\ BufferSize + MaxBlock < Word

ASSUME KnobsAssumption ==
  {LogKeyFrames, LogAllSyscalls, LogOneAfter, SEHMode} \subseteq BOOLEAN

VARIABLES
  pc,           \* where each thread is, see Places
  lock,         \* the thread that leaves the process holding the lock
  left,         \* insLeft: block instructions not yet appended
  rep,          \* iterations left of the REP instruction being executed
  redo,         \* "next": PostInstruction has set the thread's instruction
                \* pointer back; "lost": a signal came before it ran again
  issued,       \* number of the last frame made from each thread's steps
  g_buffer,     \* the first g_bufidx elements of g_buffer
  out,          \* frames added to the container g_twnew
  g_logcount, g_kfcount, g_exit_next,
  status        \* "running", or what ended the process

threadVars == <<left, rep, redo>>
vars == <<pc, lock, left, rep, redo, issued, g_buffer, out,
          g_logcount, g_kfcount, g_exit_next, status>>

(* Cleanup is about to finish the container: "execdone" and "fini" come    *)
(* there without the lock.                                                 *)
LockedExits == {"limit", "smash", "exitnext", "signal"}
ExitPoints == LockedExits \union {"execdone", "fini"}

Places ==
  {"new", "app",          \* not started; running code between blocks
   "flush", "repflush",   \* about to call FlushBuffer, as the check asked
   "block",               \* inside an instrumented block
   "post",                \* about to call PostInstruction
   "kernel",              \* between SyscallEntry and SyscallExit
   "done", "gone"}        \* ended; the process has exited
  \union ExitPoints

g_bufidx == Len(g_buffer)

Kinds == {"std", "sys", "intro", "exc", "mod", "key"}
Frames == [kind : Kinds, tid : Threads, n : Nat]

(* Module and key frames are not part of a thread's instruction history:   *)
(* they have number 0.                                                     *)
Numbered(kind, t) == [kind |-> kind, tid |-> t, n |-> issued[t] + 1]
Unnumbered(kind, t) == [kind |-> kind, tid |-> t, n |-> 0]

CanIssue == Len(out) + g_bufidx < MaxFrames
Issue(t, did) ==
  issued' = IF did THEN [issued EXCEPT ![t] = @ + 1] ELSE issued

-----------------------------------------------------------------------------
Init ==
  /\ pc = [t \in Threads |-> "new"]
  /\ lock = NoThread
  /\ left = [t \in Threads |-> 0]
  /\ rep = [t \in Threads |-> 0]
  /\ redo = [t \in Threads |-> "no"]
  /\ issued = [t \in Threads |-> 0]
  /\ g_buffer = <<>>
  /\ out = <<>>
  /\ g_logcount = 0
  /\ g_kfcount = 0
  /\ g_exit_next = FALSE
  /\ status = "running"

(* The routine of t ends by releasing the lock, or by leaving the process  *)
(* with it ("Never release lock").                                         *)
Release(t, next) == pc' = [pc EXCEPT ![t] = next] /\ UNCHANGED lock
Quit(t, why) == pc' = [pc EXCEPT ![t] = why] /\ lock' = t

Leave(t) ==
  /\ left' = [left EXCEPT ![t] = 0]
  /\ rep' = [rep EXCEPT ![t] = 0]

-----------------------------------------------------------------------------
(* FlushBuffer and FlushInstructions: buf is the buffer they find, after   *)
(* the frames their caller adds once they return.                          *)

KeyframeDue(n, addKeyframe) ==
  addKeyframe /\ LogKeyFrames /\ g_kfcount + n >= KeyframeFreq

LimitReached(n) == LogLimit # 0 /\ g_logcount + n >= LogLimit

(* Mutant: a key frame counts as an instruction. *)
FlushCountsKeyframe(t, buf, addKeyframe) ==
  LET due == KeyframeDue(Len(buf), addKeyframe)
  IN  /\ g_buffer' = <<>>
      /\ g_logcount' = g_logcount + Len(buf) + (IF due THEN 1 ELSE 0)
      /\ g_kfcount' = IF due THEN 0 ELSE g_kfcount + Len(buf)

(* Mutant: g_kfcount is not reset by a key frame. *)
FlushKeepsCount(t, buf, addKeyframe) ==
  /\ g_buffer' = <<>>
  /\ g_logcount' = g_logcount + Len(buf)
  /\ g_kfcount' = g_kfcount + Len(buf)

FlushInstructions(t, buf, addKeyframe) ==
  LET due == KeyframeDue(Len(buf), addKeyframe)
  IN  /\ g_buffer' = <<>>
      /\ g_logcount' = g_logcount + Len(buf)
      /\ g_kfcount' = IF due THEN 0 ELSE g_kfcount + Len(buf)

Written(t, buf, addKeyframe) ==
  buf \o (IF KeyframeDue(Len(buf), addKeyframe)
          THEN <<Unnumbered("key", t)>> ELSE <<>>)

(* Mutant: the caller adds its frame before it flushes. *)
FlushBufferLate(t, buf, addKeyframe, after) ==
  /\ FlushInstructions(t, buf, addKeyframe)
  /\ out' = out \o (IF LimitReached(Len(buf)) THEN <<>> ELSE after)
                \o Written(t, buf, addKeyframe)

FlushBuffer(t, buf, addKeyframe, after) ==
  /\ FlushInstructions(t, buf, addKeyframe)
  /\ out' = out \o Written(t, buf, addKeyframe)
                \o (IF LimitReached(Len(buf)) THEN <<>> ELSE after)

(* Mutant: the lock is released before the process is left. *)
ReturnReleased(t, buf, next) ==
  Release(t, IF LimitReached(Len(buf)) THEN "limit" ELSE next)

(* FlushBuffer does not return when the log limit is reached. *)
Return(t, buf, next) ==
  IF LimitReached(Len(buf)) THEN Quit(t, "limit") ELSE Release(t, next)

NoFlush == UNCHANGED <<g_buffer, out, g_logcount, g_kfcount>>

-----------------------------------------------------------------------------
(* Basic blocks and REP instructions, as InstrBlock instruments them. *)

(* Mutant: no room is kept for the block that follows. *)
CheckBufferNoMargin(count) == g_bufidx % Word >= BufferSize

CheckBuffer(count) == (g_bufidx + count) % Word >= BufferSize - Fudge

CheckBufferEx(count, count2) ==
  (g_bufidx + count + count2) % Word >= BufferSize - Fudge

(* A block of n instructions begins: CheckBuffer decides, without the      *)
(* lock, whether FlushBuffer is called first.                              *)
EnterBlock(t) ==
  /\ pc[t] = "app"
  /\ \E n \in 1..MaxBlock :
       /\ left' = [left EXCEPT ![t] = n]
       /\ pc' = [pc EXCEPT ![t] = IF CheckBuffer(n) THEN "flush" ELSE "block"]
  /\ NoFlush
  /\ UNCHANGED <<lock, rep, redo, issued, g_exit_next, status>>

(* Mutant: REP instructions are taken for single ones. *)
EnterRepUnchecked(t) ==
  /\ pc[t] = "block" /\ rep[t] = 0
  /\ \E c \in 1..MaxRep : rep' = [rep EXCEPT ![t] = c]
  /\ NoFlush
  /\ UNCHANGED <<pc, lock, left, redo, issued, g_exit_next, status>>

(* The first iteration of a REP instruction whose count register holds c. *)
EnterRep(t) ==
  /\ pc[t] = "block" /\ rep[t] = 0
  /\ \E c \in 1..MaxRep :
       /\ rep' = [rep EXCEPT ![t] = c]
       /\ pc' = [pc EXCEPT ![t] =
                   IF CheckBufferEx(c, left[t]) THEN "repflush" ELSE "block"]
  /\ NoFlush
  /\ UNCHANGED <<lock, left, redo, issued, g_exit_next, status>>

(* The FlushBuffer calls inserted by InstrBlock: only the one at the head  *)
(* of a block may add a key frame.                                         *)
FlushForBlock(t) ==
  /\ pc[t] \in {"flush", "repflush"} /\ lock = NoThread
  /\ FlushBuffer(t, g_buffer, pc[t] = "flush", <<>>)
  /\ Return(t, g_buffer, "block")
  /\ IF LimitReached(g_bufidx) THEN Leave(t) ELSE UNCHANGED <<left, rep>>
  /\ UNCHANGED <<redo, issued, g_exit_next, status>>

(* The rest of the block is not instrumented (prefetch, MMX, FCMOV), or    *)
(* the block is left by its last instruction.                              *)
LeaveBlock(t) ==
  /\ pc[t] = "block" /\ rep[t] = 0
  /\ pc' = [pc EXCEPT ![t] = "app"]
  /\ left' = [left EXCEPT ![t] = 0]
  /\ NoFlush
  /\ UNCHANGED <<lock, rep, redo, issued, g_exit_next, status>>

(* The instruction of t has been through AppendBuffer: the next iteration  *)
(* or instruction of the block follows.                                    *)
Advance(t, next) ==
  LET last == rep[t] <= 1 /\ left[t] = 1
  IN  /\ rep' = [rep EXCEPT ![t] = IF @ > 1 THEN @ - 1 ELSE 0]
      /\ left' = [left EXCEPT ![t] = IF rep[t] > 1 THEN @ ELSE @ - 1]
      /\ Release(t, IF last THEN "app" ELSE next)

(* The test at the end of a REP instruction (REPE CMPS, REPNE SCAS) stops  *)
(* it before its count register is zero.                                   *)
StopRep(t) ==
  /\ pc[t] = "block" /\ rep[t] > 0
  /\ rep' = [rep EXCEPT ![t] = 0]
  /\ left' = [left EXCEPT ![t] = @ - 1]
  /\ pc' = [pc EXCEPT ![t] = IF left[t] = 1 THEN "app" ELSE "block"]
  /\ NoFlush
  /\ UNCHANGED <<lock, redo, issued, g_exit_next, status>>

-----------------------------------------------------------------------------
(* AppendBuffer.  "logged" stands for (log_all || has_taint) && log_addr,  *)
(* "abort" for a taint check that fails.                                   *)

AfterAppend(t, logged) ==
  IF logged THEN Append(g_buffer, Numbered("std", t)) ELSE g_buffer

Rerun(t) == redo' = [redo EXCEPT ![t] = IF @ = "next" THEN "no" ELSE @]

InAppendBuffer(t, logged) ==
  /\ pc[t] = "block" /\ lock = NoThread
  /\ logged => CanIssue

(* Mutant: the assertion admits one instruction too many. *)
HasRoomForOneMore(logged) == logged => g_bufidx <= BufferSize

HasRoom(logged) == logged => g_bufidx < BufferSize

(* The instruction has been recorded, or skipped, and the thread goes on.  *)
AppendAndGoOn(t) ==
  \E logged \in BOOLEAN :
    /\ InAppendBuffer(t, logged)
    /\ HasRoom(logged)
    /\ ~g_exit_next
    /\ g_buffer' = AfterAppend(t, logged)
    /\ Issue(t, logged)
    /\ Advance(t, "block")
    /\ UNCHANGED <<redo, out, g_logcount, g_kfcount, g_exit_next, status>>

(* The same for an instruction outside [taint-start, taint-end] under      *)
(* -logone-after: PostInstruction is called once it has executed.          *)
AppendLastOne(t) ==
  /\ LogOneAfter /\ rep[t] <= 1
  /\ \E logged \in BOOLEAN :
       /\ InAppendBuffer(t, logged)
       /\ HasRoom(logged)
       /\ ~g_exit_next
       /\ g_buffer' = AfterAppend(t, logged)
       /\ Issue(t, logged)
       /\ Release(t, "post")
       /\ Leave(t)
       /\ UNCHANGED <<redo, out, g_logcount, g_kfcount, g_exit_next, status>>

(* A failed taint check, or g_exit_next, ends the trace under the lock. *)
AppendAndExit(t) ==
  \E logged, abort \in BOOLEAN :
    /\ InAppendBuffer(t, logged)
    /\ HasRoom(logged)
    /\ abort => logged /\ ~SEHMode
    /\ abort \/ g_exit_next
    /\ FlushBuffer(t, AfterAppend(t, logged), TRUE, <<>>)
    /\ Issue(t, logged)
    /\ Quit(t, IF LimitReached(Len(AfterAppend(t, logged))) THEN "limit"
               ELSE IF abort THEN "smash" ELSE "exitnext")
    /\ Leave(t)
    /\ Rerun(t)
    /\ UNCHANGED <<g_exit_next, status>>

(* assert (g_bufidx < BUFFER_SIZE) fails: the process aborts. *)
AppendOverflow(t) ==
  /\ InAppendBuffer(t, TRUE)
  /\ ~HasRoom(TRUE)
  /\ status' = "assert"
  /\ pc' = [u \in Threads |-> "gone"]
  /\ left' = [u \in Threads |-> 0]
  /\ rep' = [u \in Threads |-> 0]
  /\ NoFlush
  /\ UNCHANGED <<lock, redo, issued, g_exit_next>>

PostInstruction(t) ==
  /\ pc[t] = "post"
  /\ g_exit_next' = TRUE
  /\ redo' = [redo EXCEPT ![t] = "next"]
  /\ pc' = [pc EXCEPT ![t] = "app"]
  /\ NoFlush
  /\ UNCHANGED <<lock, left, rep, issued, status>>

-----------------------------------------------------------------------------
(* Callbacks of the threads. *)

(* A thread starts when another one creates it.  Only the first thread of  *)
(* the process adds frames, those of its tainted arguments.                *)
ThreadStart(t) ==
  /\ pc[t] = "new" /\ lock = NoThread
  /\ LET first == \A u \in Threads : pc[u] = "new"
     IN  /\ first \/ \E u \in Threads : pc[u] \in {"app", "block", "kernel"}
         /\ \E tainted \in BOOLEAN :
              /\ tainted => first /\ CanIssue
              /\ out' = IF tainted THEN Append(out, Numbered("intro", t))
                                   ELSE out
              /\ Issue(t, tainted)
  /\ Release(t, "app")
  /\ UNCHANGED <<threadVars, g_buffer, g_logcount, g_kfcount,
                 g_exit_next, status>>

(* Mutant: a system call leaves the buffer as it is. *)
SyscallEntryUnflushed(t) ==
  /\ pc[t] = "app" /\ lock = NoThread
  /\ redo[t] # "next"
  /\ LogAllSyscalls => CanIssue
  /\ out' = IF LogAllSyscalls THEN Append(out, Numbered("sys", t)) ELSE out
  /\ Issue(t, LogAllSyscalls)
  /\ Release(t, "kernel")
  /\ UNCHANGED <<threadVars, g_buffer, g_logcount, g_kfcount,
                 g_exit_next, status>>

(* The buffer is flushed first, so that the frame of the system call       *)
(* follows that of the instruction that led to it.                         *)
SyscallEntry(t) ==
  /\ pc[t] = "app" /\ lock = NoThread
  /\ redo[t] # "next"
  /\ LogAllSyscalls => CanIssue
  /\ FlushBuffer(t, g_buffer, TRUE,
                 IF LogAllSyscalls THEN <<Numbered("sys", t)>> ELSE <<>>)
  /\ Issue(t, LogAllSyscalls /\ ~LimitReached(g_bufidx))
  /\ Return(t, g_buffer, "kernel")
  /\ UNCHANGED <<threadVars, g_exit_next, status>>

(* A system call that brought tainted bytes adds its frame directly. *)
SyscallExit(t) ==
  /\ pc[t] = "kernel" /\ lock = NoThread
  /\ \E tainted \in BOOLEAN :
       /\ tainted => CanIssue
       /\ out' = IF tainted THEN Append(out, Numbered("intro", t)) ELSE out
       /\ Issue(t, tainted)
  /\ Release(t, "app")
  /\ UNCHANGED <<threadVars, g_buffer, g_logcount, g_kfcount,
                 g_exit_next, status>>

(* The system call was exit: the thread ends, others go on. *)
ThreadEnd(t) ==
  /\ pc[t] = "kernel"
  /\ \E u \in Threads \ {t} : pc[u] \notin {"new", "done"}
  /\ pc' = [pc EXCEPT ![t] = "done"]
  /\ NoFlush
  /\ UNCHANGED <<lock, threadVars, issued, g_exit_next, status>>

ModLoad(t) ==
  /\ pc[t] = "app" /\ lock = NoThread
  /\ redo[t] # "next"
  /\ CanIssue
  /\ Cardinality({i \in DOMAIN out : out[i].kind = "mod"}) < MaxMods
  /\ out' = Append(out, Unnumbered("mod", t))
  /\ UNCHANGED <<pc, lock, threadVars, issued, g_buffer, g_logcount,
                 g_kfcount, g_exit_next, status>>

(* Mutant: the lock is released although the process is about to end. *)
ExceptionHandlerReleases(t) ==
  /\ pc[t] \in {"app", "block"} /\ lock = NoThread
  /\ CanIssue
  /\ \E fatal \in BOOLEAN :
       /\ FlushBuffer(t, g_buffer, FALSE, <<Numbered("exc", t)>>)
       /\ IF fatal /\ ~LimitReached(g_bufidx)
          THEN Release(t, "signal") ELSE Return(t, g_buffer, "app")
  /\ Issue(t, ~LimitReached(g_bufidx))
  /\ Leave(t)
  /\ redo' = [redo EXCEPT ![t] = IF @ = "next" THEN "lost" ELSE @]
  /\ UNCHANGED <<g_exit_next, status>>

(* A signal.  The handler the application installed runs next; a fatal     *)
(* one flushes again, which finds the buffer empty, and ends the trace.    *)
ExceptionHandler(t) ==
  /\ pc[t] \in {"app", "block"} /\ lock = NoThread
  /\ CanIssue
  /\ \E fatal \in BOOLEAN :
       /\ FlushBuffer(t, g_buffer, FALSE, <<Numbered("exc", t)>>)
       /\ IF fatal /\ ~LimitReached(g_bufidx) THEN Quit(t, "signal")
                                              ELSE Return(t, g_buffer, "app")
  /\ Issue(t, ~LimitReached(g_bufidx))
  /\ Leave(t)
  /\ redo' = [redo EXCEPT ![t] = IF @ = "next" THEN "lost" ELSE @]
  /\ UNCHANGED <<g_exit_next, status>>

(* execv: FlushBuffer takes and releases the lock, Cleanup comes after.    *)
(* Cleanup calls exit(0), so that FollowExec never returns "follow".       *)
FollowExec(t) ==
  /\ pc[t] = "kernel" /\ lock = NoThread
  /\ FlushBuffer(t, g_buffer, FALSE, <<>>)
  /\ Return(t, g_buffer, "execdone")
  /\ UNCHANGED <<threadVars, issued, g_exit_next, status>>

(* The process exits normally: Fini calls Cleanup and nothing else. *)
Fini(t) ==
  /\ pc[t] = "kernel"
  /\ pc' = [pc EXCEPT ![t] = "fini"]
  /\ NoFlush
  /\ UNCHANGED <<lock, threadVars, issued, g_exit_next, status>>

(* Finish the container and exit(0). *)
Cleanup(t) ==
  /\ pc[t] \in ExitPoints
  /\ status' = pc[t]
  /\ pc' = [u \in Threads |-> "gone"]
  /\ left' = [u \in Threads |-> 0]
  /\ rep' = [u \in Threads |-> 0]
  /\ NoFlush
  /\ UNCHANGED <<lock, redo, issued, g_exit_next>>

Terminated == status # "running" /\ UNCHANGED vars

Next ==
  \/ \E t \in Threads :
       \/ EnterBlock(t) \/ EnterRep(t) \/ FlushForBlock(t)
       \/ LeaveBlock(t) \/ StopRep(t)
       \/ AppendAndGoOn(t) \/ AppendLastOne(t) \/ AppendAndExit(t)
       \/ AppendOverflow(t) \/ PostInstruction(t)
       \/ ThreadStart(t) \/ ThreadEnd(t) \/ SyscallEntry(t) \/ SyscallExit(t)
       \/ ModLoad(t) \/ ExceptionHandler(t)
       \/ FollowExec(t) \/ Fini(t) \/ Cleanup(t)
  \/ Terminated

Spec == Init /\ [][Next]_vars

-----------------------------------------------------------------------------
(* Properties. *)

(* Every variable has its type; a thread owes instructions to the buffer   *)
(* only inside a block, and the array is never filled beyond its end.      *)
InBlock == {"flush", "repflush", "block"}

ThreadTypes ==
  /\ pc \in [Threads -> Places]
  /\ left \in [Threads -> 0..MaxBlock]
  /\ rep \in [Threads -> 0..MaxRep]
  /\ redo \in [Threads -> {"no", "next", "lost"}]
  /\ issued \in [Threads -> Nat]

TraceTypes ==
  /\ lock \in Threads \union {NoThread}
  /\ g_buffer \in Seq(Frames)
  /\ Len(g_buffer) <= BufferSize
  /\ out \in Seq(Frames)
  /\ g_logcount \in Nat
  /\ g_kfcount \in Nat
  /\ g_exit_next \in BOOLEAN
  /\ status \in {"running", "assert"} \union ExitPoints

BlockShape(t) ==
  /\ pc[t] \in InBlock => left[t] > 0
  /\ pc[t] \notin InBlock => left[t] = 0 /\ rep[t] = 0
  /\ pc[t] = "flush" => rep[t] = 0

TypeOK == ThreadTypes /\ TraceTypes /\ \A t \in Threads : BlockShape(t)

(* What one thread may append between two checks of the buffer: a block,   *)
(* or the iterations of a REP instruction and the block around it.         *)
Burst == IF MaxRep = 0 THEN MaxBlock ELSE MaxBlock + MaxRep - 1

(* Blocks so short, for this number of threads, that the checks made       *)
(* outside the lock are enough.                                            *)
Roomy ==
  /\ (Cardinality(Threads) - 1) * Burst <= Fudge + 1
  /\ Cardinality(Threads) * Burst <= BufferSize
  /\ BufferSize + MaxBlock + MaxRep < Word

(* What t may still append before the buffer is checked again. *)
Owed(t) ==
  IF pc[t] # "block" THEN 0
  ELSE IF rep[t] > 0 THEN rep[t] + left[t] - 1 ELSE left[t]

(* One slot of the buffer for each instruction owed by some thread.  The   *)
(* inductive invariant behind NoOverflow: the buffer has all of them.      *)
Slots == {p \in Threads \X (1..Burst) : p[2] <= Owed(p[1])}
RoomForOwed == g_bufidx + Cardinality(Slots) <= BufferSize

(* The assertion of AppendBuffer never fails.  The check of the buffer and *)
(* the appends it stands for are separate steps, so this holds only of     *)
(* configurations that satisfy Roomy.                                      *)
NoOverflow == status # "assert"

(* The note on -log-limit: the number of instructions logged exceeds the   *)
(* limit by less than the size of the buffer.                              *)
LogLimitBound == LogLimit # 0 => g_logcount < LogLimit + BufferSize

(* g_logcount is the number of instruction frames in the container: system *)
(* call, module and key frames do not count towards the limit, and no      *)
(* flush counts an instruction twice or not at all.                        *)
StdIn(s) == {i \in DOMAIN s : s[i].kind = "std"}
LogCountExact == g_logcount = Cardinality(StdIn(out))

(* At least KEYFRAME_FREQ instructions separate two key frames, whichever  *)
(* threads and flushes they come from.                                     *)
KeyframeSpacing ==
  \A i, j \in DOMAIN out :
    /\ i < j /\ out[i].kind = "key" /\ out[j].kind = "key"
    => Cardinality({k \in StdIn(out) : i < k /\ k < j}) >= KeyframeFreq

(* While a thread is in a system call none of its frames is in the buffer: *)
(* the frames SyscallExit adds to the container directly come after the    *)
(* instructions that led to the call.                                      *)
FlushedInSyscall ==
  \A t \in Threads : pc[t] \in {"kernel", "fini"} =>
    \A i \in DOMAIN g_buffer : g_buffer[i].tid # t

(* Every exit the tracer decides on under the lock (limit, failed taint    *)
(* check, g_exit_next, fatal signal) leaves no frame behind, although      *)
(* other threads were running.                                             *)
ExitComplete == status \in LockedExits => g_buffer = <<>>

(* Why ExitComplete and LogLimitBound hold: the lock is kept only by a     *)
(* thread that has just flushed, and while it is free the limit has not    *)
(* been reached.                                                           *)
LockInv ==
  /\ lock # NoThread => g_buffer = <<>>
  /\ \A t \in Threads : pc[t] \in LockedExits => lock = t
  /\ status \in LockedExits => lock # NoThread
  /\ LogLimit # 0 =>
       /\ g_logcount < LogLimit + BufferSize
       /\ lock = NoThread => g_logcount < LogLimit

(* "If we want the exception to be the last thing in the trace when we     *)
(* crash, then we need to flush."                                          *)
ExceptionLast == status = "signal" => out[Len(out)].kind = "exc"

(* Each thread's frames are in the trace in the order the thread made them *)
(* and what is in the container is a prefix of them: the buffered and the  *)
(* directly added frames do not overtake each other.                       *)
Numbers(t, s) ==
  LET upTo[i \in 0..Len(s)] ==
        IF i = 0 THEN <<>>
        ELSE IF s[i].tid = t /\ s[i].n # 0 THEN Append(upTo[i - 1], s[i].n)
        ELSE upTo[i - 1]
  IN  upTo[Len(s)]

Log == INSTANCE ThreadLog WITH
  log <- [t \in Threads |-> Numbers(t, out \o g_buffer)],
  saved <- [t \in Threads |-> Len(Numbers(t, out))],
  open <- status = "running"

ThreadOrder == Log!Spec
=============================================================================
