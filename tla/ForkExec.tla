------------------------------ MODULE ForkExec ------------------------------
(***************************************************************************)
(* gentrace.cpp in a program that forks (Unix).  The child is a copy of    *)
(* the process with one thread, the one that called fork: it inherits the  *)
(* buffer, the counts, the container, the name g_threadname and the lock   *)
(* as they are.  FollowParent and FollowChild run after the fork; nothing  *)
(* is registered to run before it.                                         *)
(*                                                                         *)
(* A fork may come while another thread is inside a routine and holds the  *)
(* lock.  AppendBuffer takes two steps here to show it; the others need    *)
(* not, since a process copied inside any routine differs only in state it *)
(* never uses: it waits for its lock.  The inside of a process is          *)
(* FrameBuffer's subject: only instruction frames are kept.                *)
(***************************************************************************)
EXTENDS Integers, Sequences, FiniteSets

CONSTANTS
  Threads,
  NoThread,   \* the value of lock when no thread holds it
  MaxProcs,   \* bound: processes; 1 is the one PIN started
  NameSizes,  \* values of BUFFER_SIZE, as the size of g_threadname
  LogLimit,   \* -log-limit, 0 for none
  MaxFrames   \* bound: instructions logged

ASSUME ForkAssumption ==
  /\ NoThread \notin Threads /\ IsFiniteSet(Threads)
  /\ MaxProcs \in Nat \ {0} /\ NameSizes \subseteq Nat \ {0, 1}
  /\ LogLimit \in Nat /\ MaxFrames \in Nat

VARIABLES
  NameSize,      \* never changed
  pc,            \* where each thread of each process is, see Places
  lock,
  g_threadname,  \* the letters of the name, without the terminator
  g_twnew,       \* the name of the file each process writes
  g_buffer, g_logcount,
  files,         \* the frames in each file
  status,        \* "unborn", "running", or how the process ended
  issued,        \* history: frames made by each thread of each process
  quiet,         \* history: processes that were born while no other thread
                 \* of the parent was in a routine that holds the lock
  raced          \* history: a thread has forked before FollowParent of
                 \* another fork of its process was done

trace == <<g_buffer, g_logcount, files, issued>>
history == <<quiet, raced>>
vars == <<NameSize, pc, lock, g_threadname, g_twnew, trace, status, history>>

Procs == 1..MaxProcs

Places ==
  {"none", "app",
   "append",          \* in AppendBuffer, with the lock
   "kernel",          \* between SyscallEntry and SyscallExit
   "forked", "born",  \* in fork, before FollowParent and FollowChild
   "return",          \* about to leave the system call
   "cleanup",         \* about to leave the process, with the lock or without
   "gone"}

Frames == [proc : Procs, tid : Threads, n : Nat]

(* "<pid>-<out>"; the names of children are their letters. *)
MainFile == <<"pid">>

Born == {p \in Procs : status[p] # "unborn"}
Alive(p) == status[p] = "running"

(* The process has a container of its own, FollowChild being over, and has *)
(* not aborted.                                                            *)
Opened(p) ==
  status[p] \in {"running", "finished"} /\ \A t \in Threads : pc[p][t] # "born"

Init ==
  /\ NameSize \in NameSizes
  /\ pc = [p \in Procs |->
             [t \in Threads |-> IF p = 1 THEN "app" ELSE "none"]]
  /\ lock = [p \in Procs |-> NoThread]
  /\ g_threadname = [p \in Procs |-> <<"s">>]
  /\ g_twnew = [p \in Procs |-> MainFile]
  /\ g_buffer = [p \in Procs |-> <<>>]
  /\ g_logcount = [p \in Procs |-> 0]
  /\ files = [f \in {MainFile} |-> <<>>]
  /\ status = [p \in Procs |-> IF p = 1 THEN "running" ELSE "unborn"]
  /\ issued = [p \in Procs |-> [t \in Threads |-> 0]]
  /\ quiet = {1}
  /\ raced = FALSE

-----------------------------------------------------------------------------
Move(p, t, place) == pc' = [pc EXCEPT ![p][t] = place]

CanIssue == Cardinality({x \in Procs \X Threads \X (1..MaxFrames) :
                           x[3] <= issued[x[1]][x[2]]}) < MaxFrames

(* A routine is called at from, takes the lock, releases it and returns to *)
(* place.                                                                  *)
Locked(p, t, from, place) ==
  /\ Alive(p) /\ pc[p][t] = from /\ lock[p] = NoThread
  /\ Move(p, t, place)
  /\ UNCHANGED lock

EnterAppendBuffer(p, t) ==
  /\ Alive(p) /\ pc[p][t] = "app" /\ lock[p] = NoThread
  /\ CanIssue
  /\ lock' = [lock EXCEPT ![p] = t]
  /\ Move(p, t, "append")
  /\ UNCHANGED <<g_threadname, g_twnew, trace, status, history>>

AppendBuffer(p, t) ==
  /\ Alive(p) /\ pc[p][t] = "append" /\ lock[p] = t
  /\ CanIssue
  /\ g_buffer' = [g_buffer EXCEPT ![p] =
                    Append(@, [proc |-> p, tid |-> t, n |-> issued[p][t] + 1])]
  /\ issued' = [issued EXCEPT ![p][t] = @ + 1]
  /\ lock' = [lock EXCEPT ![p] = NoThread]
  /\ Move(p, t, "app")
  /\ UNCHANGED <<g_threadname, g_twnew, g_logcount, files, status, history>>

FlushInstructions(p) ==
  /\ files' = [files EXCEPT ![g_twnew[p]] = @ \o g_buffer[p]]
  /\ g_logcount' = [g_logcount EXCEPT ![p] = @ + Len(g_buffer[p])]
  /\ g_buffer' = [g_buffer EXCEPT ![p] = <<>>]
  /\ UNCHANGED issued

(* FlushBuffer leaves the process with the lock held when the limit is     *)
(* reached.                                                                *)
FlushBuffer(p, t, from, place) ==
  /\ FlushInstructions(p)
  /\ IF LogLimit # 0 /\ g_logcount[p] + Len(g_buffer[p]) >= LogLimit
     THEN /\ Alive(p) /\ pc[p][t] = from /\ lock[p] = NoThread
          /\ lock' = [lock EXCEPT ![p] = t]
          /\ Move(p, t, "cleanup")
     ELSE Locked(p, t, from, place)
  /\ UNCHANGED <<g_threadname, g_twnew, status, history>>

(* As CheckBuffer asks, in front of a block. *)
FlushForBlock(p, t) == FlushBuffer(p, t, "app", "app")

(* Mutant: a system call leaves the buffer as it is. *)
SyscallEntryUnflushed(p, t) ==
  /\ Locked(p, t, "app", "kernel")
  /\ UNCHANGED <<g_threadname, g_twnew, trace, status, history>>

SyscallEntry(p, t) == FlushBuffer(p, t, "app", "kernel")

(* The end of a system call that does not end the process; taint is left   *)
(* to other modules.                                                       *)
SyscallExit(p, t) ==
  /\ \/ Locked(p, t, "kernel", "app")
     \/ Locked(p, t, "return", "app")
  /\ UNCHANGED <<g_threadname, g_twnew, trace, status, history>>

-----------------------------------------------------------------------------
(* The kernel makes q, a copy of p with thread t alone. *)
Fork(p, t) ==
  LET q == Cardinality(Born) + 1
      others == Threads \ {t}
  IN  /\ Alive(p) /\ pc[p][t] = "kernel"
      /\ q \in Procs
      /\ status' = [status EXCEPT ![q] = "running"]
      /\ pc' = [pc EXCEPT ![p][t] = "forked",
                          ![q] = [u \in Threads |->
                                    IF u = t THEN "born" ELSE "none"]]
      /\ lock' = [lock EXCEPT ![q] = lock[p]]
      /\ g_threadname' = [g_threadname EXCEPT ![q] = g_threadname[p]]
      /\ g_twnew' = [g_twnew EXCEPT ![q] = g_twnew[p]]
      /\ g_buffer' = [g_buffer EXCEPT ![q] = g_buffer[p]]
      /\ g_logcount' = [g_logcount EXCEPT ![q] = g_logcount[p]]
      /\ quiet' = IF \A u \in others : pc[p][u] \notin {"append", "cleanup"}
                  THEN quiet \union {q} ELSE quiet
      /\ raced' = (raced \/ \E u \in others : pc[p][u] = "forked")
      /\ UNCHANGED <<files, issued>>

(* Mutant: the assertion admits one letter too many. *)
NameFitsOneMore(p) == Len(g_threadname[p]) <= NameSize

(* g_threadname[i++] = c, where i = strlen(g_threadname).  The terminator  *)
(* is lost when the last element is written; strlen then runs on behind    *)
(* the array, and the assertion fails.                                     *)
NameFits(p) == Len(g_threadname[p]) < NameSize

Rename(p, c) == g_threadname' = [g_threadname EXCEPT ![p] = Append(@, c)]

Abort(p, t, from) ==
  /\ Alive(p) /\ pc[p][t] = from /\ lock[p] = NoThread
  /\ status' = [status EXCEPT ![p] = "assert"]
  /\ pc' = [pc EXCEPT ![p] = [u \in Threads |-> "gone"]]
  /\ UNCHANGED <<lock, g_threadname, g_twnew, trace, history>>

(* Mutant: the parent keeps its name. *)
FollowParentUnnamed(p, t) ==
  /\ Locked(p, t, "forked", "return")
  /\ UNCHANGED <<g_threadname, g_twnew, trace, status, history>>

(* Mutant: the parent does not release the lock. *)
FollowParentLocked(p, t) ==
  /\ Alive(p) /\ pc[p][t] = "forked" /\ lock[p] = NoThread /\ NameFits(p)
  /\ Move(p, t, "return")
  /\ lock' = [lock EXCEPT ![p] = t]
  /\ Rename(p, "p")
  /\ UNCHANGED <<g_twnew, trace, status, history>>

FollowParent(p, t) ==
  \/ /\ NameFits(p)
     /\ Locked(p, t, "forked", "return")
     /\ Rename(p, "p")
     /\ UNCHANGED <<g_twnew, trace, status, history>>
  \/ ~NameFits(p) /\ Abort(p, t, "forked")

(* What c_str gives as the name: a name without terminator is read beyond  *)
(* its end.                                                                *)
NamesRead(name) ==
  {name} \union (IF Len(name) < NameSize THEN {} ELSE {Append(name, "?")})

(* A new container; one of that name is truncated. *)
Open(name) ==
  files' = [f \in DOMAIN files \union {name} |->
              IF f = name THEN <<>> ELSE files[f]]

(* Mutant: the child keeps the instructions it inherits. *)
FollowChildKeeps(p, t) ==
  /\ NameFits(p)
  /\ Locked(p, t, "born", "return")
  /\ Rename(p, "c")
  /\ \E name \in NamesRead(Append(g_threadname[p], "c")) :
       Open(name) /\ g_twnew' = [g_twnew EXCEPT ![p] = name]
  /\ g_logcount' = [g_logcount EXCEPT ![p] = 0]
  /\ UNCHANGED <<g_buffer, issued, status, history>>

FollowChild(p, t) ==
  \/ /\ NameFits(p)
     /\ Locked(p, t, "born", "return")
     /\ Rename(p, "c")
     /\ \E name \in NamesRead(Append(g_threadname[p], "c")) :
          Open(name) /\ g_twnew' = [g_twnew EXCEPT ![p] = name]
     /\ g_buffer' = [g_buffer EXCEPT ![p] = <<>>]
     /\ g_logcount' = [g_logcount EXCEPT ![p] = 0]
     /\ UNCHANGED <<issued, status, history>>
  \/ ~NameFits(p) /\ Abort(p, t, "born")

-----------------------------------------------------------------------------
(* The end of a process. *)

(* execv: Cleanup comes after the flush has released the lock. *)
FollowExec(p, t) == FlushBuffer(p, t, "kernel", "cleanup")

(* exit_group. *)
Fini(p, t) ==
  /\ Alive(p) /\ pc[p][t] = "kernel"
  /\ Move(p, t, "cleanup")
  /\ UNCHANGED <<lock, g_threadname, g_twnew, trace, status, history>>

(* Finish the container and exit(0). *)
Cleanup(p, t) ==
  /\ Alive(p) /\ pc[p][t] = "cleanup"
  /\ status' = [status EXCEPT ![p] = "finished"]
  /\ pc' = [pc EXCEPT ![p] = [u \in Threads |-> "gone"]]
  /\ UNCHANGED <<lock, g_threadname, g_twnew, trace, history>>

Next ==
  /\ UNCHANGED NameSize
  /\ \E p \in Procs, t \in Threads :
      \/ EnterAppendBuffer(p, t) \/ AppendBuffer(p, t) \/ FlushForBlock(p, t)
      \/ SyscallEntry(p, t) \/ SyscallExit(p, t)
      \/ Fork(p, t) \/ FollowParent(p, t) \/ FollowChild(p, t)
      \/ FollowExec(p, t) \/ Fini(p, t) \/ Cleanup(p, t)

(* A process that has just been born runs, and its only thread is in       *)
(* FollowChild.  What the program does, and how threads that share a lock  *)
(* take turns, is not assumed to be fair.                                  *)
Fairness ==
  \A p \in Procs \ {1}, t \in Threads : WF_vars(FollowChild(p, t) /\ UNCHANGED NameSize)

Spec == Init /\ [][Next]_vars /\ Fairness

-----------------------------------------------------------------------------
(* Properties. *)

Letters == {"s", "p", "c", "pid", "?"}

TypeOK ==
  /\ NameSize \in NameSizes
  /\ pc \in [Procs -> [Threads -> Places]]
  /\ lock \in [Procs -> Threads \union {NoThread}]
  /\ \A p \in Procs : /\ g_threadname[p] \in Seq(Letters)
                      /\ Len(g_threadname[p]) \in 1..NameSize
                      /\ g_twnew[p] \in DOMAIN files
                      /\ g_buffer[p] \in Seq(Frames)
  /\ \A f \in DOMAIN files : files[f] \in Seq(Frames)
  /\ g_logcount \in [Procs -> Nat]
  /\ status \in [Procs -> {"unborn", "running", "finished", "assert"}]
  /\ issued \in [Procs -> [Threads -> 0..MaxFrames]]
  /\ quiet \subseteq Procs /\ raced \in BOOLEAN

(* No two processes write the same file, although the name of a child's    *)
(* file is nothing but its generation's letters: forks of one process one  *)
(* after the other, of children and grandchildren, give different names.   *)
(* Two threads that fork at the same time do not.                          *)
NamesDistinct ==
  ~raced => \A p, q \in Born :
    p # q /\ Opened(p) /\ Opened(q) => g_twnew[p] # g_twnew[q]

(* A process counts and writes its own instructions only: what the parent  *)
(* had in its buffer when it forked, of whichever thread, is written by    *)
(* the parent and not again by the child, and does not use up the child's  *)
(* log limit.                                                              *)
OwnFrames ==
  ~raced => \A p \in Born : Opened(p) =>
    LET all == files[g_twnew[p]] \o g_buffer[p]
    IN  /\ \A i \in DOMAIN all : all[i].proc = p
        /\ g_logcount[p] = Len(files[g_twnew[p]])

(* A child, whose only thread forks, executes or exits, leaves a complete  *)
(* trace: the flush in SyscallEntry comes before all ways to end.          *)
MadeBy(p) == {x \in Threads \X (1..MaxFrames) : x[2] <= issued[p][x[1]]}

ChildComplete ==
  ~raced => \A p \in Procs \ {1} : status[p] = "finished" =>
    /\ g_buffer[p] = <<>>
    /\ {<<f.tid, f.n>> : f \in {files[g_twnew[p]][i] :
                                  i \in DOMAIN files[g_twnew[p]]}} = MadeBy(p)

(* A child gets its own container unless another thread of the parent was  *)
(* in a routine with the lock when it was born, or its name is too long:   *)
(* no routine of the tool leaves the lock behind for it.                   *)
Waiting(p) ==
  /\ p \in quiet /\ Alive(p) /\ NameFits(p)
  /\ \E t \in Threads : pc[p][t] = "born"

ChildOpens == \A p \in Procs : Waiting(p) ~> (Opened(p) /\ g_twnew[p] # MainFile)
=============================================================================
