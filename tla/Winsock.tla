------------------------------- MODULE Winsock ------------------------------
(***************************************************************************)
(* Taint from the network in the Windows tool: gentrace.cpp wraps accept,  *)
(* connect and WSAConnect, and instruments recv and WSARecv with a routine *)
(* before and one after; sockets are closed by NtClose, a system call.     *)
(* AfterRecv marks the bytes it finds as tainted under the lock, releases  *)
(* it for TActivate, as the comment there demands, and takes it again to   *)
(* add the frame that introduces them.                                     *)
(*                                                                         *)
(* The kernel's sockets are modelled from how the tool uses them, PIN from *)
(* what gentrace.cpp says of it (see Activation).  -skip-taints is 0.  The *)
(* program makes no other system call than NtClose: SyscallTaint has the   *)
(* others, and Activation the TActivate that SyscallExit calls with the    *)
(* lock held, after which no thread may ever move again.                   *)
(***************************************************************************)
EXTENDS Integers, Sequences, FiniteSets

CONSTANTS
  Threads,
  NoThread,    \* the value of lock when no thread holds it
  Handles,     \* socket handles
  LastAddr,    \* the program's memory is 0..LastAddr
  BufferLists, \* what recv and WSARecv are called with
  Size,        \* bound: bytes sent to a connection
  MaxConnects, \* bound: calls of socket, accept, connect and WSAConnect
  MaxReceives  \* bound: calls of recv, WSARecv and close

Addrs == 0..LastAddr

ASSUME WinsockAssumption ==
  /\ NoThread \notin Threads
  /\ Handles \subseteq Nat
  /\ {LastAddr, Size, MaxConnects, MaxReceives} \subseteq Nat
  /\ \A bufs \in BufferLists :
       bufs # <<>> /\ bufs \in Seq([addr : Addrs, len : 1..(LastAddr + 1)])

VARIABLES
  pc,              \* where each thread is, see Places
  call, ret,       \* the call a thread is in; what it returns
  lock,
  recvStack,       \* each thread's recvStack
  state,           \* close: what taintPreSC decided
  khandles,        \* kernel: the socket of each open handle
  sockets,         \* kernel: the sockets, never reused
  content,         \* where the byte at each address is from
  fds, taintnum, taint_mappings, memory,   \* TaintTracker
  taint_net, g_active, g_taint_introduced,
  fo,              \* the frame AfterRecv holds for each thread
  introduced,      \* the taint numbers that frames of the trace introduce
  used,            \* those that logged instructions use
  calls,           \* numbers of the two kinds of calls
  clean            \* history: no call has overlapped another, and data came
                   \* the way the tool expects

kernel == <<khandles, sockets, content>>
tracker == <<fds, taintnum, taint_mappings, memory>>
flags == <<taint_net, g_active, g_taint_introduced>>
trace == <<fo, introduced, used>>
history == <<calls, clean>>
vars == <<pc, call, ret, lock, recvStack, state, kernel, tracker, flags,
          trace, history>>

NOTAINT == 0
SOCKET_ERROR == -1
NoByte == [socket |-> 0, off |-> 0]

Ops == {"socket", "accept", "connect", "WSAConnect", "recv", "WSARecv", "close"}
Calls == [op : Ops, s : Handles, bufs : BufferLists]
NoCall == [op |-> "none", s |-> -1, bufs |-> <<>>]

(* The program uses handles that are open when it calls; another thread    *)
(* may close one during the call.  Calls that differ only in arguments     *)
(* their operation ignores are one.                                        *)
Canonical(c) ==
  /\ c.op \notin {"socket", "accept"} => c.s \in DOMAIN khandles
  /\ c.op \in {"socket", "accept"} => c.s = CHOOSE h \in Handles : TRUE
  /\ c.op \notin {"recv", "WSARecv"} => c.bufs = CHOOSE b \in BufferLists : TRUE
  /\ c.op = "recv" => Len(c.bufs) = 1

Places ==
  {"app",
   "kernel",      \* in the call
   "wrapped",     \* back in the wrapper of accept or connect
   "after",       \* at the head of AfterRecv
   "closed",      \* before SyscallExit
   "tactivate", "tremove",  \* in TActivate, in PIN_RemoveInstrumentation
   "frame",       \* AfterRecv is about to add its frame
   "append"}      \* in AppendBuffer, before it has the lock

Without(f, x) == [y \in DOMAIN f \ {x} |-> f[y]]
With(f, x, v) == [y \in DOMAIN f \union {x} |-> IF y = x THEN v ELSE f[y]]

(* A thread's place and the arguments, the result and the plan of its      *)
(* call, which end with it.                                                *)
MoveWith(t, place, c, r, s) ==
  /\ pc' = [pc EXCEPT ![t] = place]
  /\ call' = [call EXCEPT ![t] = IF place = "app" THEN NoCall ELSE c]
  /\ ret' = [ret EXCEPT ![t] = IF place = "app" THEN 0 ELSE r]
  /\ state' = [state EXCEPT ![t] = IF place = "app" THEN "nosyscall" ELSE s]

Move(t, place) == MoveWith(t, place, call[t], ret[t], state[t])

Init ==
  /\ pc = [t \in Threads |-> "app"]
  /\ call = [t \in Threads |-> NoCall]
  /\ ret = [t \in Threads |-> 0]
  /\ lock = NoThread
  /\ recvStack = [t \in Threads |-> <<>>]
  /\ state = [t \in Threads |-> "nosyscall"]
  /\ khandles = [h \in {} |-> 0]
  /\ sockets = <<>>
  /\ content = [a \in Addrs |-> NoByte]
  /\ fds = [h \in {} |-> 0]
  /\ taintnum = 1
  /\ taint_mappings = [o \in {} |-> 0]
  /\ memory = [a \in Addrs |-> NOTAINT]
  /\ taint_net \in BOOLEAN
  /\ g_active \in BOOLEAN
  /\ g_taint_introduced = FALSE
  /\ fo = [t \in Threads |-> {}]
  /\ introduced = {}
  /\ used = {}
  /\ calls = [receives |-> 0, connects |-> 0]
  /\ clean = TRUE

-----------------------------------------------------------------------------
(* Calls of the program.  BeforeRecv and WSABeforeRecv remember the        *)
(* handle and the first buffer; the handle of a close is looked up by      *)
(* taintPreSC, under the lock.                                             *)

Before(t, c) ==
  IF c.op \in {"recv", "WSARecv"}
  THEN recvStack' = [recvStack EXCEPT ![t] =
                       Append(@, [fd |-> c.s, addr |-> c.bufs[1].addr])]
  ELSE UNCHANGED recvStack

taintPreSC(c) ==
  IF c.op = "close" /\ c.s \in DOMAIN fds THEN "close" ELSE "nosyscall"

(* A second connection of a socket: whatever the kernel says,              *)
(* ConnectWrapper tracks the handle from offset 0.                         *)
Reconnects(c) == c.op = "connect" /\ sockets[khandles[c.s]].connected

Call(t) ==
  /\ pc[t] = "app"
  /\ \E c \in {d \in Calls : Canonical(d)} :
       /\ c.op = "close" => lock = NoThread
       /\ IF c.op \in {"recv", "WSARecv", "close"}
          THEN /\ calls.receives < MaxReceives
               /\ calls' = [calls EXCEPT !.receives = @ + 1]
          ELSE /\ calls.connects < MaxConnects
               /\ calls' = [calls EXCEPT !.connects = @ + 1]
       /\ Before(t, c)
       /\ MoveWith(t, "kernel", c, 0, taintPreSC(c))
       /\ clean' = (/\ clean /\ ~Reconnects(c)
                    /\ \A u \in Threads \ {t} : pc[u] \in {"app", "append"})
  /\ UNCHANGED <<lock, kernel, tracker, flags, trace>>

-----------------------------------------------------------------------------
(* The kernel and the Winsock library. *)

Returns(t, place, result) ==
  /\ MoveWith(t, place, call[t], result, state[t])
  /\ UNCHANGED <<lock, recvStack, tracker, flags, trace, calls>>

Free == Handles \ DOMAIN khandles

NewSocket(t, connected, place) ==
  \E h \in Free :
    /\ Returns(t, place, h)
    /\ sockets' = Append(sockets, [connected |-> connected, off |-> 0])
    /\ khandles' = With(khandles, h, Len(sockets) + 1)
    /\ UNCHANGED <<content, clean>>

Doing(t, op) == pc[t] = "kernel" /\ call[t].op = op
IsOpen(t) == call[t].s \in DOMAIN khandles
Socket(t) == khandles[call[t].s]

KernelSocket(t) == Doing(t, "socket") /\ NewSocket(t, FALSE, "app")

KernelAccept(t) == Doing(t, "accept") /\ NewSocket(t, TRUE, "wrapped")

(* A socket that does not block connects although connect returns an error. *)
KernelConnect(t) ==
  /\ \/ Doing(t, "connect") /\ \E r \in {0, SOCKET_ERROR} : Returns(t, "wrapped", r)
     \/ Doing(t, "WSAConnect") /\ Returns(t, "wrapped", 0)
  /\ IsOpen(t) /\ ~sockets[Socket(t)].connected
  /\ sockets' = [sockets EXCEPT ![Socket(t)].connected = TRUE]
  /\ UNCHANGED <<khandles, content, clean>>

(* n bytes that arrive for socket id fill the buffers one after the other. *)
BufferSpace(bufs) ==
  LET upTo[i \in 0..Len(bufs)] == IF i = 0 THEN 0 ELSE upTo[i - 1] + bufs[i].len
  IN  upTo

Filled(id, bufs, n) ==
  LET start == BufferSpace(bufs)
      place(i, a) == start[i - 1] + a - bufs[i].addr
      holds(a) == {i \in DOMAIN bufs :
                     /\ a \in bufs[i].addr..(bufs[i].addr + bufs[i].len - 1)
                     /\ place(i, a) < n}
  IN  [a \in Addrs |->
         IF holds(a) = {} THEN content[a]
         ELSE [socket |-> id,
               off |-> sockets[id].off + place(CHOOSE i \in holds(a) : TRUE, a)]]

Arrives(t, n) ==
  LET bufs == call[t].bufs
  IN  /\ IsOpen(t) /\ sockets[Socket(t)].connected
      /\ n <= BufferSpace(bufs)[Len(bufs)]
      /\ sockets[Socket(t)].off + n <= Size
      /\ content' = Filled(Socket(t), bufs, n)
      /\ sockets' = [sockets EXCEPT ![Socket(t)].off = @ + n]
      /\ UNCHANGED khandles

(* recv returns the number of bytes, WSARecv stores it at bytesOut. *)
KernelRecv(t) ==
  \E n \in 0..Size :
    /\ Doing(t, "recv") \/ Doing(t, "WSARecv")
    /\ Arrives(t, n)
    /\ Returns(t, "after", n)
    /\ clean' = (clean /\ n <= call[t].bufs[1].len)

(* Overlapped: WSARecv returns an error, the data comes later.  The two    *)
(* are one step, as the tool sees neither.                                 *)
KernelOverlapped(t) ==
  \E n \in 1..Size :
    /\ Doing(t, "WSARecv")
    /\ Arrives(t, n)
    /\ Returns(t, "after", SOCKET_ERROR)
    /\ clean' = FALSE

(* An exception leaves recv: AfterRecv is not called. *)
RecvUnwinds(t) ==
  /\ Doing(t, "recv") \/ Doing(t, "WSARecv")
  /\ Returns(t, "app", SOCKET_ERROR)
  /\ UNCHANGED <<kernel, clean>>

KernelClose(t) ==
  /\ Doing(t, "close") /\ IsOpen(t)
  /\ Returns(t, "closed", 0)
  /\ khandles' = Without(khandles, call[t].s)
  /\ UNCHANGED <<sockets, content, clean>>

ReturnPlace ==
  [socket |-> "app", accept |-> "wrapped", connect |-> "wrapped",
   WSAConnect |-> "wrapped", recv |-> "after", WSARecv |-> "after",
   close |-> "closed"]

CallFails(t) ==
  /\ pc[t] = "kernel"
  /\ Returns(t, ReturnPlace[call[t].op], SOCKET_ERROR)
  /\ UNCHANGED <<kernel, clean>>

-----------------------------------------------------------------------------
(* The wrappers and SyscallExit. *)

Locked(t, from, place) ==
  /\ pc[t] = from /\ lock = NoThread
  /\ Move(t, place)
  /\ UNCHANGED <<lock, kernel, taint_net, calls, clean>>

(* Mutant: ConnectWrapper tests for errors too.                            *)
TrackedByStrict(t) ==
  IF call[t].op = "accept" THEN {ret[t]}
  ELSE IF ret[t] # SOCKET_ERROR THEN {call[t].s} ELSE {}

(* AcceptWrapper passes on what accept returned, a handle or an error;     *)
(* ConnectWrapper takes every connection for successful, WSAConnectWrapper *)
(* does not.                                                               *)
TrackedBy(t) ==
  IF call[t].op = "accept" THEN {ret[t]}
  ELSE IF call[t].op = "connect" \/ ret[t] # SOCKET_ERROR THEN {call[t].s} ELSE {}

acceptHelper(t) ==
  /\ Locked(t, "wrapped", "app")
  /\ fds' = IF taint_net
            THEN [h \in DOMAIN fds \union TrackedBy(t) |->
                    IF h \in TrackedBy(t) THEN 0 ELSE fds[h]]
            ELSE fds
  /\ UNCHANGED <<recvStack, taintnum, taint_mappings, memory, g_active,
                 g_taint_introduced, trace>>

(* SyscallExit for NtClose.                                                *)
CloseExit(t) ==
  /\ Locked(t, "closed", "app")
  /\ fds' = IF state[t] = "close" /\ ret[t] = 0 THEN Without(fds, call[t].s)
                                                ELSE fds
  /\ UNCHANGED <<recvStack, taintnum, taint_mappings, memory, g_active,
                 g_taint_introduced, trace>>

-----------------------------------------------------------------------------
(* AfterRecv. *)

Top(t) == recvStack[t][Len(recvStack[t])]
Popped(t) == [recvStack EXCEPT ![t] = SubSeq(@, 1, Len(@) - 1)]

(* Mutant: the counter is incremented before it is used. *)
TagAhead(off, i) ==
  LET new == {j \in 0..i : off + j \notin DOMAIN taint_mappings}
  IN  IF off + i \in DOMAIN taint_mappings THEN taint_mappings[off + i]
                                           ELSE taintnum + Cardinality(new)

(* All sockets have the name "accept": the number of a byte depends on its *)
(* offset alone.                                                           *)
Tag(off, i) ==
  LET new == {j \in 0..(i - 1) : off + j \notin DOMAIN taint_mappings}
  IN  IF off + i \in DOMAIN taint_mappings THEN taint_mappings[off + i]
                                           ELSE taintnum + Cardinality(new)

(* introMemTaintFromFd: n bytes at a, from the offset fds has for fd. *)
introMemTaint(a, n, off) ==
  LET offs == off..(off + n - 1)
      known == DOMAIN taint_mappings
  IN  /\ taint_mappings' = [o \in known \union offs |->
                              IF o \in known THEN taint_mappings[o]
                                             ELSE Tag(off, o - off)]
      /\ taintnum' = taintnum + Cardinality(offs \ known)
      /\ memory' = [b \in Addrs |-> IF b \in a..(a + n - 1) THEN Tag(off, b - a)
                                                          ELSE memory[b]]

Tags(n, off) == {Tag(off, i) : i \in 0..(n - 1)}

(* The receive failed, or nothing was received, or not from a tracked      *)
(* socket: there is no frame.                                              *)
AfterRecvNothing(t) ==
  /\ Locked(t, "after", "app")
  /\ recvStack' = Popped(t)
  /\ \/ ret[t] = SOCKET_ERROR
     \/ ret[t] = 0
     \/ Top(t).fd \notin DOMAIN fds
  /\ UNCHANGED <<tracker, g_active, g_taint_introduced, trace>>

(* Mutant: the offset of the socket stands still. *)
AfterRecvStill(t) ==
  LET n == ret[t] off == fds[Top(t).fd]
  IN  /\ pc[t] = "after" /\ ret[t] > 0 /\ Top(t).fd \in DOMAIN fds
      /\ Locked(t, "after", IF g_taint_introduced THEN "frame" ELSE "tactivate")
      /\ recvStack' = Popped(t)
      /\ introMemTaint(Top(t).addr, n, off)
      /\ UNCHANGED fds
      /\ fo' = [fo EXCEPT ![t] = Tags(n, off)]
      /\ UNCHANGED <<g_active, g_taint_introduced, introduced, used>>

(* Mutant: the lock is held from here until the frame is added, as in      *)
(* SyscallExit.                                                            *)
AfterRecvLocked(t) ==
  LET n == ret[t] off == fds[Top(t).fd]
  IN  /\ pc[t] = "after" /\ lock = NoThread /\ ret[t] > 0
      /\ Top(t).fd \in DOMAIN fds
      /\ lock' = t
      /\ Move(t, IF g_taint_introduced THEN "frame" ELSE "tactivate")
      /\ recvStack' = Popped(t)
      /\ introMemTaint(Top(t).addr, n, off)
      /\ fds' = [fds EXCEPT ![Top(t).fd] = @ + n]
      /\ fo' = [fo EXCEPT ![t] = Tags(n, off)]
      /\ UNCHANGED <<kernel, flags, introduced, used, history>>

(* The bytes are tainted, under the lock; the frame is added later.  The   *)
(* stack is never empty here: before and after come in pairs.              *)
AfterRecv(t) ==
  LET n == ret[t] off == fds[Top(t).fd]
  IN  /\ pc[t] = "after" /\ ret[t] > 0 /\ Top(t).fd \in DOMAIN fds
      /\ Locked(t, "after", IF g_taint_introduced THEN "frame" ELSE "tactivate")
      /\ recvStack' = Popped(t)
      /\ introMemTaint(Top(t).addr, n, off)
      /\ fds' = [fds EXCEPT ![Top(t).fd] = @ + n]
      /\ fo' = [fo EXCEPT ![t] = Tags(n, off)]
      /\ UNCHANGED <<g_active, g_taint_introduced, introduced, used>>

(* g_taint_introduced is tested without a lock: another thread may have    *)
(* set it by then, or two threads may both find it unset.                  *)
AlreadyIntroduced(t) ==
  /\ pc[t] = "tactivate" /\ g_taint_introduced
  /\ Move(t, "frame")
  /\ UNCHANGED <<lock, recvStack, kernel, tracker, flags,
                 trace, history>>

TActivate(t) ==
  /\ pc[t] = "tactivate"
  /\ g_active' = TRUE
  /\ g_taint_introduced' = TRUE
  /\ Move(t, "tremove")
  /\ UNCHANGED <<lock, recvStack, kernel, tracker, taint_net,
                 trace, history>>

(* No thread is in a routine of the tool, waiting for the lock or not. *)
InTool == {"wrapped", "after", "closed", "tactivate", "frame", "append"}

PIN_RemoveInstrumentation(t) ==
  /\ pc[t] = "tremove"
  /\ \A u \in Threads \ {t} : pc[u] \notin InTool
  /\ Move(t, "frame")
  /\ UNCHANGED <<lock, recvStack, kernel, tracker, flags,
                 trace, history>>

(* Mutant: only the frame of the first taint is added. *)
AddFrameFirst(t) ==
  /\ pc[t] = "frame" /\ lock \in {NoThread, t}
  /\ lock' = NoThread
  /\ introduced' = IF introduced = {} THEN fo[t] ELSE introduced
  /\ fo' = [fo EXCEPT ![t] = {}]
  /\ Move(t, "app")
  /\ UNCHANGED <<recvStack, kernel, tracker, flags, used,
                 history>>

AddFrame(t) ==
  /\ pc[t] = "frame" /\ lock \in {NoThread, t}
  /\ lock' = NoThread
  /\ introduced' = introduced \union fo[t]
  /\ fo' = [fo EXCEPT ![t] = {}]
  /\ Move(t, "app")
  /\ UNCHANGED <<recvStack, kernel, tracker, flags, used,
                 history>>

-----------------------------------------------------------------------------
(* An instruction that reads one byte; it is logged if that is tainted.    *)
(* Its frame may be flushed to the trace at once.                          *)

Instruction(t) ==
  /\ pc[t] = "app" /\ g_active
  /\ Move(t, "append")
  /\ UNCHANGED <<lock, recvStack, kernel, tracker, flags,
                 trace, history>>

AppendBuffer(t) ==
  /\ Locked(t, "append", "app")
  /\ \E a \in Addrs : used' = used \union ({memory[a]} \ {NOTAINT})
  /\ UNCHANGED <<recvStack, tracker, g_active, g_taint_introduced, fo, introduced>>

Next ==
  \E t \in Threads :
    \/ Call(t)
    \/ KernelSocket(t) \/ KernelAccept(t) \/ KernelConnect(t) \/ KernelRecv(t)
    \/ KernelOverlapped(t) \/ RecvUnwinds(t) \/ KernelClose(t) \/ CallFails(t)
    \/ acceptHelper(t) \/ CloseExit(t)
    \/ AfterRecvNothing(t) \/ AfterRecv(t)
    \/ AlreadyIntroduced(t) \/ TActivate(t) \/ PIN_RemoveInstrumentation(t) \/ AddFrame(t)
    \/ Instruction(t) \/ AppendBuffer(t)

(* A thread inside the tool goes on; a thread that waits for PIN's VM lock *)
(* gets it in the end, if the others keep leaving the tool.  Nothing is    *)
(* assumed of the program and the kernel.                                  *)
Fairness ==
  \A t \in Threads :
    /\ WF_vars(acceptHelper(t)) /\ WF_vars(CloseExit(t))
    /\ WF_vars(AfterRecvNothing(t)) /\ WF_vars(AfterRecv(t))
    /\ WF_vars(TActivate(t)) /\ WF_vars(AddFrame(t)) /\ WF_vars(AppendBuffer(t))
    /\ SF_vars(PIN_RemoveInstrumentation(t))

Spec == Init /\ [][Next]_vars /\ Fairness

-----------------------------------------------------------------------------
(* Properties. *)

TypeOK ==
  /\ pc \in [Threads -> Places]
  /\ call \in [Threads -> Calls \union {NoCall}]
  /\ ret \in [Threads -> Int]
  /\ lock \in Threads \union {NoThread}
  /\ \A t \in Threads : recvStack[t] \in Seq([fd : Handles, addr : Addrs])
  /\ state \in [Threads -> {"nosyscall", "close"}]
  /\ DOMAIN khandles \subseteq Handles
  /\ sockets \in Seq([connected : BOOLEAN, off : 0..Size])
  /\ content \in [Addrs -> [socket : Nat, off : Nat]]
  /\ DOMAIN fds \subseteq Handles \union {SOCKET_ERROR}
  /\ \A h \in DOMAIN fds : fds[h] \in Nat
  /\ taintnum \in Nat
  /\ memory \in [Addrs -> 0..(taintnum - 1)]
  /\ {taint_net, g_active, g_taint_introduced, clean} \subseteq BOOLEAN
  /\ fo \in [Threads -> SUBSET (1..(taintnum - 1))]
  /\ introduced \union used \subseteq 1..(taintnum - 1)

SocketsFollowed ==
  /\ \A h \in DOMAIN khandles : sockets[khandles[h]].connected =>
       h \in DOMAIN fds /\ fds[h] = sockets[khandles[h]].off
  /\ DOMAIN fds \subseteq DOMAIN khandles \union {SOCKET_ERROR}

ReceivedTainted ==
  \A a \in Addrs : content[a] # NoByte =>
    /\ content[a].off \in DOMAIN taint_mappings
    /\ memory[a] = taint_mappings[content[a].off]

Quiet == taint_net /\ clean /\ \A t \in Threads : pc[t] \in {"app", "append"}

(* Between calls, as long as none has overlapped another and no receive    *)
(* was overlapped, scattered or unexpected: every connected socket is      *)
(* tracked at the offset of the connection, also after errors, and what    *)
(* the program has received is tainted with the number of that offset.     *)
NetworkFollowed == Quiet => SocketsFollowed /\ ReceivedTainted

(* Taint that a logged instruction uses is introduced in the trace, or     *)
(* will be by a thread between the two critical sections of AfterRecv.     *)
(* The use may come first: that is what the two sections cost.             *)
UseIntroduced ==
  used \subseteq introduced \union UNION {fo[t] : t \in Threads}

(* Every frame AfterRecv makes reaches the trace: threads that wait for    *)
(* the lock, and the one that waits for all others to leave the tool, do   *)
(* not wait for each other, unless SyscallExit calls TActivate too.        *)
FrameAdded == \A t \in Threads : (fo[t] # {}) ~> (fo[t] = {})
=============================================================================
