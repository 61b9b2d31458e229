--------------------------- MODULE SyscallTaint ----------------------------
(***************************************************************************)
(* How TaintTracker (pin_taint.cpp) finds the tainted bytes of system      *)
(* calls.  SyscallEntry and SyscallExit of gentrace.cpp call taintPreSC    *)
(* and taintPostSC under the lock, one step each; the kernel executes the  *)
(* call in between, in the order it likes.  On Windows it may call the     *)
(* program back from within a call, so that calls nest; SyscallEntry keeps *)
(* the calls of a thread on a stack.  The tracker keeps, for every         *)
(* descriptor of a tainted source, its name and the offset it believes the *)
(* descriptor has, and gives each byte of a source one taint number.       *)
(* Arguments, the environment and mapped sections get new numbers.         *)
(*                                                                         *)
(* A setup is one of the Unix tool or one of the Windows tool, which has   *)
(* handles for descriptors; socketcall exists only on Unix with 32 bits.   *)
(* The kernel is modelled from how the tracker uses it.                    *)
(***************************************************************************)
EXTENDS Integers, Sequences, FiniteSets

CONSTANTS
  Threads,
  Files,       \* the files of the program, "stdin" among them
  TaintFiles,  \* those with a name given by -taint-files
  Fds,         \* descriptors; 0 is open at the start
  Arguments,   \* where the arguments of the program are
  EnvVar,      \* where the variable named by -taint-env is
  Size,        \* bytes in each file, and sent to each socket
  LastAddr,    \* the program's buffer is 0..LastAddr
  Word,        \* 2^32
  Setups,      \* command lines and programs, see SetupType
  MaxCalls     \* bound: system calls

Addrs == 0..LastAddr
Region == [addr : Addrs, len : Nat]

(* Calls that never return to SyscallExit: sigreturn on Unix, on Windows   *)
(* the call a callback may end with, "cbreturn".  socketcall's functions   *)
(* are named by themselves.                                                *)
NeverReturning == {"sigreturn", "cbreturn"}
SocketOps == {"socket", "accept", "recv"}
UnixOps == {"open", "close", "read", "lseek", "mmap", "dup2", "sigreturn"}
             \union SocketOps

(* NtCreateFile, NtClose, NtReadFile without and with a ByteOffset,        *)
(* NtSetInformationFile (FilePositionInformation), NtCreateSection and     *)
(* NtMapViewOfSection.                                                     *)
WindowsOps ==
  {"open", "close", "read", "readat", "lseek", "section", "map", "cbreturn"}
Ops == UnixOps \union WindowsOps

(* -skip-taints, -taint-stdin, -taint-net, -taint-args, -taint-env, the    *)
(* system, and the calls of the program.                                   *)
SetupType ==
  {s \in [skip : Nat, stdin : BOOLEAN, net : BOOLEAN, args : BOOLEAN,
           env : BOOLEAN, windows : BOOLEAN, ops : SUBSET Ops] :
     IF s.windows THEN s.ops \subseteq WindowsOps /\ ~s.stdin
                  ELSE s.ops \subseteq UnixOps}

ASSUME SyscallAssumption ==
  /\ "stdin" \in Files \ TaintFiles /\ TaintFiles \subseteq Files
  /\ Files \cap {"socket", "accept", "none", "view", "Uninitialized"} = {}
  /\ Arguments \in Seq(Region) /\ EnvVar \in Region
  /\ Fds \subseteq Nat /\ 0 \in Fds
  /\ {Size, LastAddr, MaxCalls} \subseteq Nat
  /\ Word \in Nat /\ Word > LastAddr + 2 /\ Word > Size + 1
  /\ Setups \subseteq SetupType

VARIABLES
  pc,              \* "app", "kernel" (before the kernel acts), "return"
  ret,             \* what the kernel returned to each thread
  scStack,         \* each thread's stack of calls and their states
  kcalls,          \* kernel: the calls each thread is in, innermost last
  stray,           \* history: since it was last in no call, the thread made
                   \* a call that never returned
  kfds,            \* kernel: the open file of each open descriptor
  ksections,       \* kernel: the file of each handle of a section
  ofds,            \* kernel: the open files, never reused
  content,         \* where the byte at each address of the buffer is from
  fds, sections,   \* TaintTracker::fds, and the keys of its sections
  taintnum, taint_mappings, memory,
  intronum,        \* calls of defaultPolicy
  g_skipTaints, taint_stdin, taint_net, taint_env,
  windows, ops,    \* the system, and the calls the program makes
  startup,         \* what ThreadStart has still to introduce
  trace,           \* the taint introduction frames
  calls, clean,    \* history: how many calls; none has overlapped another,
                   \* duplicated a descriptor, read at an offset of its own,
                   \* returned before its data or been interrupted by a
                   \* callback, and no recv has failed
  status

kernel == <<kfds, ksections, ofds, content>>
tracker == <<fds, sections, taintnum, taint_mappings, memory, intronum>>
knobs == <<g_skipTaints, taint_stdin, taint_net, taint_env, windows, ops>>
stacks == <<scStack, kcalls, stray>>
vars == <<pc, ret, stacks, kernel, tracker, knobs, startup, trace, calls,
          clean, status>>

NOTAINT == 0
Fail == -1
NoByte == [name |-> "none", off |-> 0]

Calls == [op : Ops, fd : Fds, file : Files \ {"stdin"}, addr : Addrs]

(* Calls that differ only in arguments their operation ignores are one.    *)
Canonical(c) ==
  /\ c.op \in {"open", "socket", "accept"} \union NeverReturning => c.fd = 0
  /\ c.op # "open" => c.file = CHOOSE f \in Files : f # "stdin"
  /\ c.op \notin {"read", "readat", "recv", "map"} => c.addr = 0

Without(f, x) == [y \in DOMAIN f \ {x} |-> f[y]]
With(f, x, v) == [y \in DOMAIN f \union {x} |-> IF y = x THEN v ELSE f[y]]

(* ThreadStart taints the arguments, on Unix also the variable, whose      *)
(* frames taintEnv does not return.                                        *)
Startup(setup) ==
  (IF setup.args
   THEN [i \in DOMAIN Arguments |-> [region |-> Arguments[i], reported |-> TRUE]]
   ELSE <<>>)
  \o (IF setup.env /\ ~setup.windows
      THEN <<[region |-> EnvVar, reported |-> FALSE]>> ELSE <<>>)

Init ==
  /\ pc = [t \in Threads |-> "app"]
  /\ ret = [t \in Threads |-> 0]
  /\ scStack = [t \in Threads |-> <<>>]
  /\ kcalls = [t \in Threads |-> <<>>]
  /\ stray = [t \in Threads |-> FALSE]
  /\ ofds = <<[file |-> "stdin", off |-> 0]>>
  /\ ksections = [h \in {} |-> "none"]
  /\ content = [a \in Addrs |-> NoByte]
  /\ \E setup \in Setups :
       /\ g_skipTaints = setup.skip
       /\ taint_stdin = setup.stdin
       /\ taint_net = setup.net
       /\ taint_env = setup.env
       /\ windows = setup.windows
       /\ ops = setup.ops
       /\ startup = Startup(setup)
  /\ kfds = [d \in IF windows THEN {} ELSE {0} |-> 1]
  /\ fds = [d \in IF taint_stdin THEN {0} ELSE {} |->
              [name |-> "stdin", off |-> 0]]
  /\ sections = {}
  /\ taintnum = 1
  /\ taint_mappings = [r \in {} |-> NOTAINT]
  /\ memory = [a \in Addrs |-> NOTAINT]
  /\ intronum = 0
  /\ trace = <<>>
  /\ calls = 0
  /\ clean = TRUE
  /\ status = "running"

(* The names of sources that a setup taints.                               *)
SocketNames == {"socket", "accept"}
Sources ==
  TaintFiles \union (IF taint_stdin THEN {"stdin"} ELSE {})
             \union (IF taint_net THEN SocketNames ELSE {})

-----------------------------------------------------------------------------
(* SyscallEntry. *)

(* taintPreSC stores the number of a call that may matter, or nosyscall.   *)
(* Every section here has a file.                                          *)
Relevant(c) ==
  \/ c.op = "open" /\ c.file \in TaintFiles
  \/ c.op = "close" /\ (windows => c.fd \in DOMAIN fds)
  \/ c.op \in {"read", "readat", "lseek", "mmap"} /\ c.fd \in DOMAIN fds
  \/ c.op = "section"
  \/ c.op = "map" /\ c.fd \in sections
  \/ c.op \in SocketOps /\ taint_net

taintPreSC(c) == IF Relevant(c) THEN c.op ELSE "nosyscall"

(* Mutant: a thread has one entry, not a stack. *)
PushOverwrites(t, c) ==
  scStack' = [scStack EXCEPT ![t] = <<[c |-> c, state |-> taintPreSC(c)]>>]

Push(t, c) ==
  scStack' = [scStack EXCEPT ![t] = Append(@, [c |-> c, state |-> taintPreSC(c)])]

(* The program may call.                                                   *)
Calling(t) ==
  /\ pc[t] = "app" /\ status = "running" /\ startup = <<>>
  /\ calls < MaxCalls /\ calls' = calls + 1

Apart(t) == \A u \in Threads \ {t} : pc[u] = "app"

(* What the tracker does not follow.                                       *)
Unfollowed == {"dup2", "readat"}

(* A thread may also be in a callback, or in a signal handler, which ends  *)
(* with a call that never returns.                                         *)
SyscallEntry(t) ==
  /\ Calling(t)
  /\ \E c \in {d \in Calls : Canonical(d) /\ d.op \in ops} :
       /\ c.op = "cbreturn" => kcalls[t] # <<>>
       /\ Push(t, c)
       /\ kcalls' = IF c.op \in NeverReturning THEN kcalls
                    ELSE [kcalls EXCEPT ![t] = Append(@, c)]
       /\ stray' = [stray EXCEPT ![t] = \/ c.op \in NeverReturning
                                        \/ @ /\ kcalls[t] # <<>>]
       /\ pc' = [pc EXCEPT ![t] = IF c.op = "sigreturn" THEN "app" ELSE "kernel"]
       /\ clean' = (clean /\ c.op \notin Unfollowed /\ Apart(t))
  /\ UNCHANGED <<ret, kernel, tracker, knobs, startup, trace, status>>

-----------------------------------------------------------------------------
(* The kernel. *)

(* The innermost call a thread is in. *)
Now(t) == kcalls[t][Len(kcalls[t])]

(* A callback, and its end without a call.  Callbacks are not nested.      *)
KernelCallsBack(t) ==
  /\ pc[t] = "kernel" /\ status = "running"
  /\ "cbreturn" \in ops
  /\ Len(kcalls[t]) = 1
  /\ pc' = [pc EXCEPT ![t] = "app"]
  /\ clean' = FALSE
  /\ UNCHANGED <<ret, stacks, kernel, tracker, knobs, startup, trace, calls,
                 status>>

CallbackReturns(t) ==
  /\ pc[t] = "app" /\ status = "running"
  /\ kcalls[t] # <<>>
  /\ pc' = [pc EXCEPT ![t] = "kernel"]
  /\ UNCHANGED <<ret, stacks, kernel, tracker, knobs, startup, trace, calls,
                 clean, status>>

Kernel(t, op, result) ==
  /\ pc[t] = "kernel" /\ Now(t).op = op /\ status = "running"
  /\ ret' = [ret EXCEPT ![t] = result]
  /\ pc' = [pc EXCEPT ![t] = "return"]
  /\ UNCHANGED <<stacks, tracker, knobs, startup, trace, calls, status>>

(* A new descriptor is the lowest free one, a new handle any.              *)
Free == Fds \ (DOMAIN kfds \union DOMAIN ksections)
New(d) == d \in Free /\ (windows \/ \A e \in Free : d <= e)

NewDescriptor(t, op, file) ==
  \E d \in Fds :
    /\ New(d)
    /\ Kernel(t, op, d)
    /\ ofds' = Append(ofds, [file |-> file, off |-> 0])
    /\ kfds' = With(kfds, d, Len(ofds) + 1)
    /\ UNCHANGED <<ksections, content, clean>>

KernelOpen(t) == NewDescriptor(t, "open", Now(t).file)

(* What the tracker calls the source of a socket: all that are accepted    *)
(* have one name.                                                          *)
KernelSocket(t) ==
  \E op \in {"socket", "accept"} : NewDescriptor(t, op, op)

KernelClose(t) ==
  /\ Kernel(t, "close", 0)
  /\ Now(t).fd \in DOMAIN kfds \union DOMAIN ksections
  /\ kfds' = Without(kfds, Now(t).fd)
  /\ ksections' = Without(ksections, Now(t).fd)
  /\ UNCHANGED <<ofds, content, clean>>

KernelDup2(t) ==
  \E d \in Fds :
    /\ Kernel(t, "dup2", d)
    /\ Now(t).fd \in DOMAIN kfds
    /\ kfds' = With(kfds, d, kfds[Now(t).fd])
    /\ UNCHANGED <<ksections, ofds, content, clean>>

IsSocket(file) == file \in {"socket", "accept"}

(* n bytes are read from offset off, 0 at the end of the file.             *)
Fills(t, n, off) ==
  LET id == kfds[Now(t).fd]
      a == Now(t).addr
  IN  /\ off + n <= Size /\ a + n - 1 <= LastAddr
      /\ ofds' = [ofds EXCEPT ![id].off = off + n]
      /\ content' = [b \in Addrs |->
                       IF b \in a..(a + n - 1)
                       THEN [name |-> ofds[id].file, off |-> off + b - a]
                       ELSE content[b]]
      /\ UNCHANGED <<kfds, ksections>>

OpenFile(t) == ofds[kfds[Now(t).fd]]

KernelRead(t) ==
  \E n \in 0..Size, op \in {"read", "recv"} :
    /\ Kernel(t, op, n)
    /\ Now(t).fd \in DOMAIN kfds
    /\ op = "recv" => IsSocket(OpenFile(t).file)
    /\ Fills(t, n, OpenFile(t).off)
    /\ UNCHANGED clean

(* The offset of the handle is set, too. *)
KernelReadAt(t) ==
  \E n \in 0..Size, off \in 0..Size :
    /\ Kernel(t, "readat", n)
    /\ Now(t).fd \in DOMAIN kfds
    /\ Fills(t, n, off)
    /\ UNCHANGED clean

(* STATUS_PENDING: the data comes later.  The two are one step, as the     *)
(* tracker sees neither.                                                   *)
KernelPending(t) ==
  \E n \in 1..Size :
    /\ windows
    /\ Kernel(t, "read", Fail)
    /\ Now(t).fd \in DOMAIN kfds
    /\ Fills(t, n, OpenFile(t).off)
    /\ clean' = FALSE

KernelLseek(t) ==
  \E o \in 0..Size :
    /\ Kernel(t, "lseek", o)
    /\ Now(t).fd \in DOMAIN kfds
    /\ ~IsSocket(OpenFile(t).file)
    /\ ofds' = [ofds EXCEPT ![kfds[Now(t).fd]].off = o]
    /\ UNCHANGED <<kfds, ksections, content, clean>>

(* The file is mapped outside the buffer. *)
KernelMmap(t) ==
  /\ Kernel(t, "mmap", LastAddr + 1)
  /\ Now(t).fd \in DOMAIN kfds
  /\ ~IsSocket(OpenFile(t).file)
  /\ UNCHANGED <<kernel, clean>>

KernelSection(t) ==
  \E d \in Fds :
    /\ New(d)
    /\ Kernel(t, "section", d)
    /\ Now(t).fd \in DOMAIN kfds
    /\ ~IsSocket(OpenFile(t).file)
    /\ ksections' = With(ksections, d, OpenFile(t).file)
    /\ UNCHANGED <<kfds, ofds, content, clean>>

(* What a mapped section shows: bytes of a source, of whichever.           *)
Viewed(file) ==
  [name |-> IF file \in Sources THEN "view" ELSE "none", off |-> 0]

(* n bytes are mapped where the program has asked for them.                *)
KernelMap(t) ==
  \E n \in 1..Size :
    LET a == Now(t).addr
    IN  /\ Kernel(t, "map", n)
        /\ Now(t).fd \in DOMAIN ksections
        /\ a + n - 1 <= LastAddr
        /\ content' = [b \in Addrs |-> IF b \in a..(a + n - 1)
                                       THEN Viewed(ksections[Now(t).fd])
                                       ELSE content[b]]
        /\ UNCHANGED <<kfds, ksections, ofds, clean>>

KernelFails(t) ==
  /\ \E op \in Ops : Kernel(t, op, Fail)
  /\ clean' = (clean /\ Now(t).op # "recv")
  /\ UNCHANGED kernel

-----------------------------------------------------------------------------
(* SyscallExit takes the entry on top of the stack for its call's. *)

Top(t) == scStack[t][Len(scStack[t])]
Popped(t) == Top(t).c
Pop(s) == SubSeq(s, 1, Len(s) - 1)

Exit(t) ==
  /\ pc[t] = "return" /\ status = "running"
  /\ pc' = [pc EXCEPT ![t] = "app"]
  /\ scStack' = [scStack EXCEPT ![t] = Pop(@)]
  /\ kcalls' = [kcalls EXCEPT ![t] = Pop(@)]
  /\ UNCHANGED <<stray, ret, kernel, knobs, startup, calls, clean>>

numbers == <<taintnum, taint_mappings, memory, intronum>>
NoIntro == UNCHANGED <<numbers, sections, trace, status>>

(* introMemTaint: n bytes at a are those of source name from off on.  The  *)
(* policy counts every call, also those for no byte at all.                *)
Resource(name, off) == [name |-> name, off |-> off]

(* Mutant: every byte gets a new number. *)
TagAlwaysNew(name, off, i) == taintnum + i

(* Mutant: the bytes of one read get the same new number. *)
TagSame(name, off, i) ==
  LET r == Resource(name, off + i)
  IN  IF r \in DOMAIN taint_mappings THEN taint_mappings[r] ELSE taintnum

Tag(name, off, i) ==
  LET r == Resource(name, off + i)
      new == {j \in 0..(i - 1) :
                Resource(name, off + j) \notin DOMAIN taint_mappings}
  IN  IF r \in DOMAIN taint_mappings THEN taint_mappings[r]
                                     ELSE taintnum + Cardinality(new)

(* Mutant: all bytes of the frame get the number of the first. *)
FrameOfFirst(a, n, name, off) ==
  [addr |-> a, ids |-> [i \in 1..n |-> Tag(name, off, 0)]]

Frame(a, n, name, off) ==
  [addr |-> a, ids |-> [i \in 1..n |-> Tag(name, off, i - 1)]]

introMemTaint(a, n, name, off) ==
  /\ intronum' = intronum + 1
  /\ IF intronum >= g_skipTaints /\ n > 0
     THEN LET used == {Resource(name, off + i) : i \in 0..(n - 1)}
              known == DOMAIN taint_mappings
          IN  /\ taint_mappings' =
                   [r \in known \union used |->
                      IF r \in known THEN taint_mappings[r]
                                     ELSE Tag(name, off, r.off - off)]
              /\ taintnum' = taintnum + Cardinality(used \ known)
              /\ memory' = [b \in Addrs |->
                              IF b \in a..(a + n - 1)
                              THEN Tag(name, off, b - a) ELSE memory[b]]
              /\ trace' = Append(trace, Frame(a, n, name, off))
     ELSE UNCHANGED <<taintnum, taint_mappings, memory, trace>>
  /\ UNCHANGED sections

(* introMemTaint with offset -1: every byte gets a new number.             *)
introFresh(a, n, reported) ==
  /\ intronum' = intronum + 1
  /\ IF intronum >= g_skipTaints /\ n > 0
     THEN /\ taintnum' = taintnum + n
          /\ memory' = [b \in Addrs |-> IF b \in a..(a + n - 1)
                                        THEN taintnum + (b - a) ELSE memory[b]]
          /\ trace' = IF reported
                      THEN Append(trace, [addr |-> a,
                                          ids |-> [i \in 1..n |-> taintnum + i - 1]])
                      ELSE trace
     ELSE UNCHANGED <<taintnum, memory, trace>>
  /\ UNCHANGED <<taint_mappings, sections>>

(* Mutant: the offset stands still when the introduction is skipped. *)
ReadAdvancesIfTaken(t, d, n) ==
  fds' = IF intronum >= g_skipTaints THEN [fds EXCEPT ![d].off = @ + n] ELSE fds

(* introMemTaintFromFd adds the length to the offset of the descriptor.    *)
ReadAdvances(t, d, n) == fds' = [fds EXCEPT ![d].off = @ + n]

(* introMemTaintFromFd, for n bytes.  The value of each goes into the      *)
(* frame, and an assertion fails if it cannot be copied.                   *)
FromFd(t, n) ==
  LET d == Popped(t).fd
      a == Popped(t).addr
  IN  IF d \notin DOMAIN fds
      THEN status' = "fd assertion" /\ UNCHANGED <<tracker, trace>>
      ELSE IF intronum >= g_skipTaints /\ n > 0 /\ a + n - 1 > LastAddr
      THEN status' = "copy assertion" /\ UNCHANGED <<tracker, trace>>
      ELSE /\ introMemTaint(a, n, fds[d].name, fds[d].off)
           /\ ReadAdvances(t, d, n)
           /\ UNCHANGED status

(* taintPostSC and what SyscallExit does with its frame.  NtReadFile that  *)
(* has read nothing is no introduction.                                    *)
ExitRead(t) ==
  /\ Exit(t)
  /\ Top(t).state \in {"read", "readat"} /\ ret[t] # Fail
  /\ ~(windows /\ ret[t] = 0)
  /\ FromFd(t, ret[t])

(* socketcall does not test for errors of recv: -1 is a length. *)
ExitRecv(t) ==
  /\ Exit(t)
  /\ Top(t).state = "recv"
  /\ FromFd(t, ret[t] % Word)

(* The descriptor is kept as that of a new socket. *)
ExitSocket(t) ==
  /\ Exit(t)
  /\ Top(t).state \in {"socket", "accept"} /\ ret[t] # Fail
  /\ fds' = With(fds, ret[t], [name |-> Popped(t).op, off |-> 0])
  /\ NoIntro

(* Mutant: a failed open is taken for a descriptor. *)
ExitOpenUnchecked(t) ==
  /\ Exit(t)
  /\ Top(t).state = "open"
  /\ fds' = With(fds, ret[t], [name |-> Popped(t).file, off |-> 0])
  /\ NoIntro

ExitOpen(t) ==
  /\ Exit(t)
  /\ Top(t).state = "open" /\ ret[t] # Fail
  /\ fds' = With(fds, ret[t], [name |-> Popped(t).file, off |-> 0])
  /\ NoIntro

ExitClose(t) ==
  /\ Exit(t)
  /\ Top(t).state = "close" /\ ret[t] = 0
  /\ fds' = Without(fds, Popped(t).fd)
  /\ NoIntro

(* fds[args[0]] makes an entry when there is none. *)
ExitLseek(t) ==
  LET d == Popped(t).fd
      name == IF d \in DOMAIN fds THEN fds[d].name ELSE "Uninitialized"
  IN  /\ Exit(t)
      /\ Top(t).state = "lseek" /\ ret[t] # Fail
      /\ fds' = With(fds, d, [name |-> name, off |-> ret[t]])
      /\ NoIntro

(* The offset argument is taken for an address: nothing can be copied from *)
(* it, and the assertion fails.                                            *)
ExitMmap(t) ==
  /\ Exit(t)
  /\ Top(t).state = "mmap" /\ ret[t] # Fail
  /\ status' = "mmap assertion"
  /\ UNCHANGED <<tracker, trace>>

(* A section of a tracked file is remembered, and never forgotten.         *)
ExitSection(t) ==
  /\ Exit(t)
  /\ Top(t).state = "section" /\ ret[t] # Fail
  /\ sections' = IF Popped(t).fd \in DOMAIN fds THEN sections \union {ret[t]}
                                             ELSE sections
  /\ UNCHANGED <<fds, numbers, trace, status>>

ExitMap(t) ==
  /\ Exit(t)
  /\ Top(t).state = "map" /\ ret[t] # Fail
  /\ introFresh(Popped(t).addr, ret[t], TRUE)
  /\ UNCHANGED <<fds, status>>

(* The call does not matter, or has failed, or nothing was read. *)
ExitOther(t) ==
  /\ Exit(t)
  /\ \/ Top(t).state = "nosyscall"
     \/ ret[t] = Fail /\ Top(t).state # "recv"
     \/ windows /\ Top(t).state \in {"read", "readat"} /\ ret[t] = 0
  /\ UNCHANGED fds
  /\ NoIntro

-----------------------------------------------------------------------------
(* Introductions outside system calls.                                     *)

(* The first thread, under the lock and before the program runs, so that   *)
(* a step for each region is as good as one for all: see Calling.          *)
ThreadStart ==
  /\ startup # <<>>
  /\ startup' = Tail(startup)
  /\ LET next == Head(startup)
     IN  introFresh(next.region.addr, next.region.len, next.reported)
  /\ UNCHANGED <<pc, ret, stacks, kernel, fds, knobs, calls, clean, status>>

(* GetEnvironmentStringsW writes the variable, taintEnv taints it.  Only a *)
(* tool compiled with USE_GETENVSTRINGS has the wrapper, and no build file *)
(* of the repository defines it.                                           *)
GetEnvWWrap(t) ==
  /\ Calling(t)
  /\ windows /\ taint_env
  /\ introFresh(EnvVar.addr, EnvVar.len, TRUE)
  /\ content' = [b \in Addrs |->
                   IF b \in EnvVar.addr..(EnvVar.addr + EnvVar.len - 1)
                   THEN NoByte ELSE content[b]]
  /\ clean' = (clean /\ Apart(t))
  /\ UNCHANGED <<pc, ret, stacks, kfds, ksections, ofds, fds, knobs, startup,
                 status>>

Next ==
  \/ ThreadStart
  \/ \E t \in Threads :
       \/ SyscallEntry(t) \/ GetEnvWWrap(t)
       \/ KernelCallsBack(t) \/ CallbackReturns(t)
       \/ KernelOpen(t) \/ KernelSocket(t) \/ KernelClose(t) \/ KernelDup2(t)
       \/ KernelRead(t) \/ KernelReadAt(t) \/ KernelPending(t) \/ KernelLseek(t)
       \/ KernelMmap(t) \/ KernelSection(t) \/ KernelMap(t) \/ KernelFails(t)
       \/ ExitRead(t) \/ ExitRecv(t) \/ ExitSocket(t) \/ ExitOpen(t)
       \/ ExitClose(t) \/ ExitLseek(t) \/ ExitMmap(t) \/ ExitSection(t)
       \/ ExitMap(t) \/ ExitOther(t)

Spec == Init /\ [][Next]_vars

-----------------------------------------------------------------------------
(* Properties. *)

Names == Files \union SocketNames \union {"Uninitialized"}
Tags == 0..(taintnum - 1)
Bytes == [name : Names \union {"none", "view"}, off : Nat]
Returning == {c \in Calls : c.op \notin NeverReturning}
Entries == [c : Calls, state : Ops \union {"nosyscall"}]
OpenFiles == [file : Files \union SocketNames, off : 0..Size]

TypeOK ==
  /\ pc \in [Threads -> {"app", "kernel", "return"}]
  /\ ret \in [Threads -> Int]
  /\ scStack \in [Threads -> Seq(Entries)]
  /\ kcalls \in [Threads -> Seq(Returning)] /\ stray \in [Threads -> BOOLEAN]
  /\ ofds \in Seq(OpenFiles)
  /\ DOMAIN kfds \subseteq Fds /\ kfds \in [DOMAIN kfds -> DOMAIN ofds]
  /\ DOMAIN ksections \subseteq Fds /\ ksections \in [DOMAIN ksections -> Files]
  /\ content \in [Addrs -> Bytes]
  /\ sections \subseteq Fds
  /\ DOMAIN fds \subseteq Fds /\ fds \in [DOMAIN fds -> [name : Names, off : Nat]]
  /\ memory \in [Addrs -> Tags]
  /\ taint_mappings \in [DOMAIN taint_mappings -> Tags \ {NOTAINT}]
  /\ taintnum \in Nat /\ intronum \in Nat /\ calls \in 0..MaxCalls
  /\ {taint_stdin, taint_net, taint_env, windows, clean} \subseteq BOOLEAN
  /\ startup \in Seq([region : Region, reported : BOOLEAN])
  /\ g_skipTaints \in Nat /\ ops \subseteq Ops
  /\ status \in {"running", "fd assertion", "copy assertion", "mmap assertion"}

(* Between calls, as long as calls have not overlapped, no descriptor was  *)
(* duplicated or read at an offset of its own, no read was pending, no     *)
(* thread was called back and no recv has failed: the tracker follows      *)
(* exactly the descriptors of tainted sources, at the offsets the kernel   *)
(* has, and knows the handles of their sections, whatever was opened,      *)
(* closed, reused, sought, read in part, skipped or failed before.         *)
Quiet == clean /\ status = "running" /\ \A t \in Threads : pc[t] = "app"

FdsFollowKernel ==
  Quiet =>
    /\ DOMAIN fds = {d \in DOMAIN kfds : ofds[kfds[d]].file \in Sources}
    /\ \A d \in DOMAIN fds :
         LET file == ofds[kfds[d]]
         IN  fds[d] = [name |-> file.file, off |-> file.off]
    /\ {h \in DOMAIN ksections : ksections[h] \in Sources} \subseteq sections

(* Under the same conditions every byte of a tainted source in the buffer  *)
(* is tainted, with the number of that byte of that source, or, in the     *)
(* view of a section, with some number.                                    *)
NoMissedTaint ==
  Quiet /\ g_skipTaints = 0 =>
    \A a \in Addrs :
      /\ content[a].name \in Sources =>
           /\ content[a] \in DOMAIN taint_mappings
           /\ memory[a] = taint_mappings[content[a]]
      /\ content[a].name = "view" => memory[a] # NOTAINT

(* Two bytes of sources have the same taint number only if they are the    *)
(* same byte of the same source, and a number of anything else is that of  *)
(* one byte alone, in every interleaving of calls and introductions.       *)
TaintIdsDistinct ==
  /\ \A r, s \in DOMAIN taint_mappings :
       taint_mappings[r] = taint_mappings[s] => r = s
  /\ \A r \in DOMAIN taint_mappings : taint_mappings[r] < taintnum
  /\ \A a, b \in Addrs :
       memory[a] = memory[b] /\ memory[a] # NOTAINT /\ a # b =>
         \E r \in DOMAIN taint_mappings : taint_mappings[r] = memory[a]

(* Where ThreadStart introduces taint without a frame.                     *)
Silent ==
  IF taint_env /\ ~windows
  THEN EnvVar.addr..(EnvVar.addr + EnvVar.len - 1) ELSE {}

(* The trace introduces all taint there is, but that of the environment on *)
(* Unix: what its frames say of an address, the last one last, is the      *)
(* tracker's memory.                                                       *)
Introduces(f, a) == a \in f.addr..(f.addr + Len(f.ids) - 1)

Introduced(a) ==
  LET at == {i \in DOMAIN trace : Introduces(trace[i], a)}
      last == CHOOSE i \in at : \A j \in at : j <= i
  IN  IF at = {} THEN NOTAINT
      ELSE trace[last].ids[a - trace[last].addr + 1]

IntroRecorded == \A a \in Addrs \ Silent : memory[a] = Introduced(a)

(* "Needed because windows system calls can be nested!": what SyscallExit  *)
(* pops is the entry of the call that returns, with the state of its own   *)
(* taintPreSC, whatever calls have never returned before or are unfinished *)
(* around it.  Only if a callback within this call has ended with a call   *)
(* that never returns is it another's; then SyscallExit does nothing.      *)
TopIsMine ==
  \A t \in Threads : pc[t] # "app" =>
    /\ scStack[t] # <<>>
    /\ \/ /\ Popped(t) = Now(t)
          /\ Top(t).state \in {Now(t).op, "nosyscall"}
       \/ stray[t] /\ Len(kcalls[t]) = 1 /\ Top(t).state = "nosyscall"

(* "assert(fds.find(fd) != fds.end())" in introMemTaintFromFd: the         *)
(* descriptor that SyscallEntry found tracked still is at the exit.        *)
FdStillTracked == status # "fd assertion"
=============================================================================
