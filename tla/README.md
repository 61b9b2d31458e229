# TLA+ verification of bap-pintraces

bap-pintraces is a set of PIN tools that trace a running x86 program into a
container of frames. `gentrace` (src/gentrace.cpp, with src/pin_taint.cpp)
tracks taint from system calls to instructions and logs the tainted ones, or
all of them. `bpt` (src/bpt*.hpp) logs every instruction with its operands.
PIN calls the tools on the threads of the traced program, so several threads
run their routines at once. The tests a user can run exercise one program on
one machine; what follows is about the orders of events they do not produce.

## Inventory

| part | state | operations | interacts with | correct when |
|---|---|---|---|---|
| trace buffer and container (gentrace.cpp 645-826, 1061-1345, 1848-2608) | `g_buffer`, `g_bufidx`, `g_twnew`, `g_logcount`, `g_kfcount`, `g_exit_next`, `lock` | AppendBuffer, FlushBuffer, the callbacks of threads, system calls, modules, signals, exec, exit | PIN calls it on all threads; taint tracker decides what is logged | no overflow, frames in order, counts exact, nothing lost at an exit |
| activation (gentrace.cpp 614-643, 1362-1421, 2633-2688) | `g_active`, `g_taint_introduced`, `g_trig_countdown`, PIN's code cache | CheckTrigger, Activate, TActivate, compilation of blocks | SyscallExit calls TActivate; PIN's VM lock | instrumentation follows `g_active`, no logging before the trigger, no deadlock |
| taint introduction (pin_taint.cpp 64-880) | `fds`, `sections`, `taint_mappings`, `taintnum`, `memory`, per-thread `scStack` | taintPreSC, taintPostSC, taintArgs, taintEnv | SyscallEntry/Exit call it under `lock`, the kernel acts in between; ThreadStart, GetEnvWWrap | tracks the tainted descriptors at the right offsets; one number per byte |
| taint propagation (pin_taint.cpp 155-345, 884-995) | `memory`, per-thread `delta`, `values` | hasTaint, setTaintContext, taintPropagation, taintChecking | AppendBuffer, under `lock` | writes get the taint of reads |
| fork (gentrace.cpp 2368-2384, 2524-2549) | `g_threadname`, `g_twnew`, counters, the inherited buffer and lock | FollowParent, FollowChild | container; the kernel copies the process in any state | every process has a file of its own, with its own frames only |
| Winsock and environment wrappers (gentrace.cpp 828-1059, 1921-2233) | `recvStack`, `fds` | BeforeRecv, AfterRecv, accept, connect | taint tracker, TActivate | sockets and offsets follow the kernel, every taint used is introduced, threads do not wait for each other |
| bpt tracer (bpt_tool*.hpp, bpt_frames_saver.hpp) | `m_regs`, `m_mems`, `current` | code_exec, load, remember_store, ... | saver, splitter | each instruction's frame has its own reads and writes |
| flag splitters (bpt_*_splitter.hpp) | none | read, write | bpt register operands | the flags an instruction uses, and no others, with their values |
| pivot gadgets (pivot.cpp) | none | PIVOT_testpivot | AppendBuffer on a failed check | prints the targets that are tainted |
| tables and text (winsyscalls, reg_mapping_pin, pin_misc, bpt_text_saver) | none | lookups, formatting | | |

What is hard here is concurrency. There is one lock, but the check of the
buffer, `g_exit_next`, `g_active`, the trigger's countdown and the descriptor
table between entry and exit of a call are used outside it; and the process
can be left from many places, with or without the lock. PROJECT.json lists
these hazards line by line.

## Modules

- `FrameBuffer` models the buffer. One action is one routine: the routines
  that take `lock` touch shared state only while they hold it, so each is one
  step that needs the lock free, and `lock` keeps a value only when a routine
  leaves the process without releasing it. Reads outside the lock are steps
  of their own: `EnterBlock` (CheckBuffer) before `FlushForBlock` and the
  appends, `EnterRep` (CheckBufferEx), `PostInstruction`, `Fini`,
  `FollowExec` before `Cleanup`. A frame is its kind, its thread and its
  number in the thread; addresses, operands and bytes are left out.
  `left` and `rep` say how many instructions of the block, and iterations of
  a REP instruction, have yet to come; they are in the generated code, where
  InstrBlock has put the block's length and `insLeft` as arguments.
- `ThreadLog` is what a trace promises about a single thread: its frames are
  in the order it made them, none twice, none missing, and what has reached
  the container is a prefix that only grows. `FrameBuffer` implements it
  (`ThreadOrder`): the log of a thread is its numbered frames in container
  and buffer, the saved part those in the container.
- `Activation` models how logging starts. The code cache is a variable of its
  own: for each block, whether it was compiled and with which calls. InstrBlock
  reads `g_active` twice while PIN holds its VM lock; CheckTrigger's decrement
  is a load and a store (`executed` counts the executions it has let pass);
  PIN_RemoveInstrumentation needs the VM lock and no thread inside a routine of
  the tool, which is what the comment on TActivate says of it. The knobs are
  chosen in `Init`, so one run covers every command line.
- `ForkExec` models a program that forks under gentrace. A process is an
  index; `Fork` copies every variable of the tool from parent to child as the
  kernel does, the lock among them, and leaves one thread in the child.
  `FollowParent` and `FollowChild` append a letter to `g_threadname` (with the
  assertion on its length; a name without a terminator is read beyond its
  end, which is a choice of `NamesRead`), and the child opens a container of
  its own. `AppendBuffer` takes two steps, so that a fork can come while
  another thread holds the lock. Of the inside of a process only what a fork
  can disturb is kept.
- `SyscallTaint` models the descriptor table of the taint tracker against
  that of the kernel: SyscallEntry, the kernel's step and SyscallExit are
  three steps. Source names are file names, or "socket" and "accept" for the
  sockets of the 32-bit tool's socketcall; which byte of which source is at
  an address of the program's buffer is known to the kernel part (`content`),
  which taint number is there to the tracker (`memory`). A setup says which
  options are on, which calls the program makes and whether it is one of the
  Unix or of the Windows tool. On Windows handles take the place of
  descriptors, a file can also be read at an offset of its own or later than
  the call returns, and a section of a file can be mapped; each `Exit` action
  stands for the case of both systems in taintPostSC (the Windows ones are at
  pin_taint.cpp 783-876). Arguments and environment are regions in the buffer
  that `ThreadStart` taints, or `GetEnvWWrap` on Windows, with new numbers.
  The Windows kernel can call the program back within a call
  (`KernelCallsBack`), and the callback can make calls and end with one that
  never returns (`cbreturn`), as a Unix signal handler does (`sigreturn`):
  `kcalls` are the calls the kernel has a thread in, `scStack` those of which
  the tool thinks so.
- `Winsock` models the network part of the Windows tool, which does the same
  with wrappers in place of system calls. NtClose is its only system call: an
  NtReadFile of a tracked handle is in `SyscallTaint`, and that SyscallExit then
  calls TActivate with the lock held (gentrace.cpp 2342-2353), which can stop
  every thread for good, is in `Activation`. AfterRecv has two critical
  sections: `AfterRecv` taints the bytes, `TActivate` and
  `PIN_RemoveInstrumentation` run without the lock, `AddFrame` takes it again
  and adds the frame kept in `fo`. `recvStack` is pushed when recv is called
  and popped when it returns; when an exception leaves recv (`RecvUnwinds`)
  the entry stays.
- `TaintPropagation` models what AppendBuffer does to taint: the operand list
  InstrBlock makes of an instruction (registers, base registers in place of
  memory operands, bytes read, bytes written), the decision to log it, the
  propagation from operands read to operands written and the check of the
  instruction pointer. `delta` and `memory` are the tracker's maps. Next to
  them, `regs` and `mem` hold the *origin* of each value: the set of input
  bytes it was computed from. The origin does not follow the tracker's rule,
  which gives every operand written the union of all that are read: an
  instruction says for each operand which others flow into it (`flow`), so
  XCHG swaps two origins, a CALL stores the old instruction pointer only, and
  a jump through a register moves that register's origin into the instruction
  pointer. An origin also says what the tracker can know of it (`seen`):
  - "exact": the tag says what it comes from, 0 for nothing, n for the n-th
    byte alone, -1 for more than one (or one read twice);
  - "over": nothing is missed, and the tag names no wrong byte, but it may say
    "mixed", or a byte, of data that comes from less: the instruction had other
    operands, an old tag was left in place, or clean data has overwritten the
    place behind the tracker's back (`KernelWrites`);
  - "lost": the tracker has lost sight of tainted data, in one of the ways the
    head of the module lists: part of a register, a false predicate, an
    instruction outside [taint-start, taint-end], a branch (gentrace.cpp 1197),
    an instruction that InstrBlock leaves out (1433-1446, `LeftOut`), flags in
    the 32-bit tool, a colliding 32-bit key, EDX over a Windows system call,
    and what is computed from any of these.
- `BptTracer` models the bpt tool on a program with one thread (`OneThread`):
  its routines take no lock, and with several threads they would race. Each
  routine PIN calls for an instruction is a step: `CodeExec`, `Read`,
  `RememberWrite`, `Load`, `RememberStore` before it, `WriteAfter` and
  `StoreAfter` after a CMPXCHG. `m_regs`, `m_mems` and `current` are the tool's
  globals. The processor (`Execute`, `Fault`) and the kernel (`KernelWrites`)
  step in between; a value is the number of the instruction that produced it,
  so that a frame says whose value it recorded. Flags are recorded one by one
  as the splitter of the mode says: those that the instruction's row of the
  flags table tests or changes, or all of them. It implements `ThreadLog` as
  well (`OneFrameEach`). -enable-rip (bpt.cpp 26) is off, and no instruction
  renames x87 registers.
- The modules whose names begin with `MC` instantiate them for TLC.
  `MCTaintPropagation` and `MCBptTracer` contain small programs, one
  instruction of each shape; `MCSyscallTaint` the setups, `MCWinsock` the
  lists of buffers.
- The modules whose names end in `Proofs` hold the theorems, one module for each
  component. `InductionLemmas` is what they share: induction up to a number,
  functions defined by recursion, and lists of what a sequence maps to.

Definitions marked "Mutant" are variants of the definition that follows them,
with a plausible mistake. No specification uses them; each shows that one
property notices the mistake.

## Runs

| run | result | what it shows |
|---|---|---|
| `FB_Tight.cfg` | holds | Two threads, a buffer of two that a single block fills, log limit, key frames, system call frames, failed taint checks, signals, exec: the log limit is passed by less than the buffer, every instruction in the container is counted once, key frames keep their distance, frames stay in order, and every exit under the lock is complete. The buffer does overflow in this instance; these properties hold all the same. |
| `FB_Roomy.cfg` | holds | An instance that satisfies `Roomy`, with REP and -logone-after: no overflow, and room for all instructions that any thread still owes. |
| `FB_Overflow.cfg` | violated | The assertion at gentrace.cpp:1211 fails when blocks are too long for `FUDGE` and the number of threads. |
| `ACT_Trigger.cfg` | holds | All command lines, two threads, two blocks, trigger counts 0, 1 and 3: logging starts at the head of the `trig_count`-th execution of the trigger, later only when threads count at once; the code cache follows `g_active`; introductions come first. |
| `ACT_Deadlock.cfg` | violated | SyscallExit calls TActivate with the lock held, against the comment on TActivate. |
| `ACT_Early.cfg` | violated | Tainted input starts logging before the trigger address is reached. |
| `SYS_Taint.cfg` | holds | Two threads, four calls: on three files and two descriptors, with stdin tainted or the first introduction skipped; on sockets of the 32-bit tool, with read and recv; on handles and sections of Windows; with a tainted argument, a tainted variable or both; with calls inside callbacks and signal handlers that never return. Tracker and kernel agree while calls do not overlap, and numbers, trace and stacks are consistent in all interleavings. |
| `SYS_Close.cfg` | violated | The assertion of introMemTaintFromFd fails when another thread closes the descriptor during a read. |
| `TNT_Exact.cfg` | holds | Three programs of six instructions, each under its command line (64-bit; 32-bit with -logall-after, -taint-indices and a range; Windows with -logall-before and -seh-mode): no tag is missing or names a wrong byte but where the tracker has lost sight of the data, tainted data gets into the instruction pointer unnoticed only if it was lost, as by a jump through a tainted operand, and a check fails without cause only where more operands are counted than the data comes from. |
| `BPT_Replay.cfg` | holds | One thread, a program of pushes, partial writes, REP and predicated instructions and CMPXCHG, two ways to record flags, faults, signals, REP, an image: every value read was recorded before, every write is recorded with the value the instruction produced, no operand strays into another frame, one frame per instruction. |
| `FORK_Follow.cfg` | holds | Two threads, three processes (a child and a grandchild, or two children), forks in every state of the buffer and the lock: unless two threads fork at once, files have one writer each, a child that ends leaves exactly its own frames, and it gets its container unless another thread of the parent held the lock. |
| `WSA_Recv.cfg` | holds | Two threads, two handles: sockets tracked at the kernel's offsets, what was received is tainted, every taint that is used is or will be introduced, and every frame is added in the end although a thread waits for all the others to leave the tool (provided SyscallExit does not call TActivate: see `ACT_Deadlock`). |

The violated runs are the "findings" of PROJECT.json, with the sentence of the
code each of them contradicts.

### Bounds

Two threads are enough for every race above: each is between one thread that is
between two steps and one that acts. `FB_Tight` uses a buffer of 2 and a limit
of 3, so that a block fills the buffer, a key frame is due at the flush and the
limit is passed by the next one; five frames (`MaxFrames`, after which none is
added but those a flush adds) are two full buffers and a key frame; one of the
five may be an image's. `FB_Roomy` uses a buffer of 4, `FUDGE` 1 and REP counts
up to 2, the largest bursts that satisfy `Roomy`, and five frames, one more
than the buffer holds. `Word` is 2^32 scaled down with the sizes. `Activation`
bounds the trace at 3 frames (an introduction, a use and one more) and the
trigger at 4 executions, one more than the largest count. `SyscallTaint` has
files of two bytes and a buffer of two, so that reads can be partial, repeated
and at end of file, and four calls: open, read, seek and read again, or two
races of two. One argument and one variable of a byte each share the buffer
with what is read. Eight setups divide the calls among them: three for files,
one with signal handlers among them, two for sockets, two for Windows and one
for callbacks, each with the calls whose order matters together. Callbacks
within callbacks are left out. `Word`, 2^32, is 8 there: larger than any length
that fits. `TaintPropagation` has one thread (the tracker's steps are taken
under `lock`, and registers are per thread), two tainted bytes, which are
enough for mixed taint, and three addresses, two of them with the same key.
`BptTracer` executes three instructions, so that an instruction has a
predecessor and a successor, with up to two REP iterations, one event of the
kernel, which may write a byte or a flag, and one image. `ForkExec` has three
processes, enough for siblings and for a grandchild; an array of 2 that the
first fork fills and one of 4 that none does; two instructions, one on each
side of a fork, and a limit of 2, which is reached only if a count is inherited
or both are logged by one process. `Winsock` has one connection and a second
one on the same or another handle, two receives of up to two bytes, in one
buffer or in two that do not follow each other. Threads are symmetric in all
modules; the runs of liveness properties do not use that.

Deadlock is checked in the runs on `FrameBuffer`, `BptTracer` and
`TaintPropagation`, where `Terminated` is the only way to stop. It is not
checked on `Activation`, which does deadlock (`ACT_Deadlock`), on
`SyscallTaint` and `Winsock`, which stop at the bounds on calls, nor on
`ForkExec`, where all processes end, or a child waits for a lock that nobody
will release.

### Fairness

`ForkExec` assumes weak fairness of `FollowChild` only: a process that has just
been born is scheduled, and its only thread is in that routine. `ChildOpens`
needs no more. `Winsock` assumes weak fairness of the routines of the tool,
that is, a thread inside the tool is scheduled; where they need the lock this
is enough because no thread keeps it between steps of its own. Of
`PIN_RemoveInstrumentation` it assumes strong fairness: it can proceed only
while no other thread is in the tool, which is again and again the case but
need not stay so; PIN stops threads that are about to enter. Nothing is assumed
of the program and of the kernel: recv may never return. The other modules
state safety properties only.

## Proofs

Every theorem holds for all values of the constants that the module's
assumptions allow: any number of threads (in `BptTracer` one), processes,
files, descriptors and bytes, every size and every command line, and without
the bounds that a run sets, except where the bound is part of the module. TLC
evaluates the assumptions in the runs. In each module the steps are taken one
action at a time against an inductive invariant, and TLC checked that invariant
on the run's instance before it was proved.

`FrameBufferProofs`:

- `TypeCorrect`: `Spec => []TypeOK`. It holds inductively; it includes that
  the buffer has at most `BufferSize` frames and that a thread outside a
  block owes nothing.
- `NoOverflowTheorem`: `Roomy => (Spec => []NoOverflow)`. `NoOverflow` is not
  inductive. `RoomForOwed` is: the frames in the buffer and the instructions
  that all threads may still append without another check fit together.
  The check of one thread ignores what the others owe, so a step of
  `EnterBlock` keeps it only because all other threads owe at most a `Burst`
  each, which is what `Roomy` allows for with `Fudge`. The sum over the
  threads is the cardinality of the set `Slots`, so that the library's
  theorems on finite sets apply. An append then always finds room.
- `LogLimitTheorem` and `ExitCompleteTheorem` follow from `LockInv`: the lock
  stays held only by a thread that has just flushed, and while it is free the
  limit has not been reached. With the lock held no thread can append.
- `FlushedTheorem`: a thread in a system call has no frame in the buffer;
  inductive together with `TypeOK`, since only the thread itself appends its
  frames.

`Roomy` is evaluated by `FB_Roomy` (`RoomyInstance`); the other theorems do not
need it.

The second half of the module is about what reaches the container. `TraceInv`
says that the buffer holds instructions only and that the two counters account
for the container (`Accounted`): `g_logcount` is the number of instructions in
it, `g_kfcount` at most the number after any key frame. Every step then adds to
the container in one of four ways (`Shapes`), and each keeps the account:
counts are cardinalities of sets of positions, since the provers do not reach
recursive counting. `LogCountTheorem` and `KeyframeTheorem` follow; the second
needs that the flush resets the count when, and only when, it adds a key frame.
`ExceptionTheorem` needs the lock: ExceptionHandler keeps it from its frame to
the end of the process, so that nobody else can add one (`SignalInv`).
`RoomTheorem` restates the invariant behind `NoOverflow`.

`OrderTheorem` is the refinement of `ThreadLog`, step by step. The log of a
thread is what `Numbers` selects of container and buffer (`NumberIn` says of one
frame what it contributes, `InductionLemmas` that the selection of two sequences
put together is that of one after that of the other). `OrderInv` says that
container and buffer together hold the thread's numbers from 1 to the last it
issued, each once and in order. A step then either moves frames from the buffer
to the end of the container (`Moves`), which no thread's log notices but for
the part saved, or makes the log of one thread longer by its next number
(`Grows`). The frames of system calls, threads and signals, which go to the
container past the buffer, are in order only because the thread has none in the
buffer by then: that is `FlushedInSyscall`.

`ActivationProofs` proves all properties that `ACT_Trigger` checks.
`CacheFollowsActive` is not inductive. What is added is that a block being
compiled was found active at its head as it will be at its instructions, unless
an activation is under way, and that a set `g_active` stays set
(`Instrumented`). For `TriggerAtCount` the countdown plus the calls of
CheckTrigger is never less than the count asked for (`CountedDown`): a lost
decrement makes the sum grow. While none is lost it is the count, and all
executions but the last have been let pass (`NoneLost`).

`WinsockProofs`: first `UseIntroducedTheorem` and `StackFilledTheorem`, from
`IndInv`. Every number in `memory` comes from the trace or from a frame `fo`
that some thread holds between its two critical sections, and only that thread
can drop it, by adding it to the trace. The stack of a thread that is receiving
is not empty, since an exception leaves more entries and never fewer.
`TypeCorrect` and `NetworkTheorem` are about sockets and bytes. `NetInv` has a
part for each situation a run without overlapping calls can be in: between
calls the tracker's descriptors are the connected sockets of the kernel at the
kernel's offsets; in a connect or accept one of the two is a step ahead; in a
receive the top of `recvStack` is the call's own entry (`Situation`), and what
the kernel has put into the buffers, byte by byte, is what AfterRecv is about
to mark (`Pending`, `Arrived`). That the bytes of several buffers follow each
other as AfterRecv counts them is an induction over the list of buffers. New
sockets get handles that are not in use, so those of different sockets stay
apart.

`SyscallTaintProofs`: `TopTheorem` (the entry SyscallExit takes from a thread's
stack belongs to the call that returns), `TypeCorrect`, `IdsTheorem` and
`RecordedTheorem`. Numbers in use are below `taintnum` and differ for different
bytes (`NumberTypes`, `TaintIdsDistinct`), whether they are those of bytes of a
source or were made for arguments, environment and mapped sections; for the
trace the invariant says, of each address, that some frame introduces what
`memory` has there and that no later one concerns it (`Recorded`). They do not
depend on calls being apart.

For `TopTheorem`, `Nesting` compares the stack with the calls the kernel has
the thread in: the entry on top is that of the innermost call, the one below
that of the call around it, and below these is whatever calls that never
returned have left. A callback that ends with such a call leaves an entry above
the outer call's (`stray`), which is then popped in its place: its state is
`nosyscall`, so that SyscallExit does nothing, and what the outer call has done
is missed.

`FollowTheorem` and `MissedTheorem` do.
`FollowInv` describes the state in all three phases of a call: between calls
the descriptors of the tracker are those of the kernel that are open on sources
(`Believed`); while the kernel works they still are what they were at
SyscallEntry; before SyscallExit the kernel is one call ahead, in the way the
result tells. `MissedInv` does the same for bytes: each byte of the buffer has
its number, except those the kernel has just filled, and of these the
tracker's entry gives source and offset, or it knows that they are mapped.
`SectionInv` says that the tracker knows each section of a tainted file, or is
about to, and `StartInv` that nothing is in the buffer before the arguments
are tainted.

`ForkExecProofs`: `TypeCorrect`, `NamesTheorem`, `FramesTheorem`,
`CompleteTheorem`. That names differ is not inductive, for the names of files
say nothing of the forks to come. Let `Mine(p)` be the name that process p has,
or will have once the fork it is in is followed. Of any two processes that run
neither `Mine` begins with the other, and no `Mine` is the beginning of another
process's file name (`Apart`, `Ahead`): a fork lengthens one name in two ways
that differ in the last letter, so both stay clear of all others. A name
without terminator gets a letter that no other has. `FramesInv`, that file,
buffer and count are the process's own, is kept by a flush because files
differ, and by FollowChild because it empties what is inherited. For
`ChildComplete`, `LoneInv` says that a child has one thread, so that nobody
logs between its last flush and the end, and `CompleteInv` that file and buffer
together hold all its instructions; a child just born has made none, and one
that makes a system call has none in the buffer.

`TaintPropagationProofs` proves the four properties of `TNT_Exact`. The operand
list and the instruction are two descriptions of the same thing, made by
different code, and the first part shows that they agree: the registers and
bytes written are the written entries of the list (`WrittenFacts`), those
looked up the operands read, unless an xor of a register with itself is taken
for a constant by both (`RegValueFacts`, `ReadableFacts`, `XorIsSameRegister`).
The tag is then followed along the list (`ReadSoFarStep`): every tag looked up
is within the result, which tells of all the bytes if all operands are exact
(`CombineTells`, `CombineWithin`), and a tag counted twice, for flags on 32
bits, makes it mixed at worst (`CombineAgain`). What flows into an operand is
among what was looked up (`SourcesFacts`), so that the tag written covers it,
whichever operands it comes from (`AfterTracked`); where no tag is written, the
old one still agrees or the data is lost (`AfterUntracked`). With that
`TagsTell` is inductive (`TellsStep`), for the decision not to log an
instruction too, since hasTaint looks at written operands as well
(`TellsUntainted`). `ControlStaysClean` follows from it for every instruction
that propagates, as the check comes after the propagation; a branch, or another
one that moves no tags, leaves in the instruction pointer what is lost or clean
(`CleanUntracked`). `NoFalseAlarmTheorem` follows from `TagsTell` after the
step. `InsnAssumption` states the facts about instructions that are used: an
operand has finitely many bytes, data flows from operands that are read, and an
xor reads and writes its first operand, modifies no other and has only flags
after the second.

`BptTracerProofs`, of programs with one thread (`OneThread`, an assumption of
the module): `TypeCorrect` and all that `BPT_Replay` checks of single frames.
`PlaceInv` says whose frame is being filled: `current` belongs to the
instruction the thread executes, which is the last one begun. On top of it each
property has an invariant of its own. `OwnInv` (`OperandsTheorem`): what
`m_regs` and `m_mems` remember are operands of that instruction. `ValuesInv`
(`ValuesTheorem`): until the next instruction begins the machine holds what
this one produced, or what the system has put there since; the hard case is
REP, whose frame gets writes before an iteration runs, and then the iterations
must all write the same places, or an old value would pass for a new one.
`WritesInv` (`WritesTheorem`): a write is in the frame or still remembered, and
what the instruction is about to write is remembered already. They use
`InsnAssumption`, facts about the instructions of the processor: what is
written without being an operand is a base, an instruction that changes flags
has the flags register as operand, one that can be repeated leaves no flag
undefined, no other register operand is a flag, and CMPXCHG may write its
destination and has a register for accumulator. `MCBptTracer`'s instructions
have them all.

`ReplayTheorem` is about the whole trace. `ReplayInv` adds to
the two invariants above what a reader of the trace knows: for each register and
address (`Known`), the value it holds is the one the last write recorded says it
is, or it is among those still to be recorded (`Waiting`), or it is excused: by
the system, by CMPXCHG's missing registers or by the splitter's missing flags.
Before an instruction has passed the routines that remember its writes nothing
waits (`Unremembered`), so what they read is what the trace says, unless an
earlier iteration of the same frame has written it. Each step then keeps `Known`
in one of three ways: what is recorded no longer waits (`KnownWhenRecorded`),
more waits (`KnownWhenWaiting`), or the machine writes what waits or is excused
(`KnownWhenWritten`). The rest follows the trace when it grows: an entry that is
added changes nothing of what the ones before it say (`LatestAppend`), and
images are no entries (`StdFacts`).

`OneFrameTheorem` is the refinement of `ThreadLog`. The log of the thread
lists, for the frames in the container and the current one, which instruction
each is (`Ranks`); `RankInv` says that these are 1, 2, 3 and so on to the last
one begun. An instruction that begins makes a frame with the next number; an
iteration of REP begins none; the ranks of frames already made never change,
since the history of instructions only grows (`RanksGrow`).

`InductionLemmas` proves what the modules above use of recursion. The library's
theorems on induction take an operator as a parameter, which the provers cannot
instantiate; `InductionUpTo` says the same of a set of numbers, and
`RecursionUpTo` that a function defined by recursion on the numbers up to n
exists and satisfies its equation. Selecting from a sequence is defined by such
a function (`Images`): it begins with nothing and adds, for each element, a
sequence of at most one element that depends on it.

All invariants and both refinements of the passing runs are proved. Only
model-checked:

- the liveness properties `ChildOpens` of `ForkExec` and those of `Winsock`, and
  that nothing deadlocks: the provers do not reach fairness and ENABLED.

## Not modelled, and why

- The values of operands in gentrace's frames: AppendBuffer copies them; no
  property depends on them. Operand lists are in `TaintPropagation`.
- An instruction's append and its execution are one step in
  `TaintPropagation`. In between, another thread may change the memory it
  reads: the program then has a data race, and its taint may be wrong.
- Operands in bytes: in `TaintPropagation` one operand is one value, as for the
  tracker; and values that signals and exceptions restore.
- Two threads under bpt: no routine takes a lock (bpt_tool.hpp 24-34,
  bpt_frames_saver.hpp 34-59), so that one thread ends the frame the other is
  filling, and both may change `current` and the maps at once. Nothing that is
  said of traces above holds then.
- bpt's -enable-rip, and the x87 stack, whose registers loads and pops rename:
  the tool names a register when it records it.
- NtReadFile and the other system calls in `Winsock`, apart from NtClose.
- Callbacks of the Windows kernel within callbacks.
- `taintnum` at 2^32, where it becomes 0, "not tainted".
- The rest of the Windows tool: SEH handlers (`SEHMode` is a constant of
  `FrameBuffer`), and GetEnvAWrap, for which taintEnv does nothing, its part
  for multibyte strings being a comment. Both wrappers of the environment are
  registered only under USE_GETENVSTRINGS (gentrace.cpp 1945-1979), which no
  build file defines: `GetEnvWWrap` is what they do in a build that
  does. recvfrom and WSARecvFrom are compiled out.
- pivot.cpp prints a list of gadgets with the taint at their targets when a
  check has failed and the process is about to exit; it keeps no state and
  decides nothing.
- Tables and formatting: winsyscalls, reg_mapping_pin, pin_misc, the text
  saver. `get_value` of the flag splitter returns bool, which makes one of the
  two bits of IOPL; formatting is not modelled, so no property sees it.
- ddk-inc, the Windows DDK headers, is vendored and more than four fifths of
  the repository's lines. The modules cover about two fifths of the rest; a
  third of it is the tables and the text output named above.

### Deviations that no property forbids

The modules contain these behaviours; the properties are stated so as to leave
them out, and say so.

- FollowExec releases the lock between its flush and Cleanup, and with
  -logone-after PostInstruction sets a flag for all threads: frames are lost,
  or the trace ends before the instruction is logged again.
- Two threads of a process that fork at once give their children one name, and
  so one file; the child of a process whose other thread held the lock waits
  for ever (`raced`, `quiet` in `ForkExec`).
- Duplicated descriptors are ignored by the tracker, and calls on one
  descriptor that overlap confuse it (`Quiet` in `SyscallTaint`). A
  recv of the 32-bit tool that fails is taken for one of 2^32-1 bytes.
- On Windows a read at a ByteOffset is taken for one at the tracker's offset,
  the data of one that returns STATUS_PENDING is missed (`Quiet` again), and
  handles of sections are never forgotten, so that a mapping of another file
  can be tainted.
- taintEnv of the Unix tool taints a variable and returns no frame for it:
  the trace uses taint that it never introduces (`Silent`).
- On 64 bits postSysCall clears EAX while the context is keyed by RAX; on
  Windows it clears EDX, which may still hold tainted data.
- A jump through a tainted operand is not propagated (gentrace.cpp 1197) and so
  passes the taint check ("lost" in `TaintPropagation`). All operands written
  get the union of all read, so that XCHG, XADD or PUSH can leave a tag that
  counts too much, and a check can fail without cause ("over").
- The help of -trig_count, "Number of times trigger will be executed before
  activating" (gentrace.cpp 149-151), differs by one from `--g_trig_countdown <=
  0` (616): logging starts at the head of the `trig_count`-th execution, after
  `trig_count - 1`, and 1 means the same as 0. `TriggerAtCount` says what the
  code does.
- When a callback of the Windows kernel ends with a call that never returns, the
  outer call's entry stays on `scStack` and its data is missed (`stray`).
- A CMPXCHG that fails loads the accumulator, which is not recorded.
- ConnectWrapper takes every connect for successful, and a scattered or
  overlapped WSARecv is taken for one into the first buffer.
- A tainted instruction may come in the trace before the introduction of its
  taint, between the two critical sections of AfterRecv.

## What is left

1. `FrameBuffer` and `SyscallTaint` composed: the stack of a thread that leaves
   the process in a system call.
