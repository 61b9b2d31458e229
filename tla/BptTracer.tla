----------------------------- MODULE BptTracer -----------------------------
(***************************************************************************)
(* The bpt tool: analysis routines called around every instruction record  *)
(* its operands.  What an instruction reads is recorded before it runs;    *)
(* what it writes is remembered, in m_regs and m_mems, and recorded with   *)
(* its value when the next instruction begins, into the frame that is      *)
(* still held in "current".  CMPXCHG is recorded after it has run.         *)
(*                                                                         *)
(* No routine takes a lock, although they all share the one tracer: with   *)
(* several threads they would race, inside "current" too, and the trace    *)
(* would say nothing.  The model is of programs with one thread, for which *)
(* each routine is one step.                                               *)
(*                                                                         *)
(* A value is the number of the instruction that produced it: 0 for the    *)
(* values the program starts with, Kernel for what the operating system    *)
(* put there.  Each flag is a location of its own: an operand that is the  *)
(* flags register is split by the flags_splitter into the flags recorded.  *)
(* The value of a flag is taken to survive the conversion to bool that     *)
(* get_value makes, which it does unless it has two bits, as IOPL.         *)
(* Left out are -enable-rip and the x87 stack, whose registers a load or a *)
(* pop renames.                                                            *)
(***************************************************************************)
EXTENDS Integers, Sequences, FiniteSets

CONSTANTS
  Threads,      \* the one thread of the program
  Regs, Addrs,  \* registers of a thread, addresses of the process
  Flags,        \* the flags, a subset of Regs
  Insns,        \* the instructions of the program, see InsnType
  Modes,        \* values of -split-flags and -enable-undefined-flags
  None,         \* a null pointer
  MaxInsns,     \* bound: instructions executed
  MaxRep,       \* bound: iterations of a REP instruction
  MaxKernel,    \* bound: values changed by signals and system calls,
  KernelLocs,   \* bound: which are of these locations
  MaxMods       \* bound: images loaded

Locs == Regs \union Addrs
Kernel == -1
Values == -1..MaxInsns
OperandValues == [loc : Locs, val : Values]

(* An operand is a register, the memory at "addr" through the base         *)
(* register "reg", or (agen) an address computed from "reg", or the flags  *)
(* register; "partial" means an 8- or 16-bit register.                     *)
OperandType ==
  [kind : {"reg", "mem", "agen", "flags"}, reg : Regs, addr : Addrs,
   read : BOOLEAN, written : BOOLEAN, partial : BOOLEAN]

(* "auto" are the registers written without being a register operand, such *)
(* as the base of a push.  "pred" is an instruction with another predicate *)
(* than REP's.  "affects" is what the instruction does to each flag;       *)
(* "listed" means that the table of bpt_insn_flags.inc says so.            *)
affect ==
  {"CLR", "SET", "AH", "MOD", "POP", "TST", "UND", "T_M", "T_P", "M_U", "N"}

InsnType ==
  [op : {"default", "pred", "rep", "cmpxchg"}, ops : Seq(OperandType),
   auto : SUBSET Regs, affects : [Flags -> affect], listed : BOOLEAN]

(* The frame of an instruction, and of an image.  "no" counts the           *)
(* instructions executed.                                                  *)
FrameType ==
  [kind : {"std"}, tid : Threads, no : 1..MaxInsns, ins : Insns,
   pre : SUBSET OperandValues, post : SUBSET OperandValues]
ModFrame == [kind |-> "mod"]

(* What a thread executes: the instruction, its number, the iterations to  *)
(* come and the value of its predicate.                                    *)
Executing == [ins : Insns, no : 1..MaxInsns, left : Nat, on : BOOLEAN]

Operands(ins) == {ins.ops[i] : i \in DOMAIN ins.ops}
HasFlags(ins, read) ==
  \E o \in Operands(ins) : o.kind = "flags" /\ IF read THEN o.read ELSE o.written
InMemory(o) == o.kind \in {"mem", "agen"}
Bases(ins) == {o.reg : o \in {o \in Operands(ins) : InMemory(o)}}

ASSUME OneThread == \A t, u \in Threads : t = u

ASSUME BptAssumption ==
  /\ None \notin FrameType \union {ModFrame} \union Executing
  /\ Modes \subseteq {"none", "arch", "full", "insn"} \X BOOLEAN
  /\ Regs \intersect Addrs = {} /\ Flags \subseteq Regs
  /\ \A ins \in Insns : ins.op = "cmpxchg" => Len(ins.ops) = 4
  /\ Insns \subseteq InsnType /\ KernelLocs \subseteq Locs
  /\ MaxInsns \in Nat /\ MaxRep \in Nat \ {0}
  /\ MaxKernel \in Nat /\ MaxMods \in Nat

(* Facts about the instructions of the processor: a register written       *)
(* without being an operand is the base of a memory operand, instructions  *)
(* that change flags have the flags register as operand, and those that    *)
(* can be repeated leave no flag undefined.  No other register operand is  *)
(* a flag.  CMPXCHG may write its destination, and its accumulator is a    *)
(* register.                                                               *)
ASSUME InsnAssumption ==
  \A ins \in Insns :
    /\ ins.auto \subseteq Bases(ins)
    /\ \A f \in Flags :
         /\ ins.affects[f] \notin {"N", "TST"} => HasFlags(ins, FALSE)
         /\ ins.op = "rep" => ins.affects[f] \notin {"UND", "M_U"}
    /\ \A o \in Operands(ins) : o.kind = "reg" => o.reg \notin Flags
    /\ ins.op = "cmpxchg" =>
         /\ ins.ops[1].kind = "mem" => ins.ops[1].written
         /\ ins.ops[3].kind # "mem"

VARIABLES
  split, uflags,   \* -split-flags, -enable-undefined-flags
  pc,              \* the next routine each thread calls
  insn,            \* the instruction it executes, see Executing
  regs, mem,       \* who produced the value of each register and address
  zf,              \* did the thread's CMPXCHG find its operands equal?
  m_regs, m_mems,  \* writes remembered until the next code_exec
  current,         \* the frame being filled, None before the first
  out,             \* frames added to the container
  history,         \* the instructions begun, and where each has written
  kernels,         \* signals and system calls so far
  status           \* "running", "done" once fini has deleted the tracer

machine == <<regs, mem, zf>>
pending == <<m_regs, m_mems>>
trace == <<current, out>>
knobs == <<split, uflags>>
vars == <<knobs, pc, insn, machine, pending, trace, history, kernels, status>>

Frame(t, no, ins) ==
  [kind |-> "std", tid |-> t, no |-> no, ins |-> ins, pre |-> {}, post |-> {}]

(* Mutant: the frame is added although there is none yet. *)
AddedUnchecked(frame) == Append(out, frame)

(* The container once the frame that was in "current" is destroyed. *)
Added(frame) == IF frame = None THEN out ELSE Append(out, frame)

-----------------------------------------------------------------------------
(* Which operands instruction_default and instruction_cmpxchg pass to the  *)
(* routines.                                                               *)

(* flags_splitter.  "none" and "arch" record the register as it is, "full" *)
(* every flag: the same flags are recorded, whatever the instruction.      *)
FlagsIf(ins, affects) ==
  IF split # "insn" THEN Flags
  ELSE IF ins.listed THEN {f \in Flags : ins.affects[f] \in affects} ELSE {}

FlagsRead(ins) == FlagsIf(ins, {"TST", "T_M", "T_P"})

(* Mutant: flags that are tested and modified count as tested only.        *)
FlagsWrittenOnly(ins) ==
  FlagsIf(ins, {"CLR", "SET", "AH", "MOD", "POP", "M_U"} \union
               (IF uflags THEN {"UND"} ELSE {}))

FlagsWritten(ins) ==
  FlagsIf(ins, {"CLR", "SET", "AH", "MOD", "POP", "M_U", "T_M", "T_P"} \union
               (IF uflags THEN {"UND"} ELSE {}))

Written(ins) ==
  {o.reg : o \in {o \in Operands(ins) : o.kind = "reg" /\ o.written}} \union
  (IF HasFlags(ins, FALSE) THEN FlagsWritten(ins) ELSE {})

(* INS_RegWContain *)
RegW(ins) == ins.auto \union Written(ins)

(* reg::instruction: the registers read before ins.  A partial register is *)
(* recorded in full when it is written, so its old value is needed.        *)
RegsRead(ins) ==
  IF ins.op = "cmpxchg" THEN {ins.ops[i].reg : i \in 1..3}
  ELSE Bases(ins) \union
       {o.reg : o \in {o \in Operands(ins) :
          o.kind = "reg" /\ (o.read \/ (o.written /\ o.partial))}} \union
       (IF HasFlags(ins, TRUE) THEN FlagsRead(ins) ELSE {})

(* Registers whose writes are remembered, with the disassembled            *)
(* instruction: the flags are split when their values are read, by the     *)
(* instruction that wrote them.                                            *)
RegsWritten(ins) ==
  Written(ins) \union (Bases(ins) \intersect RegW(ins))

(* mem::instruction *)
Loads(ins) ==
  {o.addr : o \in {o \in Operands(ins) : o.kind = "mem" /\ o.read}}
Stores(ins) ==
  {o.addr : o \in {o \in Operands(ins) : o.kind = "mem" /\ o.written}}

(* The registers write_if_zf and write record after a CMPXCHG, in this     *)
(* order of operands: destination, source, accumulator, flags.             *)
CmpxchgRegs(ins, equal) ==
  FlagsWritten(ins) \union
  IF equal THEN {}
  ELSE {ins.ops[2].reg} \union
       (IF ins.ops[1].kind = "reg" THEN {ins.ops[1].reg} ELSE {})

-----------------------------------------------------------------------------
Init ==
  /\ \E mode \in Modes : split = mode[1] /\ uflags = mode[2]
  /\ pc = [t \in Threads |-> "code_exec"]
  /\ insn = [t \in Threads |-> None]
  /\ regs = [t \in Threads |-> [r \in Regs |-> 0]]
  /\ mem = [a \in Addrs |-> 0]
  /\ zf = [t \in Threads |-> FALSE]
  /\ m_regs = {} /\ m_mems = {}
  /\ current = None
  /\ out = <<>>
  /\ history = <<>>
  /\ kernels = 0
  /\ status = "running"

At(t, routine) == pc[t] = routine /\ status = "running"
Go(t, next) == pc' = [pc EXCEPT ![t] = next]

InRep(t) == insn[t] # None /\ insn[t].left > 0

(* The routines read registers from the context of the thread. *)
RegValues(t, rs) == {[loc |-> r, val |-> regs[t][r]] : r \in rs}
MemValues(as) == {[loc |-> a, val |-> mem[a]] : a \in as}

SaveReads(values) == current' = [current EXCEPT !.pre = @ \union values]
SaveWrites(values) == current' = [current EXCEPT !.post = @ \union values]

(* reg::update_context and mem::update_context: the frame of the previous  *)
(* instruction gets the remembered writes, as they are now.                *)
Updated(t) ==
  IF current = None THEN None
  ELSE [current EXCEPT
          !.post = @ \union RegValues(t, m_regs) \union MemValues(m_mems)]

(* code_exec, which adds the previous frame to the container.  A predicate *)
(* is false for a REP instruction whose count is zero.                     *)
Begin(t, ins, count, on) ==
  /\ At(t, "code_exec") /\ ~InRep(t)
  /\ Len(history) < MaxInsns
  /\ history' = Append(history, [tid |-> t, ins |-> ins, wrote |-> {}])
  /\ insn' = [insn EXCEPT ![t] = [ins |-> ins, no |-> Len(history'),
                                  left |-> IF on THEN count - 1 ELSE 0,
                                  on |-> on]]
  /\ Go(t, "read")
  /\ UNCHANGED <<machine, kernels, status>>

(* Mutant: the remembered registers are not cleared. *)
NewFrameKeeps(t, ins) ==
  /\ out' = Added(Updated(t))
  /\ current' = Frame(t, Len(history'), ins)
  /\ m_mems' = {} /\ UNCHANGED m_regs

(* Mutant: the new frame is there before the writes are recorded. *)
NewFrameFirst(t, ins) ==
  /\ out' = Added(current)
  /\ current' = [Frame(t, Len(history'), ins) EXCEPT
                   !.post = RegValues(t, m_regs) \union MemValues(m_mems)]
  /\ m_regs' = {} /\ m_mems' = {}

NewFrame(t, ins) ==
  /\ out' = Added(Updated(t))
  /\ current' = Frame(t, Len(history'), ins)
  /\ m_regs' = {} /\ m_mems' = {}

CodeExec(t) ==
  \E ins \in Insns :
    /\ \E count \in 1..MaxRep, on \in BOOLEAN :
         /\ ins.op # "rep" => count = 1
         /\ ins.op \in {"default", "cmpxchg"} => on
         /\ Begin(t, ins, count, on)
    /\ NewFrame(t, ins)

(* Mutant: every iteration has a frame of its own. *)
CodeExecIterationFrame(t) ==
  /\ At(t, "code_exec") /\ InRep(t)
  /\ out' = Added(Updated(t))
  /\ current' = Frame(t, insn[t].no, insn[t].ins)
  /\ m_regs' = {} /\ m_mems' = {}
  /\ insn' = [insn EXCEPT ![t].left = @ - 1]
  /\ Go(t, "read")
  /\ UNCHANGED <<machine, history, kernels, status>>

(* code_exec for an iteration that is not the first: no new frame. *)
CodeExecIteration(t) ==
  /\ At(t, "code_exec") /\ InRep(t)
  /\ current' = Updated(t)
  /\ m_regs' = {} /\ m_mems' = {}
  /\ insn' = [insn EXCEPT ![t].left = @ - 1]
  /\ Go(t, "read")
  /\ UNCHANGED <<machine, out, history, kernels, status>>

(* reg::read *)
Read(t) ==
  /\ At(t, "read")
  /\ SaveReads(RegValues(t, RegsRead(insn[t].ins)))
  /\ Go(t, IF insn[t].ins.op = "cmpxchg" THEN "load" ELSE "remember_write")
  /\ UNCHANGED <<insn, machine, pending, out, history, kernels, status>>

(* Mutant: the registers are recorded before the instruction runs. *)
RememberWriteEarly(t) ==
  /\ At(t, "remember_write")
  /\ SaveWrites(IF insn[t].on THEN RegValues(t, RegsWritten(insn[t].ins))
                              ELSE {})
  /\ Go(t, "load")
  /\ UNCHANGED <<insn, machine, pending, out, history, kernels, status>>

(* The predicated calls of reg::remember_write and mem::remember_store. *)
RememberWrite(t) ==
  /\ At(t, "remember_write")
  /\ m_regs' = m_regs \union
                 IF insn[t].on THEN RegsWritten(insn[t].ins) ELSE {}
  /\ Go(t, "load")
  /\ UNCHANGED <<insn, machine, m_mems, trace, history, kernels, status>>

(* mem::load *)
Load(t) ==
  /\ At(t, "load")
  /\ SaveReads(MemValues(Loads(insn[t].ins)))
  /\ Go(t, IF insn[t].ins.op = "cmpxchg" THEN "execute" ELSE "remember_store")
  /\ UNCHANGED <<insn, machine, pending, out, history, kernels, status>>

RememberStore(t) ==
  /\ At(t, "remember_store")
  /\ m_mems' = m_mems \union IF insn[t].on THEN Stores(insn[t].ins) ELSE {}
  /\ Go(t, "execute")
  /\ UNCHANGED <<insn, machine, m_regs, trace, history, kernels, status>>

(* CMPXCHG has run: write_if_zf and write, then store_if_zf and store. *)
WriteAfter(t) ==
  /\ At(t, "write_after")
  /\ SaveWrites(RegValues(t, CmpxchgRegs(insn[t].ins, zf[t])))
  /\ Go(t, "store_after")
  /\ UNCHANGED <<insn, machine, pending, out, history, kernels, status>>

StoreAfter(t) ==
  /\ At(t, "store_after")
  /\ SaveWrites(IF zf[t] THEN MemValues(Stores(insn[t].ins)) ELSE {})
  /\ Go(t, "code_exec")
  /\ zf' = [zf EXCEPT ![t] = FALSE]
  /\ UNCHANGED <<insn, regs, mem, pending, out, history, kernels, status>>

ModLoad(t) ==
  /\ At(t, "code_exec")
  /\ Cardinality({i \in DOMAIN out : out[i].kind = "mod"}) < MaxMods
  /\ out' = Append(out, ModFrame)
  /\ UNCHANGED <<pc, insn, machine, pending, current, history, kernels, status>>

(* fini deletes the tracer: the last frame is added without the writes     *)
(* that are still remembered.                                              *)
Fini(t) ==
  /\ At(t, "code_exec") /\ ~InRep(t)
  /\ out' = Added(current)
  /\ current' = None
  /\ status' = "done"
  /\ UNCHANGED <<pc, insn, machine, pending, history, kernels>>

-----------------------------------------------------------------------------
(* The machine. *)

(* t's instruction, number no, writes the registers rs and addresses as. *)
Write(t, rs, as, no) ==
  /\ regs' = [regs EXCEPT ![t] =
                [r \in Regs |-> IF r \in rs THEN no ELSE @[r]]]
  /\ mem' = [a \in Addrs |-> IF a \in as THEN no ELSE mem[a]]

Wrote(no, locs) ==
  history' = [history EXCEPT ![no].wrote = @ \union locs]

(* The flags the processor writes; undefined ones all or none. *)
FlagsChanged(ins, undefined) ==
  {f \in Flags : ins.affects[f] \notin
                   {"N", "TST"} \union IF undefined THEN {} ELSE {"UND", "M_U"}}

(* The machine writes the registers that INS_RegWContain and the operands  *)
(* give, and the flags of the table: that the instruction writes no others *)
(* is taken for granted, of the x87 stack it is not true.                  *)
Execute(t) ==
  /\ At(t, "execute") /\ insn[t].ins.op # "cmpxchg"
  /\ \E undefined \in BOOLEAN :
     LET rs == IF insn[t].on
               THEN (RegW(insn[t].ins) \ Flags) \union
                    FlagsChanged(insn[t].ins, undefined)
               ELSE {}
         as == IF insn[t].on THEN Stores(insn[t].ins) ELSE {}
     IN  Write(t, rs, as, insn[t].no) /\ Wrote(insn[t].no, rs \union as)
  /\ Go(t, "code_exec")
  /\ UNCHANGED <<insn, zf, pending, trace, kernels, status>>

(* CMPXCHG writes its destination if the comparison succeeds, and the      *)
(* accumulator if it fails.                                                *)
ExecuteCmpxchg(t) ==
  /\ At(t, "execute") /\ insn[t].ins.op = "cmpxchg"
  /\ \E equal \in BOOLEAN :
       LET ops == insn[t].ins.ops
           dest == IF equal THEN ops[1] ELSE ops[3]
           rs == FlagsChanged(insn[t].ins, FALSE) \union
                 (IF dest.kind = "reg" THEN {dest.reg} ELSE {})
           as == IF dest.kind = "mem" THEN {dest.addr} ELSE {}
       IN  /\ zf' = [zf EXCEPT ![t] = equal]
           /\ Write(t, rs, as, insn[t].no)
           /\ Wrote(insn[t].no, rs \union as)
  /\ Go(t, "write_after")
  /\ UNCHANGED <<insn, pending, trace, kernels, status>>

(* A signal, or the system call the last instruction made, changes a       *)
(* value, one for each step of MaxKernel.  After a signal a REP            *)
(* instruction is executed anew.                                           *)
KernelWrites(t) ==
  /\ At(t, "code_exec") /\ insn[t] # None
  /\ kernels < MaxKernel
  /\ \E x \in KernelLocs : Write(t, {x}, {x}, Kernel)
  /\ insn' = [insn EXCEPT ![t].left = 0]
  /\ kernels' = kernels + 1
  /\ UNCHANGED <<pc, zf, pending, trace, history, status>>

(* The instruction faults: it writes nothing, and a signal handler runs. *)
Fault(t) ==
  /\ At(t, "execute")
  /\ kernels < MaxKernel
  /\ \E r \in KernelLocs : Write(t, {r}, {}, Kernel)
  /\ insn' = [insn EXCEPT ![t].left = 0]
  /\ kernels' = kernels + 1
  /\ Go(t, "code_exec")
  /\ UNCHANGED <<zf, pending, trace, history, status>>

Terminated == status = "done" /\ UNCHANGED vars

(* The routines of the one thread, in the order the tool inserts the calls *)
(* to them, with what the instruction and the system do in between.        *)
Next ==
  \/ UNCHANGED knobs /\ \E t \in Threads :
       \/ CodeExec(t) \/ CodeExecIteration(t) \/ Read(t) \/ RememberWrite(t)
       \/ Load(t) \/ RememberStore(t) \/ WriteAfter(t) \/ StoreAfter(t)
       \/ ModLoad(t) \/ Fini(t)
       \/ Execute(t) \/ ExecuteCmpxchg(t) \/ KernelWrites(t) \/ Fault(t)
  \/ Terminated

Spec == Init /\ [][Next]_vars

-----------------------------------------------------------------------------
(* Properties. *)

Routines ==
  {"code_exec", "read", "remember_write", "load", "remember_store",
   "execute", "write_after", "store_after"}

(* Every variable has its type, a frame is there whenever a routine        *)
(* dereferences "current", and no null frame reaches the container.        *)
TypeOK ==
  /\ pc \in [Threads -> Routines]
  /\ regs \in [Threads -> [Regs -> Values]]
  /\ mem \in [Addrs -> Values]
  /\ zf \in [Threads -> BOOLEAN]
  /\ m_regs \subseteq Regs /\ m_mems \subseteq Addrs
  /\ history \in Seq([tid : Threads, ins : Insns, wrote : SUBSET Locs])
  /\ Len(history) <= MaxInsns
  /\ insn \in [Threads -> Executing \union {None}]
  /\ current \in FrameType \union {None}
  /\ out \in Seq(FrameType \union {ModFrame})
  /\ \A t \in Threads :
       status = "running" /\ pc[t] # "code_exec" => current # None

(* The frames of instructions, in the container and in "current". *)
AllFrames ==
  {f \in {Added(current)[i] : i \in DOMAIN Added(current)} : f.kind = "std"}

(* The same in the order of the trace. *)
Std(s) ==
  LET upTo[i \in 0..Len(s)] ==
        IF i = 0 THEN <<>>
        ELSE IF s[i].kind = "std" THEN Append(upTo[i - 1], s[i])
        ELSE upTo[i - 1]
  IN  upTo[Len(s)]
Trace == Std(Added(current))

ValuesOf(values, x) == {v.val : v \in {w \in values : w.loc = x}}

(* What a reader of the trace believes x to hold when frame i begins: the  *)
(* last write recorded in an earlier frame, of the same thread if x is a   *)
(* register.                                                               *)
Recorded(i, x) ==
  LET writers == {j \in 1..(i - 1) :
                    /\ ValuesOf(Trace[j].post, x) # {}
                    /\ x \in Regs => Trace[j].tid = Trace[i].tid}
  IN  IF writers = {} THEN {0}
      ELSE ValuesOf(Trace[CHOOSE j \in writers :
                            \A k \in writers : k <= j].post, x)

(* Which operands CMPXCHG has written is not recorded right, see           *)
(* CmpxchgRegs: the accumulator, or the register destination, is missing.  *)
FromCmpxchg(x, v) ==
  x \in Regs \ Flags /\ v > 0 /\ history[v].ins.op = "cmpxchg"

(* Flags that -split-flags insn leaves out of what ins has written.        *)
Untraced(ins) ==
  IF split # "insn" THEN {}
  ELSE IF ~ins.listed THEN Flags
  ELSE {f \in Flags : ins.affects[f] = "UND" /\ ~uflags}

(* The trace can be replayed: each value an instruction is recorded to     *)
(* read is the one recorded to be written last, in a REP instruction       *)
(* perhaps by an earlier iteration, unless the system wrote it.  The delay *)
(* of the writes, with faults and predicates, loses nothing.               *)
ReplayConsistent ==
  \A i \in DOMAIN Trace : \A o \in Trace[i].pre :
    \/ o.val \in Recorded(i, o.loc)
    \/ Trace[i].ins.op = "rep" /\ o.val \in ValuesOf(Trace[i].post, o.loc)
    \/ o.val = Kernel
    \/ FromCmpxchg(o.loc, o.val)
    \/ o.val > 0 /\ o.loc \in Untraced(history[o.val].ins)

(* Frames whose instruction another one has followed. *)
Complete == {f \in AllFrames : \E g \in AllFrames : f.no < g.no}

RecordedAll(f) ==
  history[f.no].wrote \ Untraced(f.ins) \subseteq {o.loc : o \in f.post}

(* Whatever an instruction wrote is in its frame once the next one has     *)
(* begun, in all iterations, moved base registers included.                *)
WritesRecorded ==
  \A f \in Complete : f.ins.op # "cmpxchg" => RecordedAll(f)

(* The value recorded for a write is the one the instruction produced, or  *)
(* one the system put there before the next instruction began, although    *)
(* it is read from the machine only then.                                  *)
WrittenValues ==
  \A f \in AllFrames : \A o \in f.post :
    o.loc \in history[f.no].wrote => o.val \in {f.no, Kernel}

(* A frame holds no operand of an earlier instruction, nor of a later one: *)
(* nothing is left over in m_regs, m_mems and "current".                   *)
MayWrite(ins) ==
  Stores(ins) \union
  IF ins.op = "cmpxchg" THEN CmpxchgRegs(ins, TRUE) \union
                             CmpxchgRegs(ins, FALSE)
  ELSE RegsWritten(ins)

OperandsAreOwn ==
  \A f \in AllFrames :
    /\ {o.loc : o \in f.pre} \subseteq RegsRead(f.ins) \union Loads(f.ins)
    /\ {o.loc : o \in f.post} \subseteq MayWrite(f.ins)

(* The number of a frame among the instructions of its thread. *)
Rank(f) == Cardinality({n \in 1..f.no : history[n].tid = f.tid})
Ranks(t, s) ==
  LET upTo[i \in 0..Len(s)] ==
        IF i = 0 THEN <<>>
        ELSE IF s[i].kind = "std" /\ s[i].tid = t
             THEN Append(upTo[i - 1], Rank(s[i]))
        ELSE upTo[i - 1]
  IN  upTo[Len(s)]

(* Each instruction executed has one frame, in order, REP instructions     *)
(* included, and images do not disturb it.                                 *)
Log == INSTANCE ThreadLog WITH
  log <- [t \in Threads |-> Ranks(t, Added(current))],
  saved <- [t \in Threads |-> Len(Ranks(t, out))],
  open <- status = "running"

OneFrameEach == Log!Spec
=============================================================================
