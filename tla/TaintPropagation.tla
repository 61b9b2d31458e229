-------------------------- MODULE TaintPropagation --------------------------
(***************************************************************************)
(* The taint tracker of gentrace: AppendBuffer takes the operand list that *)
(* InstrBlock made for an instruction, decides whether to log it, moves    *)
(* taint from the operands read to those written and checks the            *)
(* instruction pointer.                                                    *)
(*                                                                         *)
(* Next to the tracker's maps the model keeps the origin of every value:   *)
(* the input bytes it was computed from, by the instruction's own          *)
(* semantics (which operand goes where), and what the tracker can know of  *)
(* it: exactly these bytes; at least these, when the tracker also counts   *)
(* other operands or what was there before; or nothing, when it has lost   *)
(* sight of tainted data because                                           *)
(*   - only part of a register was written,                                *)
(*   - the instruction's predicate was false (also REP with count zero),   *)
(*   - the instruction is outside [taint-start, taint-end],                *)
(*   - it is a branch, or of a category InstrBlock leaves out,             *)
(*   - it took the data from flags, in the 32-bit tool ("no control-flow   *)
(*     taint"), or from a value that was lost,                             *)
(*   - another address with the same 32-bit key was written,               *)
(*   - Windows left it in EDX over a system call.                          *)
(* An operand is one value: no telling its bytes apart.  Left out: values  *)
(* that signals and exceptions restore, and data races, so that            *)
(* AppendBuffer and the instruction after it are one step.                 *)
(***************************************************************************)
EXTENDS Integers, Sequences, FiniteSets

CONSTANTS
  Threads,
  Regs,      \* full registers: at least IP, FLAGS, OUTPUT and WINOUTPUT
  Addrs,     \* byte addresses
  KeySize,   \* 2^32: taint is kept under 32-bit keys
  Insns,     \* instructions, see InsnType
  Knobs,     \* command lines and programs, see KnobType
  MaxBytes   \* bound: tainted input bytes

IP == "ip"          \* REG_INST_PTR
FLAGS == "flags"
OUTPUT == "ax"      \* the register a system call returns in: SCOUTREG_LIN
WINOUTPUT == "dx"   \* and SCOUTREG_WIN

NOTAINT == 0
MIXED_TAINT == -1
Tags == -1..MaxBytes
Bytes == 1..MaxBytes

(* What is written to an operand comes from the operands in its "flow".    *)
Operand ==
  [kind : {"reg", "mem", "agen"}, reg : Regs, addrs : SUBSET Addrs,
   read : BOOLEAN, written : BOOLEAN, partial : BOOLEAN, flow : SUBSET Nat]

(* "branch" is a jump, no call or return; "pred" has a predicate; those    *)
(* "left out" are MMX instructions, prefetches and FCMOVs.                 *)
InsnType ==
  [op : {"plain", "xor", "branch", "pred", "left out"}, ops : Seq(Operand)]

(* -logall-before, -logall-after, -taint-indices, -seh-mode, whether       *)
(* -taint-start and -taint-end are given; is it the 64-bit tool, or the    *)
(* one for Windows; and the instructions of the program.                   *)
KnobType ==
  {k \in [before : BOOLEAN, after : BOOLEAN, indices : BOOLEAN, seh : BOOLEAN,
           ranged : BOOLEAN, arch64 : BOOLEAN, windows : BOOLEAN,
           program : SUBSET Insns] :
     ~(k.arch64 /\ k.windows)}

(* An xor of a register with itself. *)
SameRegister(ins) ==
  /\ ins.op = "xor"
  /\ \A i, j \in 1..2 : /\ ins.ops[i].kind = "reg"
                        /\ ins.ops[i].reg = ins.ops[j].reg

ASSUME TaintAssumption ==
  /\ {IP, FLAGS, OUTPUT, WINOUTPUT} \subseteq Regs
  /\ Addrs \subseteq Nat /\ KeySize \in Nat \ {0} /\ MaxBytes \in Nat
  /\ Insns \subseteq InsnType /\ Knobs \subseteq KnobType

(* An operand is finitely many bytes.  Data flows from operands that are   *)
(* read.  An xor reads and writes its first operand, a register or memory; *)
(* no other operand is modified, and those after the second can only be    *)
(* the flags, which it does not read.  Nothing flows from a register in an *)
(* xor with itself.                                                        *)
ASSUME InsnAssumption ==
  \A ins \in Insns :
    /\ \A i \in DOMAIN ins.ops :
         /\ IsFiniteSet(ins.ops[i].addrs)
         /\ \A j \in ins.ops[i].flow :
              /\ j \in DOMAIN ins.ops /\ ~SameRegister(ins)
              /\ ins.ops[j].kind = "agen" \/ ins.ops[j].read
    /\ ins.op = "xor" =>
         /\ Len(ins.ops) >= 2
         /\ ins.ops[1].kind # "agen" /\ ins.ops[1].read /\ ins.ops[1].written
         /\ ~(ins.ops[2].read /\ ins.ops[2].written)
         /\ \A i \in 3..Len(ins.ops) :
              ins.ops[i].kind = "reg" /\ ~ins.ops[i].read

VARIABLES
  knobs,
  delta,       \* taint of each thread's registers
  memory,      \* taint of memory, by key
  taintnum,    \* next tag
  firstTaint,  \* no tainted instruction has been logged yet
  regs, mem,   \* origin of each register's and address's value
  status       \* "running", or "smash" once a taint check has failed

vars == <<knobs, delta, memory, taintnum, firstTaint, regs, mem, status>>

Origin(bytes, seen) == [from |-> bytes, seen |-> seen]
Origins == {o \in [from : SUBSET Bytes, seen : {"exact", "over", "lost"}] :
              o.seen = "lost" => o.from # {}}
Clean == Origin({}, "exact")

(* Only tainted data can be lost. *)
Unseen(bytes) == Origin(bytes, IF bytes = {} THEN "over" ELSE "lost")

Key(a) == a % KeySize
Keys == {Key(a) : a \in Addrs}
-----------------------------------------------------------------------------
(* The operand list InstrBlock builds: registers in the order of the       *)
(* instruction's operands, the base register in the place of a memory      *)
(* operand, then the bytes read, then the bytes written.                   *)

Value(isMem, loc, rd, wr) == [mem |-> isMem, loc |-> loc, rd |-> rd, wr |-> wr]

(* An xor of a register with itself: the first operand that is not a       *)
(* register read and written is the register of one that is.               *)
IsXor(ins) ==
  LET modified(o) == o.kind = "reg" /\ o.read /\ o.written
      others == {i \in DOMAIN ins.ops : ~modified(ins.ops[i])}
  IN  /\ ins.op = "xor" /\ others # {}
      /\ LET first == ins.ops[CHOOSE i \in others : \A j \in others : i <= j]
         IN  /\ first.kind = "reg"
             /\ \E i \in DOMAIN ins.ops :
                  modified(ins.ops[i]) /\ ins.ops[i].reg = first.reg

RegValue(ins, o, indices) ==
  IF o.kind = "reg" THEN Value(FALSE, o.reg, o.read /\ ~IsXor(ins), o.written)
  ELSE Value(FALSE, o.reg, indices \/ o.kind = "agen", FALSE)

(* The bytes of memory that ins accesses, "read" or "written". *)
Accessed(ins, usage) ==
  UNION {ins.ops[i].addrs : i \in {j \in DOMAIN ins.ops :
           ins.ops[j].kind = "mem" /\ ins.ops[j][usage]}}
Reads(ins) == Accessed(ins, "read")
Writes(ins) == Accessed(ins, "written")

(* The bytes one after the other, in some order: it makes no difference. *)
Listing(as) ==
  CHOOSE s \in [1..Cardinality(as) -> as] :
    \A i, j \in DOMAIN s : s[i] = s[j] => i = j

MemValues(as, rd) ==
  LET s == Listing(as)
  IN  [i \in DOMAIN s |-> Value(TRUE, s[i], rd, ~rd)]

(* InstrBlock makes the list once, when the instruction is compiled. *)
OperandLists ==
  [indices \in BOOLEAN |-> [ins \in Insns |->
     [i \in DOMAIN ins.ops |-> RegValue(ins, ins.ops[i], indices)]
       \o MemValues(Reads(ins), TRUE) \o MemValues(Writes(ins), FALSE)]]

OperandList(ins) == OperandLists[knobs.indices][ins]

-----------------------------------------------------------------------------
(* TaintTracker *)

(* Mutant: tags are added up. *)
CombineSum(oldtag, newtag) == oldtag + newtag

combineTaint(oldtag, newtag) ==
  IF newtag = NOTAINT THEN oldtag
  ELSE IF oldtag = NOTAINT THEN newtag ELSE MIXED_TAINT

getTaint(t, v) == IF v.mem THEN memory[Key(v.loc)] ELSE delta[t][v.loc]

(* Mutant: only the operands read are looked at. *)
hasTaintRead(t, values) ==
  \E i \in DOMAIN values : values[i].rd /\ getTaint(t, values[i]) # NOTAINT

hasTaint(t, values) ==
  \E i \in DOMAIN values : getTaint(t, values[i]) # NOTAINT

flagsSkipped(v) == ~v.mem /\ v.loc = FLAGS /\ ~knobs.arch64

(* tag and tmp_tag after the operand v.  For flags, in the 32-bit tool,    *)
(* tmp_tag still holds the tag of the operand read before.                 *)
readOperand(t, acc, v) ==
  LET tmp == IF flagsSkipped(v) THEN acc.tmp ELSE getTaint(t, v)
  IN  IF v.rd THEN [tag |-> combineTaint(acc.tag, tmp), tmp |-> tmp] ELSE acc

readOperands(t, values) ==
  LET acc[i \in 0..Len(values)] ==
        IF i = 0 THEN [tag |-> NOTAINT, tmp |-> NOTAINT]
        ELSE readOperand(t, acc[i - 1], values[i])
  IN  acc

getReadTaint(t, values) == readOperands(t, values)[Len(values)].tag

WrittenIn(values, isMem) ==
  {values[i].loc : i \in {j \in DOMAIN values :
                            values[j].wr /\ values[j].mem = isMem}}

taintPropagation(t, values) ==
  LET tag == getReadTaint(t, values)
      rs == WrittenIn(values, FALSE)
      keys == {Key(a) : a \in WrittenIn(values, TRUE)}
  IN  /\ delta' = [delta EXCEPT ![t] =
                     [r \in Regs |-> IF r \in rs THEN tag ELSE @[r]]]
      /\ memory' = [k \in Keys |-> IF k \in keys THEN tag ELSE memory[k]]

(* Mutant: the check comes before the propagation. *)
CheckFailsBefore(t, values) ==
  /\ \E i \in DOMAIN values : ~values[i].mem /\ values[i].loc = IP
  /\ delta[t][IP] # NOTAINT

(* Mutant: any tainted register operand fails the check. *)
CheckFailsAny(t, values) ==
  \E i \in DOMAIN values :
    ~values[i].mem /\ delta'[t][values[i].loc] # NOTAINT

(* taintChecking: the taint of the instruction pointer after the           *)
(* instruction, if it is an operand.                                       *)
CheckFails(t, values) ==
  /\ \E i \in DOMAIN values : ~values[i].mem /\ values[i].loc = IP
  /\ delta'[t][IP] # NOTAINT

-----------------------------------------------------------------------------
(* What the instruction does to the machine. *)

OriginOf(t, v) == IF v.mem THEN mem[v.loc] ELSE regs[t][v.loc]

(* The registers and bytes of the operands in J that data is taken from.   *)
(* "Values loaded with tainted memory indices will be considered tainted". *)
RegsRead(ins, J) ==
  {ins.ops[j].reg : j \in {i \in J :
     \/ ins.ops[i].kind = "reg" /\ ins.ops[i].read
     \/ ins.ops[i].kind = "agen"
     \/ ins.ops[i].kind = "mem" /\ knobs.indices}}
BytesRead(ins, J) ==
  UNION {ins.ops[j].addrs : j \in {i \in J :
           ins.ops[i].kind = "mem" /\ ins.ops[i].read}}

flagless == IF knobs.arch64 THEN {} ELSE {FLAGS}

(* All that the tracker could have seen ins read. *)
Inputs(t, ins) ==
  LET J == IF SameRegister(ins) THEN {} ELSE DOMAIN ins.ops
  IN  {regs[t][r] : r \in RegsRead(ins, J) \ flagless}
        \union {mem[a] : a \in BytesRead(ins, J)}

(* What flows into the operands W.  The flags are unseen where they do not *)
(* count.                                                                  *)
Sources(t, ins, W) ==
  LET J == UNION {ins.ops[i].flow : i \in W}
  IN  {regs[t][r] : r \in RegsRead(ins, J) \ flagless}
        \union {Unseen(regs[t][r].from) : r \in RegsRead(ins, J) \cap flagless}
        \union {mem[a] : a \in BytesRead(ins, J)}

Together(origins) == UNION {o.from : o \in origins}

(* The origin of what was "old" after data from the sources has been       *)
(* written, or not (~done), to all or part of it.                          *)
After(old, sources, inputs, done, partial, tracked) ==
  LET new == Together(sources)
      from == IF ~done THEN old.from
              ELSE new \union (IF partial THEN old.from ELSE {})
      missed == \/ ~tracked \/ ~done
                \/ partial /\ ~(old.from \subseteq new)
                \/ \E o \in sources : o.seen = "lost"
      exact == IF tracked
               THEN from = Together(inputs) /\ \A o \in inputs : o.seen = "exact"
               ELSE from = old.from /\ old.seen = "exact"
  IN  IF missed /\ from # {} THEN Origin(from, "lost")
      ELSE Origin(from, IF exact THEN "exact" ELSE "over")

(* Addresses whose taint is changed with that of as. *)
Aliases(as) == {b \in Addrs \ as : \E a \in as : Key(a) = Key(b)}

(* The operands with which ins writes register r, and address a. *)
WritesReg(ins, r) ==
  {i \in DOMAIN ins.ops :
     ins.ops[i].kind = "reg" /\ ins.ops[i].written /\ ins.ops[i].reg = r}
WritesByte(ins, a) ==
  {i \in DOMAIN ins.ops :
     ins.ops[i].kind = "mem" /\ ins.ops[i].written /\ a \in ins.ops[i].addrs}

Execute(t, ins, done, tracked) ==
  LET Result(old, W) ==
        After(old, Sources(t, ins, W), Inputs(t, ins), done,
              \E i \in W : ins.ops[i].partial, tracked)
      aliases == IF tracked THEN Aliases(Writes(ins)) ELSE {}
  IN  /\ regs' = [regs EXCEPT ![t] = [r \in Regs |->
                    IF WritesReg(ins, r) # {}
                    THEN Result(@[r], WritesReg(ins, r)) ELSE @[r]]]
      /\ mem' = [a \in Addrs |->
                   IF WritesByte(ins, a) # {}
                   THEN Result(mem[a], WritesByte(ins, a))
                   ELSE IF a \in aliases THEN Unseen(mem[a].from)
                   ELSE mem[a]]

-----------------------------------------------------------------------------
Init ==
  /\ knobs \in Knobs
  /\ delta = [t \in Threads |-> [r \in Regs |-> NOTAINT]]
  /\ memory = [k \in Keys |-> NOTAINT]
  /\ taintnum = 1
  /\ firstTaint = TRUE
  /\ regs = [t \in Threads |-> [r \in Regs |-> Clean]]
  /\ mem = [a \in Addrs |-> Clean]
  /\ status = "running"

(* log_all || has_taint *)
Wanted(t, values) ==
  \/ knobs.before
  \/ knobs.after /\ ~firstTaint
  \/ hasTaint(t, values)

(* AppendBuffer for an instruction that is logged. *)
AppendLogged(t, ins, inRange) ==
  LET values == OperandList(ins)
  IN  /\ inRange /\ Wanted(t, values)
      /\ firstTaint' = (firstTaint /\ ~hasTaint(t, values))
      /\ IF ins.op = "branch" THEN UNCHANGED <<delta, memory>>
         ELSE taintPropagation(t, values)
      /\ status' = IF CheckFails(t, values) /\ ~knobs.seh THEN "smash"
                   ELSE status

(* AppendBuffer for one that is not: nothing is propagated or checked. *)
AppendSkipped(t, ins, inRange) ==
  /\ ~(inRange /\ Wanted(t, OperandList(ins)))
  /\ UNCHANGED <<delta, memory, firstTaint, status>>

AppendBuffer(t) ==
  /\ status = "running"
  /\ \E ins \in knobs.program, done \in BOOLEAN, inRange \in BOOLEAN :
       /\ ins.op # "left out"
       /\ ~done => ins.op = "pred"
       /\ ~inRange => knobs.ranged
       /\ AppendLogged(t, ins, inRange) \/ AppendSkipped(t, ins, inRange)
       /\ Execute(t, ins, done, inRange /\ ins.op # "branch")
  /\ UNCHANGED <<knobs, taintnum>>

(* An instruction that InstrBlock has not instrumented. *)
LeftOut(t) ==
  /\ status = "running"
  /\ \E ins \in knobs.program :
       ins.op = "left out" /\ Execute(t, ins, TRUE, FALSE)
  /\ UNCHANGED <<knobs, delta, memory, taintnum, firstTaint, status>>

(* introMemTaint: a system call has put a tainted byte at a. *)
IntroMemTaint(a) ==
  /\ status = "running" /\ taintnum <= MaxBytes
  /\ memory' = [memory EXCEPT ![Key(a)] = taintnum]
  /\ mem' = [b \in Addrs |->
               IF b = a THEN Origin({taintnum}, "exact")
               ELSE IF b \in Aliases({a}) THEN Unseen(mem[b].from)
               ELSE mem[b]]
  /\ taintnum' = taintnum + 1
  /\ UNCHANGED <<knobs, delta, firstTaint, regs, status>>

(* What is overwritten with clean data behind the tracker's back. *)
Overwritten(old) == IF old = Clean THEN Clean ELSE Unseen({})

(* A system call has put at a what is not tainted: no tag changes. *)
KernelWrites(a) ==
  /\ status = "running"
  /\ mem' = [mem EXCEPT ![a] = Overwritten(@)]
  /\ UNCHANGED <<knobs, delta, memory, taintnum, firstTaint, regs, status>>

(* postSysCall removes the taint of EAX, on Windows that of EDX, which may *)
(* or may not have been overwritten.  The contexts hold full registers,    *)
(* which EAX is not in the 64-bit tool.                                    *)
PostSysCall(t) ==
  /\ status = "running"
  /\ delta' = IF knobs.arch64 THEN delta
              ELSE [delta EXCEPT ![t][IF knobs.windows THEN WINOUTPUT
                                      ELSE OUTPUT] = NOTAINT]
  /\ \E kept \in BOOLEAN :
       LET output == IF knobs.arch64 \/ knobs.windows
                     THEN Overwritten(regs[t][OUTPUT]) ELSE Clean
           edx == IF ~knobs.windows THEN regs[t][WINOUTPUT]
                  ELSE IF kept /\ regs[t][WINOUTPUT].from # {}
                  THEN Unseen(regs[t][WINOUTPUT].from) ELSE Clean
       IN  regs' = [regs EXCEPT ![t][OUTPUT] = output, ![t][WINOUTPUT] = edx]
  /\ UNCHANGED <<knobs, memory, taintnum, firstTaint, mem, status>>

Terminated == status = "smash" /\ UNCHANGED vars

Next ==
  \/ \E t \in Threads : AppendBuffer(t) \/ LeftOut(t) \/ PostSysCall(t)
  \/ \E a \in Addrs : IntroMemTaint(a) \/ KernelWrites(a)
  \/ Terminated

Spec == Init /\ [][Next]_vars

-----------------------------------------------------------------------------
(* Properties. *)

(* Every variable has its type; tags are those of bytes introduced so far. *)
TypeOK ==
  /\ knobs \in Knobs
  /\ delta \in [Threads -> [Regs -> -1..(taintnum - 1)]]
  /\ memory \in [Keys -> -1..(taintnum - 1)]
  /\ taintnum \in 1..(MaxBytes + 1)
  /\ firstTaint \in BOOLEAN
  /\ regs \in [Threads -> [Regs -> Origins]]
  /\ mem \in [Addrs -> Origins]
  /\ status \in {"running", "smash"}

(* What a tag says: "0 -> untainted, ffffffff -> mixed taint, other n ->   *)
(* nth input byte", of a value that comes from these bytes; and of one     *)
(* that comes from no others.                                              *)
Tells(tag, from) ==
  /\ tag = NOTAINT <=> from = {}
  /\ tag \in Bytes => from = {tag}
Covers(tag, from) ==
  /\ tag = NOTAINT => from = {}
  /\ tag \in Bytes => from \subseteq {tag}

Agrees(tag, origin) ==
  /\ origin.seen # "lost" => Covers(tag, origin.from)
  /\ origin.seen = "exact" => Tells(tag, origin.from)

(* No taint is missed, and no tag names the wrong byte, in any register    *)
(* and at any address, except where the tracker has lost sight of the data *)
(* in one of the ways listed above.  Where every operand written takes     *)
(* from every operand read, its tag is exact.  It holds with every         *)
(* instruction logged or only the tainted ones.                            *)
TagsTell ==
  /\ \A t \in Threads : \A r \in Regs : Agrees(delta[t][r], regs[t][r])
  /\ \A a \in Addrs : Agrees(memory[Key(a)], mem[a])

(* Unless in SEH mode, the program runs on after the instruction pointer   *)
(* has been loaded with tainted data only if the tracker has lost sight of *)
(* it, as it has after a jump through a tainted operand.                   *)
ControlClean ==
  status = "running" /\ ~knobs.seh =>
    \A t \in Threads : regs[t][IP].seen = "lost" \/ regs[t][IP].from = {}

(* A failed check is a false alarm only if the tracker has counted more    *)
(* operands than the instruction pointer comes from.                       *)
NoFalseAlarm ==
  status = "smash" =>
    \E t \in Threads : regs[t][IP].seen # "exact" \/ regs[t][IP].from # {}
=============================================================================
