-------------------------- MODULE BptTracerProofs --------------------------
(***************************************************************************)
(* Theorems about BptTracer for all programs of one thread, all registers, *)
(* addresses and modes, and any number of instructions, iterations,        *)
(* signals and images.                                                     *)
(***************************************************************************)
EXTENDS BptTracer, InductionLemmas, FiniteSetTheorems, SequenceTheorems, TLAPS

USE BptAssumption

-----------------------------------------------------------------------------
(* Types. *)

(* The operands of an instruction are registers and addresses.             *)
LEMMA InsnTypes ==
  ASSUME NEW ins \in Insns
  PROVE  /\ ins.op \in {"default", "pred", "rep", "cmpxchg"}
         /\ ins.auto \subseteq Regs /\ ins.affects \in [Flags -> affect]
         /\ Operands(ins) \subseteq OperandType
         /\ Bases(ins) \subseteq Regs /\ Written(ins) \subseteq Regs
         /\ RegW(ins) \subseteq Regs /\ RegsWritten(ins) \subseteq Regs
         /\ RegsRead(ins) \subseteq Regs
         /\ Loads(ins) \subseteq Addrs /\ Stores(ins) \subseteq Addrs
         /\ ins.op = "cmpxchg" => /\ ins.ops[1] \in OperandType
                                  /\ ins.ops[3] \in OperandType
                                  /\ \A e : CmpxchgRegs(ins, e) \subseteq Regs
<1>1. ins \in InsnType
  OBVIOUS
<1>2. /\ ins.op \in {"default", "pred", "rep", "cmpxchg"}
      /\ ins.auto \subseteq Regs /\ ins.affects \in [Flags -> affect]
      /\ ins.ops \in Seq(OperandType)
  BY <1>1 DEF InsnType
<1>3. \A i \in DOMAIN ins.ops : ins.ops[i] \in OperandType
  BY <1>2
<1>4. Operands(ins) \subseteq OperandType
  BY <1>3 DEF Operands
<1>5. \A o \in OperandType : o.reg \in Regs /\ o.addr \in Addrs
  BY DEF OperandType
<1>6. /\ Bases(ins) \subseteq Regs
      /\ {o.reg : o \in {o \in Operands(ins) : o.kind = "reg" /\ o.written}} \subseteq Regs
      /\ {o.reg : o \in {o \in Operands(ins) :
            o.kind = "reg" /\ (o.read \/ (o.written /\ o.partial))}} \subseteq Regs
  BY <1>4, <1>5 DEF Bases
<1>7. FlagsRead(ins) \subseteq Regs /\ FlagsWritten(ins) \subseteq Regs
  BY DEF FlagsRead, FlagsWritten, FlagsIf
<1>8. Loads(ins) \subseteq Addrs /\ Stores(ins) \subseteq Addrs
  BY <1>4, <1>5 DEF Loads, Stores
<1>9. Written(ins) \subseteq Regs
  BY <1>6, <1>7 DEF Written
<1>10. RegW(ins) \subseteq Regs /\ RegsWritten(ins) \subseteq Regs
  BY <1>2, <1>6, <1>9 DEF RegW, RegsWritten
<1>11. ins.op = "cmpxchg" => \A i \in 1..4 : ins.ops[i] \in OperandType
  <2>1. ins.op = "cmpxchg" => DOMAIN ins.ops = 1..4
    BY <1>2, LenProperties
  <2> QED
    BY <1>3, <2>1
<1>12. RegsRead(ins) \subseteq Regs
  <2>1. CASE ins.op = "cmpxchg"
    <3>1. RegsRead(ins) = {ins.ops[i].reg : i \in 1..3}
      BY <2>1 DEF RegsRead
    <3>2. \A i \in 1..3 : ins.ops[i].reg \in Regs
      BY <1>5, <1>11, <2>1
    <3> QED
      BY <3>1, <3>2
  <2>2. CASE ins.op # "cmpxchg"
    BY <1>6, <1>7, <2>2 DEF RegsRead
  <2> QED
    BY <2>1, <2>2
<1>13. ins.op = "cmpxchg" => \A e : CmpxchgRegs(ins, e) \subseteq Regs
  BY <1>5, <1>7, <1>11 DEF CmpxchgRegs
<1> QED
  BY <1>2, <1>4, <1>6, <1>8, <1>9, <1>10, <1>11, <1>12, <1>13

(* The frame of a thread in a routine, and its instruction.                *)
History == Seq([tid : Threads, ins : Insns, wrote : SUBSET Locs])

TypeInv ==
  /\ TypeOK
  /\ \A t \in Threads : insn[t] # None => insn[t].no <= Len(history)
  /\ status = "running" /\ (\E t \in Threads : insn[t] # None) => current # None
  /\ \A t \in Threads : pc[t] # "code_exec" => insn[t] # None
  /\ \A t \in Threads : pc[t] \in {"write_after", "store_after"} =>
       insn[t].ins.op = "cmpxchg"

(* Initially nothing is executed and no frame is being filled.             *)
LEMMA TypeInit == Init => TypeInv
<1> SUFFICES ASSUME Init PROVE TypeInv
  OBVIOUS
<1>1. 0 \in Values
  BY DEF Values
<1>2. <<>> \in History /\ Len(<<>>) = 0
  BY DEF History
<1>3. <<>> \in Seq(FrameType \union {ModFrame})
  OBVIOUS
<1>4. pc \in [Threads -> Routines]
  BY DEF Init, Routines
<1> QED
  BY <1>1, <1>2, <1>3, <1>4 DEF Init, TypeInv, TypeOK, History

(* Values are values of locations.                                         *)
LEMMA ValueTypes ==
  ASSUME TypeOK, NEW t \in Threads, NEW rs \in SUBSET Regs, NEW as \in SUBSET Addrs
  PROVE  /\ RegValues(t, rs) \subseteq OperandValues
         /\ MemValues(as) \subseteq OperandValues
<1>1. \A r \in Regs : regs[t][r] \in Values
  BY DEF TypeOK
<1>2. \A a \in Addrs : mem[a] \in Values
  BY DEF TypeOK
<1>3. \A l \in Locs, v \in Values : [loc |-> l, val |-> v] \in OperandValues
  BY DEF OperandValues
<1>4. RegValues(t, rs) \subseteq OperandValues
  <2>1. ASSUME NEW r \in rs PROVE [loc |-> r, val |-> regs[t][r]] \in OperandValues
    BY <1>1, <1>3 DEF Locs
  <2> QED
    BY <2>1 DEF RegValues
<1>5. MemValues(as) \subseteq OperandValues
  <2>1. ASSUME NEW a \in as PROVE [loc |-> a, val |-> mem[a]] \in OperandValues
    BY <1>2, <1>3 DEF Locs
  <2> QED
    BY <2>1 DEF MemValues
<1> QED
  BY <1>4, <1>5

(* A frame stays a frame when operands are added.                          *)
LEMMA SavedTypes ==
  ASSUME NEW f \in FrameType, NEW values \in SUBSET OperandValues
  PROVE  /\ [f EXCEPT !.pre = @ \union values] \in FrameType
         /\ [f EXCEPT !.post = @ \union values] \in FrameType
BY DEF FrameType

(* The frame that gets the remembered writes stays a frame.                *)
LEMMA UpdatedTypes ==
  ASSUME TypeOK, NEW t \in Threads
  PROVE  /\ Updated(t) \in FrameType \union {None}
         /\ Updated(t) = None <=> current = None
         /\ \A f \in FrameType \union {None} :
              Added(f) \in Seq(FrameType \union {ModFrame})
<1> DEFINE values == RegValues(t, m_regs) \union MemValues(m_mems)
<1>1. values \in SUBSET OperandValues
  <2>1. m_regs \in SUBSET Regs /\ m_mems \in SUBSET Addrs
    BY DEF TypeOK
  <2>2. RegValues(t, m_regs) \subseteq OperandValues /\ MemValues(m_mems) \subseteq OperandValues
    BY <2>1, ValueTypes
  <2> QED
    BY <2>2
<1>2. ASSUME current = None PROVE Updated(t) = None
  BY <1>2 DEF Updated
<1>3. ASSUME current # None PROVE Updated(t) \in FrameType /\ Updated(t) # None
  <2>1. current \in FrameType
    BY <1>3 DEF TypeOK
  <2>2. [current EXCEPT !.post = @ \union values] \in FrameType
    BY <1>1, <2>1, SavedTypes
  <2>3. Updated(t) = [current EXCEPT !.post = @ \union values]
    BY <1>3, <2>1 DEF Updated, FrameType
  <2>4. Updated(t) \in FrameType
    BY <2>2, <2>3
  <2>5. Updated(t) # None
    BY <2>4
  <2> QED
    BY <2>4, <2>5
<1>4. \A f \in FrameType \union {None} : Added(f) \in Seq(FrameType \union {ModFrame})
  BY DEF TypeOK, Added
<1> QED
  BY <1>2, <1>3, <1>4

(* A new instruction: its number and its frame.                            *)
LEMMA BeginTypes ==
  ASSUME TypeInv, NEW t \in Threads, NEW ins \in Insns, NEW count \in 1..MaxRep,
         NEW on \in BOOLEAN, Begin(t, ins, count, on), NewFrame(t, ins), UNCHANGED knobs
  PROVE  TypeInv'
<1> DEFINE h == [tid |-> t, ins |-> ins, wrote |-> {}]
<1>1. /\ history' = Append(history, h) /\ history \in History
      /\ Len(history) \in Nat /\ Len(history) < MaxInsns
  BY LenProperties DEF Begin, TypeInv, TypeOK, History
<1>2. history' \in History /\ Len(history') = Len(history) + 1
  <2>1. h \in [tid : Threads, ins : Insns, wrote : SUBSET Locs]
    OBVIOUS
  <2> HIDE DEF h
  <2> QED
    BY <1>1, <2>1, AppendProperties DEF History
<1>3. Len(history') \in 1..MaxInsns /\ Len(history') <= MaxInsns
  BY <1>1, <1>2
<1>4. insn' \in [Threads -> Executing \union {None}]
  <2>1. (IF on THEN count - 1 ELSE 0) \in Nat
    OBVIOUS
  <2>2. [ins |-> ins, no |-> Len(history'), left |-> IF on THEN count - 1 ELSE 0,
         on |-> on] \in Executing
    BY <1>3, <2>1 DEF Executing
  <2> QED
    BY <2>2 DEF Begin, TypeInv, TypeOK
<1>5. Frame(t, Len(history'), ins) \in FrameType
  BY <1>3 DEF Frame, FrameType
<1>6. current' \in FrameType /\ current' # None
  BY <1>5 DEF NewFrame
<1>7. out' \in Seq(FrameType \union {ModFrame})
  BY UpdatedTypes DEF NewFrame, TypeInv
<1>8. pc' \in [Threads -> Routines] /\ pc'[t] = "read"
  BY DEF Begin, Go, TypeInv, TypeOK, Routines
<1>9. ASSUME NEW u \in Threads
      PROVE  /\ insn'[u] # None => insn'[u].no <= Len(history')
             /\ pc'[u] # "code_exec" => insn'[u] # None
             /\ pc'[u] \in {"write_after", "store_after"} =>
                  insn'[u].ins.op = "cmpxchg"
  <2>1. CASE u = t
    <3>1. /\ insn'[u] # None /\ insn'[u].no = Len(history')
      BY <1>4, <2>1 DEF Begin, TypeInv, TypeOK, Executing
    <3> QED
      BY <1>3, <1>8, <2>1, <3>1
  <2>2. CASE u # t
    <3>1. insn'[u] = insn[u] /\ pc'[u] = pc[u]
      BY <2>2 DEF Begin, Go, TypeInv, TypeOK
    <3>2. insn[u] # None => insn[u].no \in Nat
      BY DEF TypeInv, TypeOK, Executing
    <3> QED
      BY <1>1, <1>2, <3>1, <3>2 DEF TypeInv
  <2> QED
    BY <2>1, <2>2
<1>10. m_regs' = {} /\ m_mems' = {}
  BY DEF NewFrame
<1> QED
  BY <1>2, <1>3, <1>4, <1>6, <1>7, <1>8, <1>9, <1>10
     DEF Begin, machine, TypeInv, TypeOK, History

(* What the routines do to the types of a thread's own variables.          *)
LEMMA GoTypes ==
  ASSUME TypeInv, NEW t \in Threads, NEW place \in Routines, Go(t, place),
         insn[t] # None, UNCHANGED <<insn, history>>,
         place \in {"write_after", "store_after"} => insn[t].ins.op = "cmpxchg"
  PROVE  /\ pc' \in [Threads -> Routines]
         /\ \A u \in Threads :
              /\ insn'[u] # None => insn'[u].no <= Len(history')
              /\ pc'[u] # "code_exec" => insn'[u] # None
              /\ pc'[u] \in {"write_after", "store_after"} =>
                   insn'[u].ins.op = "cmpxchg"
<1>1. pc' = [pc EXCEPT ![t] = place] /\ pc \in [Threads -> Routines]
  BY DEF Go, TypeInv, TypeOK
<1>2. \A u \in Threads : pc'[u] = IF u = t THEN place ELSE pc[u]
  BY <1>1
<1> QED
  BY <1>1, <1>2 DEF TypeInv

(* A routine that only adds values to the frame of the thread.             *)
LEMMA SaveTypes ==
  ASSUME TypeInv, NEW t \in Threads, NEW place \in Routines, Go(t, place),
         At(t, pc[t]), pc[t] # "code_exec",
         place \in {"write_after", "store_after"} => insn[t].ins.op = "cmpxchg",
         NEW values \in SUBSET OperandValues,
         SaveReads(values) \/ SaveWrites(values),
         UNCHANGED <<insn, regs, mem, pending, out, history, status>>,
         zf' \in [Threads -> BOOLEAN]
  PROVE  TypeInv'
<1>1. current # None /\ current \in FrameType /\ insn[t] # None
  BY DEF At, TypeInv, TypeOK
<1>2. current' \in FrameType
  <2>1. CASE SaveReads(values)
    BY <1>1, <2>1, SavedTypes DEF SaveReads
  <2>2. CASE SaveWrites(values)
    BY <1>1, <2>2, SavedTypes DEF SaveWrites
  <2> QED
    BY <2>1, <2>2
<1>3. current' # None
  BY <1>2
<1>4. /\ pc' \in [Threads -> Routines]
      /\ \A u \in Threads :
           /\ insn'[u] # None => insn'[u].no <= Len(history')
           /\ pc'[u] # "code_exec" => insn'[u] # None
           /\ pc'[u] \in {"write_after", "store_after"} =>
                insn'[u].ins.op = "cmpxchg"
  BY <1>1, GoTypes
<1> QED
  BY <1>2, <1>3, <1>4 DEF TypeInv, TypeOK, pending

(* The instruction a thread executes.                                      *)
LEMMA InsnOf ==
  ASSUME TypeInv, NEW t \in Threads, insn[t] # None
  PROVE  /\ insn[t] \in Executing /\ insn[t].ins \in Insns
         /\ insn[t].no \in 1..MaxInsns /\ insn[t].no \in DOMAIN history
         /\ insn[t].left \in Nat /\ insn[t].on \in BOOLEAN
         /\ history[insn[t].no] \in [tid : Threads, ins : Insns, wrote : SUBSET Locs]
         /\ history \in History
<1>1. insn[t] \in Executing /\ history \in History /\ insn[t].no <= Len(history)
  BY DEF TypeInv, TypeOK, History
<1>2. DOMAIN history = 1..Len(history) /\ Len(history) \in Nat
  BY <1>1, LenProperties DEF History
<1>3. insn[t].no \in DOMAIN history
  BY <1>1, <1>2 DEF Executing
<1>4. history[insn[t].no] \in [tid : Threads, ins : Insns, wrote : SUBSET Locs]
  <2> DEFINE H == [tid : Threads, ins : Insns, wrote : SUBSET Locs]
  <2>1. history \in Seq(H)
    BY <1>1 DEF History
  <2> HIDE DEF H
  <2>2. \A n \in 1..Len(history) : history[n] \in H
    BY <2>1
  <2> QED
    BY <1>2, <1>3, <2>2 DEF H
<1> QED
  BY <1>1, <1>3, <1>4 DEF Executing

(* The program writes.                                                     *)
LEMMA WriteTypes ==
  ASSUME TypeOK, NEW t \in Threads, NEW rs, NEW as, NEW no \in Values,
         Write(t, rs, as, no)
  PROVE  regs' \in [Threads -> [Regs -> Values]] /\ mem' \in [Addrs -> Values]
<1>1. regs \in [Threads -> [Regs -> Values]] /\ mem \in [Addrs -> Values]
  BY DEF TypeOK
<1>2. [r \in Regs |-> IF r \in rs THEN no ELSE regs[t][r]] \in [Regs -> Values]
  BY <1>1
<1>3. regs' = [regs EXCEPT ![t] = [r \in Regs |-> IF r \in rs THEN no ELSE regs[t][r]]]
  BY DEF Write
<1> QED
  BY <1>1, <1>2, <1>3 DEF Write

(* The history of writes grows at the number of the instruction.           *)
LEMMA WroteTypes ==
  ASSUME TypeInv, NEW t \in Threads, insn[t] # None,
         NEW locs \in SUBSET Locs, Wrote(insn[t].no, locs)
  PROVE  /\ history' \in History /\ Len(history') = Len(history)
         /\ DOMAIN history' = DOMAIN history
         /\ \A n \in DOMAIN history : n # insn[t].no => history'[n] = history[n]
         /\ history'[insn[t].no].wrote = history[insn[t].no].wrote \union locs
         /\ history'[insn[t].no].ins = history[insn[t].no].ins
         /\ history'[insn[t].no].tid = history[insn[t].no].tid
<1> DEFINE n == insn[t].no
           h == history[n]
           H == [tid : Threads, ins : Insns, wrote : SUBSET Locs]
<1>1. n \in DOMAIN history /\ h \in H /\ history \in Seq(H)
  BY InsnOf DEF History
<1>2. [h EXCEPT !.wrote = @ \union locs] \in H
  BY <1>1
<1>3. history' = [history EXCEPT ![n] = [h EXCEPT !.wrote = @ \union locs]]
  BY <1>1 DEF Wrote
<1>4. history' \in Seq(H) /\ Len(history') = Len(history) /\ DOMAIN history' = DOMAIN history
  <2> HIDE DEF H, h, n
  <2>1. [h EXCEPT !.wrote = @ \union locs] \in H
    BY <1>2
  <2> QED
    BY <1>1, <1>3, <2>1, ExceptSeq
<1> QED
  BY <1>1, <1>3, <1>4 DEF History

(* Whatever an instruction can write.                                      *)
Effects(ins) ==
  (RegW(ins) \ Flags) \union FlagsChanged(ins, TRUE) \union Stores(ins)

(* What Execute writes: some of the effects, all of them for REP.          *)
LEMMA EffectsOf ==
  ASSUME NEW ins \in Insns, NEW u \in BOOLEAN
  PROVE  /\ FlagsChanged(ins, u) \subseteq FlagsChanged(ins, TRUE)
         /\ FlagsChanged(ins, u) \subseteq Flags
         /\ ins.op = "rep" => FlagsChanged(ins, u) = FlagsChanged(ins, TRUE)
<1>1. FlagsChanged(ins, TRUE) = {f \in Flags : ins.affects[f] \notin {"N", "TST"}}
  BY DEF FlagsChanged
<1>2. FlagsChanged(ins, FALSE) =
        {f \in Flags : ins.affects[f] \notin {"N", "TST", "UND", "M_U"}}
  BY DEF FlagsChanged
<1>3. ins.op = "rep" => \A f \in Flags : ins.affects[f] \notin {"UND", "M_U"}
  BY InsnAssumption
<1>4. CASE u = TRUE
  BY <1>1, <1>4
<1>5. CASE u = FALSE
  <2>1. FlagsChanged(ins, u) = FlagsChanged(ins, FALSE)
    BY <1>5
  <2> QED
    BY <1>1, <1>2, <1>3, <2>1
<1> QED
  BY <1>4, <1>5

(* The registers and addresses that Execute writes.                        *)
LEMMA ExecuteWrites ==
  ASSUME TypeInv, NEW t \in Threads, insn[t] # None, Execute(t)
  PROVE  \E rs \in SUBSET Regs, as \in SUBSET Addrs :
           /\ Write(t, rs, as, insn[t].no) /\ Wrote(insn[t].no, rs \union as)
           /\ rs \union as \subseteq Effects(insn[t].ins)
           /\ insn[t].on =>
                /\ rs \subseteq RegW(insn[t].ins) \union FlagsChanged(insn[t].ins, TRUE)
                /\ as = Stores(insn[t].ins)
           /\ ~insn[t].on => rs = {} /\ as = {}
           /\ insn[t].on /\ insn[t].ins.op = "rep" => rs \union as = Effects(insn[t].ins)
<1> DEFINE ins == insn[t].ins
<1>1. ins \in Insns
  BY InsnOf
<1>2. PICK u \in BOOLEAN :
        LET rs == IF insn[t].on
                  THEN (RegW(ins) \ Flags) \union FlagsChanged(ins, u) ELSE {}
            as == IF insn[t].on THEN Stores(ins) ELSE {}
        IN  Write(t, rs, as, insn[t].no) /\ Wrote(insn[t].no, rs \union as)
  BY DEF Execute
<1>3. RegW(ins) \subseteq Regs /\ Stores(ins) \subseteq Addrs /\ Flags \subseteq Regs
  BY <1>1, InsnTypes
<1>4. /\ FlagsChanged(ins, u) \subseteq FlagsChanged(ins, TRUE)
      /\ FlagsChanged(ins, u) \subseteq Flags
      /\ ins.op = "rep" => FlagsChanged(ins, u) = FlagsChanged(ins, TRUE)
  BY <1>1, EffectsOf
<1>5. PICK rs, as :
        /\ rs = IF insn[t].on
                THEN (RegW(ins) \ Flags) \union FlagsChanged(ins, u) ELSE {}
        /\ as = IF insn[t].on THEN Stores(ins) ELSE {}
  OBVIOUS
<1>6. Write(t, rs, as, insn[t].no) /\ Wrote(insn[t].no, rs \union as)
  BY <1>2, <1>5
<1>7. rs \in SUBSET Regs /\ as \in SUBSET Addrs
  BY <1>3, <1>4, <1>5
<1>8. rs \union as \subseteq Effects(ins)
  BY <1>4, <1>5 DEF Effects
<1>9. insn[t].on /\ ins.op = "rep" => rs \union as = Effects(ins)
  BY <1>4, <1>5 DEF Effects
<1> QED
  BY <1>4, <1>5, <1>6, <1>7, <1>8, <1>9

(* What CMPXCHG writes.                                                   *)
LEMMA CmpxchgWrites ==
  ASSUME TypeInv, NEW t \in Threads, insn[t] # None, ExecuteCmpxchg(t)
  PROVE  \E rs \in SUBSET Regs, as \in SUBSET Addrs :
           Write(t, rs, as, insn[t].no) /\ Wrote(insn[t].no, rs \union as)
<1>1. insn[t].ins.op = "cmpxchg" /\ insn[t].ins \in Insns
  BY InsnOf DEF ExecuteCmpxchg
<1>2. FlagsChanged(insn[t].ins, FALSE) \subseteq Regs
  BY DEF FlagsChanged
<1>3. insn[t].ins.ops[1] \in OperandType /\ insn[t].ins.ops[3] \in OperandType
  BY <1>1, InsnTypes
<1>4. PICK equal \in BOOLEAN :
        LET ops == insn[t].ins.ops
            dest == IF equal THEN ops[1] ELSE ops[3]
            rs == FlagsChanged(insn[t].ins, FALSE) \union
                  (IF dest.kind = "reg" THEN {dest.reg} ELSE {})
            as == IF dest.kind = "mem" THEN {dest.addr} ELSE {}
        IN  Write(t, rs, as, insn[t].no) /\ Wrote(insn[t].no, rs \union as)
  BY DEF ExecuteCmpxchg
<1>5. PICK dest \in OperandType :
        dest = IF equal THEN insn[t].ins.ops[1] ELSE insn[t].ins.ops[3]
  BY <1>3
<1>6. dest.reg \in Regs /\ dest.addr \in Addrs
  BY DEF OperandType
<1> QED
  BY <1>2, <1>4, <1>5, <1>6

(* A routine that leaves the frames alone.                                 *)
LEMMA StepTypes ==
  ASSUME TypeInv, NEW t \in Threads, NEW place \in Routines, Go(t, place),
         At(t, pc[t]), pc[t] # "code_exec",
         place \in {"write_after", "store_after"} => insn[t].ins.op = "cmpxchg",
         UNCHANGED <<trace, status>>, insn' \in [Threads -> Executing \union {None}],
         \A u \in Threads : insn[u] # None =>
           insn'[u] # None /\ insn'[u].no = insn[u].no /\ insn'[u].ins = insn[u].ins,
         \A u \in Threads : insn[u] = None => insn'[u] = None,
         history' \in History, Len(history') = Len(history),
         regs' \in [Threads -> [Regs -> Values]], mem' \in [Addrs -> Values],
         zf' \in [Threads -> BOOLEAN], m_regs' \subseteq Regs, m_mems' \subseteq Addrs
  PROVE  TypeInv'
<1>1. current # None /\ insn[t] # None
  BY DEF At, TypeInv, TypeOK
<1>2. \A u \in Threads : pc'[u] = IF u = t THEN place ELSE pc[u]
  BY DEF Go, TypeInv, TypeOK
<1>3. pc' \in [Threads -> Routines]
  BY DEF Go, TypeInv, TypeOK
<1>4. ASSUME NEW u \in Threads
      PROVE  /\ insn'[u] # None => insn'[u].no <= Len(history')
             /\ pc'[u] # "code_exec" => insn'[u] # None
             /\ pc'[u] \in {"write_after", "store_after"} =>
                  insn'[u].ins.op = "cmpxchg"
  BY <1>1, <1>2 DEF TypeInv
<1> QED
  BY <1>1, <1>3, <1>4 DEF TypeInv, TypeOK, trace, History

(* Each routine, and each step of the machine, keeps the types.            *)
LEMMA TypeNext == TypeInv /\ [Next]_vars => TypeInv'
<1> SUFFICES ASSUME TypeInv, [Next]_vars PROVE TypeInv'
  OBVIOUS
<1>0. ASSUME NEW t \in Threads, pc[t] # "code_exec", status = "running"
      PROVE  insn[t] # None
  BY <1>0 DEF TypeInv
<1>1. ASSUME NEW t \in Threads, CodeExec(t), UNCHANGED knobs PROVE TypeInv'
  <2>1. PICK ins \in Insns, count \in 1..MaxRep, on \in BOOLEAN :
          Begin(t, ins, count, on) /\ NewFrame(t, ins)
    BY <1>1 DEF CodeExec
  <2> QED
    BY <1>1, <2>1, BeginTypes
<1>2. ASSUME NEW t \in Threads, CodeExecIteration(t) PROVE TypeInv'
  <2>1. insn[t] # None /\ insn[t].left > 0 /\ insn[t] \in Executing
    BY <1>2 DEF CodeExecIteration, InRep, TypeInv, TypeOK
  <2>2. [insn[t] EXCEPT !.left = @ - 1] \in Executing
    BY <2>1 DEF Executing
  <2>3. insn' = [insn EXCEPT ![t] = [insn[t] EXCEPT !.left = @ - 1]]
    BY <1>2 DEF CodeExecIteration
  <2>4. insn' \in [Threads -> Executing \union {None}]
    BY <2>2, <2>3 DEF TypeInv, TypeOK
  <2>5. current' \in FrameType \union {None} /\ (current = None <=> current' = None)
    BY <1>2, UpdatedTypes DEF CodeExecIteration, TypeInv
  <2>6. \A u \in Threads : pc'[u] = IF u = t THEN "read" ELSE pc[u]
    BY <1>2 DEF CodeExecIteration, Go, TypeInv, TypeOK
  <2>7. pc' \in [Threads -> Routines]
    BY <1>2 DEF CodeExecIteration, Go, TypeInv, TypeOK, Routines
  <2>8. \A u \in Threads : insn[u] # None => insn'[u] # None /\ insn'[u].no = insn[u].no /\ insn'[u].ins = insn[u].ins
    BY <2>2, <2>3 DEF TypeInv, TypeOK, Executing
  <2>9. \A u \in Threads : insn'[u] # None => insn[u] # None
    BY <2>1, <2>3 DEF TypeInv, TypeOK
  <2>10. current # None
    BY <2>1, <1>2 DEF CodeExecIteration, At, TypeInv
  <2> QED
    BY <1>2, <2>1, <2>4, <2>5, <2>6, <2>7, <2>8, <2>9, <2>10
       DEF CodeExecIteration, TypeInv, TypeOK, machine
<1>3. ASSUME NEW t \in Threads, Read(t) PROVE TypeInv'
  <2>1. insn[t] # None /\ pc[t] # "code_exec"
    BY <1>3 DEF Read, At, TypeInv
  <2>2. RegValues(t, RegsRead(insn[t].ins)) \in SUBSET OperandValues
    BY <2>1, InsnOf, InsnTypes, ValueTypes DEF TypeInv
  <2>3. PICK place \in {"load", "remember_write"} : Go(t, place)
    BY <1>3 DEF Read
  <2> QED
    BY <1>3, <2>1, <2>2, <2>3, SaveTypes DEF Read, At, Routines, machine, TypeInv, TypeOK
<1>4. ASSUME NEW t \in Threads, RememberWrite(t) PROVE TypeInv'
  <2>1. insn[t] # None /\ pc[t] # "code_exec"
    BY <1>4 DEF RememberWrite, At, TypeInv
  <2>2. m_regs' \subseteq Regs
    BY <1>4, <2>1, InsnOf, InsnTypes DEF RememberWrite, TypeInv, TypeOK
  <2> QED
    BY <1>4, <2>1, <2>2, StepTypes
       DEF RememberWrite, At, Routines, machine, History, TypeInv, TypeOK
<1>5. ASSUME NEW t \in Threads, Load(t) PROVE TypeInv'
  <2>1. insn[t] # None /\ pc[t] # "code_exec"
    BY <1>5 DEF Load, At, TypeInv
  <2>2. MemValues(Loads(insn[t].ins)) \in SUBSET OperandValues
    <3>1. Loads(insn[t].ins) \in SUBSET Addrs
      BY <2>1, InsnOf, InsnTypes
    <3> QED
      BY <3>1, ValueTypes DEF TypeInv
  <2>3. PICK place \in {"execute", "remember_store"} : Go(t, place)
    BY <1>5 DEF Load
  <2> QED
    BY <1>5, <2>1, <2>2, <2>3, SaveTypes DEF Load, At, Routines, machine, TypeInv, TypeOK
<1>6. ASSUME NEW t \in Threads, RememberStore(t) PROVE TypeInv'
  <2>1. insn[t] # None /\ pc[t] # "code_exec"
    BY <1>6 DEF RememberStore, At, TypeInv
  <2>2. m_mems' \subseteq Addrs
    BY <1>6, <2>1, InsnOf, InsnTypes DEF RememberStore, TypeInv, TypeOK
  <2> QED
    BY <1>6, <2>1, <2>2, StepTypes
       DEF RememberStore, At, Routines, machine, History, TypeInv, TypeOK
<1>7. ASSUME NEW t \in Threads, WriteAfter(t) PROVE TypeInv'
  <2>1. insn[t] # None /\ pc[t] # "code_exec" /\ insn[t].ins.op = "cmpxchg"
    BY <1>7 DEF WriteAfter, At, TypeInv
  <2>2. RegValues(t, CmpxchgRegs(insn[t].ins, zf[t])) \in SUBSET OperandValues
    <3>1. CmpxchgRegs(insn[t].ins, zf[t]) \in SUBSET Regs
      BY <2>1, InsnOf, InsnTypes
    <3> QED
      BY <3>1, ValueTypes DEF TypeInv
  <2> QED
    BY <1>7, <2>1, <2>2, SaveTypes DEF WriteAfter, At, Routines, machine, TypeInv, TypeOK
<1>8. ASSUME NEW t \in Threads, StoreAfter(t) PROVE TypeInv'
  <2>1. insn[t] # None /\ pc[t] # "code_exec" /\ insn[t].ins.op = "cmpxchg"
    BY <1>8 DEF StoreAfter, At, TypeInv
  <2>2. (IF zf[t] THEN MemValues(Stores(insn[t].ins)) ELSE {}) \in SUBSET OperandValues
    <3>1. Stores(insn[t].ins) \in SUBSET Addrs
      BY <2>1, InsnOf, InsnTypes
    <3> QED
      BY <3>1, ValueTypes DEF TypeInv
  <2>3. zf' \in [Threads -> BOOLEAN]
    BY <1>8 DEF StoreAfter, TypeInv, TypeOK
  <2>4. /\ SaveWrites(IF zf[t] THEN MemValues(Stores(insn[t].ins)) ELSE {})
        /\ UNCHANGED <<insn, regs, mem, pending, out, history, status>>
        /\ Go(t, "code_exec") /\ At(t, pc[t])
    BY <1>8 DEF StoreAfter, At
  <2> QED
    BY <2>1, <2>2, <2>3, <2>4, SaveTypes DEF Routines
<1>9. ASSUME NEW t \in Threads, ModLoad(t) PROVE TypeInv'
  <2>1. out' \in Seq(FrameType \union {ModFrame})
    BY <1>9, AppendProperties DEF ModLoad, TypeInv, TypeOK
  <2> QED
    BY <1>9, <2>1 DEF ModLoad, machine, pending, TypeInv, TypeOK
<1>10. ASSUME NEW t \in Threads, Fini(t) PROVE TypeInv'
  <2>1. out' \in Seq(FrameType \union {ModFrame})
    <3>1. current \in FrameType \union {None} /\ out' = Added(current)
      BY <1>10 DEF Fini, TypeInv, TypeOK
    <3> QED
      BY <3>1, UpdatedTypes DEF TypeInv
  <2> QED
    BY <1>10, <2>1 DEF Fini, machine, pending, TypeInv, TypeOK
<1>11. ASSUME NEW t \in Threads, Execute(t) PROVE TypeInv'
  <2>1. insn[t] # None /\ pc[t] # "code_exec"
    BY <1>11 DEF Execute, At, TypeInv
  <2>2. insn[t].ins \in Insns /\ insn[t].no \in 1..MaxInsns
    BY <2>1, InsnOf
  <2>3. insn[t].no \in Values
    BY <2>2 DEF Values
  <2>4. PICK rs \in SUBSET Regs, as \in SUBSET Addrs :
          Write(t, rs, as, insn[t].no) /\ Wrote(insn[t].no, rs \union as)
    BY <1>11, <2>1, ExecuteWrites
  <2>5. regs' \in [Threads -> [Regs -> Values]] /\ mem' \in [Addrs -> Values]
    BY <2>3, <2>4, WriteTypes DEF TypeInv
  <2>6. history' \in History /\ Len(history') = Len(history)
    <3>1. rs \union as \in SUBSET Locs
      BY DEF Locs
    <3> QED
      BY <2>1, <2>4, <3>1, WroteTypes
  <2> QED
    BY <1>11, <2>1, <2>5, <2>6, StepTypes
       DEF Execute, At, Routines, pending, TypeInv, TypeOK
<1>12. ASSUME NEW t \in Threads, ExecuteCmpxchg(t) PROVE TypeInv'
  <2>1. insn[t] # None /\ pc[t] # "code_exec" /\ insn[t].ins.op = "cmpxchg"
    BY <1>12 DEF ExecuteCmpxchg, At, TypeInv
  <2>2. insn[t].ins \in Insns /\ insn[t].no \in 1..MaxInsns
    BY <2>1, InsnOf
  <2>3. insn[t].no \in Values
    BY <2>2 DEF Values
  <2>4. PICK rs \in SUBSET Regs, as \in SUBSET Addrs :
          Write(t, rs, as, insn[t].no) /\ Wrote(insn[t].no, rs \union as)
    BY <1>12, <2>1, CmpxchgWrites
  <2>5. regs' \in [Threads -> [Regs -> Values]] /\ mem' \in [Addrs -> Values]
    BY <2>3, <2>4, WriteTypes DEF TypeInv
  <2>6. history' \in History /\ Len(history') = Len(history)
    <3>1. rs \union as \in SUBSET Locs
      BY DEF Locs
    <3> QED
      BY <2>1, <2>4, <3>1, WroteTypes
  <2>7. zf' \in [Threads -> BOOLEAN]
    BY <1>12 DEF ExecuteCmpxchg, TypeInv, TypeOK
  <2>8. Go(t, "write_after") /\ At(t, pc[t]) /\ UNCHANGED <<insn, pending, trace, status>>
    BY <1>12 DEF ExecuteCmpxchg, At
  <2> QED
    BY <2>1, <2>5, <2>6, <2>7, <2>8, StepTypes
       DEF Routines, pending, TypeInv, TypeOK
<1>13. ASSUME NEW t \in Threads, KernelWrites(t) PROVE TypeInv'
  <2>1. insn[t] # None /\ insn[t] \in Executing
    BY <1>13 DEF KernelWrites, TypeInv, TypeOK
  <2>2. [insn[t] EXCEPT !.left = 0] \in Executing
    BY <2>1 DEF Executing
  <2>3. insn' = [insn EXCEPT ![t] = [insn[t] EXCEPT !.left = 0]]
    BY <1>13 DEF KernelWrites
  <2>4. insn' \in [Threads -> Executing \union {None}]
    BY <2>2, <2>3 DEF TypeInv, TypeOK
  <2>5. \A u \in Threads : insn[u] # None => insn'[u] # None /\ insn'[u].no = insn[u].no /\ insn'[u].ins = insn[u].ins
    BY <2>2, <2>3 DEF TypeInv, TypeOK, Executing
  <2>6. \A u \in Threads : insn'[u] # None => insn[u] # None
    BY <2>1, <2>3 DEF TypeInv, TypeOK
  <2>7. regs' \in [Threads -> [Regs -> Values]] /\ mem' \in [Addrs -> Values]
    <3>1. Kernel \in Values
      BY DEF Kernel, Values
    <3>2. PICK x \in KernelLocs : Write(t, {x}, {x}, Kernel)
      BY <1>13 DEF KernelWrites
    <3> QED
      BY <3>1, <3>2, WriteTypes DEF TypeInv
  <2> QED
    BY <1>13, <2>4, <2>5, <2>6, <2>7
       DEF KernelWrites, TypeInv, TypeOK, pending, trace
<1>14. ASSUME NEW t \in Threads, Fault(t) PROVE TypeInv'
  <2>1. insn[t] # None /\ insn[t] \in Executing /\ pc[t] # "code_exec"
    BY <1>14 DEF Fault, At, TypeInv, TypeOK
  <2>2. [insn[t] EXCEPT !.left = 0] \in Executing
    BY <2>1 DEF Executing
  <2>3. insn' = [insn EXCEPT ![t] = [insn[t] EXCEPT !.left = 0]]
    BY <1>14 DEF Fault
  <2>4. insn' \in [Threads -> Executing \union {None}]
    BY <2>2, <2>3 DEF TypeInv, TypeOK
  <2>5. \A u \in Threads : insn[u] # None => insn'[u] # None /\ insn'[u].no = insn[u].no /\ insn'[u].ins = insn[u].ins
    BY <2>2, <2>3 DEF TypeInv, TypeOK, Executing
  <2>6. \A u \in Threads : insn[u] = None => insn'[u] = None
    BY <2>1, <2>3 DEF TypeInv, TypeOK
  <2>7. regs' \in [Threads -> [Regs -> Values]] /\ mem' \in [Addrs -> Values]
    <3>1. Kernel \in Values
      BY DEF Kernel, Values
    <3>2. PICK x \in KernelLocs : Write(t, {x}, {}, Kernel)
      BY <1>14 DEF Fault
    <3> QED
      BY <3>1, <3>2, WriteTypes DEF TypeInv
  <2>8. Go(t, "code_exec") /\ At(t, pc[t]) /\ UNCHANGED <<zf, pending, trace, history, status>>
    BY <1>14 DEF Fault, At
  <2> QED
    BY <2>1, <2>4, <2>5, <2>6, <2>7, <2>8, StepTypes
       DEF Routines, pending, TypeInv, TypeOK, History
<1>15. CASE UNCHANGED vars
  BY <1>15 DEF vars, machine, pending, trace, TypeInv, TypeOK
<1> QED
  BY <1>1, <1>2, <1>3, <1>4, <1>5, <1>6, <1>7, <1>8, <1>9, <1>10, <1>11, <1>12,
     <1>13, <1>14, <1>15 DEF Next, Terminated

(* Every variable keeps its type, a routine never finds "current" null and *)
(* no null frame reaches the container.                                    *)
THEOREM TypeCorrect == Spec => []TypeOK
<1>1. TypeInv => TypeOK
  BY DEF TypeInv
<1> QED
  BY <1>1, TypeInit, TypeNext, PTL DEF Spec

-----------------------------------------------------------------------------
(* The instruction that the thread executes is the last one begun, and     *)
(* "current" is its frame.                                                 *)

(* The frames that are in the container.                                   *)
OutFrames == {f \in FrameType : \E i \in DOMAIN out : out[i] = f}
Only(c) == {f \in FrameType : f = c}

(* The frames of the trace are those in the container and "current".       *)
LEMMA FramesAre == TypeOK => AllFrames = OutFrames \union Only(current)
<1> SUFFICES ASSUME TypeOK PROVE AllFrames = OutFrames \union Only(current)
  OBVIOUS
<1>1. out \in Seq(FrameType \union {ModFrame}) /\ current \in FrameType \union {None}
  BY DEF TypeOK
<1>2. /\ \A f \in FrameType : f.kind = "std"
      /\ ModFrame.kind = "mod"
  BY DEF FrameType, ModFrame
<1>3. /\ DOMAIN out = 1..Len(out) /\ Len(out) \in Nat
      /\ \A i \in DOMAIN out : out[i] \in FrameType \union {ModFrame}
  <2> DEFINE F == FrameType \union {ModFrame}
  <2>1. out \in Seq(F)
    BY <1>1
  <2> HIDE DEF F
  <2>2. DOMAIN out = 1..Len(out) /\ Len(out) \in Nat /\ \A i \in DOMAIN out : out[i] \in F
    BY <2>1, LenProperties, ElementOfSeq
  <2> QED
    BY <2>2 DEF F
<1>4. CASE current = None
  BY <1>2, <1>3, <1>4 DEF AllFrames, Added, OutFrames, Only
<1>5. CASE current # None
  <2>1. Added(current) = Append(out, current) /\ current \in FrameType
    BY <1>1, <1>5 DEF Added
  <2>2. /\ DOMAIN Append(out, current) = 1..(Len(out) + 1)
        /\ \A i \in 1..Len(out) : Append(out, current)[i] = out[i]
        /\ Append(out, current)[Len(out) + 1] = current
    <3> DEFINE F == FrameType \union {ModFrame}
    <3>1. out \in Seq(F) /\ current \in F
      BY <1>1, <2>1
    <3> HIDE DEF F
    <3>2. Append(out, current) \in Seq(F) /\ Len(Append(out, current)) = Len(out) + 1
      BY <3>1, AppendProperties
    <3> QED
      BY <3>1, <3>2, AppendProperties, LenProperties
  <2>3. ASSUME NEW f \in AllFrames PROVE f \in OutFrames \union Only(current)
    <3>1. PICK i \in 1..(Len(out) + 1) : f = Append(out, current)[i] /\ f.kind = "std"
      BY <2>1, <2>2 DEF AllFrames
    <3>2. CASE i = Len(out) + 1
      BY <2>1, <2>2, <3>1, <3>2 DEF Only
    <3>3. CASE i # Len(out) + 1
      BY <1>2, <1>3, <2>2, <3>1, <3>3 DEF OutFrames
    <3> QED
      BY <3>2, <3>3
  <2>4. ASSUME NEW f \in OutFrames \union Only(current) PROVE f \in AllFrames
    <3>1. PICK i \in 1..(Len(out) + 1) : f = Append(out, current)[i]
      BY <1>3, <2>2 DEF OutFrames, Only
    <3>2. f.kind = "std"
      BY <1>2 DEF OutFrames, Only
    <3> QED
      BY <2>1, <2>2, <3>1, <3>2 DEF AllFrames
  <2> QED
    BY <2>3, <2>4
<1> QED
  BY <1>4, <1>5

(* A frame that is destroyed is added to the container, an image is none.  *)
LEMMA OutAfter ==
  ASSUME TypeOK, NEW c \in FrameType \union {ModFrame, None}, out' = Added(c)
  PROVE  OutFrames' = OutFrames \union Only(c)
<1>1. CASE c = None
  BY <1>1 DEF Added, OutFrames, Only
<1>2. CASE c # None
  <2> DEFINE F == FrameType \union {ModFrame}
  <2>1. out \in Seq(F) /\ c \in F /\ out' = Append(out, c)
    BY <1>2 DEF TypeOK, Added
  <2> HIDE DEF F
  <2>2. /\ DOMAIN out' = 1..(Len(out) + 1) /\ DOMAIN out = 1..Len(out)
        /\ \A i \in 1..Len(out) : out'[i] = out[i]
        /\ out'[Len(out) + 1] = c /\ Len(out) \in Nat
    <3>1. out' \in Seq(F) /\ Len(out') = Len(out) + 1
      BY <2>1, AppendProperties
    <3> QED
      BY <2>1, <3>1, AppendProperties, LenProperties
  <2> QED
    BY <2>2 DEF OutFrames, Only
<1> QED
  BY <1>1, <1>2

(* Where a thread is, and whose frame is being filled.                     *)
Place(t) ==
  /\ insn[t] = None => current = None /\ m_regs = {} /\ m_mems = {}
  /\ insn[t] # None =>
       /\ current # None /\ insn[t].no = Len(history)
       /\ current.no = insn[t].no /\ current.ins = insn[t].ins
       /\ history[insn[t].no].ins = insn[t].ins
  /\ pc[t] \in {"remember_write", "remember_store"} =>
       insn[t].ins.op # "cmpxchg"
  /\ pc[t] \in {"write_after", "store_after"} => insn[t].ins.op = "cmpxchg"

PlaceInv ==
  /\ TypeInv
  /\ status = "running" => \A t \in Threads : Place(t)
  /\ status = "running" => \A f \in OutFrames : f.no < Len(history)
  /\ \A f \in OutFrames : f.no <= Len(history) /\ history[f.no].ins = f.ins

(* No instruction has begun.                                               *)
LEMMA PlaceInit == Init => PlaceInv
<1> SUFFICES ASSUME Init PROVE PlaceInv
  OBVIOUS
<1>1. OutFrames = {}
  BY DEF Init, OutFrames
<1>2. \A t \in Threads : Place(t)
  BY DEF Init, Place
<1> QED
  BY <1>1, <1>2, TypeInit DEF PlaceInv

(* What does not change the container, nor where an instruction belongs.   *)
LEMMA PlaceKept ==
  ASSUME PlaceInv, TypeInv', NEW t \in Threads, insn[t] # None,
         status = "running", status' = "running", UNCHANGED out,
         insn'[t] # None, insn'[t].no = insn[t].no, insn'[t].ins = insn[t].ins,
         current' # None, current'.no = current.no, current'.ins = current.ins,
         Len(history') = Len(history),
         \A n \in DOMAIN history : history'[n].ins = history[n].ins,
         pc'[t] \in {"remember_write", "remember_store"} => insn[t].ins.op # "cmpxchg",
         pc'[t] \in {"write_after", "store_after"} => insn[t].ins.op = "cmpxchg"
  PROVE  PlaceInv'
<1>1. Place(t) /\ insn[t].no \in DOMAIN history
  BY InsnOf DEF PlaceInv
<1>2. Place(t)'
  BY <1>1 DEF Place
<1>3. \A u \in Threads : Place(u)'
  BY <1>2, OneThread
<1>4. OutFrames' = OutFrames
  BY DEF OutFrames
<1>5. DOMAIN history = 1..Len(history) /\ Len(history) \in Nat
  BY InsnOf, LenProperties DEF PlaceInv, History
<1>6. \A f \in OutFrames : f.no \in DOMAIN history
  BY <1>5 DEF PlaceInv, OutFrames, FrameType
<1> QED
  BY <1>3, <1>4, <1>6 DEF PlaceInv

(* Each step leaves "current" to the instruction being executed.           *)
LEMMA PlaceNext ==
  ASSUME PlaceInv, [Next]_vars
  PROVE  PlaceInv'
<1>0. TypeInv /\ TypeInv' /\ TypeOK
  BY TypeNext DEF PlaceInv, TypeInv
<1>a. /\ pc \in [Threads -> Routines] /\ insn \in [Threads -> Executing \union {None}]
      /\ current \in FrameType \union {None}
  BY <1>0 DEF TypeOK
<1>b. ASSUME NEW t \in Threads, pc[t] # "code_exec", status = "running"
      PROVE  insn[t] # None /\ Place(t) /\ current # None
  BY <1>b DEF PlaceInv, TypeInv, Place
<1>c. \A f \in FrameType, v \in SUBSET OperandValues :
        /\ [f EXCEPT !.pre = @ \union v].no = f.no
        /\ [f EXCEPT !.pre = @ \union v].ins = f.ins
        /\ [f EXCEPT !.post = @ \union v].no = f.no
        /\ [f EXCEPT !.post = @ \union v].ins = f.ins
  BY DEF FrameType
<1>d. history \in History /\ DOMAIN history = 1..Len(history) /\ Len(history) \in Nat
  BY <1>0, LenProperties DEF TypeOK, History
<1>1. ASSUME NEW t \in Threads, CodeExec(t), UNCHANGED knobs PROVE PlaceInv'
  <2>1. PICK ins \in Insns, count \in 1..MaxRep, on \in BOOLEAN :
          Begin(t, ins, count, on) /\ NewFrame(t, ins)
    BY <1>1 DEF CodeExec
  <2>2. /\ history' = Append(history, [tid |-> t, ins |-> ins, wrote |-> {}])
        /\ Len(history') = Len(history) + 1
        /\ \A n \in 1..Len(history) : history'[n] = history[n]
        /\ history'[Len(history')].ins = ins
    <3> DEFINE h == [tid |-> t, ins |-> ins, wrote |-> {}]
               H == [tid : Threads, ins : Insns, wrote : SUBSET Locs]
    <3>1. h \in H /\ history \in Seq(H) /\ history' = Append(history, h) /\ h.ins = ins
      BY <1>d, <2>1 DEF History, Begin
    <3> HIDE DEF H, h
    <3>2. /\ Len(history') = Len(history) + 1
          /\ \A n \in 1..Len(history) : history'[n] = history[n]
          /\ history'[Len(history) + 1] = h
      BY <1>d, <3>1, AppendProperties
    <3> QED
      BY <3>1, <3>2 DEF h
  <2>3. Place(t)'
    <3>1. /\ insn'[t] # None /\ insn'[t].no = Len(history') /\ insn'[t].ins = ins
          /\ pc'[t] = "read"
      <4>1. insn'[t] = [ins |-> ins, no |-> Len(history'),
                        left |-> IF on THEN count - 1 ELSE 0, on |-> on]
        BY <1>a, <2>1 DEF Begin
      <4>2. Len(history') \in 1..MaxInsns /\ (IF on THEN count - 1 ELSE 0) \in Nat
        BY <1>d, <2>1, <2>2 DEF Begin
      <4>3. insn'[t] \in Executing
        BY <4>1, <4>2 DEF Executing
      <4>4. pc'[t] = "read"
        BY <1>a, <2>1 DEF Begin, Go
      <4> QED
        BY <4>1, <4>3, <4>4
    <3>2. current'.no = Len(history') /\ current'.ins = ins /\ current' # None
      <4>1. current' = Frame(t, Len(history'), ins)
        BY <2>1 DEF NewFrame
      <4>2. Len(history') \in 1..MaxInsns
        BY <1>d, <2>1, <2>2 DEF Begin
      <4> QED
        BY <4>1, <4>2 DEF Frame, FrameType
    <3> QED
      BY <2>2, <3>1, <3>2 DEF Place
  <2>4. OutFrames' = OutFrames \union Only(Updated(t))
    BY <1>0, <2>1, UpdatedTypes, OutAfter DEF NewFrame
  <2>5. ASSUME NEW f \in Only(Updated(t))
        PROVE  f.no <= Len(history) /\ f.no \in Nat \ {0} /\ history[f.no].ins = f.ins
    <3>1. current # None /\ f = Updated(t) /\ f \in FrameType
      BY <1>0, UpdatedTypes DEF Only
    <3>2. f.no = current.no /\ f.ins = current.ins
      BY <1>a, <3>1 DEF Updated, FrameType
    <3>3. insn[t] # None /\ Place(t)
      BY <2>1, <3>1 DEF PlaceInv, Place, Begin, At
    <3>4. f.no \in Nat \ {0}
      BY <3>1 DEF FrameType
    <3> QED
      BY <1>d, <3>2, <3>3, <3>4 DEF Place
  <2>6. ASSUME NEW f \in OutFrames'
        PROVE  f.no < Len(history') /\ f.no <= Len(history') /\ history'[f.no].ins = f.ins
    <3>1. f.no \in Nat \ {0}
      BY <2>4 DEF OutFrames, Only, FrameType
    <3>2. f.no <= Len(history) /\ history[f.no].ins = f.ins
      BY <2>4, <2>5 DEF PlaceInv
    <3> QED
      BY <1>d, <2>2, <3>1, <3>2
  <2>7. \A u \in Threads : Place(u)'
    BY <2>3, OneThread
  <2> QED
    BY <1>0, <2>6, <2>7 DEF PlaceInv
<1>2. ASSUME NEW t \in Threads, CodeExecIteration(t) PROVE PlaceInv'
  <2>1. insn[t] # None /\ status = "running" /\ Place(t) /\ current # None
    BY <1>2 DEF CodeExecIteration, InRep, At, PlaceInv, Place
  <2>2. current' = Updated(t) /\ current' # None /\ current'.no = current.no /\ current'.ins = current.ins
    <3>1. current' = Updated(t) /\ current' # None
      BY <1>0, <1>2, <2>1, UpdatedTypes DEF CodeExecIteration
    <3> QED
      BY <1>a, <2>1, <3>1 DEF Updated, FrameType
  <2>3. insn'[t] # None /\ insn'[t].no = insn[t].no /\ insn'[t].ins = insn[t].ins
    <3>1. insn' = [insn EXCEPT ![t] = [insn[t] EXCEPT !.left = @ - 1]]
      BY <1>2 DEF CodeExecIteration
    <3>2. insn'[t] \in Executing \union {None} /\ insn'[t] = [insn[t] EXCEPT !.left = @ - 1]
      BY <1>0, <1>a, <3>1 DEF TypeOK, TypeInv
    <3>3. insn'[t].no = insn[t].no /\ insn'[t].ins = insn[t].ins
      BY <1>a, <2>1, <3>2 DEF Executing
    <3>4. insn'[t] # None
      BY <1>0, <1>2, <1>a DEF TypeInv, CodeExecIteration, Go
    <3> QED
      BY <3>3, <3>4
  <2>4. pc'[t] = "read"
    BY <1>2, <1>a DEF CodeExecIteration, Go
  <2> QED
    BY <1>0, <1>2, <2>1, <2>2, <2>3, <2>4, PlaceKept DEF CodeExecIteration
<1>3. ASSUME NEW t \in Threads, Read(t) PROVE PlaceInv'
  <2>1. pc[t] # "code_exec" /\ status = "running"
    BY <1>3 DEF Read, At
  <2>2. /\ current' # None /\ current'.no = current.no /\ current'.ins = current.ins
    <3>1. insn[t] # None /\ current # None
      BY <1>b, <2>1
    <3>2. RegValues(t, RegsRead(insn[t].ins)) \in SUBSET OperandValues
      BY <1>0, <3>1, InsnOf, InsnTypes, ValueTypes
    <3>3. current' = [current EXCEPT !.pre = @ \union RegValues(t, RegsRead(insn[t].ins))]
      BY <1>3 DEF Read, SaveReads
    <3>4. current' \in FrameType
      BY <1>a, <3>1, <3>2, <3>3, SavedTypes
    <3> QED
      BY <1>a, <1>c, <3>1, <3>2, <3>3, <3>4
  <2>3. pc'[t] = IF insn[t].ins.op = "cmpxchg" THEN "load" ELSE "remember_write"
    BY <1>3, <1>a DEF Read, Go
  <2> QED
    BY <1>0, <1>3, <1>b, <2>1, <2>2, <2>3, PlaceKept DEF Read
<1>4. ASSUME NEW t \in Threads, RememberWrite(t) PROVE PlaceInv'
  <2>1. pc[t] # "code_exec" /\ status = "running" /\ pc'[t] = "load"
    BY <1>4, <1>a DEF RememberWrite, At, Go
  <2> QED
    BY <1>0, <1>4, <1>b, <2>1, PlaceKept DEF RememberWrite, trace
<1>5. ASSUME NEW t \in Threads, Load(t) PROVE PlaceInv'
  <2>1. pc[t] # "code_exec" /\ status = "running"
    BY <1>5 DEF Load, At
  <2>2. /\ current' # None /\ current'.no = current.no /\ current'.ins = current.ins
    <3>1. insn[t] # None /\ current # None
      BY <1>b, <2>1
    <3>2. Loads(insn[t].ins) \in SUBSET Addrs
      BY <1>0, <3>1, InsnOf, InsnTypes
    <3>3. MemValues(Loads(insn[t].ins)) \in SUBSET OperandValues
      BY <1>0, <3>2, ValueTypes
    <3>4. current' = [current EXCEPT !.pre = @ \union MemValues(Loads(insn[t].ins))]
      BY <1>5 DEF Load, SaveReads
    <3>5. current' \in FrameType
      BY <1>a, <3>1, <3>3, <3>4, SavedTypes
    <3> QED
      BY <1>a, <1>c, <3>1, <3>3, <3>4, <3>5
  <2>3. pc'[t] = IF insn[t].ins.op = "cmpxchg" THEN "execute" ELSE "remember_store"
    BY <1>5, <1>a DEF Load, Go
  <2> QED
    BY <1>0, <1>5, <1>b, <2>1, <2>2, <2>3, PlaceKept DEF Load
<1>6. ASSUME NEW t \in Threads, RememberStore(t) PROVE PlaceInv'
  <2>1. pc[t] # "code_exec" /\ status = "running" /\ pc'[t] = "execute"
    BY <1>6, <1>a DEF RememberStore, At, Go
  <2> QED
    BY <1>0, <1>6, <1>b, <2>1, PlaceKept DEF RememberStore, trace
<1>7. ASSUME NEW t \in Threads, WriteAfter(t) PROVE PlaceInv'
  <2>1. /\ pc[t] # "code_exec" /\ status = "running" /\ pc'[t] = "store_after"
        /\ insn[t].ins.op = "cmpxchg"
    BY <1>0, <1>7, <1>a DEF WriteAfter, At, Go, TypeInv
  <2>2. /\ current' # None /\ current'.no = current.no /\ current'.ins = current.ins
    <3>1. insn[t] # None /\ current # None
      BY <1>b, <2>1
    <3>2. CmpxchgRegs(insn[t].ins, zf[t]) \in SUBSET Regs
      BY <1>0, <2>1, <3>1, InsnOf, InsnTypes
    <3>3. RegValues(t, CmpxchgRegs(insn[t].ins, zf[t])) \in SUBSET OperandValues
      BY <1>0, <3>2, ValueTypes
    <3>4. current' = [current EXCEPT !.post = @ \union RegValues(t, CmpxchgRegs(insn[t].ins, zf[t]))]
      BY <1>7 DEF WriteAfter, SaveWrites
    <3>5. current' \in FrameType
      BY <1>a, <3>1, <3>3, <3>4, SavedTypes
    <3> QED
      BY <1>a, <1>c, <3>1, <3>3, <3>4, <3>5
  <2> QED
    BY <1>0, <1>7, <1>b, <2>1, <2>2, PlaceKept DEF WriteAfter
<1>8. ASSUME NEW t \in Threads, StoreAfter(t) PROVE PlaceInv'
  <2>1. pc[t] # "code_exec" /\ status = "running" /\ pc'[t] = "code_exec"
    BY <1>8, <1>a DEF StoreAfter, At, Go
  <2>2. /\ current' # None /\ current'.no = current.no /\ current'.ins = current.ins
    <3>1. insn[t] # None /\ current # None
      BY <1>b, <2>1
    <3>2. Stores(insn[t].ins) \in SUBSET Addrs
      BY <1>0, <3>1, InsnOf, InsnTypes
    <3>3. (IF zf[t] THEN MemValues(Stores(insn[t].ins)) ELSE {}) \in SUBSET OperandValues
      BY <1>0, <3>2, ValueTypes
    <3>4. current' = [current EXCEPT !.post = @ \union IF zf[t] THEN MemValues(Stores(insn[t].ins)) ELSE {}]
      BY <1>8 DEF StoreAfter, SaveWrites
    <3>5. current' \in FrameType
      BY <1>a, <3>1, <3>3, <3>4, SavedTypes
    <3> QED
      BY <1>a, <1>c, <3>1, <3>3, <3>4, <3>5
  <2> QED
    BY <1>0, <1>8, <1>b, <2>1, <2>2, PlaceKept DEF StoreAfter
<1>9. ASSUME NEW t \in Threads, ModLoad(t) PROVE PlaceInv'
  <2>1. OutFrames' = OutFrames
    <3>1. out' = Added(ModFrame)
      BY <1>9 DEF ModLoad, Added
    <3>2. Only(ModFrame) = {}
      BY DEF Only, ModFrame, FrameType
    <3> QED
      BY <1>0, <3>1, <3>2, OutAfter
  <2>2. \A u \in Threads : Place(u) => Place(u)'
    BY <1>9 DEF ModLoad, Place, machine, pending
  <2> QED
    BY <1>0, <1>9, <2>1, <2>2 DEF PlaceInv, ModLoad
<1>10. ASSUME NEW t \in Threads, Fini(t) PROVE PlaceInv'
  <2>1. OutFrames' = OutFrames \union Only(current) /\ status' = "done" /\ UNCHANGED history
    BY <1>0, <1>10, <1>a, OutAfter DEF Fini
  <2>2. ASSUME NEW f \in Only(current)
        PROVE  f.no <= Len(history) /\ history[f.no].ins = f.ins
    <3>1. insn[t] # None /\ Place(t) /\ f = current
      BY <1>10, <1>a DEF PlaceInv, Place, Fini, At, Only
    <3> QED
      BY <1>d, <3>1 DEF Place
  <2> QED
    BY <1>0, <2>1, <2>2 DEF PlaceInv
<1>11. ASSUME NEW t \in Threads, Execute(t) PROVE PlaceInv'
  <2>1. pc[t] # "code_exec" /\ status = "running" /\ pc'[t] = "code_exec"
    BY <1>11, <1>a DEF Execute, At, Go
  <2>2. insn[t] # None /\ insn[t].ins \in Insns
    BY <1>0, <1>b, <2>1, InsnOf
  <2>3. PICK locs \in SUBSET Locs : Wrote(insn[t].no, locs)
    <3>1. PICK rs \in SUBSET Regs, as \in SUBSET Addrs : Wrote(insn[t].no, rs \union as)
      BY <1>0, <1>11, <2>2, ExecuteWrites
    <3>2. rs \union as \in SUBSET Locs
      BY DEF Locs
    <3> QED
      BY <3>1, <3>2
  <2>4. Len(history') = Len(history) /\ \A n \in DOMAIN history : history'[n].ins = history[n].ins
    BY <1>0, <2>2, <2>3, WroteTypes
  <2> QED
    BY <1>0, <1>11, <1>b, <2>1, <2>2, <2>4, PlaceKept DEF Execute, trace
<1>12. ASSUME NEW t \in Threads, ExecuteCmpxchg(t) PROVE PlaceInv'
  <2>1. pc[t] # "code_exec" /\ status = "running" /\ pc'[t] = "write_after"
    BY <1>12, <1>a DEF ExecuteCmpxchg, At, Go
  <2>2. insn[t] # None /\ insn[t].ins \in Insns /\ insn[t].ins.op = "cmpxchg"
    BY <1>0, <1>12, <1>b, <2>1, InsnOf DEF ExecuteCmpxchg
  <2>3. PICK locs \in SUBSET Locs : Wrote(insn[t].no, locs)
    <3>1. PICK rs \in SUBSET Regs, as \in SUBSET Addrs : Wrote(insn[t].no, rs \union as)
      BY <1>0, <1>12, <2>2, CmpxchgWrites
    <3>2. rs \union as \in SUBSET Locs
      BY DEF Locs
    <3> QED
      BY <3>1, <3>2
  <2>4. Len(history') = Len(history) /\ \A n \in DOMAIN history : history'[n].ins = history[n].ins
    BY <1>0, <2>2, <2>3, WroteTypes
  <2> QED
    BY <1>0, <1>12, <1>b, <2>1, <2>2, <2>4, PlaceKept DEF ExecuteCmpxchg, trace
<1>13. ASSUME NEW t \in Threads, KernelWrites(t) PROVE PlaceInv'
  <2>1. insn[t] # None /\ status = "running" /\ Place(t) /\ pc'[t] = "code_exec"
    BY <1>13 DEF KernelWrites, At, PlaceInv
  <2>2. insn'[t].no = insn[t].no /\ insn'[t].ins = insn[t].ins
    BY <1>13, <1>a, <2>1 DEF KernelWrites, Executing
  <2>3. insn'[t] # None
    <3>1. insn'[t] = [insn[t] EXCEPT !.left = 0] /\ insn[t] \in Executing
      BY <1>13, <1>a, <2>1 DEF KernelWrites
    <3>2. [insn[t] EXCEPT !.left = 0] \in Executing
      BY <3>1 DEF Executing
    <3> QED
      BY <3>1, <3>2
  <2>4. current # None
    BY <2>1 DEF Place
  <2> QED
    BY <1>0, <1>13, <2>1, <2>2, <2>3, <2>4, PlaceKept DEF KernelWrites, trace
<1>14. ASSUME NEW t \in Threads, Fault(t) PROVE PlaceInv'
  <2>1. /\ insn[t] # None /\ status = "running" /\ Place(t) /\ pc'[t] = "code_exec"
        /\ current # None
    BY <1>14, <1>a, <1>b DEF Fault, At, Go
  <2>2. insn'[t].no = insn[t].no /\ insn'[t].ins = insn[t].ins
    BY <1>14, <1>a, <2>1 DEF Fault, Executing
  <2>3. insn'[t] # None
    <3>1. insn'[t] = [insn[t] EXCEPT !.left = 0] /\ insn[t] \in Executing
      BY <1>14, <1>a, <2>1 DEF Fault
    <3>2. [insn[t] EXCEPT !.left = 0] \in Executing
      BY <3>1 DEF Executing
    <3> QED
      BY <3>1, <3>2
  <2> QED
    BY <1>0, <1>14, <2>1, <2>2, <2>3, PlaceKept DEF Fault, trace
<1>15. CASE UNCHANGED vars
  BY <1>0, <1>15 DEF vars, machine, pending, trace, PlaceInv, Place, OutFrames
<1> QED
  BY <1>1, <1>2, <1>3, <1>4, <1>5, <1>6, <1>7, <1>8, <1>9, <1>10, <1>11, <1>12,
     <1>13, <1>14, <1>15 DEF Next, Terminated

-----------------------------------------------------------------------------
(* One thread: operands go to the frame of their instruction.              *)
LocsOf(values) == {o.loc : o \in values}

(* The values of registers and addresses are at these places.              *)
LEMMA LocsOfValues ==
  ASSUME NEW t, NEW rs, NEW as
  PROVE  /\ LocsOf(RegValues(t, rs)) = rs /\ LocsOf(MemValues(as)) = as
         /\ LocsOf({}) = {}
         /\ \A v, w : LocsOf(v \union w) = LocsOf(v) \union LocsOf(w)
<1>1. ASSUME NEW o \in RegValues(t, rs) PROVE o.loc \in rs
  <2>1. PICK r \in rs : o = [loc |-> r, val |-> regs[t][r]]
    BY DEF RegValues
  <2> QED
    BY <2>1
<1>5. ASSUME NEW o \in MemValues(as) PROVE o.loc \in as
  <2>1. PICK a \in as : o = [loc |-> a, val |-> mem[a]]
    BY DEF MemValues
  <2> QED
    BY <2>1
<1>2. ASSUME NEW r \in rs PROVE r \in LocsOf(RegValues(t, rs))
  <2>1. [loc |-> r, val |-> regs[t][r]] \in RegValues(t, rs)
    BY DEF RegValues
  <2> QED
    BY <2>1 DEF LocsOf
<1>3. ASSUME NEW a \in as PROVE a \in LocsOf(MemValues(as))
  <2>1. PICK o : o = [loc |-> a, val |-> mem[a]] /\ o \in MemValues(as)
    BY ZenonT(60) DEF MemValues
  <2>2. o.loc = a
    BY <2>1
  <2> QED
    BY <2>1, <2>2 DEF LocsOf
<1>4. LocsOf({}) = {} /\ \A v, w : LocsOf(v \union w) = LocsOf(v) \union LocsOf(w)
  BY DEF LocsOf
<1>6. LocsOf(RegValues(t, rs)) \subseteq rs /\ LocsOf(MemValues(as)) \subseteq as
  BY <1>1, <1>5 DEF LocsOf
<1> QED
  BY <1>2, <1>3, <1>4, <1>6

(* The modes of the splitter do not change.                                *)
LEMMA KnobsKept ==
  ASSUME UNCHANGED knobs, NEW ins
  PROVE  /\ RegsRead(ins)' = RegsRead(ins) /\ RegsWritten(ins)' = RegsWritten(ins)
         /\ MayWrite(ins)' = MayWrite(ins) /\ Untraced(ins)' = Untraced(ins)
         /\ RegW(ins)' = RegW(ins)
<1>1. FlagsRead(ins)' = FlagsRead(ins) /\ FlagsWritten(ins)' = FlagsWritten(ins)
  BY DEF knobs, FlagsRead, FlagsWritten, FlagsIf
<1>2. Written(ins)' = Written(ins)
  BY <1>1 DEF Written
<1>3. RegW(ins)' = RegW(ins)
  BY <1>2 DEF RegW
<1>4. /\ CmpxchgRegs(ins, TRUE)' = CmpxchgRegs(ins, TRUE)
      /\ CmpxchgRegs(ins, FALSE)' = CmpxchgRegs(ins, FALSE)
  BY <1>1 DEF CmpxchgRegs
<1>5. Untraced(ins)' = Untraced(ins)
  BY DEF knobs, Untraced
<1>6. RegsRead(ins)' = RegsRead(ins)
  BY <1>1 DEF RegsRead
<1>7. RegsWritten(ins)' = RegsWritten(ins)
  BY <1>2, <1>3 DEF RegsWritten
<1>8. MayWrite(ins)' = MayWrite(ins)
  BY <1>4, <1>7 DEF MayWrite
<1> QED
  BY <1>3, <1>5, <1>6, <1>7, <1>8

OwnFrame(f) ==
  /\ LocsOf(f.pre) \subseteq RegsRead(f.ins) \union Loads(f.ins)
  /\ LocsOf(f.post) \subseteq MayWrite(f.ins)

OwnPending(t) ==
  IF insn[t].ins.op = "cmpxchg" THEN m_regs = {} /\ m_mems = {}
  ELSE m_regs \subseteq RegsWritten(insn[t].ins) /\ m_mems \subseteq Stores(insn[t].ins)

OwnInv ==
  /\ PlaceInv
  /\ \A f \in OutFrames \union Only(current) : OwnFrame(f)
  /\ status = "running" => \A t \in Threads : insn[t] # None => OwnPending(t)

(* Which operands are a frame's own depends on the modes alone.            *)
LEMMA OwnFrameKept ==
  ASSUME UNCHANGED knobs, NEW f, OwnFrame(f)
  PROVE  OwnFrame(f)'
BY KnobsKept DEF OwnFrame, LocsOf

(* Adding what the instruction reads keeps a frame's operands its own.     *)
LEMMA OwnFrameReads ==
  ASSUME NEW f \in FrameType, OwnFrame(f), NEW values,
         LocsOf(values) \subseteq RegsRead(f.ins) \union Loads(f.ins)
  PROVE  OwnFrame([f EXCEPT !.pre = @ \union values])
BY LocsOfValues DEF OwnFrame, FrameType

(* So does adding what it may write.                                       *)
LEMMA OwnFrameWrites ==
  ASSUME NEW f \in FrameType, OwnFrame(f), NEW values,
         LocsOf(values) \subseteq MayWrite(f.ins)
  PROVE  OwnFrame([f EXCEPT !.post = @ \union values])
BY LocsOfValues DEF OwnFrame, FrameType

(* The remembered writes of an instruction may be recorded in its frame.   *)
LEMMA OwnUpdated ==
  ASSUME OwnInv, NEW t \in Threads, status = "running"
  PROVE  \A f \in Only(Updated(t)) : OwnFrame(f)
<1> SUFFICES ASSUME NEW f \in Only(Updated(t)) PROVE OwnFrame(f)
  OBVIOUS
<1>1. f = Updated(t) /\ f \in FrameType /\ TypeOK
  BY DEF Only, OwnInv, PlaceInv, TypeInv
<1>2. current # None /\ current \in FrameType
  <2>1. current # None
    BY <1>1, UpdatedTypes
  <2> QED
    BY <1>1, <2>1 DEF TypeOK
<1>3. insn[t] # None /\ Place(t) /\ OwnPending(t) /\ current.ins = insn[t].ins
  BY <1>2 DEF OwnInv, PlaceInv, Place
<1>4. OwnFrame(current)
  BY <1>2 DEF OwnInv, Only
<1>5. m_regs \union m_mems \subseteq MayWrite(current.ins)
  BY <1>3 DEF OwnPending, MayWrite
<1>6. f = [current EXCEPT !.post = @ \union (RegValues(t, m_regs) \union MemValues(m_mems))]
  BY <1>1, <1>2 DEF Updated, FrameType
<1>7. LocsOf(RegValues(t, m_regs) \union MemValues(m_mems)) = m_regs \union m_mems
  BY LocsOfValues
<1> QED
  BY <1>2, <1>4, <1>5, <1>6, <1>7, OwnFrameWrites

(* There is no operand.                                                    *)
LEMMA OwnInit == Init => OwnInv
BY PlaceInit DEF Init, OwnInv, OutFrames, Only, FrameType

(* An action that leaves "out" alone and adds to the frame what is its own. *)
LEMMA OwnKept ==
  ASSUME OwnInv, PlaceInv', UNCHANGED <<knobs, out>>, NEW t \in Threads,
         OwnFrame(current)', OwnPending(t)'
  PROVE  OwnInv'
<1>1. OutFrames' = OutFrames
  BY DEF OutFrames
<1>2. \A f \in OutFrames : OwnFrame(f)'
  BY OwnFrameKept DEF OwnInv
<1>3. \A u \in Threads : OwnPending(u)'
  BY OneThread
<1>4. \A f \in Only(current)' : OwnFrame(f)'
  BY DEF Only
<1> QED
  BY <1>1, <1>2, <1>3, <1>4 DEF OwnInv

(* Each step records or remembers operands of the instruction only.        *)
LEMMA OwnNext ==
  ASSUME OwnInv, [Next]_vars
  PROVE  OwnInv'
<1>0. PlaceInv /\ PlaceInv' /\ TypeInv /\ TypeInv' /\ TypeOK
  BY PlaceNext DEF OwnInv, PlaceInv, TypeInv
<1>a. /\ pc \in [Threads -> Routines] /\ insn \in [Threads -> Executing \union {None}]
      /\ current \in FrameType \union {None}
  BY <1>0 DEF TypeOK
<1>b. ASSUME NEW t \in Threads, pc[t] # "code_exec" \/ insn[t] # None, status = "running"
      PROVE  /\ insn[t] # None /\ Place(t) /\ current # None /\ current \in FrameType
             /\ insn[t].ins \in Insns /\ current.ins = insn[t].ins
             /\ OwnFrame(current) /\ OwnPending(t)
  <2>1. insn[t] # None
    BY <1>0, <1>b DEF TypeInv
  <2>2. Place(t) /\ OwnPending(t) /\ current # None
    BY <1>b, <2>1 DEF OwnInv, PlaceInv, Place
  <2>3. OwnFrame(current)
    BY <1>a, <2>2 DEF OwnInv, Only
  <2> QED
    BY <1>0, <1>a, <2>1, <2>2, <2>3, InsnOf DEF Place
<1>c. UNCHANGED knobs
  BY DEF Next, Terminated, vars, knobs
<1>1. ASSUME NEW t \in Threads, CodeExec(t) PROVE OwnInv'
  <2>1. PICK ins \in Insns, count \in 1..MaxRep, on \in BOOLEAN :
          Begin(t, ins, count, on) /\ NewFrame(t, ins)
    BY <1>1 DEF CodeExec
  <2>2. OutFrames' = OutFrames \union Only(Updated(t)) /\ status = "running"
    BY <1>0, <2>1, UpdatedTypes, OutAfter DEF NewFrame, Begin, At
  <2>3. \A f \in OutFrames' : OwnFrame(f)'
    BY <1>c, <2>2, OwnUpdated, OwnFrameKept DEF OwnInv
  <2>4. OwnFrame(current)'
    BY <2>1 DEF NewFrame, Frame, OwnFrame, LocsOf
  <2>5. OwnPending(t)'
    BY <2>1 DEF NewFrame, OwnPending
  <2>6. \A u \in Threads : OwnPending(u)'
    BY <2>5, OneThread
  <2> QED
    BY <1>0, <2>3, <2>4, <2>6 DEF OwnInv, Only
<1>2. ASSUME NEW t \in Threads, CodeExecIteration(t) PROVE OwnInv'
  <2>1. /\ current' = Updated(t) /\ status = "running" /\ UNCHANGED out
        /\ m_regs' = {} /\ m_mems' = {} /\ insn[t] # None
    BY <1>2 DEF CodeExecIteration, At, InRep
  <2>2. current' \in FrameType
    <3>1. current # None
      BY <1>b, <2>1
    <3> QED
      BY <1>0, <2>1, <3>1, UpdatedTypes
  <2>3. OwnFrame(current')
    BY <2>1, <2>2, OwnUpdated DEF Only
  <2>4. OwnFrame(current)'
    BY <1>c, <2>3, KnobsKept DEF OwnFrame, LocsOf
  <2>5. OwnPending(t)'
    BY <2>1 DEF OwnPending
  <2> QED
    BY <1>0, <1>c, <2>1, <2>4, <2>5, OwnKept
<1>3. ASSUME NEW t \in Threads, Read(t) PROVE OwnInv'
  <2> DEFINE values == RegValues(t, RegsRead(insn[t].ins))
  <2>1. /\ pc[t] # "code_exec" /\ status = "running" /\ UNCHANGED <<out, insn, pending>>
        /\ current' = [current EXCEPT !.pre = @ \union values]
    BY <1>3 DEF Read, At, SaveReads
  <2>2. LocsOf(values) \subseteq RegsRead(current.ins) \union Loads(current.ins)
    BY <1>b, <2>1, LocsOfValues
  <2>3. OwnFrame(current')
    BY <1>b, <2>1, <2>2, OwnFrameReads
  <2>4. OwnFrame(current)'
    BY <1>c, <2>3, KnobsKept DEF OwnFrame, LocsOf
  <2>5. OwnPending(t)'
    BY <1>b, <1>c, <2>1, KnobsKept DEF OwnPending, pending
  <2> QED
    BY <1>0, <1>c, <2>1, <2>4, <2>5, OwnKept
<1>4. ASSUME NEW t \in Threads, RememberWrite(t) PROVE OwnInv'
  <2>1. pc[t] # "code_exec" /\ status = "running" /\ UNCHANGED <<out, current, insn, m_mems>>
    BY <1>4 DEF RememberWrite, At, trace
  <2>2. insn[t].ins.op # "cmpxchg"
    BY <1>b, <1>4, <2>1 DEF RememberWrite, At, Place
  <2>3. m_regs' \subseteq RegsWritten(insn[t].ins) /\ m_mems' \subseteq Stores(insn[t].ins)
    BY <1>b, <1>4, <2>1, <2>2 DEF RememberWrite, OwnPending
  <2>4. OwnPending(t)'
    BY <1>c, <2>1, <2>2, <2>3, KnobsKept DEF OwnPending
  <2>5. OwnFrame(current)'
    BY <1>b, <1>c, <2>1, OwnFrameKept DEF OwnFrame
  <2> QED
    BY <1>0, <1>c, <2>1, <2>4, <2>5, OwnKept
<1>5. ASSUME NEW t \in Threads, Load(t) PROVE OwnInv'
  <2> DEFINE values == MemValues(Loads(insn[t].ins))
  <2>1. /\ pc[t] # "code_exec" /\ status = "running" /\ UNCHANGED <<out, insn, pending>>
        /\ current' = [current EXCEPT !.pre = @ \union values]
    BY <1>5 DEF Load, At, SaveReads
  <2>2. LocsOf(values) \subseteq RegsRead(current.ins) \union Loads(current.ins)
    BY <1>b, <2>1, LocsOfValues
  <2>3. OwnFrame(current')
    BY <1>b, <2>1, <2>2, OwnFrameReads
  <2>4. OwnFrame(current)'
    BY <1>c, <2>3, KnobsKept DEF OwnFrame, LocsOf
  <2>5. OwnPending(t)'
    BY <1>b, <1>c, <2>1, KnobsKept DEF OwnPending, pending
  <2> QED
    BY <1>0, <1>c, <2>1, <2>4, <2>5, OwnKept
<1>6. ASSUME NEW t \in Threads, RememberStore(t) PROVE OwnInv'
  <2>1. pc[t] # "code_exec" /\ status = "running" /\ UNCHANGED <<out, current, insn, m_regs>>
    BY <1>6 DEF RememberStore, At, trace
  <2>2. insn[t].ins.op # "cmpxchg"
    BY <1>b, <1>6, <2>1 DEF RememberStore, At, Place
  <2>3. m_regs' \subseteq RegsWritten(insn[t].ins) /\ m_mems' \subseteq Stores(insn[t].ins)
    BY <1>b, <1>6, <2>1, <2>2 DEF RememberStore, OwnPending
  <2>4. OwnPending(t)'
    BY <1>c, <2>1, <2>2, <2>3, KnobsKept DEF OwnPending
  <2>5. OwnFrame(current)'
    BY <1>b, <1>c, <2>1, OwnFrameKept DEF OwnFrame
  <2> QED
    BY <1>0, <1>c, <2>1, <2>4, <2>5, OwnKept
<1>7. ASSUME NEW t \in Threads, WriteAfter(t) PROVE OwnInv'
  <2> DEFINE values == RegValues(t, CmpxchgRegs(insn[t].ins, zf[t]))
  <2>1. /\ pc[t] # "code_exec" /\ status = "running" /\ UNCHANGED <<out, insn, pending>>
        /\ current' = [current EXCEPT !.post = @ \union values]
    BY <1>7 DEF WriteAfter, At, SaveWrites
  <2>2. insn[t].ins.op = "cmpxchg" /\ zf[t] \in BOOLEAN
    BY <1>0, <1>7 DEF WriteAfter, At, TypeInv, TypeOK
  <2>3. LocsOf(values) \subseteq MayWrite(current.ins)
    <3>1. CmpxchgRegs(insn[t].ins, zf[t]) \subseteq
            CmpxchgRegs(insn[t].ins, TRUE) \union CmpxchgRegs(insn[t].ins, FALSE)
      BY <2>2, Zenon
    <3>2. CmpxchgRegs(insn[t].ins, zf[t]) \subseteq MayWrite(insn[t].ins)
      BY <2>2, <3>1 DEF MayWrite
    <3> QED
      BY <1>b, <2>1, <3>2, LocsOfValues
  <2>4. OwnFrame(current')
    BY <1>b, <2>1, <2>3, OwnFrameWrites
  <2>5. OwnFrame(current)'
    BY <1>c, <2>4, KnobsKept DEF OwnFrame, LocsOf
  <2>6. OwnPending(t)'
    BY <1>b, <1>c, <2>1, KnobsKept DEF OwnPending, pending
  <2> QED
    BY <1>0, <1>c, <2>1, <2>5, <2>6, OwnKept
<1>8. ASSUME NEW t \in Threads, StoreAfter(t) PROVE OwnInv'
  <2> DEFINE values == IF zf[t] THEN MemValues(Stores(insn[t].ins)) ELSE {}
  <2>1. /\ pc[t] # "code_exec" /\ status = "running" /\ UNCHANGED <<out, insn, pending>>
        /\ current' = [current EXCEPT !.post = @ \union values]
    BY <1>8 DEF StoreAfter, At, SaveWrites
  <2>2. LocsOf(values) \subseteq MayWrite(current.ins)
    <3>1. LocsOf(values) \subseteq Stores(insn[t].ins)
      BY LocsOfValues
    <3> QED
      BY <1>b, <2>1, <3>1 DEF MayWrite
  <2>3. OwnFrame(current')
    BY <1>b, <2>1, <2>2, OwnFrameWrites
  <2>4. OwnFrame(current)'
    BY <1>c, <2>3, KnobsKept DEF OwnFrame, LocsOf
  <2>5. OwnPending(t)'
    BY <1>b, <1>c, <2>1, KnobsKept DEF OwnPending, pending
  <2> QED
    BY <1>0, <1>c, <2>1, <2>4, <2>5, OwnKept
<1>9. ASSUME NEW t \in Threads, ModLoad(t) PROVE OwnInv'
  <2>1. OutFrames' = OutFrames /\ UNCHANGED <<current, insn, pending, status>>
    <3>1. out' = Added(ModFrame)
      BY <1>9 DEF ModLoad, Added
    <3>2. Only(ModFrame) = {}
      BY DEF Only, ModFrame, FrameType
    <3> QED
      BY <1>0, <1>9, <3>1, <3>2, OutAfter DEF ModLoad
  <2>2. \A f \in (OutFrames \union Only(current))' : OwnFrame(f)'
    BY <1>c, <2>1, OwnFrameKept DEF OwnInv, Only
  <2>3. \A u \in Threads : OwnPending(u) => OwnPending(u)'
    BY <1>c, <2>1, KnobsKept DEF OwnPending, pending
  <2> QED
    BY <1>0, <2>1, <2>2, <2>3 DEF OwnInv
<1>10. ASSUME NEW t \in Threads, Fini(t) PROVE OwnInv'
  <2>1. OutFrames' = OutFrames \union Only(current) /\ Only(current)' = {} /\ status' # "running"
    BY <1>0, <1>10, <1>a, OutAfter DEF Fini, Only
  <2>2. \A f \in OutFrames' : OwnFrame(f)'
    BY <1>c, <2>1, OwnFrameKept DEF OwnInv
  <2> QED
    BY <1>0, <2>1, <2>2 DEF OwnInv
<1>11. ASSUME NEW t \in Threads,
              Execute(t) \/ ExecuteCmpxchg(t) \/ KernelWrites(t) \/ Fault(t)
       PROVE  OwnInv'
  <2>1. /\ UNCHANGED <<out, current, pending>>
        /\ (pc[t] # "code_exec" \/ insn[t] # None) /\ status = "running"
        /\ status = "running"
    BY <1>11 DEF Execute, ExecuteCmpxchg, KernelWrites, Fault, At, trace
  <2>2. insn'[t].ins = insn[t].ins
    <3>1. insn[t] \in Executing
      BY <1>a, <1>b, <2>1
    <3>2. CASE UNCHANGED insn
      BY <3>2
    <3>3. CASE insn' = [insn EXCEPT ![t] = [insn[t] EXCEPT !.left = 0]]
      <4>1. insn'[t] = [insn[t] EXCEPT !.left = 0]
        BY <1>a, <3>3
      <4> QED
        BY <3>1, <4>1 DEF Executing
    <3> QED
      BY <1>11, <3>2, <3>3 DEF Execute, ExecuteCmpxchg, KernelWrites, Fault
  <2>3. OwnFrame(current)'
    BY <1>b, <1>c, <2>1, OwnFrameKept DEF OwnFrame
  <2>4. OwnPending(t)'
    BY <1>b, <1>c, <2>1, <2>2, KnobsKept DEF OwnPending, pending
  <2> QED
    BY <1>0, <1>c, <2>1, <2>3, <2>4, OwnKept
<1>12. CASE UNCHANGED vars
  <2>1. UNCHANGED <<out, current, insn, pending, status>>
    BY <1>12 DEF vars, trace, machine
  <2>2. OutFrames' = OutFrames /\ Only(current)' = Only(current)
    BY <2>1 DEF OutFrames, Only
  <2>3. \A f \in (OutFrames \union Only(current))' : OwnFrame(f)'
    BY <1>c, <2>2, OwnFrameKept DEF OwnInv
  <2>4. \A u \in Threads : OwnPending(u) => OwnPending(u)'
    BY <1>c, <2>1, KnobsKept DEF OwnPending, pending
  <2> QED
    BY <1>0, <2>1, <2>3, <2>4 DEF OwnInv
<1> QED
  BY <1>1, <1>2, <1>3, <1>4, <1>5, <1>6, <1>7, <1>8, <1>9, <1>10, <1>11, <1>12
     DEF Next, Terminated

(* With one thread a frame holds no operand of another instruction: the    *)
(* remembered writes are gone whenever a frame begins, whatever faults,    *)
(* predicates and system calls come between.                               *)
THEOREM OperandsTheorem == Spec => []OperandsAreOwn
<1>1. OwnInv => OperandsAreOwn
  BY FramesAre DEF OwnInv, PlaceInv, TypeInv, OperandsAreOwn, OwnFrame, LocsOf
<1>2. OwnInv /\ [Next]_vars => OwnInv'
  BY OwnNext
<1> QED
  BY <1>1, <1>2, OwnInit, PTL DEF Spec

-----------------------------------------------------------------------------
(* One thread: the value of a write is the one the instruction produced.   *)

(* The routines that run before the instruction does.                      *)
Before == {"read", "remember_write", "load", "remember_store", "execute"}

(* Nor do the effects of an instruction.                                  *)
LEMMA EffectsKept ==
  ASSUME UNCHANGED knobs, NEW ins PROVE Effects(ins)' = Effects(ins)
<1>1. RegW(ins)' = RegW(ins)
  BY KnobsKept
<1> QED
  BY <1>1 DEF Effects, FlagsChanged, Stores, Operands

(* The values in "values" that a thread's instruction, number n, has       *)
(* written are its own.                                                    *)
Owned(values, n) ==
  \A o \in values : o.loc \in history[n].wrote => o.val \in {n, Kernel}

(* The machine holds the values of the thread's instruction until the next *)
(* begins.  A frame that has writes before the instruction runs is that of *)
(* a REP instruction, which has then written all it can.                   *)
ValuesHere(t) ==
  LET n == insn[t].no
      wrote == history[n].wrote
  IN  /\ \A r \in Regs : r \in wrote => regs[t][r] \in {n, Kernel}
      /\ \A a \in Addrs : a \in wrote => mem[a] \in {n, Kernel}
      /\ insn[t].left > 0 => insn[t].ins.op = "rep" /\ insn[t].on
      /\ pc[t] = "code_exec" /\ insn[t].left > 0 => Effects(insn[t].ins) \subseteq wrote
      /\ pc[t] \in Before /\ current.post # {} =>
           insn[t].ins.op = "rep" /\ Effects(insn[t].ins) \subseteq wrote

ValuesInv ==
  /\ PlaceInv
  /\ \A f \in OutFrames \union Only(current) : Owned(f.post, f.no)
  /\ status = "running" => \A t \in Threads : insn[t] # None => ValuesHere(t)

(* Nothing is written.                                                     *)
LEMMA ValuesInit == Init => ValuesInv
BY PlaceInit DEF Init, ValuesInv, OutFrames, Only, FrameType

(* An action that leaves earlier instructions alone.                       *)
LEMMA ValuesKept ==
  ASSUME ValuesInv, PlaceInv', UNCHANGED out, NEW t \in Threads,
         insn[t] # None, status = "running",
         \A n \in DOMAIN history : n # insn[t].no => history'[n] = history[n],
         Owned(current.post, current.no)', ValuesHere(t)'
  PROVE  ValuesInv'
<1>1. OutFrames' = OutFrames
  BY DEF OutFrames
<1>2. Place(t) /\ history \in History /\ DOMAIN history = 1..Len(history) /\ Len(history) \in Nat
  BY InsnOf, LenProperties DEF ValuesInv, PlaceInv, History
<1>3. ASSUME NEW f \in OutFrames PROVE Owned(f.post, f.no)'
  <2>1. f.no < Len(history) /\ f.no \in Nat \ {0} /\ insn[t].no = Len(history)
    BY <1>2 DEF ValuesInv, PlaceInv, Place, OutFrames, FrameType
  <2>2. history'[f.no] = history[f.no]
    BY <1>2, <2>1
  <2> QED
    BY <2>2 DEF ValuesInv, Owned
<1>4. \A u \in Threads : ValuesHere(u)'
  BY OneThread
<1>5. \A f \in Only(current)' : Owned(f.post, f.no)'
  BY DEF Only, Owned
<1> QED
  BY <1>1, <1>3, <1>4, <1>5 DEF ValuesInv

(* Values read from the machine are owned.                                 *)
LEMMA ValuesOwned ==
  ASSUME ValuesInv, NEW t \in Threads, insn[t] # None, status = "running",
         NEW rs \in SUBSET Regs, NEW as \in SUBSET Addrs
  PROVE  /\ Owned(RegValues(t, rs), insn[t].no)
         /\ Owned(MemValues(as), insn[t].no)
<1>1. ValuesHere(t)
  BY DEF ValuesInv
<1>2. Owned(RegValues(t, rs), insn[t].no)
  <2>1. ASSUME NEW o \in RegValues(t, rs), o.loc \in history[insn[t].no].wrote
        PROVE  o.val \in {insn[t].no, Kernel}
    <3>1. PICK r \in rs : o = [loc |-> r, val |-> regs[t][r]]
      BY DEF RegValues
    <3>2. o.loc = r /\ o.val = regs[t][r]
      BY <3>1
    <3> QED
      BY <1>1, <2>1, <3>2 DEF ValuesHere
  <2> QED
    BY <2>1 DEF Owned
<1>3. Owned(MemValues(as), insn[t].no)
  <2>1. ASSUME NEW o \in MemValues(as), o.loc \in history[insn[t].no].wrote
        PROVE  o.val \in {insn[t].no, Kernel}
    <3>1. PICK a \in as : o = [loc |-> a, val |-> mem[a]]
      BY DEF MemValues
    <3>2. o.loc = a /\ o.val = mem[a]
      BY <3>1
    <3> QED
      BY <1>1, <2>1, <3>2 DEF ValuesHere
  <2> QED
    BY <2>1 DEF Owned
<1> QED
  BY <1>2, <1>3

(* The frame of the thread's instruction, with the remembered writes.      *)
LEMMA ValuesUpdated ==
  ASSUME ValuesInv, NEW t \in Threads, status = "running"
  PROVE  \A f \in Only(Updated(t)) :
           /\ insn[t] # None /\ f.no = insn[t].no
           /\ Owned(f.post, f.no)
<1> SUFFICES ASSUME NEW f \in Only(Updated(t))
             PROVE  insn[t] # None /\ f.no = insn[t].no /\ Owned(f.post, f.no)
  OBVIOUS
<1>1. f = Updated(t) /\ f \in FrameType /\ TypeOK
  BY DEF Only, ValuesInv, PlaceInv, TypeInv
<1>2. current # None /\ current \in FrameType
  <2>1. current # None
    BY <1>1, UpdatedTypes
  <2> QED
    BY <1>1, <2>1 DEF TypeOK
<1>3. insn[t] # None /\ current.no = insn[t].no
  BY <1>2 DEF ValuesInv, PlaceInv, Place
<1>4. Owned(current.post, current.no)
  BY <1>2 DEF ValuesInv, Only
<1>5. /\ f.post = current.post \union (RegValues(t, m_regs) \union MemValues(m_mems))
      /\ f.no = current.no
  BY <1>1, <1>2 DEF Updated, FrameType
<1>6. Owned(RegValues(t, m_regs), insn[t].no) /\ Owned(MemValues(m_mems), insn[t].no)
  BY <1>1, <1>3, ValuesOwned DEF TypeOK
<1> QED
  BY <1>3, <1>4, <1>5, <1>6 DEF Owned

(* A routine that runs before the instruction and records no write.        *)
LEMMA ValuesStep ==
  ASSUME ValuesInv, PlaceInv', NEW t \in Threads,
         pc[t] \in Before, pc'[t] \in Before, status = "running", status' = "running",
         UNCHANGED <<knobs, insn, machine, history, out>>,
         current'.no = current.no, current'.post = current.post
  PROVE  ValuesInv'
<1>1. insn[t] # None /\ ValuesHere(t)
  BY DEF ValuesInv, PlaceInv, TypeInv, Before
<1>2. current # None /\ current \in FrameType
  BY <1>1 DEF ValuesInv, PlaceInv, Place, TypeInv, TypeOK
<1>3. Owned(current.post, current.no)'
  BY <1>2 DEF ValuesInv, Only, Owned
<1>4. /\ pc'[t] # "code_exec" /\ insn' = insn /\ history' = history
      /\ regs' = regs /\ mem' = mem
      /\ Effects(insn[t].ins)' = Effects(insn[t].ins)
  BY EffectsKept DEF Before, machine
<1>5. ValuesHere(t)'
  BY <1>1, <1>4 DEF ValuesHere
<1> QED
  BY <1>1, <1>3, <1>5, ValuesKept

(* The instruction writes: its values are in the machine.                  *)
LEMMA ValuesWritten ==
  ASSUME ValuesInv, NEW t \in Threads, insn[t] # None, status = "running",
         NEW rs \in SUBSET Regs, NEW as \in SUBSET Addrs, NEW no \in {insn[t].no, Kernel},
         Write(t, rs, as, no)
  PROVE  /\ \A r \in Regs : r \in history[insn[t].no].wrote \union rs =>
              regs'[t][r] \in {insn[t].no, Kernel}
         /\ \A a \in Addrs : a \in history[insn[t].no].wrote \union as =>
              mem'[a] \in {insn[t].no, Kernel}
<1>1. ValuesHere(t) /\ TypeOK
  BY DEF ValuesInv, PlaceInv, TypeInv
<1>2. \A r \in Regs : regs'[t][r] = IF r \in rs THEN no ELSE regs[t][r]
  BY <1>1 DEF Write, TypeOK
<1>3. \A a \in Addrs : mem'[a] = IF a \in as THEN no ELSE mem[a]
  BY DEF Write
<1> QED
  BY <1>1, <1>2, <1>3 DEF ValuesHere

(* The writes of an instruction that is number n leave earlier ones alone. *)
LEMMA ValuesExecuted ==
  ASSUME ValuesInv, PlaceInv', UNCHANGED <<knobs, insn, current, out>>,
         NEW t \in Threads, insn[t] # None, status = "running", pc[t] = "execute",
         pc'[t] \notin Before,
         NEW rs \in SUBSET Regs, NEW as \in SUBSET Addrs,
         Write(t, rs, as, insn[t].no), Wrote(insn[t].no, rs \union as),
         rs \union as \subseteq Effects(insn[t].ins) \/ insn[t].ins.op # "rep",
         insn[t].ins.op = "rep" /\ insn[t].on => rs \union as = Effects(insn[t].ins)
  PROVE  ValuesInv'
<1> DEFINE n == insn[t].no
<1>0. ValuesHere(t) /\ Place(t) /\ TypeInv /\ insn[t] \in Executing
  BY InsnOf DEF ValuesInv, PlaceInv
<1>1. rs \union as \in SUBSET Locs /\ Regs \intersect Addrs = {}
  BY DEF Locs
<1>2. /\ \A m \in DOMAIN history : m # n => history'[m] = history[m]
      /\ history'[n].wrote = history[n].wrote \union (rs \union as)
  BY <1>0, <1>1, WroteTypes
<1>3. /\ \A r \in Regs : r \in history[n].wrote \union rs => regs'[t][r] \in {n, Kernel}
      /\ \A a \in Addrs : a \in history[n].wrote \union as => mem'[a] \in {n, Kernel}
  BY ValuesWritten
<1>4. /\ \A r \in Regs : r \in history'[n].wrote => regs'[t][r] \in {n, Kernel}
      /\ \A a \in Addrs : a \in history'[n].wrote => mem'[a] \in {n, Kernel}
  BY <1>1, <1>2, <1>3
<1>5. Effects(insn[t].ins)' = Effects(insn[t].ins)
  BY EffectsKept
<1>6. insn[t].left > 0 => Effects(insn[t].ins) \subseteq history'[n].wrote
  BY <1>0, <1>2 DEF ValuesHere
<1>7. ValuesHere(t)'
  BY <1>0, <1>4, <1>5, <1>6 DEF ValuesHere
<1>8. Owned(current.post, current.no)'
  <2>1. current # None /\ current \in FrameType /\ current.no = n
    BY <1>0 DEF Place, TypeInv, TypeOK
  <2>2. Owned(current.post, n)
    BY <2>1 DEF ValuesInv, Only
  <2>3. CASE current.post = {}
    BY <2>3 DEF Owned
  <2>4. CASE current.post # {}
    <3>1. insn[t].ins.op = "rep" /\ Effects(insn[t].ins) \subseteq history[n].wrote
      BY <1>0, <2>4 DEF ValuesHere, Before
    <3>2. history'[n].wrote = history[n].wrote
      BY <1>2, <3>1
    <3> QED
      BY <2>1, <2>2, <3>2 DEF Owned
  <2> QED
    BY <2>3, <2>4
<1> QED
  BY <1>2, <1>7, <1>8, ValuesKept

(* Each step keeps the instruction's values in machine and frame.          *)
LEMMA ValuesNext ==
  ASSUME ValuesInv, [Next]_vars
  PROVE  ValuesInv'
<1>0. PlaceInv /\ PlaceInv' /\ TypeInv /\ TypeInv' /\ TypeOK
  BY PlaceNext DEF ValuesInv, PlaceInv, TypeInv
<1>a. /\ pc \in [Threads -> Routines] /\ insn \in [Threads -> Executing \union {None}]
      /\ current \in FrameType \union {None}
  BY <1>0 DEF TypeOK
<1>b. ASSUME NEW t \in Threads, pc[t] # "code_exec" \/ insn[t] # None, status = "running"
      PROVE  /\ insn[t] # None /\ insn[t] \in Executing /\ insn[t].ins \in Insns
             /\ Place(t) /\ ValuesHere(t) /\ insn[t].no \in DOMAIN history
             /\ current # None /\ current \in FrameType
             /\ current.no = insn[t].no /\ Owned(current.post, current.no)
  <2>1. insn[t] # None
    BY <1>0, <1>b DEF TypeInv
  <2>2. Place(t) /\ ValuesHere(t) /\ current # None /\ current.no = insn[t].no
    BY <1>b, <2>1 DEF ValuesInv, PlaceInv, Place
  <2>3. Owned(current.post, current.no)
    BY <1>a, <2>2 DEF ValuesInv, Only
  <2> QED
    BY <1>0, <1>a, <2>1, <2>2, <2>3, InsnOf
<1>c. UNCHANGED knobs
  BY DEF Next, Terminated, vars, knobs
<1>d. \A f \in FrameType : \A v :
         /\ [f EXCEPT !.pre = @ \union v].no = f.no
         /\ [f EXCEPT !.pre = @ \union v].post = f.post
         /\ [f EXCEPT !.post = @ \union v].no = f.no
         /\ [f EXCEPT !.post = @ \union v].post = f.post \union v
  BY DEF FrameType
<1>1. ASSUME NEW t \in Threads, CodeExec(t) PROVE ValuesInv'
  <2>1. PICK ins \in Insns, count \in 1..MaxRep, on \in BOOLEAN :
          /\ Begin(t, ins, count, on) /\ NewFrame(t, ins)
          /\ ins.op # "rep" => count = 1
    BY <1>1 DEF CodeExec
  <2>2. OutFrames' = OutFrames \union Only(Updated(t)) /\ status = "running"
    BY <1>0, <2>1, UpdatedTypes, OutAfter DEF NewFrame, Begin, At
  <2>3. /\ DOMAIN history = 1..Len(history) /\ Len(history) \in Nat
        /\ Len(history') = Len(history) + 1 /\ Len(history) < MaxInsns
        /\ \A n \in DOMAIN history : history'[n] = history[n]
        /\ history'[Len(history')].wrote = {}
    <3> DEFINE h == [tid |-> t, ins |-> ins, wrote |-> {}]
               H == [tid : Threads, ins : Insns, wrote : SUBSET Locs]
    <3>1. /\ h \in H /\ history \in Seq(H) /\ history' = Append(history, h)
          /\ h.wrote = {} /\ Len(history) < MaxInsns
      BY <1>0, <2>1 DEF TypeOK, Begin
    <3> HIDE DEF H, h
    <3>2. /\ Len(history') = Len(history) + 1
          /\ DOMAIN history = 1..Len(history) /\ Len(history) \in Nat
          /\ \A n \in 1..Len(history) : history'[n] = history[n]
          /\ history'[Len(history) + 1] = h
      BY <3>1, AppendProperties, LenProperties
    <3> QED
      BY <3>1, <3>2
  <2>4. ASSUME NEW f \in OutFrames' PROVE Owned(f.post, f.no)'
    <3>1. Owned(f.post, f.no)
      BY <2>2, ValuesUpdated DEF ValuesInv
    <3>2. f.no \in DOMAIN history
      <4>1. CASE f \in OutFrames
        BY <2>3, <4>1 DEF PlaceInv, ValuesInv, OutFrames, FrameType
      <4>2. CASE f \in Only(Updated(t))
        BY <1>0, <2>2, <4>2, ValuesUpdated, InsnOf
      <4> QED
        BY <2>2, <4>1, <4>2
    <3>3. history'[f.no] = history[f.no]
      BY <2>3, <3>2
    <3> QED
      BY <3>1, <3>3 DEF Owned
  <2>5. Owned(current.post, current.no)' /\ current'.post = {}
    BY <2>1 DEF NewFrame, Frame, Owned
  <2>6. ValuesHere(t)'
    <3>1. insn'[t] = [ins |-> ins, no |-> Len(history'),
                      left |-> IF on THEN count - 1 ELSE 0, on |-> on]
      BY <1>a, <2>1 DEF Begin
    <3>2. pc'[t] = "read"
      BY <1>a, <2>1 DEF Begin, Go
    <3>3. /\ insn'[t].no = Len(history') /\ insn'[t].ins = ins /\ insn'[t].on = on
          /\ insn'[t].left = IF on THEN count - 1 ELSE 0
      BY <3>1
    <3>4. insn'[t].left > 0 => insn'[t].ins.op = "rep" /\ insn'[t].on
      BY <2>1, <3>3
    <3> QED
      BY <2>3, <2>5, <3>2, <3>3, <3>4 DEF ValuesHere
  <2>7. \A u \in Threads : ValuesHere(u)'
    BY <2>6, OneThread
  <2>8. \A f \in Only(current)' : Owned(f.post, f.no)'
    BY <2>5 DEF Only, Owned
  <2> QED
    BY <1>0, <2>4, <2>7, <2>8 DEF ValuesInv
<1>2. ASSUME NEW t \in Threads, CodeExecIteration(t) PROVE ValuesInv'
  <2>1. /\ current' = Updated(t) /\ status = "running" /\ UNCHANGED <<out, machine, history>>
        /\ insn[t] # None /\ insn[t].left > 0 /\ pc[t] = "code_exec"
        /\ insn' = [insn EXCEPT ![t] = [insn[t] EXCEPT !.left = @ - 1]]
    BY <1>2 DEF CodeExecIteration, At, InRep
  <2>2. current' \in Only(current')
    BY <1>0, <1>b, <2>1, UpdatedTypes DEF Only
  <2>3. current'.no = insn[t].no /\ Owned(current'.post, current'.no)
    BY <2>1, <2>2, ValuesUpdated
  <2>4. pc'[t] = "read"
    BY <1>2, <1>a DEF CodeExecIteration, Go
  <2>5. /\ insn'[t].no = insn[t].no /\ insn'[t].ins = insn[t].ins
        /\ insn'[t].on = insn[t].on /\ insn'[t].left = insn[t].left - 1
    <3>1. insn'[t] = [insn[t] EXCEPT !.left = @ - 1] /\ insn[t] \in Executing
      BY <1>a, <2>1
    <3> QED
      BY <3>1 DEF Executing
  <2>6. Effects(insn[t].ins)' = Effects(insn[t].ins)
    <3>1. \A x : Effects(x)' = Effects(x)
      BY <1>c, EffectsKept
    <3> QED
      BY <2>5, <3>1
  <2>7. /\ ValuesHere(t) /\ regs' = regs /\ mem' = mem /\ history' = history
        /\ insn[t].left \in Nat
    BY <1>b, <2>1 DEF machine, Executing
  <2>8. ValuesHere(t)'
    <3>1. insn'[t].left > 0 => insn'[t].ins.op = "rep" /\ insn'[t].on
      BY <2>1, <2>5, <2>7 DEF ValuesHere
    <3>2. /\ insn[t].ins.op = "rep"
          /\ Effects(insn[t].ins)' \subseteq history'[insn'[t].no].wrote
      BY <2>1, <2>5, <2>6, <2>7 DEF ValuesHere
    <3>3. \A r \in Regs : r \in history'[insn'[t].no].wrote => regs'[t][r] \in {insn'[t].no, Kernel}
      BY <2>5, <2>7 DEF ValuesHere
    <3>4. \A a \in Addrs : a \in history'[insn'[t].no].wrote => mem'[a] \in {insn'[t].no, Kernel}
      BY <2>5, <2>7 DEF ValuesHere
    <3> QED
      BY <2>4, <2>5, <3>1, <3>2, <3>3, <3>4 DEF ValuesHere
  <2>9. Owned(current.post, current.no)'
    BY <2>3, <2>7 DEF Owned
  <2> QED
    BY <1>0, <2>1, <2>7, <2>8, <2>9, ValuesKept
<1>3. ASSUME NEW t \in Threads, Read(t) \/ RememberWrite(t) \/ Load(t) \/ RememberStore(t)
      PROVE  ValuesInv'
  <2>1. /\ pc[t] \in Before /\ status = "running" /\ status' = "running"
        /\ UNCHANGED <<insn, machine, history, out>>
    BY <1>3 DEF Read, RememberWrite, Load, RememberStore, At, Before, trace
  <2>2. pc[t] # "code_exec"
    BY <2>1 DEF Before
  <2>3. current'.no = current.no /\ current'.post = current.post
    <3>1. CASE UNCHANGED current
      BY <3>1
    <3>2. CASE \E v : SaveReads(v)
      BY <1>b, <1>d, <2>1, <2>2, <3>2 DEF SaveReads
    <3> QED
      BY <1>3, <3>1, <3>2 DEF Read, RememberWrite, Load, RememberStore, trace
  <2>4. pc'[t] \in Before
    BY <1>3, <1>a DEF Read, RememberWrite, Load, RememberStore, Go, Before
  <2> QED
    BY <1>0, <1>c, <2>1, <2>3, <2>4, ValuesStep
<1>4. ASSUME NEW t \in Threads, WriteAfter(t) \/ StoreAfter(t) PROVE ValuesInv'
  <2>1. /\ pc[t] \in {"write_after", "store_after"} /\ status = "running"
        /\ UNCHANGED <<insn, regs, mem, history, out>> /\ pc'[t] \notin Before
    BY <1>4, <1>a DEF WriteAfter, StoreAfter, At, Go, Before, machine
  <2>2. insn[t].ins.op = "cmpxchg" /\ ValuesHere(t) /\ insn[t].left \in Nat
    BY <1>0, <1>b, <2>1 DEF TypeInv, Executing
  <2>3. PICK values : SaveWrites(values) /\ Owned(values, insn[t].no)
    <3>1. CASE WriteAfter(t)
      <4>1. CmpxchgRegs(insn[t].ins, zf[t]) \in SUBSET Regs
        BY <1>b, <2>1, <2>2, InsnTypes
      <4>2. Owned(RegValues(t, CmpxchgRegs(insn[t].ins, zf[t])), insn[t].no)
        BY <1>b, <2>1, <4>1, ValuesOwned
      <4> QED
        BY <3>1, <4>2 DEF WriteAfter
    <3>2. CASE StoreAfter(t)
      <4>1. Stores(insn[t].ins) \in SUBSET Addrs
        BY <1>b, <2>1, InsnTypes
      <4>2. Owned(MemValues(Stores(insn[t].ins)), insn[t].no)
        BY <1>b, <2>1, <4>1, ValuesOwned
      <4>3. Owned({}, insn[t].no)
        BY DEF Owned
      <4> QED
        BY <3>2, <4>2, <4>3 DEF StoreAfter
    <3> QED
      BY <1>4, <3>1, <3>2
  <2>4. current'.no = insn[t].no /\ Owned(current'.post, current'.no)
    <3>1. current'.no = current.no /\ current'.post = current.post \union values
      BY <1>b, <1>d, <2>1, <2>3 DEF SaveWrites
    <3> QED
      BY <1>b, <2>1, <2>3, <3>1 DEF Owned
  <2>5. Owned(current.post, current.no)'
    BY <2>1, <2>4 DEF Owned
  <2>6. ValuesHere(t)'
    <3>1. ~(insn[t].left > 0)
      BY <2>2 DEF ValuesHere
    <3> QED
      BY <2>1, <2>2, <3>1 DEF ValuesHere
  <2> QED
    BY <1>0, <1>b, <2>1, <2>5, <2>6, ValuesKept
<1>9. ASSUME NEW t \in Threads, ModLoad(t) PROVE ValuesInv'
  <2>1. OutFrames' = OutFrames /\ Only(current)' = Only(current)
    <3>1. out' = Added(ModFrame) /\ UNCHANGED current
      BY <1>9 DEF ModLoad, Added
    <3>2. Only(ModFrame) = {}
      BY DEF Only, ModFrame, FrameType
    <3> QED
      BY <1>0, <3>1, <3>2, OutAfter DEF Only
  <2>2. /\ pc' = pc /\ insn' = insn /\ regs' = regs /\ mem' = mem /\ current' = current
        /\ history' = history /\ status' = status
    BY <1>9 DEF ModLoad, machine
  <2>3. \A f : Owned(f.post, f.no) => Owned(f.post, f.no)'
    BY <2>2 DEF Owned
  <2>4. ASSUME NEW u \in Threads, ValuesHere(u) PROVE ValuesHere(u)'
    <3>1. Effects(insn[u].ins)' = Effects(insn[u].ins)
      BY <1>c, <2>2, EffectsKept
    <3> QED
      BY <2>2, <2>4, <3>1 DEF ValuesHere
  <2> QED
    BY <1>0, <2>1, <2>2, <2>3, <2>4 DEF ValuesInv
<1>10. ASSUME NEW t \in Threads, Fini(t) PROVE ValuesInv'
  <2>1. /\ OutFrames' = OutFrames \union Only(current) /\ Only(current)' = {}
        /\ status' # "running" /\ history' = history
    BY <1>0, <1>10, <1>a, OutAfter DEF Fini, Only
  <2>2. \A f \in OutFrames' : Owned(f.post, f.no)'
    BY <2>1 DEF Owned, ValuesInv
  <2> QED
    BY <1>0, <2>1, <2>2 DEF ValuesInv
<1>11. ASSUME NEW t \in Threads, Execute(t) PROVE ValuesInv'
  <2>1. /\ pc[t] = "execute" /\ status = "running" /\ UNCHANGED <<insn, current, out>>
        /\ pc'[t] = "code_exec"
    BY <1>11, <1>a DEF Execute, At, Go, trace
  <2>2. PICK rs \in SUBSET Regs, as \in SUBSET Addrs :
          /\ Write(t, rs, as, insn[t].no) /\ Wrote(insn[t].no, rs \union as)
          /\ rs \union as \subseteq Effects(insn[t].ins)
          /\ insn[t].on /\ insn[t].ins.op = "rep" => rs \union as = Effects(insn[t].ins)
    <3>1. TypeInv /\ insn[t] # None
      BY <1>0, <1>b, <2>1
    <3> QED
      BY <1>11, <3>1, ExecuteWrites, Zenon
  <2> QED
    BY <1>0, <1>b, <1>c, <2>1, <2>2, ValuesExecuted DEF Before
<1>12. ASSUME NEW t \in Threads, ExecuteCmpxchg(t) PROVE ValuesInv'
  <2>1. /\ pc[t] = "execute" /\ status = "running" /\ UNCHANGED <<insn, current, out>>
        /\ pc'[t] = "write_after" /\ insn[t].ins.op = "cmpxchg"
    BY <1>12, <1>a DEF ExecuteCmpxchg, At, Go, trace
  <2>2. PICK rs \in SUBSET Regs, as \in SUBSET Addrs :
          Write(t, rs, as, insn[t].no) /\ Wrote(insn[t].no, rs \union as)
    BY <1>0, <1>12, <1>b, <2>1, CmpxchgWrites
  <2> QED
    BY <1>0, <1>b, <1>c, <2>1, <2>2, ValuesExecuted DEF Before
<1>13. ASSUME NEW t \in Threads, KernelWrites(t) \/ Fault(t) PROVE ValuesInv'
  <2>1. /\ (pc[t] # "code_exec" \/ insn[t] # None) /\ status = "running"
        /\ status = "running" /\ UNCHANGED <<out, current, history>> /\ pc'[t] = "code_exec"
        /\ insn' = [insn EXCEPT ![t] = [insn[t] EXCEPT !.left = 0]]
    BY <1>13, <1>a DEF KernelWrites, Fault, At, Go, trace
  <2>2. PICK rs, as : Write(t, rs, as, Kernel)
    BY <1>13 DEF KernelWrites, Fault
  <2>3. /\ \A r \in Regs : regs'[t][r] \in {regs[t][r], Kernel}
        /\ \A a \in Addrs : mem'[a] \in {mem[a], Kernel}
    BY <1>0, <2>2 DEF Write, TypeOK
  <2>4. insn'[t].no = insn[t].no /\ insn'[t].ins = insn[t].ins /\ insn'[t].left = 0
    <3>1. insn'[t] = [insn[t] EXCEPT !.left = 0] /\ insn[t] \in Executing
      BY <1>a, <1>b, <2>1
    <3> QED
      BY <3>1 DEF Executing
  <2>5. ValuesHere(t) /\ Owned(current.post, current.no)
    BY <1>b, <2>1
  <2>6. ValuesHere(t)'
    <3>1. "code_exec" \notin Before
      BY DEF Before
    <3>2. \A r \in Regs : r \in history[insn[t].no].wrote => regs'[t][r] \in {insn[t].no, Kernel}
      BY <2>3, <2>5 DEF ValuesHere
    <3>3. \A a \in Addrs : a \in history[insn[t].no].wrote => mem'[a] \in {insn[t].no, Kernel}
      BY <2>3, <2>5 DEF ValuesHere
    <3> QED
      BY <2>1, <2>4, <3>1, <3>2, <3>3 DEF ValuesHere
  <2>7. Owned(current.post, current.no)'
    BY <2>1, <2>5 DEF Owned
  <2> QED
    BY <1>0, <1>b, <2>1, <2>6, <2>7, ValuesKept
<1>14. CASE UNCHANGED vars
  <2>1. /\ pc' = pc /\ insn' = insn /\ regs' = regs /\ mem' = mem /\ current' = current
        /\ history' = history /\ status' = status /\ out' = out
    BY <1>14 DEF vars, trace, machine
  <2>2. OutFrames' = OutFrames /\ Only(current)' = Only(current)
    BY <2>1 DEF OutFrames, Only
  <2>3. \A f : Owned(f.post, f.no) => Owned(f.post, f.no)'
    BY <2>1 DEF Owned
  <2>4. ASSUME NEW u \in Threads, ValuesHere(u) PROVE ValuesHere(u)'
    <3>1. Effects(insn[u].ins)' = Effects(insn[u].ins)
      BY <1>c, <2>1, EffectsKept
    <3> QED
      BY <2>1, <2>4, <3>1 DEF ValuesHere
  <2> QED
    BY <1>0, <2>1, <2>2, <2>3, <2>4 DEF ValuesInv
<1> QED
  BY <1>1, <1>2, <1>3, <1>4, <1>9, <1>10, <1>11, <1>12, <1>13, <1>14
     DEF Next, Terminated

(* With one thread a value recorded for a write is the one the instruction *)
(* produced, or one the system put there before the next began, although   *)
(* reg::update_context and mem::update_context read it only then.          *)
THEOREM ValuesTheorem == Spec => []WrittenValues
<1>1. ValuesInv => WrittenValues
  BY FramesAre DEF ValuesInv, PlaceInv, TypeInv, WrittenValues, Owned
<1>2. ValuesInv /\ [Next]_vars => ValuesInv'
  BY ValuesNext
<1> QED
  BY <1>1, <1>2, ValuesInit, PTL DEF Spec

-----------------------------------------------------------------------------
(* One thread: every write is recorded.                                    *)

(* Whatever an instruction changes is remembered, but for the flags that   *)
(* the splitter leaves out: a base that moves is known by RegW, and flags  *)
(* by the table.                                                           *)
LEMMA Traced ==
  ASSUME NEW ins \in Insns
  PROVE  (RegW(ins) \union FlagsChanged(ins, TRUE)) \ Untraced(ins)
           \subseteq RegsWritten(ins)
<1>1. RegW(ins) \subseteq RegsWritten(ins)
  BY InsnAssumption DEF RegW, RegsWritten
<1>2. ASSUME NEW f \in FlagsChanged(ins, TRUE), f \notin Untraced(ins)
      PROVE  f \in RegsWritten(ins)
  <2>1. f \in Flags /\ ins.affects[f] \notin {"N", "TST"} /\ ins.affects[f] \in affect
    BY InsnTypes DEF FlagsChanged
  <2>2. HasFlags(ins, FALSE)
    BY <2>1, InsnAssumption
  <2>3. f \in FlagsWritten(ins)
    <3>1. CASE split # "insn"
      BY <2>1, <3>1 DEF FlagsWritten, FlagsIf
    <3>2. CASE split = "insn"
      <4>1. ins.listed /\ ~(ins.affects[f] = "UND" /\ ~uflags)
        BY <1>2, <2>1, <3>2 DEF Untraced
      <4>2. ins.affects[f] \in {"CLR", "SET", "AH", "MOD", "POP", "M_U", "T_M", "T_P"} \union
                               (IF uflags THEN {"UND"} ELSE {})
        BY <2>1, <4>1 DEF affect
      <4> QED
        BY <2>1, <3>2, <4>1, <4>2 DEF FlagsWritten, FlagsIf
    <3> QED
      BY <3>1, <3>2
  <2> QED
    BY <2>2, <2>3 DEF Written, RegsWritten
<1> QED
  BY <1>1, <1>2

RecordedFrame(f) ==
  f.ins.op # "cmpxchg" =>
    history[f.no].wrote \ Untraced(f.ins) \subseteq LocsOf(f.post)

(* What the thread's instruction has written is recorded or remembered,    *)
(* and what it is about to write is remembered.                            *)
WritesHere(t) ==
  insn[t].ins.op # "cmpxchg" =>
    /\ history[insn[t].no].wrote \ Untraced(insn[t].ins)
         \subseteq LocsOf(current.post) \union m_regs \union m_mems
    /\ insn[t].on /\ pc[t] \in {"load", "remember_store", "execute"} =>
         RegsWritten(insn[t].ins) \subseteq m_regs
    /\ insn[t].on /\ pc[t] = "execute" => Stores(insn[t].ins) \subseteq m_mems

WritesInv ==
  /\ PlaceInv
  /\ \A f \in OutFrames : f.no < Len(history) => RecordedFrame(f)
  /\ status = "running" => \A t \in Threads : insn[t] # None => WritesHere(t)
  /\ status # "running" => current = None

(* Nothing is written.                                                     *)
LEMMA WritesInit == Init => WritesInv
BY PlaceInit DEF Init, WritesInv, OutFrames

(* The frame of the thread's instruction, with the remembered writes.      *)
LEMMA WritesUpdated ==
  ASSUME WritesInv, NEW t \in Threads, status = "running"
  PROVE  \A f \in Only(Updated(t)) :
           /\ insn[t] # None /\ f.no = insn[t].no /\ f.ins = insn[t].ins
           /\ RecordedFrame(f)
<1> SUFFICES ASSUME NEW f \in Only(Updated(t))
             PROVE  /\ insn[t] # None /\ f.no = insn[t].no /\ f.ins = insn[t].ins
                    /\ RecordedFrame(f)
  OBVIOUS
<1>1. f = Updated(t) /\ f \in FrameType /\ TypeOK
  BY DEF Only, WritesInv, PlaceInv, TypeInv
<1>2. current # None /\ current \in FrameType
  <2>1. current # None
    BY <1>1, UpdatedTypes
  <2> QED
    BY <1>1, <2>1 DEF TypeOK
<1>3. /\ insn[t] # None /\ current.no = insn[t].no /\ current.ins = insn[t].ins
      /\ WritesHere(t)
  BY <1>2 DEF WritesInv, PlaceInv, Place
<1>4. /\ f.post = current.post \union (RegValues(t, m_regs) \union MemValues(m_mems))
      /\ f.no = current.no /\ f.ins = current.ins
  BY <1>1, <1>2 DEF Updated, FrameType
<1>5. LocsOf(f.post) = LocsOf(current.post) \union m_regs \union m_mems
  <2>1. LocsOf(RegValues(t, m_regs)) = m_regs /\ LocsOf(MemValues(m_mems)) = m_mems
    BY LocsOfValues
  <2>2. \A v, w : LocsOf(v \union w) = LocsOf(v) \union LocsOf(w)
    BY DEF LocsOf
  <2>3. LocsOf(RegValues(t, m_regs) \union MemValues(m_mems)) = m_regs \union m_mems
    BY <2>1, <2>2
  <2> QED
    BY <1>4, <2>2, <2>3
<1> QED
  BY <1>3, <1>4, <1>5 DEF WritesHere, RecordedFrame

(* An action that leaves earlier instructions alone.                       *)
LEMMA WritesKept ==
  ASSUME WritesInv, PlaceInv', UNCHANGED <<knobs, out, status>>,
         NEW t \in Threads, insn[t] # None, status = "running",
         Len(history') = Len(history),
         \A n \in DOMAIN history : n # insn[t].no => history'[n] = history[n],
         WritesHere(t)'
  PROVE  WritesInv'
<1>1. OutFrames' = OutFrames
  BY DEF OutFrames
<1>2. Place(t) /\ DOMAIN history = 1..Len(history) /\ Len(history) \in Nat
  BY InsnOf, LenProperties DEF WritesInv, PlaceInv, History
<1>3. ASSUME NEW f \in OutFrames PROVE RecordedFrame(f)'
  <2>1. f.no < Len(history) /\ f.no \in Nat \ {0} /\ insn[t].no = Len(history)
    BY <1>2 DEF WritesInv, PlaceInv, Place, OutFrames, FrameType
  <2>2. history'[f.no] = history[f.no]
    BY <1>2, <2>1
  <2>3. Untraced(f.ins)' = Untraced(f.ins)
    BY KnobsKept
  <2> QED
    BY <2>1, <2>2, <2>3 DEF WritesInv, RecordedFrame, LocsOf
<1>4. \A u \in Threads : WritesHere(u)'
  BY OneThread
<1> QED
  BY <1>1, <1>3, <1>4 DEF WritesInv

(* Each step keeps every write recorded or remembered.                     *)
LEMMA WritesNext ==
  ASSUME WritesInv, [Next]_vars
  PROVE  WritesInv'
<1>0. PlaceInv /\ PlaceInv' /\ TypeInv /\ TypeInv' /\ TypeOK
  BY PlaceNext DEF WritesInv, PlaceInv, TypeInv
<1>a. /\ pc \in [Threads -> Routines] /\ insn \in [Threads -> Executing \union {None}]
      /\ current \in FrameType \union {None}
  BY <1>0 DEF TypeOK
<1>b. ASSUME NEW t \in Threads, pc[t] # "code_exec" \/ insn[t] # None, status = "running"
      PROVE  /\ insn[t] # None /\ insn[t] \in Executing /\ insn[t].ins \in Insns
             /\ Place(t) /\ WritesHere(t) /\ insn[t].no \in DOMAIN history
             /\ current # None /\ current \in FrameType
  <2>1. insn[t] # None
    BY <1>0, <1>b DEF TypeInv
  <2>2. Place(t) /\ WritesHere(t) /\ current # None
    BY <1>b, <2>1 DEF WritesInv, PlaceInv, Place
  <2> QED
    BY <1>0, <1>a, <2>1, <2>2, InsnOf
<1>c. UNCHANGED knobs
  BY DEF Next, Terminated, vars, knobs
<1>d. \A f \in FrameType : \A v :
         /\ [f EXCEPT !.pre = @ \union v].post = f.post
         /\ [f EXCEPT !.post = @ \union v].post = f.post \union v
  BY DEF FrameType
<1>e. /\ \A x : RegsWritten(x)' = RegsWritten(x) /\ Untraced(x)' = Untraced(x)
      /\ \A v : LocsOf(v)' = LocsOf(v)
  BY <1>c, KnobsKept DEF LocsOf
<1>1. ASSUME NEW t \in Threads, CodeExec(t) PROVE WritesInv'
  <2>1. PICK ins \in Insns, count \in 1..MaxRep, on \in BOOLEAN :
          Begin(t, ins, count, on) /\ NewFrame(t, ins)
    BY <1>1 DEF CodeExec
  <2>2. /\ OutFrames' = OutFrames \union Only(Updated(t))
        /\ status = "running" /\ status' = "running"
    BY <1>0, <2>1, UpdatedTypes, OutAfter DEF NewFrame, Begin, At
  <2>3. /\ DOMAIN history = 1..Len(history) /\ Len(history) \in Nat
        /\ Len(history') = Len(history) + 1
        /\ \A n \in DOMAIN history : history'[n] = history[n]
        /\ history'[Len(history')].wrote = {}
    <3> DEFINE h == [tid |-> t, ins |-> ins, wrote |-> {}]
               H == [tid : Threads, ins : Insns, wrote : SUBSET Locs]
    <3>1. /\ h \in H /\ history \in Seq(H) /\ history' = Append(history, h)
          /\ h.wrote = {}
      BY <1>0, <2>1 DEF TypeOK, Begin
    <3> HIDE DEF H, h
    <3>2. /\ Len(history') = Len(history) + 1
          /\ DOMAIN history = 1..Len(history) /\ Len(history) \in Nat
          /\ \A n \in 1..Len(history) : history'[n] = history[n]
          /\ history'[Len(history) + 1] = h
      BY <3>1, AppendProperties, LenProperties
    <3> QED
      BY <3>1, <3>2
  <2>4. ASSUME NEW f \in OutFrames' PROVE RecordedFrame(f)'
    <3>1. RecordedFrame(f) /\ f.no \in DOMAIN history
      <4>1. CASE f \in OutFrames
        <5>1. f.no < Len(history) /\ f.no \in Nat \ {0}
          BY <2>2, <4>1 DEF PlaceInv, WritesInv, OutFrames, FrameType
        <5> QED
          BY <2>3, <4>1, <5>1 DEF WritesInv
      <4>2. CASE f \in Only(Updated(t))
        BY <1>0, <2>2, <4>2, WritesUpdated, InsnOf
      <4> QED
        BY <2>2, <4>1, <4>2
    <3>2. history'[f.no] = history[f.no]
      BY <2>3, <3>1
    <3> QED
      BY <1>e, <3>1, <3>2 DEF RecordedFrame
  <2>5. WritesHere(t)'
    <3>1. insn'[t] = [ins |-> ins, no |-> Len(history'),
                      left |-> IF on THEN count - 1 ELSE 0, on |-> on]
      BY <1>a, <2>1 DEF Begin
    <3>2. pc'[t] = "read" /\ insn'[t].no = Len(history')
      BY <1>a, <2>1, <3>1 DEF Begin, Go
    <3> QED
      BY <2>3, <3>2 DEF WritesHere
  <2>6. \A u \in Threads : WritesHere(u)'
    BY <2>5, OneThread
  <2> QED
    BY <1>0, <2>2, <2>4, <2>6 DEF WritesInv
<1>2. ASSUME NEW t \in Threads, CodeExecIteration(t) PROVE WritesInv'
  <2>1. /\ current' = Updated(t) /\ status = "running" /\ UNCHANGED <<out, status, history>>
        /\ insn[t] # None /\ m_regs' = {} /\ m_mems' = {}
        /\ insn' = [insn EXCEPT ![t] = [insn[t] EXCEPT !.left = @ - 1]]
    BY <1>2 DEF CodeExecIteration, At, InRep
  <2>2. current' \in Only(current')
    BY <1>0, <1>b, <2>1, UpdatedTypes DEF Only
  <2>3. /\ current'.no = insn[t].no /\ current'.ins = insn[t].ins
        /\ RecordedFrame(current')
    BY <2>1, <2>2, WritesUpdated
  <2>4. pc'[t] = "read"
    BY <1>2, <1>a DEF CodeExecIteration, Go
  <2>5. insn'[t].no = insn[t].no /\ insn'[t].ins = insn[t].ins
    <3>1. insn'[t] = [insn[t] EXCEPT !.left = @ - 1] /\ insn[t] \in Executing
      BY <1>a, <2>1
    <3> QED
      BY <3>1 DEF Executing
  <2>6. Untraced(insn[t].ins)' = Untraced(insn[t].ins) /\ LocsOf(current.post)' = LocsOf(current'.post)
    BY <1>e, <2>5
  <2>7. WritesHere(t)'
    BY <2>1, <2>3, <2>4, <2>5, <2>6 DEF WritesHere, RecordedFrame
  <2> QED
    BY <1>0, <1>c, <2>1, <2>7, WritesKept
<1>3. ASSUME NEW t \in Threads, Read(t) PROVE WritesInv'
  <2>1. /\ pc[t] = "read" /\ status = "running"
        /\ UNCHANGED <<insn, pending, out, history, status>>
        /\ current' = [current EXCEPT !.pre = @ \union RegValues(t, RegsRead(insn[t].ins))]
        /\ insn[t].ins.op # "cmpxchg" => pc'[t] = "remember_write"
    BY <1>3, <1>a DEF Read, At, Go, SaveReads
  <2>2. current'.post = current.post /\ WritesHere(t) /\ insn[t] # None
    BY <1>b, <1>d, <2>1
  <2>3. WritesHere(t)'
    BY <1>e, <2>1, <2>2 DEF WritesHere, pending
  <2> QED
    BY <1>0, <1>c, <2>1, <2>2, <2>3, WritesKept
<1>4. ASSUME NEW t \in Threads, RememberWrite(t) PROVE WritesInv'
  <2>1. /\ pc[t] = "remember_write" /\ status = "running" /\ pc'[t] = "load"
        /\ UNCHANGED <<insn, m_mems, current, out, history, status>>
        /\ m_regs' = m_regs \union IF insn[t].on THEN RegsWritten(insn[t].ins) ELSE {}
    BY <1>4, <1>a DEF RememberWrite, At, Go, trace
  <2>2. WritesHere(t) /\ insn[t] # None
    BY <1>b, <2>1
  <2>3. WritesHere(t)'
    BY <1>e, <2>1, <2>2 DEF WritesHere
  <2> QED
    BY <1>0, <1>c, <2>1, <2>2, <2>3, WritesKept
<1>5. ASSUME NEW t \in Threads, Load(t) PROVE WritesInv'
  <2>1. /\ pc[t] = "load" /\ status = "running"
        /\ UNCHANGED <<insn, pending, out, history, status>>
        /\ current' = [current EXCEPT !.pre = @ \union MemValues(Loads(insn[t].ins))]
        /\ insn[t].ins.op # "cmpxchg" => pc'[t] = "remember_store"
    BY <1>5, <1>a DEF Load, At, Go, SaveReads
  <2>2. current'.post = current.post /\ WritesHere(t) /\ insn[t] # None
    BY <1>b, <1>d, <2>1
  <2>3. WritesHere(t)'
    BY <1>e, <2>1, <2>2 DEF WritesHere, pending
  <2> QED
    BY <1>0, <1>c, <2>1, <2>2, <2>3, WritesKept
<1>6. ASSUME NEW t \in Threads, RememberStore(t) PROVE WritesInv'
  <2>1. /\ pc[t] = "remember_store" /\ status = "running" /\ pc'[t] = "execute"
        /\ UNCHANGED <<insn, m_regs, current, out, history, status>>
        /\ m_mems' = m_mems \union IF insn[t].on THEN Stores(insn[t].ins) ELSE {}
    BY <1>6, <1>a DEF RememberStore, At, Go, trace
  <2>2. WritesHere(t) /\ insn[t] # None
    BY <1>b, <2>1
  <2>3. Stores(insn[t].ins)' = Stores(insn[t].ins)
    BY <2>1 DEF Stores, Operands
  <2>4. WritesHere(t)'
    BY <1>e, <2>1, <2>2, <2>3 DEF WritesHere
  <2> QED
    BY <1>0, <1>c, <2>1, <2>2, <2>4, WritesKept
<1>7. ASSUME NEW t \in Threads, WriteAfter(t) \/ StoreAfter(t) \/ ExecuteCmpxchg(t)
      PROVE  WritesInv'
  <2>1. /\ pc[t] # "code_exec" /\ status = "running" /\ UNCHANGED <<insn, out, status>>
    BY <1>7 DEF WriteAfter, StoreAfter, ExecuteCmpxchg, At, trace
  <2>2. insn[t].ins.op = "cmpxchg" /\ insn[t] # None
    BY <1>0, <1>7, <1>b, <2>1 DEF TypeInv, WriteAfter, StoreAfter, ExecuteCmpxchg, At
  <2>3. /\ Len(history') = Len(history)
        /\ \A n \in DOMAIN history : n # insn[t].no => history'[n] = history[n]
    <3>1. CASE UNCHANGED history
      BY <3>1
    <3>2. CASE ExecuteCmpxchg(t)
      <4>1. PICK rs \in SUBSET Regs, as \in SUBSET Addrs : Wrote(insn[t].no, rs \union as)
        BY <1>0, <2>2, <3>2, CmpxchgWrites
      <4>2. rs \union as \in SUBSET Locs
        BY DEF Locs
      <4> QED
        BY <1>0, <2>2, <4>1, <4>2, WroteTypes
    <3> QED
      BY <1>7, <3>1, <3>2 DEF WriteAfter, StoreAfter
  <2>4. WritesHere(t)'
    BY <2>1, <2>2 DEF WritesHere
  <2> QED
    BY <1>0, <1>c, <2>1, <2>2, <2>3, <2>4, WritesKept
<1>8. ASSUME NEW t \in Threads, Execute(t) PROVE WritesInv'
  <2>1. /\ pc[t] = "execute" /\ status = "running" /\ pc'[t] = "code_exec"
        /\ UNCHANGED <<insn, pending, current, out, status>>
        /\ insn[t].ins.op # "cmpxchg"
    BY <1>8, <1>a DEF Execute, At, Go, trace
  <2>2. WritesHere(t) /\ insn[t] # None /\ insn[t].ins \in Insns /\ insn[t] \in Executing
    BY <1>b, <2>1
  <2>3. PICK rs \in SUBSET Regs, as \in SUBSET Addrs :
          /\ Wrote(insn[t].no, rs \union as)
          /\ insn[t].on =>
               /\ rs \subseteq RegW(insn[t].ins) \union FlagsChanged(insn[t].ins, TRUE)
               /\ as = Stores(insn[t].ins)
          /\ ~insn[t].on => rs = {} /\ as = {}
    BY <1>0, <1>8, <2>2, ExecuteWrites
  <2>4. rs \union as \in SUBSET Locs
    BY DEF Locs
  <2>5. /\ Len(history') = Len(history)
        /\ \A n \in DOMAIN history : n # insn[t].no => history'[n] = history[n]
        /\ history'[insn[t].no].wrote = history[insn[t].no].wrote \union (rs \union as)
    BY <1>0, <2>2, <2>3, <2>4, WroteTypes
  <2>6. (rs \union as) \ Untraced(insn[t].ins) \subseteq m_regs \union m_mems
    <3>1. CASE insn[t].on
      <4>1. RegsWritten(insn[t].ins) \subseteq m_regs /\ Stores(insn[t].ins) \subseteq m_mems
        BY <2>1, <2>2, <3>1 DEF WritesHere
      <4>2. rs \ Untraced(insn[t].ins) \subseteq RegsWritten(insn[t].ins)
        BY <2>2, <2>3, <3>1, Traced
      <4> QED
        BY <2>3, <3>1, <4>1, <4>2
    <3>2. CASE ~insn[t].on
      BY <2>3, <3>2
    <3> QED
      BY <3>1, <3>2
  <2>7. WritesHere(t)'
    <3>1. /\ insn' = insn /\ m_regs' = m_regs /\ m_mems' = m_mems
          /\ current' = current
      BY <2>1 DEF pending
    <3>2. Untraced(insn[t].ins)' = Untraced(insn[t].ins) /\ LocsOf(current.post)' = LocsOf(current.post)
      BY <1>e, <3>1
    <3>3. history[insn[t].no].wrote \ Untraced(insn[t].ins)
            \subseteq LocsOf(current.post) \union m_regs \union m_mems
      BY <2>1, <2>2 DEF WritesHere
    <3> QED
      BY <2>1, <2>5, <2>6, <3>1, <3>2, <3>3 DEF WritesHere
  <2> QED
    BY <1>0, <1>c, <2>1, <2>2, <2>5, <2>7, WritesKept
<1>9. ASSUME NEW t \in Threads, ModLoad(t) PROVE WritesInv'
  <2>1. OutFrames' = OutFrames
    <3>1. out' = Added(ModFrame)
      BY <1>9 DEF ModLoad, Added
    <3>2. Only(ModFrame) = {}
      BY DEF Only, ModFrame, FrameType
    <3> QED
      BY <1>0, <3>1, <3>2, OutAfter
  <2>2. /\ UNCHANGED <<pc, insn, m_regs, m_mems, current, history, status>>
    BY <1>9 DEF ModLoad, pending
  <2>3. \A f : RecordedFrame(f) => RecordedFrame(f)'
    BY <1>e, <2>2 DEF RecordedFrame
  <2>4. ASSUME NEW u \in Threads, WritesHere(u) PROVE WritesHere(u)'
    <3>1. Stores(insn[u].ins)' = Stores(insn[u].ins)
      BY <2>2 DEF Stores, Operands
    <3> QED
      BY <1>e, <2>2, <2>4, <3>1 DEF WritesHere
  <2> QED
    BY <1>0, <2>1, <2>2, <2>3, <2>4 DEF WritesInv
<1>10. ASSUME NEW t \in Threads, Fini(t) PROVE WritesInv'
  <2>1. /\ OutFrames' = OutFrames \union Only(current) /\ current' = None
        /\ status = "running" /\ status' # "running" /\ history' = history
    BY <1>0, <1>10, <1>a, OutAfter DEF Fini, At
  <2>2. ASSUME NEW f \in OutFrames', f.no < Len(history) PROVE RecordedFrame(f)'
    <3>1. f \in OutFrames
      <4>1. ASSUME f \in Only(current) PROVE FALSE
        <5>1. insn[t] # None /\ Place(t) /\ f = current
          BY <1>a, <2>1, <4>1 DEF WritesInv, PlaceInv, Place, Only
        <5>2. f.no = Len(history) /\ f.no \in Nat
          BY <1>a, <5>1 DEF Place, FrameType
        <5> QED
          BY <2>2, <5>2
      <4> QED
        BY <2>1, <4>1
    <3>2. RecordedFrame(f)
      BY <2>2, <3>1 DEF WritesInv
    <3> QED
      BY <1>e, <2>1, <3>2 DEF RecordedFrame
  <2> QED
    BY <1>0, <2>1, <2>2 DEF WritesInv
<1>11. ASSUME NEW t \in Threads, KernelWrites(t) \/ Fault(t) PROVE WritesInv'
  <2>1. /\ (pc[t] # "code_exec" \/ insn[t] # None) /\ status = "running"
        /\ status = "running" /\ UNCHANGED <<out, current, pending, history, status>>
        /\ pc'[t] = "code_exec"
        /\ insn' = [insn EXCEPT ![t] = [insn[t] EXCEPT !.left = 0]]
    BY <1>11, <1>a DEF KernelWrites, Fault, At, Go, trace
  <2>2. insn'[t].no = insn[t].no /\ insn'[t].ins = insn[t].ins
    <3>1. insn'[t] = [insn[t] EXCEPT !.left = 0] /\ insn[t] \in Executing
      BY <1>a, <1>b, <2>1
    <3> QED
      BY <3>1 DEF Executing
  <2>3. WritesHere(t) /\ insn[t] # None
    BY <1>b, <2>1
  <2>4. Untraced(insn[t].ins)' = Untraced(insn[t].ins) /\ LocsOf(current.post)' = LocsOf(current.post)
    BY <1>e, <2>1, <2>2
  <2>5. m_regs' = m_regs /\ m_mems' = m_mems
    BY <2>1 DEF pending
  <2>6. WritesHere(t)'
    BY <2>1, <2>2, <2>3, <2>4, <2>5 DEF WritesHere
  <2> QED
    BY <1>0, <1>c, <2>1, <2>3, <2>6, WritesKept
<1>12. CASE UNCHANGED vars
  <2>1. /\ UNCHANGED <<pc, insn, m_regs, m_mems, current, history, status, out>>
    BY <1>12 DEF vars, trace, pending
  <2>2. OutFrames' = OutFrames
    BY <2>1 DEF OutFrames
  <2>3. \A f : RecordedFrame(f) => RecordedFrame(f)'
    BY <1>e, <2>1 DEF RecordedFrame
  <2>4. ASSUME NEW u \in Threads, WritesHere(u) PROVE WritesHere(u)'
    <3>1. Stores(insn[u].ins)' = Stores(insn[u].ins)
      BY <2>1 DEF Stores, Operands
    <3> QED
      BY <1>e, <2>1, <2>4, <3>1 DEF WritesHere
  <2> QED
    BY <1>0, <2>1, <2>2, <2>3, <2>4 DEF WritesInv
<1> QED
  BY <1>1, <1>2, <1>3, <1>4, <1>5, <1>6, <1>7, <1>8, <1>9, <1>10, <1>11, <1>12
     DEF Next, Terminated

(* With one thread whatever an instruction wrote is in its frame once the  *)
(* next has begun, in all iterations of REP, after faults and false        *)
(* predicates: nothing that remember_write and remember_store were told is *)
(* lost, nor a base register that moves.  CMPXCHG and the flags that       *)
(* -split-flags insn leaves out are excepted.                              *)
THEOREM WritesTheorem == Spec => []WritesRecorded
<1>1. WritesInv => WritesRecorded
  <2> SUFFICES ASSUME WritesInv, NEW f \in AllFrames, NEW g \in AllFrames, f.no < g.no,
                      f.ins.op # "cmpxchg"
               PROVE  RecordedAll(f)
    BY DEF WritesRecorded, Complete
  <2>1. AllFrames = OutFrames \union Only(current)
    BY FramesAre DEF WritesInv, PlaceInv, TypeInv
  <2>2. f.no \in Nat /\ g.no \in Nat /\ Len(history) \in Nat
    BY <2>1, LenProperties DEF OutFrames, Only, FrameType, WritesInv, PlaceInv, TypeInv, TypeOK
  <2>3. \A h \in Only(current) : h.no = Len(history)
    <3> SUFFICES ASSUME NEW h \in Only(current) PROVE h.no = Len(history)
      OBVIOUS
    <3>1. h = current /\ current # None /\ status = "running"
      BY DEF Only, WritesInv
    <3>2. PICK t \in Threads : t = h.tid
      BY DEF Only, FrameType
    <3>3. Place(t)
      BY <3>1 DEF WritesInv, PlaceInv
    <3> QED
      BY <3>1, <3>3 DEF Place
  <2>4. g.no <= Len(history)
    BY <2>1, <2>2, <2>3 DEF WritesInv, PlaceInv
  <2>5. f \in OutFrames
    BY <2>1, <2>2, <2>3, <2>4
  <2>6. f.no < Len(history)
    BY <2>2, <2>4
  <2> QED
    BY <2>5, <2>6 DEF WritesInv, RecordedFrame, RecordedAll, LocsOf
<1>2. WritesInv /\ [Next]_vars => WritesInv'
  BY WritesNext
<1> QED
  BY <1>1, <1>2, WritesInit, PTL DEF Spec

-----------------------------------------------------------------------------
(***************************************************************************)
(* BptTracer implements ThreadLog, whatever the number of threads.         *)
(***************************************************************************)

Entries == Seq(FrameType \union {ModFrame})

(* The rank of a frame of t among the instructions of t.                   *)
RankIn(t) == [f \in {f \in FrameType : f.tid = t} |-> Rank(f)]

(* A rank is a number, a frame has a kind and an image another one.        *)
LEMMA RankInFacts ==
  ASSUME NEW t \in Threads
  PROVE  /\ Into(RankIn(t), Nat)
         /\ \A f \in FrameType \union {ModFrame} :
              /\ f \in DOMAIN RankIn(t) <=> f.kind = "std" /\ f.tid = t
              /\ f \in DOMAIN RankIn(t) => RankIn(t)[f] = Rank(f)
<1>1. ASSUME NEW f \in FrameType PROVE Rank(f) \in Nat
  <2> DEFINE n == f.no
             S == {m \in 1..n : history[m].tid = f.tid}
  <2>1. n \in Nat
    BY DEF FrameType
  <2>2. IsFiniteSet(1..n)
    BY <2>1, FS_Interval
  <2>3. IsFiniteSet(S)
    BY <2>2, FS_Subset
  <2> QED
    BY <2>3, FS_CardinalityType DEF Rank
<1>2. \A f \in FrameType : f.kind = "std"
  BY DEF FrameType
<1>3. ModFrame.kind = "mod" /\ ModFrame \notin FrameType
  BY DEF ModFrame, FrameType
<1> QED
  BY <1>1, <1>2, <1>3 DEF RankIn, Into

(* Ranks keeps images.                                                     *)
AreImages ==
  \A t \in Threads : \A s \in Entries : Ranks(t, s) = Images(s, RankIn(t))

(* The recursion of Ranks is one that keeps images.                        *)
LEMMA RanksAreImages == AreImages
<1> SUFFICES ASSUME NEW t \in Threads, NEW s \in Entries
             PROVE  Ranks(t, s) = Images(s, RankIn(t))
  BY DEF AreImages
<1> DEFINE n == Len(s)
           F == RankIn(t)
           Mine(f) == f.kind = "std" /\ f.tid = t
           Equation(h) ==
             h = [i \in 0..n |->
                    IF i = 0 THEN <<>>
                    ELSE IF s[i].kind = "std" /\ s[i].tid = t
                         THEN Append(h[i - 1], Rank(s[i]))
                    ELSE h[i - 1]]
<1>1. n \in Nat /\ \A i \in 1..n : s[i] \in FrameType \union {ModFrame}
  BY LenProperties DEF Entries
<1>2. ASSUME NEW h, NEW i \in 0..n
      PROVE  (IF i = 0 THEN <<>> ELSE IF s[i].kind = "std" /\ s[i].tid = t
                                      THEN Append(h[i - 1], Rank(s[i])) ELSE h[i - 1])
             = (IF i = 0 THEN Nothing ELSE AddImage(h[i - 1], s[i], F))
  <2>1. CASE i = 0
    BY <2>1, Zenon DEF Nothing
  <2>2. CASE i # 0
    <3>1. s[i] \in FrameType \union {ModFrame}
      BY <1>1, <2>2
    <3> QED
      BY <2>2, <3>1, RankInFacts, Zenon DEF AddImage
  <2> QED
    BY <2>1, <2>2
<1>3. ASSUME NEW h PROVE Equation(h) <=> Recursion(h, n, s, F)
  <2> DEFINE X(i) == IF i = 0 THEN <<>> ELSE IF s[i].kind = "std" /\ s[i].tid = t
                     THEN Append(h[i - 1], Rank(s[i])) ELSE h[i - 1]
             Y(i) == IF i = 0 THEN Nothing ELSE AddImage(h[i - 1], s[i], F)
  <2>1. \A i \in 0..n : X(i) = Y(i)
    BY <1>2
  <2>2. [i \in 0..n |-> X(i)] = [i \in 0..n |-> Y(i)]
    <3> HIDE DEF X, Y, n
    <3> QED
      BY <2>1, Zenon
  <2>3. Equation(h) <=> h = [i \in 0..n |-> X(i)]
    OBVIOUS
  <2>4. Recursion(h, n, s, F) <=> h = [i \in 0..n |-> Y(i)]
    BY DEF Recursion
  <2> HIDE DEF Equation, X, Y, F, n
  <2> QED
    BY <2>2, <2>3, <2>4
<1>4. Ranks(t, s) = (CHOOSE h : Equation(h))[n]
  BY Zenon DEF Ranks
<1>5. Into(F, Nat)
  BY RankInFacts
<1>6. Recursion(ImagesUpTo(s, F), n, s, F)
  <2>1. ASSUME NEW B, NEW G, Into(G, B)
        PROVE  Recursion(ImagesUpTo(s, G), Len(s), s, G)
    BY <2>1, ImagesFacts DEF Entries
  <2> HIDE DEF F
  <2> QED
    BY <1>5, <2>1, Zenon
<1> HIDE DEF Equation
<1>7. Equation(CHOOSE h : Equation(h))
  BY <1>3, <1>6, Zenon
<1>8. Recursion(CHOOSE h : Equation(h), n, s, F)
  BY <1>3, <1>7, Zenon
<1> DEFINE g == CHOOSE h : Equation(h)
<1> HIDE DEF g, F
<1>9. g[Len(s)] = Images(s, F)
  <2>1. Recursion(g, Len(s), s, F)
    BY <1>8 DEF g
  <2> QED
    BY <1>5, <2>1, RecursionIsImages DEF Entries
<1> QED
  BY <1>4, <1>9 DEF g, F

(* In the next state as well.                                              *)
LEMMA RanksAreImagesNext == AreImages'
BY RanksAreImages, PTL

(* The same facts in the next state.                                       *)
RankFacts ==
  \A t \in Threads :
    /\ Into(RankIn(t), Nat)
    /\ \A f \in FrameType \union {ModFrame} :
         /\ f \in DOMAIN RankIn(t) <=> f.kind = "std" /\ f.tid = t
         /\ f \in DOMAIN RankIn(t) => RankIn(t)[f] = Rank(f)

(* They hold in all states.                                                *)
LEMMA RankFactsHold == RankFacts
BY RankInFacts DEF RankFacts

(* So in the next one.                                                     *)
LEMMA RankFactsNext == RankFacts'
BY RankFactsHold, PTL

(* The history keeps the threads of its instructions.                      *)
Grown ==
  /\ Len(history) <= Len(history')
  /\ \A n \in 1..Len(history) : history'[n].tid = history[n].tid

(* Frames of the same instruction, or none.                                *)
Alike(c, d) ==
  /\ c \in FrameType \union {None} /\ d \in FrameType \union {None}
  /\ c = None <=> d = None
  /\ c # None => c.no = d.no /\ c.tid = d.tid

Begun(s) ==
  \A i \in 1..Len(s) : s[i].kind = "std" => s[i].no <= Len(history)

(* A frame of an instruction that has begun keeps its rank.                *)
LEMMA RankKept ==
  ASSUME TypeInv, Grown, NEW f \in FrameType, NEW g \in FrameType,
         f.no <= Len(history), f.no = g.no, f.tid = g.tid
  PROVE  Rank(g)' = Rank(f)
<1> DEFINE n == f.no
<1>1. n \in Nat /\ Len(history) \in Nat
  BY LenProperties DEF FrameType, TypeInv, TypeOK
<1>2. \A m \in 1..n : history'[m].tid = history[m].tid
  BY <1>1 DEF Grown
<1>3. {m \in 1..n : history'[m].tid = g.tid} = {m \in 1..n : history[m].tid = f.tid}
  BY <1>2
<1> QED
  BY <1>3, Zenon DEF Rank

(* So do the frames of a sequence.                                         *)
LEMMA RanksKept ==
  ASSUME TypeInv, Grown, NEW t \in Threads, NEW s \in Entries, Begun(s)
  PROVE  /\ Images(s, RankIn(t)') = Images(s, RankIn(t))
         /\ Images(s, RankIn(t)) \in Seq(Nat)
<1> DEFINE F == RankIn(t)
           G == RankIn(t)'
           V == FrameType \union {ModFrame}
<1>1. Into(F, Nat) /\ Into(G, Nat)
  BY RankFactsHold, RankFactsNext DEF RankFacts
<1>2. \A i \in 1..Len(s) : /\ s[i] \in DOMAIN F <=> s[i] \in DOMAIN G
                           /\ s[i] \in DOMAIN F => F[s[i]] = G[s[i]]
  <2> SUFFICES ASSUME NEW i \in 1..Len(s)
               PROVE  /\ s[i] \in DOMAIN F <=> s[i] \in DOMAIN G
                      /\ s[i] \in DOMAIN F => F[s[i]] = G[s[i]]
    OBVIOUS
  <2> DEFINE f == s[i]
  <2>1. f \in FrameType \union {ModFrame}
    BY LenProperties DEF Entries
  <2>2. f.kind = "std" => f \in FrameType /\ f.no <= Len(history)
    BY <2>1 DEF Begun, ModFrame
  <2> HIDE DEF f
  <2>3. f.kind = "std" => Rank(f)' = Rank(f)
    BY <2>2, RankKept
  <2>4. /\ f \in DOMAIN F <=> f.kind = "std" /\ f.tid = t
        /\ f \in DOMAIN F => F[f] = Rank(f)
    BY <2>1, RankFactsHold DEF RankFacts
  <2>5. /\ f \in DOMAIN G <=> f.kind = "std" /\ f.tid = t
        /\ f \in DOMAIN G => G[f] = Rank(f)'
    BY <2>1, RankFactsNext DEF RankFacts
  <2> HIDE DEF F, G
  <2> QED
    BY <2>3, <2>4, <2>5, Zenon DEF f
<1>3. s \in Seq(V)
  BY DEF Entries
<1> HIDE DEF F, G, V
<1>4. Images(s, F) = Images(s, G)
  BY <1>1, <1>2, <1>3, ImagesSame
<1>5. Images(s, F) \in Seq(Nat)
  BY <1>1, <1>3, ImagesConcat, Zenon
<1> QED
  BY <1>4, <1>5 DEF F, G

(* The same with a frame more, of which c is an earlier version.           *)
LEMMA RanksAlike ==
  ASSUME TypeInv, Grown, NEW t \in Threads, NEW s \in Entries, Begun(s),
         NEW c, NEW d, Alike(c, d), c # None => c.no <= Len(history)
  PROVE  LET with(e) == IF e = None THEN s ELSE Append(s, e)
         IN  /\ Images(with(d), RankIn(t)') = Images(with(c), RankIn(t))
             /\ with(d) \in Entries
<1> DEFINE F == RankIn(t)
           G == RankIn(t)'
           V == FrameType \union {ModFrame}
<1>1. Images(s, G) = Images(s, F)
  BY RanksKept
<1>2. CASE c = None
  <2>1. d = None
    BY <1>2 DEF Alike
  <2> QED
    BY <1>1, <1>2, <2>1
<1>3. CASE c # None
  <2>1. /\ c \in FrameType /\ d \in FrameType /\ d # None
        /\ c.no = d.no /\ c.tid = d.tid /\ c.no <= Len(history)
        /\ c.kind = "std" /\ d.kind = "std"
    BY <1>3 DEF Alike, FrameType
  <2>2. Rank(d)' = Rank(c)
    BY <2>1, RankKept
  <2>3. /\ c \in V /\ d \in V /\ s \in Seq(V) /\ Into(F, Nat) /\ Into(G, Nat)
        /\ c \in DOMAIN F <=> c.kind = "std" /\ c.tid = t
        /\ c \in DOMAIN F => F[c] = Rank(c)
        /\ d \in DOMAIN G <=> d.kind = "std" /\ d.tid = t
        /\ d \in DOMAIN G => G[d] = Rank(d)'
    BY <2>1, RankFactsHold, RankFactsNext DEF RankFacts, Entries
  <2> HIDE DEF F, G, V
  <2>4. /\ Images(Append(s, c), F) = AddImage(Images(s, F), c, F)
        /\ Images(Append(s, d), G) = AddImage(Images(s, G), d, G)
    BY <2>3, ImagesAppend
  <2>5. AddImage(Images(s, G), d, G) = AddImage(Images(s, F), c, F)
    BY <1>1, <2>1, <2>2, <2>3, Zenon DEF AddImage
  <2>6. Append(s, d) \in Entries
    BY <2>3 DEF Entries, V
  <2> QED
    BY <1>3, <2>1, <2>4, <2>5, <2>6, Zenon DEF F, G
<1> QED
  BY <1>2, <1>3

(* One frame more, that of the next instruction.                           *)
LEMMA RanksMore ==
  ASSUME NEW t \in Threads, NEW s \in Entries, NEW f \in FrameType
  PROVE  Images(Append(s, f), RankIn(t)') =
           IF f.tid = t
           THEN Append(Images(s, RankIn(t)'),
                       Cardinality({n \in 1..f.no : history'[n].tid = f.tid}))
           ELSE Images(s, RankIn(t)')
<1> DEFINE G == RankIn(t)'
           V == FrameType \union {ModFrame}
           rank == Cardinality({n \in 1..f.no : history'[n].tid = f.tid})
<1>1. /\ f \in V /\ s \in Seq(V) /\ Into(G, Nat)
      /\ f \in DOMAIN G <=> f.tid = t
      /\ f \in DOMAIN G => G[f] = rank
  <2>1. Rank(f)' = rank
    BY Zenon DEF Rank
  <2> HIDE DEF rank
  <2> QED
    BY <2>1, RankFactsNext DEF RankFacts, Entries, FrameType
<1> HIDE DEF G, V, rank
<1>2. Images(Append(s, f), G) = AddImage(Images(s, G), f, G)
  BY <1>1, ImagesAppend
<1> QED
  BY <1>1, <1>2, Zenon DEF AddImage, G, rank

(* An image has no rank.                                                   *)
LEMMA RanksImage ==
  ASSUME NEW t \in Threads, NEW s \in Entries
  PROVE  Images(Append(s, ModFrame), RankIn(t)') = Images(s, RankIn(t)')
<1> DEFINE G == RankIn(t)'
           V == FrameType \union {ModFrame}
<1>1. /\ ModFrame \in V /\ s \in Seq(V) /\ Into(G, Nat)
      /\ ModFrame \notin DOMAIN G
  BY RankFactsNext DEF RankFacts, Entries, ModFrame
<1> HIDE DEF G, V
<1>2. Images(Append(s, ModFrame), G) = AddImage(Images(s, G), ModFrame, G)
  BY <1>1, ImagesAppend
<1> QED
  BY <1>1, <1>2, Zenon DEF AddImage, G

(* Mine(t) instructions of t have begun.                                   *)
Mine(t) == Cardinality({n \in 1..Len(history) : history[n].tid = t})

(* The frames of each thread have the ranks up to the last.                *)
RankInv ==
  /\ TypeInv
  /\ Begun(out)
  /\ current # None => current.no <= Len(history)
  /\ \A t \in Threads : Images(Added(current), RankIn(t)) = UpTo(Mine(t))

(* A step leaves the ranks, or adds an image, or closes the container, or  *)
(* begins an instruction.                                                  *)
SameFrames ==
  /\ UNCHANGED <<out, status>> /\ Grown /\ Len(history') = Len(history)
  /\ Alike(current, current')
NewImage == out' = Append(out, ModFrame) /\ UNCHANGED <<current, history, status>>
LastFrame ==
  out' = Added(current) /\ current' = None /\ UNCHANGED history /\ status' = "done"
NextFrame(t) ==
  /\ Grown /\ UNCHANGED status
  /\ Len(history') = Len(history) + 1 /\ history'[Len(history')].tid = t
  /\ current' \in FrameType /\ current'.no = Len(history') /\ current'.tid = t
  /\ \E c : Alike(current, c) /\ out' = Added(c)

(* Saving operands leaves the frame to its instruction.                    *)
LEMMA SavedAlike ==
  ASSUME TypeInv, TypeInv', NEW t \in Threads, insn[t] # None, status = "running",
         insn'[t] # None, status' = "running", NEW values,
         \/ current' = [current EXCEPT !.pre = @ \union values]
         \/ current' = [current EXCEPT !.post = @ \union values]
         \/ current' = current
  PROVE  Alike(current, current')
<1>1. current # None /\ current \in FrameType /\ current' # None /\ current' \in FrameType
  BY DEF TypeInv, TypeOK
<1>2. \A f \in FrameType : \A v :
        /\ [f EXCEPT !.pre = @ \union v].no = f.no
        /\ [f EXCEPT !.pre = @ \union v].tid = f.tid
        /\ [f EXCEPT !.post = @ \union v].no = f.no
        /\ [f EXCEPT !.post = @ \union v].tid = f.tid
  BY DEF FrameType
<1>3. current'.no = current.no /\ current'.tid = current.tid
  <2>1. CASE current' = [current EXCEPT !.pre = @ \union values]
    BY <1>1, <1>2, <2>1, Zenon
  <2>2. CASE current' = [current EXCEPT !.post = @ \union values]
    BY <1>1, <1>2, <2>2, Zenon
  <2> QED
    BY <2>1, <2>2
<1> QED
  BY <1>1, <1>3 DEF Alike

(* So do the remembered writes.                                            *)
LEMMA UpdatedAlike ==
  ASSUME TypeInv, NEW t \in Threads
  PROVE  Alike(current, Updated(t))
<1>1. /\ current \in FrameType \union {None} /\ Updated(t) \in FrameType \union {None}
      /\ Updated(t) = None <=> current = None
  BY UpdatedTypes DEF TypeInv, TypeOK
<1>2. CASE current # None
  <2>1. current \in FrameType
    BY <1>1, <1>2
  <2>2. Updated(t).no = current.no /\ Updated(t).tid = current.tid
    BY <1>2, <2>1 DEF Updated, FrameType
  <2> QED
    BY <1>1, <2>2 DEF Alike
<1> QED
  BY <1>1, <1>2 DEF Alike

(* What each step does to the frames.                                      *)
LEMMA StepFrames ==
  ASSUME RankInv, TypeInv', Next, ~Terminated
  PROVE  /\ status = "running"
         /\ SameFrames \/ NewImage \/ LastFrame \/ \E t \in Threads : NextFrame(t)
<1>0. TypeInv /\ TypeOK /\ current \in FrameType \union {None}
  BY DEF RankInv, TypeInv, TypeOK
<1>h. history \in History /\ Len(history) \in Nat
  BY <1>0, LenProperties DEF TypeOK, History
<1>g. UNCHANGED history => Grown /\ Len(history') = Len(history)
  BY <1>h DEF Grown
<1>p. ASSUME NEW t \in Threads, pc[t] # "code_exec", status = "running"
      PROVE  insn[t] # None
  BY <1>0, <1>p DEF TypeInv
<1>1. ASSUME NEW t \in Threads, CodeExec(t)
      PROVE  status = "running" /\ NextFrame(t)
  <2>1. PICK ins \in Insns, count \in 1..MaxRep, on \in BOOLEAN :
          Begin(t, ins, count, on) /\ NewFrame(t, ins)
    BY <1>1 DEF CodeExec
  <2> DEFINE h == [tid |-> t, ins |-> ins, wrote |-> {}]
             H == [tid : Threads, ins : Insns, wrote : SUBSET Locs]
  <2>2. h \in H /\ history \in Seq(H) /\ history' = Append(history, h) /\ h.tid = t
    BY <1>h, <2>1 DEF History, Begin
  <2> HIDE DEF H, h
  <2>3. /\ Len(history') = Len(history) + 1
        /\ \A n \in 1..Len(history) : history'[n] = history[n]
        /\ history'[Len(history) + 1] = h
    BY <1>h, <2>2, AppendProperties
  <2>4. Len(history') \in 1..MaxInsns
    BY <1>h, <2>1, <2>3 DEF Begin
  <2>5. /\ current' = Frame(t, Len(history'), ins)
        /\ Frame(t, Len(history'), ins).no = Len(history')
        /\ Frame(t, Len(history'), ins).tid = t
        /\ Frame(t, Len(history'), ins) \in FrameType
    BY <2>1, <2>4 DEF NewFrame, Frame, FrameType
  <2>6. Alike(current, Updated(t)) /\ out' = Added(Updated(t))
    BY <1>0, <2>1, UpdatedAlike DEF NewFrame
  <2>7. status = "running" /\ UNCHANGED status
    BY <2>1 DEF Begin, At
  <2>8. Grown
    BY <1>h, <2>3 DEF Grown
  <2> QED
    BY <2>2, <2>3, <2>5, <2>6, <2>7, <2>8 DEF NextFrame
<1>2. ASSUME NEW t \in Threads, CodeExecIteration(t)
      PROVE  status = "running" /\ SameFrames
  <2>1. Alike(current, Updated(t)) /\ current' = Updated(t)
    BY <1>0, <1>2, UpdatedAlike DEF CodeExecIteration
  <2> QED
    BY <1>2, <1>g, <2>1 DEF CodeExecIteration, At, SameFrames
<1>3. ASSUME NEW t \in Threads,
             \/ Read(t) \/ RememberWrite(t) \/ Load(t) \/ RememberStore(t)
             \/ WriteAfter(t) \/ StoreAfter(t)
      PROVE  status = "running" /\ SameFrames
  <2>1. PICK values : \/ current' = [current EXCEPT !.pre = @ \union values]
                      \/ current' = [current EXCEPT !.post = @ \union values]
                      \/ current' = current
    BY <1>3 DEF Read, RememberWrite, Load, RememberStore, WriteAfter, StoreAfter,
                SaveReads, SaveWrites, trace
  <2>2. /\ status = "running" /\ pc[t] # "code_exec"
        /\ UNCHANGED <<insn, out, history, status>>
    BY <1>3 DEF Read, RememberWrite, Load, RememberStore, WriteAfter, StoreAfter,
                At, trace
  <2>3. insn[t] # None
    BY <1>p, <2>2
  <2>4. Alike(current, current')
    BY <1>0, <2>1, <2>2, <2>3, SavedAlike
  <2> QED
    BY <1>g, <2>2, <2>4 DEF SameFrames
<1>4. ASSUME NEW t \in Threads, ModLoad(t)
      PROVE  status = "running" /\ NewImage
  BY <1>4 DEF ModLoad, At, NewImage
<1>5. ASSUME NEW t \in Threads, Fini(t)
      PROVE  status = "running" /\ LastFrame
  BY <1>5 DEF Fini, At, LastFrame
<1>6. ASSUME NEW t \in Threads, Execute(t) \/ ExecuteCmpxchg(t)
      PROVE  status = "running" /\ SameFrames
  <2>1. /\ status = "running" /\ pc[t] # "code_exec"
        /\ UNCHANGED <<current, out, status>>
    BY <1>6 DEF Execute, ExecuteCmpxchg, At, trace
  <2>2. insn[t] # None
    BY <1>p, <2>1
  <2>3. PICK locs : Wrote(insn[t].no, locs)
    BY <1>6 DEF Execute, ExecuteCmpxchg
  <2>4. Grown /\ Len(history') = Len(history)
    <3> DEFINE n == insn[t].no
               e == [history[n] EXCEPT !.wrote = @ \union locs]
    <3>1. n \in DOMAIN history /\ history[n] \in [tid : Threads, ins : Insns, wrote : SUBSET Locs]
      BY <1>0, <2>2, InsnOf
    <3>2. e.tid = history[n].tid
      BY <3>1
    <3>3. history' = [history EXCEPT ![n] = e]
      BY <2>3 DEF Wrote
    <3> HIDE DEF e, n
    <3>4. Len(history') = Len(history)
      BY <1>h, <3>3 DEF History
    <3>5. \A m \in 1..Len(history) : history'[m].tid = history[m].tid
      BY <1>h, <3>2, <3>3 DEF History
    <3> QED
      BY <1>h, <3>4, <3>5 DEF Grown
  <2> QED
    BY <1>0, <2>1, <2>4 DEF SameFrames, Alike
<1>7. ASSUME NEW t \in Threads, KernelWrites(t) \/ Fault(t)
      PROVE  status = "running" /\ SameFrames
  <2>1. status = "running" /\ UNCHANGED <<current, out, history, status>>
    BY <1>7 DEF KernelWrites, Fault, At, trace
  <2> QED
    BY <1>0, <1>g, <2>1 DEF SameFrames, Alike
<1> QED
  BY <1>1, <1>2, <1>3, <1>4, <1>5, <1>6, <1>7 DEF Next

(* How many instructions of a thread have begun.                           *)
LEMMA MineFacts ==
  ASSUME TypeInv, Grown, NEW u \in Threads
  PROVE  /\ Mine(u) \in Nat
         /\ Len(history') = Len(history) => Mine(u)' = Mine(u)
         /\ Len(history') = Len(history) + 1 =>
              Mine(u)' = IF history'[Len(history')].tid = u THEN Mine(u) + 1
                         ELSE Mine(u)
<1> DEFINE n == Len(history)
           S == {m \in 1..n : history[m].tid = u}
           T == {m \in 1..Len(history') : history'[m].tid = u}
<1>1. n \in Nat
  BY LenProperties DEF TypeInv, TypeOK
<1>2. IsFiniteSet(S)
  <2>1. IsFiniteSet(1..n)
    BY <1>1, FS_Interval
  <2> QED
    BY <2>1, FS_Subset
<1>3. Cardinality(S) \in Nat
  BY <1>2, FS_CardinalityType
<1>4. Mine(u) = Cardinality(S) /\ Mine(u)' = Cardinality(T)
  BY DEF Mine
<1>5. ASSUME Len(history') = n PROVE T = S
  BY <1>5 DEF Grown
<1>6. ASSUME Len(history') = n + 1, history'[n + 1].tid # u PROVE T = S
  BY <1>1, <1>6 DEF Grown
<1>7. ASSUME Len(history') = n + 1, history'[n + 1].tid = u
      PROVE  Cardinality(T) = Cardinality(S) + 1
  <2>1. T = S \union {n + 1} /\ n + 1 \notin S
    BY <1>1, <1>7 DEF Grown
  <2> HIDE DEF S, T
  <2> QED
    BY <1>2, <2>1, FS_AddElement
<1> HIDE DEF S, T
<1> QED
  BY <1>3, <1>4, <1>5, <1>6, <1>7

(* A step gives t its next rank, or changes no rank, and takes none back   *)
(* from the container.                                                     *)
RanksGrow(t, did) ==
  \A u \in Threads :
    /\ Images(Added(current), RankIn(u))' =
         IF did /\ u = t THEN Append(Images(Added(current), RankIn(u)), Mine(u) + 1)
         ELSE Images(Added(current), RankIn(u))
    /\ Mine(u)' = IF did /\ u = t THEN Mine(u) + 1 ELSE Mine(u)
    /\ Len(Images(out, RankIn(u))) <= Len(Images(out, RankIn(u))')

(* A frame more in the container leaves the ranks there.                   *)
LEMMA RanksMonotone ==
  ASSUME TypeInv, Grown, Begun(out), NEW u \in Threads
  PROVE  /\ Len(Images(out, RankIn(u))) <= Len(Images(out, RankIn(u)'))
         /\ \A f \in FrameType \union {ModFrame} :
              Len(Images(out, RankIn(u))) <= Len(Images(Append(out, f), RankIn(u)'))
<1> DEFINE F == RankIn(u)
           G == RankIn(u)'
           V == FrameType \union {ModFrame}
<1>1. out \in Seq(V) /\ out \in Entries
  BY DEF TypeInv, TypeOK, Entries
<1>2. Into(G, Nat)
  BY RankFactsNext DEF RankFacts
<1>3. Images(out, F) \in Seq(Nat) /\ Images(out, G) = Images(out, F)
  BY <1>1, RanksKept
<1> HIDE DEF F, G, V
<1> DEFINE a == Images(out, G)
<1>4. Len(a) \in Nat /\ a \in Seq(Nat)
  BY <1>3
<1>5. ASSUME NEW f \in V PROVE Len(a) <= Len(Images(Append(out, f), G))
  <2>1. Images(Append(out, f), G) = AddImage(a, f, G)
    BY <1>1, <1>2, ImagesAppend
  <2> HIDE DEF a
  <2>2. CASE f \in DOMAIN G
    BY <1>2, <1>4, <2>1, <2>2 DEF AddImage, Into
  <2>3. CASE f \notin DOMAIN G
    BY <1>4, <2>1, <2>3 DEF AddImage
  <2> QED
    BY <2>2, <2>3
<1> QED
  BY <1>3, <1>4, <1>5 DEF F, G, V

(* A frame that has begun is added to others that have.                    *)
LEMMA BegunAdded ==
  ASSUME TypeInv, Begun(out), Len(history) <= Len(history'), Len(history') \in Nat,
         NEW c \in FrameType \union {None}, c # None => c.no <= Len(history),
         out' = Added(c)
  PROVE  Begun(out)'
<1>1. /\ out \in Seq(FrameType \union {ModFrame}) /\ Len(history) \in Nat
      /\ Len(out) \in Nat
      /\ \A i \in 1..Len(out) : out[i] \in FrameType \union {ModFrame}
  BY LenProperties, ElementOfSeq DEF TypeInv, TypeOK
<1>2. \A f \in FrameType : f.no \in Nat
  BY DEF FrameType
<1>3. ModFrame.kind # "std"
  BY DEF ModFrame
<1>4. \A i \in 1..Len(out) : out[i].kind = "std" => out[i].no <= Len(history')
  BY <1>1, <1>2, <1>3 DEF Begun
<1>5. CASE c = None
  BY <1>4, <1>5 DEF Added, Begun
<1>6. CASE c # None
  <2>1. out' = Append(out, c) /\ c \in FrameType \union {ModFrame}
    BY <1>6 DEF Added
  <2>2. /\ Len(out') = Len(out) + 1
        /\ \A i \in 1..Len(out) : out'[i] = out[i]
        /\ out'[Len(out) + 1] = c
    BY <1>1, <2>1, AppendProperties
  <2>3. c.no <= Len(history')
    BY <1>1, <1>2, <1>6
  <2> QED
    BY <1>1, <1>4, <2>2, <2>3 DEF Begun
<1> QED
  BY <1>5, <1>6

(* Each step does that.                                                    *)
LEMMA StepRanks ==
  ASSUME RankInv, TypeInv', Next, ~Terminated
  PROVE  \E t \in Threads, did \in BOOLEAN :
           /\ RanksGrow(t, did) /\ Begun(out)' /\ status = "running"
           /\ current' # None => current'.no <= Len(history')
           /\ status' # status => ~did /\ status' = "done"
<1>0. /\ TypeInv /\ Begun(out) /\ current \in FrameType \union {None}
      /\ Len(history') \in Nat /\ out \in Entries /\ Len(history) \in Nat
      /\ current # None => current.no <= Len(history)
  BY LenProperties DEF RankInv, TypeInv, TypeOK, Entries
<1>t. PICK t0 \in Threads : TRUE
  BY DEF Next, Terminated
<1>1. CASE SameFrames
  <2>1. Grown /\ Alike(current, current') /\ out' = out /\ Len(history') = Len(history)
    BY <1>1 DEF SameFrames
  <2>2. ASSUME NEW u \in Threads
        PROVE  /\ Images(Added(current), RankIn(u))' = Images(Added(current), RankIn(u))
               /\ Mine(u)' = Mine(u)
               /\ Len(Images(out, RankIn(u))) <= Len(Images(out, RankIn(u))')
    <3>1. Images(IF current' = None THEN out ELSE Append(out, current'), RankIn(u)')
            = Images(IF current = None THEN out ELSE Append(out, current), RankIn(u))
      BY <1>0, <2>1, RanksAlike
    <3>2. Mine(u)' = Mine(u)
      BY <1>0, <2>1, MineFacts
    <3>3. Len(Images(out, RankIn(u))) <= Len(Images(out, RankIn(u)'))
      BY <1>0, <2>1, RanksMonotone
    <3> QED
      BY <2>1, <3>1, <3>2, <3>3 DEF Added
  <2>3. RanksGrow(t0, FALSE)
    BY <2>2, Zenon DEF RanksGrow
  <2>4. Begun(out)' /\ (current' # None => current'.no <= Len(history'))
    BY <1>0, <2>1 DEF Begun, Alike
  <2> QED
    BY <1>1, <2>3, <2>4, StepFrames DEF SameFrames
<1>2. CASE NewImage
  <2>1. Grown /\ Alike(current, current') /\ Len(history') = Len(history)
    BY <1>0, <1>2 DEF NewImage, Grown, Alike
  <2>2. out' = Append(out, ModFrame) /\ out' \in Entries
    BY <1>0, <1>2 DEF NewImage, Entries
  <2>3. Begun(out)' /\ Begun(out')
    <3>1. Len(out') = Len(out) + 1 /\ Len(out) \in Nat
          /\ \A i \in 1..Len(out) : out'[i] = out[i]
          /\ out'[Len(out) + 1] = ModFrame
      <4>1. out \in Seq(FrameType \union {ModFrame})
        BY <1>0 DEF Entries
      <4> QED
        BY <2>2, <4>1, AppendProperties, LenProperties
    <3>2. ModFrame.kind # "std"
      BY DEF ModFrame
    <3> QED
      BY <1>0, <1>2, <3>1, <3>2 DEF Begun, NewImage
  <2>4. ASSUME NEW u \in Threads
        PROVE  /\ Images(Added(current), RankIn(u))' = Images(Added(current), RankIn(u))
               /\ Mine(u)' = Mine(u)
               /\ Len(Images(out, RankIn(u))) <= Len(Images(out, RankIn(u))')
    <3> DEFINE F == RankIn(u)
               G == RankIn(u)'
    <3>1. Images(out', G) = Images(out, F)
      <4>1. Images(Append(out, ModFrame), G) = Images(out, G)
        BY <1>0, RanksImage
      <4>2. Images(out, G) = Images(out, F)
        BY <1>0, <2>1, RanksKept
      <4> HIDE DEF F, G
      <4> QED
        BY <2>2, <4>1, <4>2, Zenon
    <3>2. Images(IF current' = None THEN out ELSE Append(out, current'), G)
            = Images(IF current = None THEN out ELSE Append(out, current), F)
      BY <1>0, <2>1, RanksAlike
    <3>3. Images(IF current' = None THEN out' ELSE Append(out', current'), G)
            = Images(IF current' = None THEN out ELSE Append(out, current'), G)
      <4>1. CASE current' = None
        <5>1. Images(out, G) = Images(out, F)
          BY <1>0, <2>1, RanksKept
        <5> HIDE DEF F, G
        <5> QED
          BY <3>1, <4>1, <5>1, Zenon
      <4>2. CASE current' # None
        <5>1. current' \in FrameType
          BY <2>1, <4>2 DEF Alike
        <5>2. ASSUME NEW s \in Entries, NEW f \in FrameType
              PROVE  Images(Append(s, f), G) = AddImage(Images(s, G), f, G)
          <6>1. /\ f \in FrameType \union {ModFrame} /\ Into(G, Nat)
                /\ s \in Seq(FrameType \union {ModFrame})
            BY RankFactsNext DEF RankFacts, Entries
          <6> HIDE DEF G
          <6> QED
            BY <6>1, ImagesAppend
        <5>3. Images(out, G) = Images(out, F)
          BY <1>0, <2>1, RanksKept
        <5> HIDE DEF F, G
        <5> QED
          BY <1>0, <2>2, <3>1, <4>2, <5>1, <5>2, <5>3, Zenon
      <4> QED
        BY <4>1, <4>2
    <3>4. Mine(u)' = Mine(u)
      BY <1>0, <2>1, MineFacts
    <3>5. Len(Images(out, F)) <= Len(Images(out', G))
      BY <1>0, <2>1, <2>2, RanksMonotone
    <3> QED
      BY <3>2, <3>3, <3>4, <3>5 DEF Added
  <2>5. RanksGrow(t0, FALSE)
    BY <2>4, Zenon DEF RanksGrow
  <2> QED
    BY <1>0, <1>2, <2>3, <2>5, StepFrames DEF NewImage
<1>3. CASE LastFrame
  <2>1. /\ out' = Added(current) /\ current' = None /\ Alike(current, current)
        /\ Grown /\ Len(history') = Len(history) /\ UNCHANGED history
    BY <1>0, <1>3 DEF LastFrame, Grown, Alike
  <2>2. Begun(out)'
    BY <1>0, <2>1, BegunAdded
  <2>3. ASSUME NEW u \in Threads
        PROVE  /\ Images(Added(current), RankIn(u))' = Images(Added(current), RankIn(u))
               /\ Mine(u)' = Mine(u)
               /\ Len(Images(out, RankIn(u))) <= Len(Images(out, RankIn(u))')
    <3>1. Images(IF current = None THEN out ELSE Append(out, current), RankIn(u)')
            = Images(IF current = None THEN out ELSE Append(out, current), RankIn(u))
      BY <1>0, <2>1, RanksAlike
    <3>2. Mine(u)' = Mine(u)
      BY <1>0, <2>1, MineFacts
    <3>3. Len(Images(out, RankIn(u))) <= Len(Images(out', RankIn(u)'))
      <4>1. CASE current = None
        BY <1>0, <2>1, <4>1, RanksMonotone DEF Added
      <4>2. CASE current # None
        <5>1. out' = Append(out, current) /\ current \in FrameType \union {ModFrame}
          BY <1>0, <2>1, <4>2 DEF Added
        <5> QED
          BY <1>0, <2>1, <5>1, RanksMonotone
      <4> QED
        BY <4>1, <4>2
    <3>4. Added(current)' = out' /\ out' = IF current = None THEN out ELSE Append(out, current)
      BY <2>1 DEF Added
    <3> QED
      BY <3>1, <3>2, <3>3, <3>4 DEF Added
  <2>4. RanksGrow(t0, FALSE)
    BY <2>3, Zenon DEF RanksGrow
  <2> QED
    BY <1>3, <2>1, <2>2, <2>4, StepFrames DEF LastFrame
<1>4. CASE \E t \in Threads : NextFrame(t)
  <2> PICK t \in Threads : NextFrame(t)
    BY <1>4
  <2>1. /\ Grown /\ UNCHANGED status
        /\ Len(history') = Len(history) + 1 /\ history'[Len(history')].tid = t
        /\ current' \in FrameType /\ current'.no = Len(history') /\ current'.tid = t
    BY DEF NextFrame
  <2>2. PICK c : Alike(current, c) /\ out' = Added(c)
    BY DEF NextFrame
  <2>3. /\ c \in FrameType \union {None}
        /\ c # None => c.no <= Len(history)
    BY <1>0, <2>2 DEF Alike
  <2>4. Begun(out)'
    <3>1. Len(history) <= Len(history') /\ out' = Added(c)
      BY <1>0, <2>1, <2>2
    <3>2. ASSUME NEW d \in FrameType \union {None}, d # None => d.no <= Len(history),
                 out' = Added(d)
          PROVE  Begun(out)'
      BY <1>0, <3>1, <3>2, BegunAdded
    <3> QED
      BY <2>3, <3>1, <3>2, Zenon
  <2>5. out' \in Entries /\ Added(current)' = Append(out', current')
    BY <2>1 DEF TypeInv, TypeOK, Entries, Added
  <2>6. ASSUME NEW u \in Threads
        PROVE  /\ Images(Added(current), RankIn(u))' =
                    IF u = t THEN Append(Images(Added(current), RankIn(u)), Mine(u) + 1)
                    ELSE Images(Added(current), RankIn(u))
               /\ Mine(u)' = IF u = t THEN Mine(u) + 1 ELSE Mine(u)
               /\ Len(Images(out, RankIn(u))) <= Len(Images(out, RankIn(u))')
    <3> DEFINE F == RankIn(u)
               G == RankIn(u)'
               rank == Cardinality({n \in 1..current'.no : history'[n].tid = current'.tid})
    <3>1. Images(out', G) = Images(Added(current), F)
      <4>1. Images(IF c = None THEN out ELSE Append(out, c), RankIn(u)')
              = Images(IF current = None THEN out ELSE Append(out, current), RankIn(u))
        BY <1>0, <2>1, <2>2, RanksAlike
      <4> QED
        BY <2>2, <4>1 DEF Added
    <3>2. Images(Append(out', current'), G) =
            IF current'.tid = u THEN Append(Images(out', G), rank) ELSE Images(out', G)
      <4>1. ASSUME NEW s \in Entries, NEW f \in FrameType
            PROVE  Images(Append(s, f), G) =
                     IF f.tid = u
                     THEN Append(Images(s, G),
                            Cardinality({n \in 1..f.no : history'[n].tid = f.tid}))
                     ELSE Images(s, G)
        BY RanksMore
      <4> HIDE DEF G
      <4> QED
        BY <2>1, <2>5, <4>1, Zenon
    <3>3. Mine(u)' = IF u = t THEN Mine(u) + 1 ELSE Mine(u)
      BY <1>0, <2>1, MineFacts
    <3>4. current'.tid = u => rank = Mine(u)'
      BY <2>1 DEF Mine
    <3>5. Len(Images(out, F)) <= Len(Images(out', G))
      <4>1. CASE c = None
        <5>1. out' = out
          BY <2>2, <4>1 DEF Added
        <5>2. Len(Images(out, F)) <= Len(Images(out, G))
          BY <1>0, <2>1, RanksMonotone
        <5> QED
          BY <5>1, <5>2
      <4>2. CASE c # None
        <5>1. out' = Append(out, c) /\ c \in FrameType \union {ModFrame}
          BY <2>2, <2>3, <4>2 DEF Added
        <5> QED
          BY <1>0, <2>1, <5>1, RanksMonotone
      <4> QED
        BY <4>1, <4>2
    <3>6. Images(Added(current), RankIn(u))' = Images(Append(out', current'), G)
      BY <2>5
    <3> HIDE DEF F, G, rank
    <3>7. Images(Append(out', current'), G) =
            IF u = t THEN Append(Images(Added(current), F), Mine(u) + 1)
            ELSE Images(Added(current), F)
      BY <2>1, <3>1, <3>2, <3>3, <3>4, Zenon
    <3> QED
      BY <3>3, <3>5, <3>6, <3>7, Zenon DEF F, G
  <2>7. RanksGrow(t, TRUE)
    BY <2>6, Zenon DEF RanksGrow
  <2>8. current'.no <= Len(history')
    BY <1>0, <2>1
  <2> QED
    BY <2>1, <2>4, <2>7, <2>8, StepFrames
<1> QED
  BY <1>1, <1>2, <1>3, <1>4, StepFrames

(* The ranks of the trace are images.                                      *)
RanksHere ==
  \A t \in Threads :
    /\ Ranks(t, Added(current)) = Images(Added(current), RankIn(t))
    /\ Ranks(t, out) = Images(out, RankIn(t))

(* In every state with the right types.                                    *)
LEMMA RanksAreHere == TypeInv => RanksHere
<1> SUFFICES ASSUME TypeInv PROVE RanksHere
  OBVIOUS
<1>1. out \in Entries /\ Added(current) \in Entries
  BY DEF TypeInv, TypeOK, Entries, Added
<1>2. \A t \in Threads : \A s \in Entries : Ranks(t, s) = Images(s, RankIn(t))
  BY RanksAreImages DEF AreImages
<1> QED
  BY <1>1, <1>2, Zenon DEF RanksHere

(* So in the next one.                                                     *)
LEMMA RanksAreHereNext == TypeInv' => RanksHere'
BY RanksAreHere, PTL

(* The container has no rank that the trace has not.                       *)
RanksPersist ==
  \A t \in Threads :
    Len(Images(out, RankIn(t))) <= Len(Images(Added(current), RankIn(t)))

(* In every state with the right types.                                    *)
LEMMA RanksPersistHere == TypeInv => RanksPersist
<1> SUFFICES ASSUME TypeInv, NEW t \in Threads
             PROVE  Len(Images(out, RankIn(t))) <= Len(Images(Added(current), RankIn(t)))
  BY DEF RanksPersist
<1> DEFINE F == RankIn(t)
           V == FrameType \union {ModFrame}
<1>1. out \in Seq(V) /\ current \in V \union {None} /\ Into(F, Nat)
  BY RankFactsHold DEF TypeInv, TypeOK, RankFacts
<1> HIDE DEF F, V
<1>2. Images(out, F) \in Seq(Nat)
  BY <1>1, ImagesConcat, Zenon
<1>3. CASE current = None
  BY <1>2, <1>3 DEF Added, F
<1>4. CASE current # None
  <2>1. Added(current) = Append(out, current) /\ current \in V
    BY <1>1, <1>4 DEF Added
  <2>2. Images(Append(out, current), F) = AddImage(Images(out, F), current, F)
    BY <1>1, <2>1, ImagesAppend
  <2>3. Len(Images(out, F)) <= Len(AddImage(Images(out, F), current, F))
    <3> DEFINE a == Images(out, F)
    <3> HIDE DEF a
    <3>1. a \in Seq(Nat)
      BY <1>2 DEF a
    <3>2. current \in DOMAIN F => Len(Append(a, F[current])) = Len(a) + 1
      BY <1>1, <3>1 DEF Into
    <3>3. Len(a) \in Nat
      BY <3>1
    <3> QED
      BY <3>2, <3>3 DEF AddImage, a
  <2> QED
    BY <2>1, <2>2, <2>3 DEF F
<1> QED
  BY <1>3, <1>4

(* So in the next one.                                                     *)
LEMMA RanksPersistNext == TypeInv' => RanksPersist'
BY RanksPersistHere, PTL

(* At the start no instruction has begun.                                  *)
LEMMA RankInit == Init => RankInv /\ Log!Init
<1> SUFFICES ASSUME Init PROVE RankInv /\ Log!Init
  OBVIOUS
<1>1. TypeInv /\ current = None /\ out = Nothing /\ Len(out) = 0 /\ Len(history) = 0
  BY TypeInit DEF Init, Nothing
<1>2. ASSUME NEW t \in Threads
      PROVE  Mine(t) = 0 /\ Images(out, RankIn(t)) = Nothing
  <2>1. {n \in 1..Len(history) : history[n].tid = t} = {}
    BY <1>1
  <2>2. Mine(t) = 0
    BY <2>1, FS_EmptySet DEF Mine
  <2>3. Images(out, RankIn(t)) = Nothing
    BY <1>1, ImagesEmpty, Zenon DEF Nothing
  <2> QED
    BY <2>2, <2>3
<1>3. UpTo(0) = Nothing /\ Len(Nothing) = 0
  BY UpToFacts DEF Nothing
<1>4. Added(current) = out
  BY <1>1 DEF Added
<1>5. RankInv
  <2>1. Begun(out)
    BY <1>1 DEF Begun
  <2>2. \A t \in Threads : Images(Added(current), RankIn(t)) = UpTo(Mine(t))
    BY <1>2, <1>3, <1>4, Zenon
  <2> QED
    BY <1>1, <2>1, <2>2 DEF RankInv
<1>6. \A t \in Threads : Ranks(t, Added(current)) = Nothing /\ Ranks(t, out) = Nothing
  BY <1>1, <1>2, <1>4, RanksAreHere, Zenon DEF RanksHere
<1>7. [t \in Threads |-> Ranks(t, Added(current))] = [t \in Threads |-> <<>>]
  BY <1>6, Zenon DEF Nothing
<1>8. [t \in Threads |-> Len(Ranks(t, out))] = [t \in Threads |-> 0]
  <2>1. \A t \in Threads : Len(Ranks(t, out)) = 0
    BY <1>3, <1>6, Zenon
  <2> QED
    BY <2>1, Zenon
<1>9. (status = "running") = TRUE
  BY DEF Init
<1> QED
  BY <1>5, <1>7, <1>8, <1>9, Zenon DEF Log!Init

(* The ranks stay in order, and every step is one of the log.              *)
LEMMA RankNext ==
  ASSUME RankInv, [Next]_vars
  PROVE  RankInv' /\ [Log!Next]_Log!vars
<1> DEFINE log == [t \in Threads |-> Ranks(t, Added(current))]
           saved == [t \in Threads |-> Len(Ranks(t, out))]
           open == status = "running"
<1>0. TypeInv /\ TypeInv'
  BY TypeNext DEF RankInv
<1>1. CASE Terminated \/ UNCHANGED vars
  <2>1. UNCHANGED <<current, out, history, status>>
    BY <1>1 DEF Terminated, vars, trace
  <2>2. \A t \in Threads : RankIn(t)' = RankIn(t) /\ Mine(t)' = Mine(t)
    BY <2>1 DEF RankIn, Rank, Mine
  <2>3. RankInv'
    BY <1>0, <2>1, <2>2 DEF RankInv, Begun, Added
  <2>4. \A t \in Threads : /\ Images(Added(current), RankIn(t))' = Images(Added(current), RankIn(t))
                           /\ Images(out, RankIn(t))' = Images(out, RankIn(t))
    BY <2>1, <2>2 DEF Added
  <2>5. UNCHANGED log /\ UNCHANGED saved /\ UNCHANGED open
    <3>1. RanksHere /\ RanksHere'
      BY <1>0, RanksAreHere, RanksAreHereNext
    <3>2. \A t \in Threads : /\ Ranks(t, Added(current))' = Ranks(t, Added(current))
                             /\ Ranks(t, out)' = Ranks(t, out)
      BY <2>4, <3>1, Zenon DEF RanksHere
    <3> QED
      BY <2>1, <3>2, Zenon
  <2> QED
    BY <2>3, <2>5, Zenon DEF Log!vars
<1>2. CASE Next /\ ~Terminated
  <2>1. PICK t \in Threads, did \in BOOLEAN :
           /\ RanksGrow(t, did) /\ Begun(out)' /\ status = "running"
           /\ current' # None => current'.no <= Len(history')
           /\ status' # status => ~did /\ status' = "done"
    BY <1>0, <1>2, StepRanks, Zenon
  <2>2. \A u \in Threads : Mine(u) \in Nat
    <3>1. ASSUME NEW u \in Threads PROVE Mine(u) \in Nat
      <4>1. Len(history) \in Nat
        BY <1>0, LenProperties DEF TypeInv, TypeOK
      <4>2. IsFiniteSet(1..Len(history))
        BY <4>1, FS_Interval
      <4>3. IsFiniteSet({n \in 1..Len(history) : history[n].tid = u})
        BY <4>2, FS_Subset
      <4> QED
        BY <4>3, FS_CardinalityType DEF Mine
    <3> QED
      BY <3>1
  <2>3. ASSUME NEW u \in Threads
        PROVE  Images(Added(current), RankIn(u))' = UpTo(Mine(u))'
    <3>1. /\ Images(Added(current), RankIn(u)) = UpTo(Mine(u))
          /\ Append(UpTo(Mine(u)), Mine(u) + 1) = UpTo(Mine(u) + 1)
      BY <2>2, UpToFacts DEF RankInv
    <3>2. /\ Images(Added(current), RankIn(u))' =
               IF did /\ u = t THEN Append(Images(Added(current), RankIn(u)), Mine(u) + 1)
               ELSE Images(Added(current), RankIn(u))
          /\ Mine(u)' = IF did /\ u = t THEN Mine(u) + 1 ELSE Mine(u)
      BY <2>1, Zenon DEF RanksGrow
    <3> QED
      BY <3>1, <3>2, Zenon
  <2>4. RankInv'
    BY <1>0, <2>1, <2>3, Zenon DEF RankInv
  <2>5. RanksHere /\ RanksHere'
    BY <1>0, RanksAreHere, RanksAreHereNext
  <2>6. Log!Persist
    <3>1. ASSUME NEW u \in Threads
          PROVE  /\ Len(Ranks(u, out)) <= Len(Ranks(u, out)')
                 /\ Len(Ranks(u, out)') <= Len(Ranks(u, Added(current))')
      <4>1. Len(Images(out, RankIn(u))) <= Len(Images(out, RankIn(u))')
        BY <2>1, Zenon DEF RanksGrow
      <4>2. /\ Ranks(u, out) = Images(out, RankIn(u))
            /\ Ranks(u, out)' = Images(out, RankIn(u))'
            /\ Ranks(u, Added(current))' = Images(Added(current), RankIn(u))'
        BY <2>5, Zenon DEF RanksHere
      <4>3. Len(Images(out, RankIn(u))') <= Len(Images(Added(current), RankIn(u))')
        BY <1>0, RanksPersistNext, Zenon DEF RanksPersist
      <4> QED
        BY <4>1, <4>2, <4>3, Zenon
    <3> QED
      BY <3>1, Zenon DEF Log!Persist
  <2>7. CASE did
    <3>1. ASSUME NEW u \in Threads
          PROVE  log'[u] = IF u = t THEN Append(log[t], Len(log[t]) + 1) ELSE log[u]
      <4>1. Ranks(u, Added(current))' =
              IF u = t THEN Append(Ranks(u, Added(current)), Mine(u) + 1)
              ELSE Ranks(u, Added(current))
        BY <2>1, <2>5, <2>7, Zenon DEF RanksGrow, RanksHere
      <4>2. Len(Ranks(t, Added(current))) = Mine(t)
        <5>1. Len(UpTo(Mine(t))) = Mine(t)
          BY <2>2, UpToFacts
        <5>2. Ranks(t, Added(current)) = UpTo(Mine(t))
          BY <2>5, Zenon DEF RanksHere, RankInv
        <5> QED
          BY <5>1, <5>2
      <4> QED
        BY <4>1, <4>2, Zenon
    <3>2. log' = [u \in Threads |-> log'[u]] /\ log = [u \in Threads |-> log[u]]
      BY Zenon
    <3>3. log' = [log EXCEPT ![t] = Append(@, Len(@) + 1)]
      <4> HIDE DEF log
      <4> QED
        BY <3>1, <3>2
    <3>4. Log!Issue(t)
      BY <3>3, Zenon DEF Log!Issue
    <3>5. open /\ UNCHANGED open
      BY <2>1, <2>7
    <3> QED
      BY <2>4, <2>6, <3>4, <3>5, Zenon DEF Log!Next, Log!Step
  <2>8. CASE ~did
    <3>1. UNCHANGED log
      <4>1. \A u \in Threads : Ranks(u, Added(current))' = Ranks(u, Added(current))
        BY <2>1, <2>5, <2>8, Zenon DEF RanksGrow, RanksHere
      <4> QED
        BY <4>1, Zenon
    <3>2. CASE UNCHANGED status
      <4>1. open /\ UNCHANGED open
        BY <2>1, <3>2
      <4> QED
        BY <2>4, <2>6, <3>1, <4>1, Zenon DEF Log!Next, Log!Step
    <3>3. CASE ~UNCHANGED status
      <4>1. open /\ open' = FALSE
        BY <2>1, <3>3
      <4> QED
        BY <2>4, <2>6, <3>1, <4>1, Zenon DEF Log!Next, Log!Close
    <3> QED
      BY <3>2, <3>3
  <2> QED
    BY <2>7, <2>8
<1> QED
  BY <1>1, <1>2 DEF vars

(* BptTracer implements the log of a thread: whatever REP iterations,      *)
(* faults and images come in between, each instruction of the thread has   *)
(* one frame, in order, and what is in the container stays there.          *)
THEOREM OneFrameTheorem == Spec => OneFrameEach
<1>1. Init => RankInv /\ Log!Init
  BY RankInit
<1>2. RankInv /\ [Next]_vars => RankInv' /\ [Log!Next]_Log!vars
  BY RankNext
<1> QED
  BY <1>1, <1>2, PTL DEF Spec, OneFrameEach, Log!Spec

-----------------------------------------------------------------------------
(***************************************************************************)
(* The trace of one thread can be replayed.                                *)
(***************************************************************************)

(* The instructions of a trace are its images under the identity.          *)
Itself == [f \in FrameType |-> f]

(* Frames are frames, and images of programs are not.                      *)
LEMMA ItselfFacts ==
  /\ Into(Itself, FrameType)
  /\ \A f \in FrameType : f \in DOMAIN Itself /\ Itself[f] = f /\ f.kind = "std"
  /\ ModFrame \notin DOMAIN Itself /\ ModFrame.kind = "mod"
BY DEF Itself, Into, ModFrame, FrameType

(* The recursion of Std is one that keeps images.                          *)
LEMMA StdIsImages ==
  ASSUME NEW s \in Entries
  PROVE  Std(s) = Images(s, Itself)
<1> DEFINE n == Len(s)
           F == Itself
           Equation(h) ==
             h = [i \in 0..n |->
                    IF i = 0 THEN <<>>
                    ELSE IF s[i].kind = "std" THEN Append(h[i - 1], s[i])
                    ELSE h[i - 1]]
<1>1. n \in Nat /\ \A i \in 1..n : s[i] \in FrameType \union {ModFrame}
  BY LenProperties DEF Entries
<1>2. ASSUME NEW h, NEW i \in 0..n
      PROVE  (IF i = 0 THEN <<>> ELSE IF s[i].kind = "std" THEN Append(h[i - 1], s[i])
              ELSE h[i - 1])
             = (IF i = 0 THEN Nothing ELSE AddImage(h[i - 1], s[i], F))
  <2>1. CASE i = 0
    BY <2>1, Zenon DEF Nothing
  <2>2. CASE i # 0
    <3>1. s[i] \in FrameType \union {ModFrame}
      BY <1>1, <2>2
    <3>2. CASE s[i] \in FrameType
      BY <2>2, <3>2, ItselfFacts, Zenon DEF AddImage
    <3>3. CASE s[i] = ModFrame
      <4>1. ModFrame.kind # "std"
        BY ItselfFacts
      <4> QED
        BY <2>2, <3>3, <4>1, ItselfFacts, Zenon DEF AddImage
    <3> QED
      BY <3>1, <3>2, <3>3
  <2> QED
    BY <2>1, <2>2
<1>3. ASSUME NEW h PROVE Equation(h) <=> Recursion(h, n, s, F)
  <2> DEFINE X(i) == IF i = 0 THEN <<>> ELSE IF s[i].kind = "std"
                     THEN Append(h[i - 1], s[i]) ELSE h[i - 1]
             Y(i) == IF i = 0 THEN Nothing ELSE AddImage(h[i - 1], s[i], F)
  <2>1. \A i \in 0..n : X(i) = Y(i)
    BY <1>2
  <2>2. [i \in 0..n |-> X(i)] = [i \in 0..n |-> Y(i)]
    <3> HIDE DEF X, Y, n
    <3> QED
      BY <2>1, Zenon
  <2>3. Equation(h) <=> h = [i \in 0..n |-> X(i)]
    OBVIOUS
  <2>4. Recursion(h, n, s, F) <=> h = [i \in 0..n |-> Y(i)]
    BY DEF Recursion
  <2> HIDE DEF Equation, X, Y, F, n
  <2> QED
    BY <2>2, <2>3, <2>4
<1>4. Std(s) = (CHOOSE h : Equation(h))[n]
  BY Zenon DEF Std
<1>5. Into(F, FrameType)
  BY ItselfFacts
<1>6. Recursion(ImagesUpTo(s, F), n, s, F)
  <2>1. ASSUME NEW B, NEW G, Into(G, B)
        PROVE  Recursion(ImagesUpTo(s, G), Len(s), s, G)
    BY <2>1, ImagesFacts DEF Entries
  <2> HIDE DEF F
  <2> QED
    BY <1>5, <2>1, Zenon
<1> HIDE DEF Equation
<1>7. Equation(CHOOSE h : Equation(h))
  BY <1>3, <1>6, Zenon
<1>8. Recursion(CHOOSE h : Equation(h), n, s, F)
  BY <1>3, <1>7, Zenon
<1> DEFINE g == CHOOSE h : Equation(h)
<1> HIDE DEF g, F
<1>9. g[Len(s)] = Images(s, F)
  <2>1. Recursion(g, Len(s), s, F)
    BY <1>8 DEF g
  <2> QED
    BY <1>5, <2>1, RecursionIsImages DEF Entries
<1> QED
  BY <1>4, <1>9 DEF g, F

(* The instructions of a trace, and of one with another entry.             *)
LEMMA StdFacts ==
  ASSUME NEW s \in Entries
  PROVE  /\ Std(s) \in Seq(FrameType)
         /\ \A f \in FrameType : Std(Append(s, f)) = Append(Std(s), f)
         /\ Std(Append(s, ModFrame)) = Std(s)
<1>1. Std(s) = Images(s, Itself) /\ Into(Itself, FrameType)
  BY StdIsImages, ItselfFacts
<1>2. Std(s) \in Seq(FrameType)
  <2>1. ASSUME NEW B, NEW F, Into(F, B)
        PROVE  Images(s, F) \in Seq(B)
    BY <2>1, ImagesAppend DEF Entries
  <2> QED
    BY <1>1, <2>1, Zenon
<1>3. ASSUME NEW f \in FrameType \union {ModFrame}
      PROVE  Std(Append(s, f)) = AddImage(Std(s), f, Itself)
  <2>1. Append(s, f) \in Entries
    BY AppendProperties DEF Entries
  <2>2. Std(Append(s, f)) = Images(Append(s, f), Itself)
    BY <2>1, StdIsImages
  <2>3. ASSUME NEW B, NEW F, Into(F, B)
        PROVE  Images(Append(s, f), F) = AddImage(Images(s, F), f, F)
    BY <2>3, ImagesAppend DEF Entries
  <2> QED
    BY <1>1, <2>2, <2>3, Zenon
<1>4. ASSUME NEW f \in FrameType PROVE Std(Append(s, f)) = Append(Std(s), f)
  BY <1>3, ItselfFacts, Zenon DEF AddImage
<1>5. Std(Append(s, ModFrame)) = Std(s)
  BY <1>3, ItselfFacts, Zenon DEF AddImage
<1> QED
  BY <1>2, <1>4, <1>5

(* j is the last of the numbers in W.                                      *)
LastOf(W, j) == j \in W /\ \A k \in W : k <= j

(* The frames of s up to the n-th that record a write of x, and what the   *)
(* last of them says x is.                                                 *)
WritersUpTo(s, n, x) == {j \in 1..n : ValuesOf(s[j].post, x) # {}}
LatestOf(s, writers, x) ==
  IF writers = {} THEN {0}
  ELSE ValuesOf(s[CHOOSE j : LastOf(writers, j)].post, x)
Latest(s, n, x) == LatestOf(s, WritersUpTo(s, n, x), x)

(* Of some numbers up to n one is the last.                                *)
LEMMA LastNumber ==
  ASSUME NEW n \in Nat, NEW S, S \subseteq 1..n, S # {}
  PROVE  \E j : LastOf(S, j)
<1> DEFINE T == {i \in 0..n : n - i \in S}
<1>1. T \in SUBSET Nat
  OBVIOUS
<1>2. T # {}
  <2>1. PICK k \in S : TRUE
    OBVIOUS
  <2>2. k \in 1..n /\ n - k \in 0..n /\ n - (n - k) = k
    BY <2>1
  <2> QED
    BY <2>2
<1>3. PICK i \in T : \A k \in T : i <= k
  <2> HIDE DEF T
  <2> QED
    BY <1>1, <1>2, LeastNumber, Zenon
<1>4. i \in 0..n /\ n - i \in S
  BY <1>3
<1>5. ASSUME NEW k \in S PROVE k <= n - i
  <2>1. k \in 1..n /\ n - k \in 0..n /\ n - (n - k) = k
    OBVIOUS
  <2>2. i <= n - k
    BY <1>3, <2>1
  <2> QED
    BY <1>4, <2>1, <2>2
<1> QED
  BY <1>4, <1>5 DEF LastOf

(* It is the only one.                                                     *)
LEMMA LastIsOne ==
  ASSUME NEW n \in Nat, NEW S, S \subseteq 1..n, NEW j, LastOf(S, j)
  PROVE  (CHOOSE i : LastOf(S, i)) = j
<1> DEFINE c == CHOOSE i : LastOf(S, i)
<1>1. LastOf(S, c)
  BY Zenon
<1> HIDE DEF c
<1>2. c <= j /\ j <= c /\ c \in Nat /\ j \in Nat
  BY <1>1 DEF LastOf
<1>3. c = j
  BY <1>2
<1> QED
  BY <1>3, Zenon DEF c

(* What the last writer says.                                              *)
LEMMA LastWriter ==
  ASSUME NEW s, NEW n \in Nat, NEW x, NEW j, LastOf(WritersUpTo(s, n, x), j)
  PROVE  Latest(s, n, x) = ValuesOf(s[j].post, x)
<1>1. WritersUpTo(s, n, x) \subseteq 1..n
  BY DEF WritersUpTo
<1>2. (CHOOSE i : LastOf(WritersUpTo(s, n, x), i)) = j
  BY <1>1, LastIsOne, Zenon
<1>3. WritersUpTo(s, n, x) # {}
  BY Zenon DEF LastOf
<1> QED
  BY <1>2, <1>3, Zenon DEF Latest, LatestOf

(* Only what the frames record as written counts.                          *)
LEMMA LatestSame ==
  ASSUME NEW s, NEW u, NEW n \in Nat, NEW x,
         \A j \in 1..n : ValuesOf(u[j].post, x) = ValuesOf(s[j].post, x)
  PROVE  Latest(u, n, x) = Latest(s, n, x)
<1>1. WritersUpTo(u, n, x) = WritersUpTo(s, n, x)
  BY Zenon DEF WritersUpTo
<1>2. CASE WritersUpTo(s, n, x) = {}
  BY <1>1, <1>2, Zenon DEF Latest, LatestOf
<1>3. CASE WritersUpTo(s, n, x) # {}
  <2>1. WritersUpTo(s, n, x) \subseteq 1..n
    BY DEF WritersUpTo
  <2>2. PICK j : LastOf(WritersUpTo(s, n, x), j)
    BY <1>3, <2>1, LastNumber, Zenon
  <2>3. Latest(s, n, x) = ValuesOf(s[j].post, x)
    BY <2>2, LastWriter
  <2>4. LastOf(WritersUpTo(u, n, x), j)
    BY <1>1, <2>2, Zenon
  <2>5. Latest(u, n, x) = ValuesOf(u[j].post, x)
    BY <2>4, LastWriter
  <2>6. j \in 1..n
    BY <2>1, <2>2, Zenon DEF LastOf
  <2> QED
    BY <2>3, <2>5, <2>6, Zenon
<1> QED
  BY <1>2, <1>3

(* One frame more.                                                         *)
LEMMA LatestStep ==
  ASSUME NEW s, NEW n \in Nat, NEW x
  PROVE  Latest(s, n + 1, x) =
           IF ValuesOf(s[n + 1].post, x) # {} THEN ValuesOf(s[n + 1].post, x)
           ELSE Latest(s, n, x)
<1> DEFINE m == n + 1
<1>0. m \in Nat /\ m \in 1..m /\ \A j \in 1..m : j <= m
  OBVIOUS
<1>1. CASE ValuesOf(s[m].post, x) # {}
  <2> HIDE DEF m
  <2>1. LastOf(WritersUpTo(s, m, x), m)
    BY <1>0, <1>1, Zenon DEF WritersUpTo, LastOf
  <2>2. Latest(s, m, x) = ValuesOf(s[m].post, x)
    BY <1>0, <2>1, LastWriter, Zenon
  <2> QED
    BY <1>1, <2>2, Zenon DEF m
<1>2. CASE ValuesOf(s[m].post, x) = {}
  <2>1. \A j \in 1..m : j \in 1..n \/ j = m
    OBVIOUS
  <2>2. \A j \in 1..n : j \in 1..m
    OBVIOUS
  <2> HIDE DEF m
  <2>3. WritersUpTo(s, m, x) = WritersUpTo(s, n, x)
    BY <1>2, <2>1, <2>2, Zenon DEF WritersUpTo
  <2>4. Latest(s, m, x) = Latest(s, n, x)
    BY <2>3, Zenon DEF Latest
  <2> QED
    BY <1>2, <2>4, Zenon DEF m
<1> QED
  BY <1>1, <1>2

(* u keeps what s says of x; it says what the frame f after s says.        *)
Kept(s, u, x) == \A n \in 0..Len(s) : Latest(u, n, x) = Latest(s, n, x)
Counts(s, f, u, x) ==
  Latest(u, Len(s) + 1, x) =
    IF ValuesOf(f.post, x) # {} THEN ValuesOf(f.post, x) ELSE Latest(s, Len(s), x)

(* A frame that is added counts, and changes nothing for those before.     *)
LEMMA LatestAppend ==
  ASSUME NEW s \in Seq(FrameType), NEW f \in FrameType, NEW x
  PROVE  Kept(s, Append(s, f), x) /\ Counts(s, f, Append(s, f), x)
<1> DEFINE u == Append(s, f)
           k == Len(s)
<1>1. /\ k \in Nat /\ k \in 0..k /\ u[k + 1] = f
      /\ \A j \in 1..k : u[j] = s[j]
  BY AppendProperties, LenProperties
<1> HIDE DEF u, k
<1>2. ASSUME NEW m \in 0..k PROVE Latest(u, m, x) = Latest(s, m, x)
  <2>1. m \in Nat /\ \A j \in 1..m : u[j] = s[j]
    BY <1>1
  <2>2. \A j \in 1..m : ValuesOf(u[j].post, x) = ValuesOf(s[j].post, x)
    BY <2>1, Zenon
  <2> QED
    BY <2>1, <2>2, LatestSame
<1>3. Latest(u, k + 1, x) =
        IF ValuesOf(u[k + 1].post, x) # {} THEN ValuesOf(u[k + 1].post, x)
        ELSE Latest(u, k, x)
  BY <1>1, LatestStep, Zenon
<1> QED
  BY <1>1, <1>2, <1>3, Zenon DEF u, k, Kept, Counts

(* Written with the choice that Recorded makes.                            *)
LEMMA LatestIs ==
  ASSUME NEW s, NEW W, NEW x
  PROVE  LatestOf(s, W, x) =
           IF W = {} THEN {0}
           ELSE ValuesOf(s[CHOOSE j \in W : \A k \in W : k <= j].post, x)
<1> DEFINE a == CHOOSE j \in W : \A k \in W : k <= j
           b == CHOOSE j : LastOf(W, j)
<1>1. a = b
  BY SMT DEF LastOf
<1>2. LatestOf(s, W, x) = IF W = {} THEN {0} ELSE ValuesOf(s[b].post, x)
  BY DEF LatestOf
<1> HIDE DEF a, b
<1>3. LatestOf(s, W, x) = IF W = {} THEN {0} ELSE ValuesOf(s[a].post, x)
  BY <1>1, <1>2
<1> QED
  BY <1>3 DEF a

(* A value that the replay may miss.                                       *)
Excused(x, v) ==
  \/ v = Kernel
  \/ FromCmpxchg(x, v)
  \/ v > 0 /\ x \in Untraced(history[v].ins)

(* That the frame f read o after the first n frames of s can be replayed.  *)
Readable(o, f, s, n) ==
  /\ o.val <= Len(history)
  /\ \/ o.val \in Latest(s, n, o.loc)
     \/ f.ins.op = "rep" /\ o.val \in ValuesOf(f.post, o.loc)
     \/ Excused(o.loc, o.val)
Replayed(f, s, n) == \A o \in f.pre : Readable(o, f, s, n)
AllReplayed(s) == \A i \in 1..Len(s) : Replayed(s[i], s, i - 1)

(* What a reader of the trace s, and of the frame c being filled, believes *)
(* x to hold.                                                              *)
Believed(c, s, x) ==
  IF c # None /\ ValuesOf(c.post, x) # {} THEN ValuesOf(c.post, x)
  ELSE Latest(s, Len(s), x)

Holding(t, x) == IF x \in Regs THEN regs[t][x] ELSE mem[x]

(* What is still to be recorded before the next instruction.               *)
Waiting(t) ==
  m_regs \union m_mems \union
  (IF pc[t] = "write_after" THEN CmpxchgRegs(insn[t].ins, zf[t]) ELSE {}) \union
  (IF pc[t] \in {"write_after", "store_after"} /\ zf[t]
   THEN Stores(insn[t].ins) ELSE {})

(* The reader knows that x holds v, or will when the next instruction      *)
(* begins, since x is among those waiting, or may miss it.                 *)
KnownAs(c, s, x, v, waiting) ==
  /\ v <= Len(history)
  /\ \/ x \in waiting
     \/ Excused(x, v)
     \/ v \in Believed(c, s, x)
Known(t, x) == KnownAs(current, Std(out), x, Holding(t, x), Waiting(t))

(* Nothing is remembered before the instruction has come to it.            *)
Unremembered(t) ==
  /\ pc[t] = "read" => m_regs = {}
  /\ pc[t] \in {"read", "remember_write", "load", "remember_store"} => m_mems = {}

ReplayHere(t) == Unremembered(t) /\ \A x \in Locs : Known(t, x)

ReplayInv ==
  /\ ValuesInv /\ WritesInv
  /\ AllReplayed(Std(out))
  /\ current # None => Replayed(current, Std(out), Len(Std(out)))
  /\ status = "running" => \A t \in Threads : ReplayHere(t)

(* The trace is what has been saved, and the frame being filled.           *)
LEMMA TraceIs ==
  ASSUME TypeOK
  PROVE  /\ Std(out) \in Seq(FrameType)
         /\ Trace = IF current = None THEN Std(out) ELSE Append(Std(out), current)
<1>1. out \in Entries /\ current \in FrameType \union {None}
  BY DEF TypeOK, Entries
<1>2. Std(out) \in Seq(FrameType) /\ \A f \in FrameType : Std(Append(out, f)) = Append(Std(out), f)
  BY <1>1, StdFacts
<1> QED
  BY <1>1, <1>2, Zenon DEF Trace, Added

(* With one thread the latest write counts, of a register too.             *)
LEMMA RecordedIsLatest ==
  ASSUME TypeOK, NEW i \in DOMAIN Trace, NEW x
  PROVE  Recorded(i, x) = Latest(Trace, i - 1, x)
<1> DEFINE u == Trace
           W == {j \in 1..(i - 1) : /\ ValuesOf(u[j].post, x) # {}
                                    /\ x \in Regs => u[j].tid = u[i].tid}
<1>1. u \in Seq(FrameType)
  <2>1. Std(out) \in Seq(FrameType) /\ current \in FrameType \union {None}
    BY TraceIs DEF TypeOK
  <2>2. \A s \in Seq(FrameType) : \A f \in FrameType : Append(s, f) \in Seq(FrameType)
    BY AppendProperties
  <2> QED
    BY <2>1, <2>2, TraceIs, Zenon
<1>2. i \in 1..Len(u) /\ Len(u) \in Nat
  BY <1>1, LenProperties
<1>3. \A j \in 1..Len(u) : u[j].tid = u[i].tid
  <2> HIDE DEF u
  <2>1. \A j \in 1..Len(u) : u[j] \in FrameType
    BY <1>1
  <2>2. \A f \in FrameType : f.tid \in Threads
    BY DEF FrameType
  <2> QED
    BY <1>2, <2>1, <2>2, OneThread, Zenon
<1>4. W = WritersUpTo(u, i - 1, x)
  <2> HIDE DEF u
  <2>1. \A j \in 1..(i - 1) : j \in 1..Len(u)
    BY <1>2
  <2> QED
    BY <1>3, <2>1, Zenon DEF WritersUpTo
<1>5. Recorded(i, x) =
        IF W = {} THEN {0}
        ELSE ValuesOf(u[CHOOSE j \in W : \A k \in W : k <= j].post, x)
  BY Zenon DEF Recorded
<1> HIDE DEF W, u
<1>6. Recorded(i, x) = LatestOf(u, W, x)
  BY <1>5, LatestIs, Zenon
<1> QED
  BY <1>4, <1>6, Zenon DEF Latest, u

(* The invariant says of the trace what the property says.                 *)
LEMMA ReplayFollows ==
  ASSUME ReplayInv
  PROVE  ReplayConsistent
<1> DEFINE s == Std(out)
           u == Trace
<1>0. TypeOK
  BY DEF ReplayInv, WritesInv, PlaceInv, TypeInv
<1>1. /\ s \in Seq(FrameType) /\ current \in FrameType \union {None}
      /\ u = IF current = None THEN s ELSE Append(s, current)
  BY <1>0, TraceIs DEF TypeOK
<1>2. SUFFICES ASSUME NEW i \in DOMAIN u PROVE Replayed(u[i], u, i - 1)
  <2>1. \A i \in DOMAIN u : \A x : Recorded(i, x) = Latest(u, i - 1, x)
    BY <1>0, RecordedIsLatest
  <2> HIDE DEF s
  <2> QED
    BY <1>2, <2>1, Zenon DEF ReplayConsistent, Replayed, Readable, Excused
<1>3. AllReplayed(s) /\ (current # None => Replayed(current, s, Len(s)))
  BY DEF ReplayInv
<1>4. CASE current = None
  <2> HIDE DEF s, u
  <2>1. u = s /\ i \in 1..Len(s)
    BY <1>1, <1>2, <1>4
  <2> QED
    BY <1>3, <2>1, Zenon DEF AllReplayed
<1>5. CASE current # None
  <2> HIDE DEF s, u
  <2>1. current \in FrameType /\ u = Append(s, current) /\ Len(s) \in Nat
    BY <1>1, <1>5
  <2>2. /\ Len(u) = Len(s) + 1 /\ DOMAIN u = 1..(Len(s) + 1)
        /\ u[Len(s) + 1] = current /\ \A j \in 1..Len(s) : u[j] = s[j]
    BY <1>1, <2>1, AppendProperties
  <2>3. \A n \in 0..Len(s) : \A x : Latest(u, n, x) = Latest(s, n, x)
    <3>1. s \in Seq(FrameType) /\ current \in FrameType
      BY <1>1, <2>1
    <3>2. ASSUME NEW x PROVE Kept(s, Append(s, current), x)
      BY <3>1, LatestAppend, Zenon
    <3> QED
      BY <2>1, <3>2, Zenon DEF Kept
  <2>4. i \in 1..Len(s) \/ i = Len(s) + 1
    BY <1>2, <2>1, <2>2
  <2>5. i - 1 \in 0..Len(s) /\ (Len(s) + 1) - 1 = Len(s)
    BY <1>2, <2>1, <2>2
  <2>6. \A x : Latest(u, i - 1, x) = Latest(s, i - 1, x)
    BY <2>3, <2>5
  <2>7. Replayed(u[i], s, i - 1)
    <3>1. CASE i \in 1..Len(s)
      <4>1. u[i] = s[i]
        BY <2>2, <3>1
      <4> QED
        BY <1>3, <3>1, <4>1, Zenon DEF AllReplayed
    <3>2. CASE i = Len(s) + 1
      BY <1>3, <1>5, <2>2, <2>5, <3>2, Zenon
    <3> QED
      BY <2>4, <3>1, <3>2
  <2> QED
    BY <2>6, <2>7, Zenon DEF Replayed, Readable
<1> QED
  BY <1>4, <1>5

(* The invariant in the next state, for a given container and frame.       *)
ReplayIntro ==
  \A s, c :
    /\ ValuesInv /\ WritesInv /\ Std(out) = s /\ current = c
    /\ AllReplayed(s) /\ (c # None => Replayed(c, s, Len(s)))
    /\ status = "running" =>
         \A t \in Threads :
           /\ Unremembered(t)
           /\ \A x \in Locs : \E v, w :
                v = Holding(t, x) /\ w = Waiting(t) /\ KnownAs(c, s, x, v, w)
    => ReplayInv

(* It is what the definition says.                                         *)
LEMMA ReplayIntroHolds == ReplayIntro
<1> SUFFICES ASSUME ValuesInv, WritesInv, AllReplayed(Std(out)),
                    current # None => Replayed(current, Std(out), Len(Std(out))),
                    status = "running" =>
                      \A t \in Threads :
                        /\ Unremembered(t)
                        /\ \A x \in Locs : Known(t, x)
             PROVE  ReplayInv
  BY Zenon DEF ReplayIntro, Known
<1> QED
  BY Zenon DEF ReplayInv, ReplayHere

(* In the next state as well.                                              *)
LEMMA ReplayIntroNext == ReplayIntro'
BY ReplayIntroHolds, PTL

(* Instructions of the past remain what they were.                         *)
HistoryKept ==
  /\ Len(history) \in Nat /\ Len(history') \in Nat /\ Len(history) <= Len(history')
  /\ \A n \in 1..Len(history) : history'[n].ins = history[n].ins
  /\ UNCHANGED knobs

(* A value that was excused still is.                                      *)
LEMMA ExcusedKept ==
  ASSUME HistoryKept, NEW x, NEW v \in Values, v <= Len(history), Excused(x, v)
  PROVE  Excused(x, v)' /\ v <= Len(history')
<1>1. v \in Int
  BY DEF Values
<1>2. v <= Len(history')
  BY <1>1 DEF HistoryKept
<1>3. v > 0 => history'[v].ins = history[v].ins
  BY <1>1 DEF HistoryKept
<1>4. \A i : Untraced(i)' = Untraced(i)
  BY KnobsKept DEF HistoryKept
<1> QED
  BY <1>2, <1>3, <1>4 DEF Excused, FromCmpxchg

(* A frame that gets more can still be replayed, if what it reads more can *)
(* be.                                                                     *)
LEMMA ReplayedKept ==
  ASSUME HistoryKept, NEW f, NEW g, NEW s, NEW u, NEW n,
         f.post \subseteq g.post, f.ins = g.ins,
         \A x : Latest(u, n, x) = Latest(s, n, x),
         \A o \in g.pre : o.val \in Values /\ Readable(o, f, s, n)
  PROVE  Replayed(g, u, n)'
<1> SUFFICES ASSUME NEW o \in g.pre PROVE Readable(o, g, u, n)'
  BY Zenon DEF Replayed
<1>1. o.val \in Values /\ Readable(o, f, s, n)
  OBVIOUS
<1>2. o.val <= Len(history')
  BY <1>1 DEF HistoryKept, Readable, Values
<1>3. o.val \in ValuesOf(f.post, o.loc) => o.val \in ValuesOf(g.post, o.loc)
  BY DEF ValuesOf
<1>4. Excused(o.loc, o.val) => Excused(o.loc, o.val)'
  BY <1>1, ExcusedKept DEF Readable
<1> QED
  BY <1>1, <1>2, <1>3, <1>4, Zenon DEF Readable

(* So can a whole trace.                                                   *)
LEMMA AllReplayedKept ==
  ASSUME HistoryKept, NEW s \in Seq(FrameType), AllReplayed(s)
  PROVE  AllReplayed(s)'
<1> SUFFICES ASSUME NEW i \in 1..Len(s) PROVE Replayed(s[i], s, i - 1)'
  BY Zenon DEF AllReplayed
<1>1. s[i] \in FrameType /\ Replayed(s[i], s, i - 1)
  BY DEF AllReplayed
<1>2. \A o \in s[i].pre : o.val \in Values /\ Readable(o, s[i], s, i - 1)
  BY <1>1 DEF Replayed, FrameType, OperandValues
<1> QED
  BY <1>2, ReplayedKept

(* And one to which a frame is added, with some more writes.               *)
LEMMA ReplayedSaved ==
  ASSUME HistoryKept, NEW s \in Seq(FrameType), AllReplayed(s),
         NEW c \in FrameType, NEW d \in FrameType, Replayed(c, s, Len(s)),
         c.post \subseteq d.post, c.ins = d.ins, c.pre = d.pre
  PROVE  AllReplayed(Append(s, d))'
<1> DEFINE u == Append(s, d)
           k == Len(s)
<1>1. /\ k \in Nat /\ Len(u) = k + 1 /\ u[k + 1] = d
      /\ \A i \in 1..k : u[i] = s[i] /\ s[i] \in FrameType
  BY AppendProperties, LenProperties
<1>2. ASSUME NEW n \in 0..k, NEW x PROVE Latest(u, n, x) = Latest(s, n, x)
  <2>1. Kept(s, u, x)
    BY LatestAppend, Zenon
  <2> HIDE DEF u
  <2> QED
    BY <2>1 DEF Kept
<1> HIDE DEF u
<1>3. ASSUME NEW i \in 1..k PROVE Replayed(u[i], u, i - 1)'
  <2>1. u[i] = s[i] /\ s[i] \in FrameType /\ i - 1 \in 0..k /\ Replayed(s[i], s, i - 1)
    BY <1>1 DEF AllReplayed
  <2>2. \A o \in s[i].pre : o.val \in Values /\ Readable(o, s[i], s, i - 1)
    BY <2>1 DEF Replayed, FrameType, OperandValues
  <2>3. \A x : Latest(u, i - 1, x) = Latest(s, i - 1, x)
    BY <1>2, <2>1
  <2>4. Replayed(s[i], u, i - 1)'
    BY <2>2, <2>3, ReplayedKept
  <2> QED
    BY <2>1, <2>4
<1>4. Replayed(d, u, k)'
  <2>1. \A o \in d.pre : o.val \in Values /\ Readable(o, c, s, k)
    BY DEF Replayed, FrameType, OperandValues
  <2>2. \A x : Latest(u, k, x) = Latest(s, k, x)
    BY <1>1, <1>2
  <2> HIDE DEF k
  <2> QED
    BY <2>1, <2>2, ReplayedKept
<1>5. ASSUME NEW i \in 1..Len(u) PROVE Replayed(u[i], u, i - 1)'
  <2> HIDE DEF k
  <2>1. i \in 1..k \/ (i = k + 1 /\ i - 1 = k)
    BY <1>1
  <2>2. CASE i = k + 1 /\ i - 1 = k
    <3>1. u[i] = d
      BY <1>1, <2>2
    <3> QED
      BY <1>4, <2>2, <3>1
  <2> QED
    BY <1>3, <2>1, <2>2
<1>6. AllReplayed(u)'
  BY <1>5, Zenon DEF AllReplayed
<1> QED
  BY <1>6 DEF u

(* What a set of operands says of x.                                       *)
LEMMA ValuesOfBoth ==
  ASSUME NEW a, NEW b, NEW x
  PROVE  ValuesOf(a \union b, x) = ValuesOf(a, x) \union ValuesOf(b, x)
BY DEF ValuesOf

LocValues(S, f) == {[loc |-> a, val |-> f[a]] : a \in S}

(* The operands of some locations have one value for each of them.         *)
LEMMA ValuesOfLocs ==
  ASSUME NEW S, NEW f, NEW x
  PROVE  ValuesOf(LocValues(S, f), x) =
           IF x \in S THEN {f[x]} ELSE {}
<1> DEFINE V == LocValues(S, f)
<1>1. ASSUME NEW o \in V, o.loc = x PROVE x \in S /\ o.val = f[x]
  <2>1. PICK a \in S : o = [loc |-> a, val |-> f[a]]
    BY DEF LocValues
  <2> QED
    BY <1>1, <2>1
<1>2. ASSUME x \in S PROVE \E o \in V : o.loc = x /\ o.val = f[x]
  <2>1. [loc |-> x, val |-> f[x]] \in V
    BY <1>2 DEF LocValues
  <2> QED
    BY <2>1
<1> HIDE DEF V
<1>3. ValuesOf(V, x) = IF x \in S THEN {f[x]} ELSE {}
  BY <1>1, <1>2 DEF ValuesOf
<1> QED
  BY <1>3 DEF V

(* The operands of some registers and addresses say what these hold, and   *)
(* nothing of others.                                                      *)
Says(t, values, locs) ==
  \A x : /\ x \in locs => Holding(t, x) \in ValuesOf(values, x)
         /\ x \notin locs => ValuesOf(values, x) = {}

(* So do those the routines record.                                        *)
LEMMA ValuesSay ==
  ASSUME NEW t, NEW rs \in SUBSET Regs, NEW as \in SUBSET Addrs
  PROVE  /\ Says(t, RegValues(t, rs), rs)
         /\ Says(t, MemValues(as), as)
         /\ Says(t, RegValues(t, rs) \union MemValues(as), rs \union as)
<1>1. Says(t, RegValues(t, rs), rs)
  <2> DEFINE f == regs[t]
             V == RegValues(t, rs)
  <2>1. V = LocValues(rs, f)
    BY DEF RegValues, LocValues
  <2>2. \A x \in rs : Holding(t, x) = f[x]
    BY DEF Holding
  <2> HIDE DEF f, V
  <2>3. ASSUME NEW x PROVE ValuesOf(V, x) = IF x \in rs THEN {f[x]} ELSE {}
    BY <2>1, ValuesOfLocs
  <2>4. Says(t, V, rs)
    BY <2>2, <2>3 DEF Says
  <2> QED
    BY <2>4 DEF V
<1>2. Says(t, MemValues(as), as)
  <2> DEFINE V == MemValues(as)
  <2>1. V = LocValues(as, mem)
    BY DEF MemValues, LocValues
  <2>2. \A x \in as : Holding(t, x) = mem[x]
    BY DEF Holding
  <2> HIDE DEF V
  <2>3. ASSUME NEW x PROVE ValuesOf(V, x) = IF x \in as THEN {mem[x]} ELSE {}
    BY <2>1, ValuesOfLocs, ZenonT(60)
  <2>4. Says(t, V, as)
    BY <2>2, <2>3 DEF Says
  <2> QED
    BY <2>4 DEF V
<1>3. Says(t, RegValues(t, rs) \union MemValues(as), rs \union as)
  <2> DEFINE a == RegValues(t, rs)
             b == MemValues(as)
  <2>1. ASSUME NEW x
        PROVE  ValuesOf(a \union b, x) = ValuesOf(a, x) \union ValuesOf(b, x)
    <3> HIDE DEF a, b
    <3> QED
      BY ValuesOfBoth
  <2>2. Says(t, a, rs) /\ Says(t, b, as)
    BY <1>1, <1>2
  <2> HIDE DEF a, b
  <2>3. Says(t, a \union b, rs \union as)
    BY <2>1, <2>2 DEF Says
  <2> QED
    BY <2>3 DEF a, b
<1> QED
  BY <1>1, <1>2, <1>3

(* A known value that no write is waiting for can be replayed.             *)
LEMMA KnownReadable ==
  ASSUME NEW c \in FrameType, NEW s, NEW o, NEW w,
         o.loc \notin w, KnownAs(c, s, o.loc, o.val, w),
         c.post # {} => c.ins.op = "rep"
  PROVE  Readable(o, c, s, Len(s))
<1>1. c # None
  OBVIOUS
<1>2. CASE ValuesOf(c.post, o.loc) # {}
  <2>1. c.ins.op = "rep"
    BY <1>2 DEF ValuesOf
  <2> QED
    BY <1>1, <1>2, <2>1 DEF KnownAs, Believed, Readable
<1>3. CASE ValuesOf(c.post, o.loc) = {}
  BY <1>1, <1>3 DEF KnownAs, Believed, Readable
<1> QED
  BY <1>2, <1>3

(* It remains known when values are recorded, of x or of others, while     *)
(* more may be waiting.                                                    *)
LEMMA KnownRecorded ==
  ASSUME HistoryKept, NEW c, NEW d, c # None, d # None, NEW s, NEW x,
         NEW v \in Values, NEW w, NEW w2, KnownAs(c, s, x, v, w),
         NEW values, NEW locs, d.post = c.post \union values,
         x \in locs => v \in ValuesOf(values, x),
         x \notin locs => ValuesOf(values, x) = {},
         x \in w => x \in w2 \/ x \in locs
  PROVE  KnownAs(d, s, x, v, w2)'
<1>1. v <= Len(history')
  BY DEF KnownAs, HistoryKept, Values
<1>2. Excused(x, v) => Excused(x, v)'
  BY ExcusedKept DEF KnownAs
<1>3. ValuesOf(d.post, x) = ValuesOf(c.post, x) \union ValuesOf(values, x)
  BY ValuesOfBoth
<1>4. x \in locs \/ v \in Believed(c, s, x) => v \in Believed(d, s, x)
  BY <1>3 DEF Believed
<1> QED
  BY <1>1, <1>2, <1>4 DEF KnownAs

(* It remains known when nothing is recorded.                              *)
LEMMA KnownMore ==
  ASSUME HistoryKept, NEW c, NEW d, c # None, d # None, d.post = c.post, NEW s,
         NEW x, NEW v \in Values, NEW w, NEW w2, w \subseteq w2,
         KnownAs(c, s, x, v, w)
  PROVE  KnownAs(d, s, x, v, w2)'
<1>1. v <= Len(history')
  BY DEF KnownAs, HistoryKept, Values
<1>2. Excused(x, v) => Excused(x, v)'
  BY ExcusedKept DEF KnownAs
<1>3. Believed(c, s, x) = Believed(d, s, x)
  BY DEF Believed
<1> QED
  BY <1>1, <1>2, <1>3 DEF KnownAs

(* A frame that has been saved is believed as before.                      *)
LEMMA BelievedSaved ==
  ASSUME NEW s \in Seq(FrameType), NEW d \in FrameType, NEW e \in FrameType,
         e.post = {}, NEW x
  PROVE  Believed(e, Append(s, d), x) = Believed(d, s, x)
<1>1. Counts(s, d, Append(s, d), x)
  BY LatestAppend, Zenon
<1>2. Len(Append(s, d)) = Len(s) + 1
  BY AppendProperties
<1>3. ValuesOf(e.post, x) = {} /\ d # None /\ e # None
  BY DEF ValuesOf
<1> DEFINE u == Append(s, d)
<1> HIDE DEF u
<1> QED
  BY <1>1, <1>2, <1>3, Zenon DEF Believed, Counts, u

(* As long as there is no frame only the container counts.                 *)
LEMMA BelievedFirst ==
  ASSUME NEW s, NEW e \in FrameType, e.post = {}, NEW x
  PROVE  Believed(e, s, x) = Believed(None, s, x)
BY DEF Believed, ValuesOf

(* The history of instructions begun only grows.                           *)
LEMMA HistoryGrows ==
  ASSUME TypeInv, [Next]_vars
  PROVE  HistoryKept
<1>0. TypeOK /\ history \in History /\ Len(history) \in Nat /\ DOMAIN history = 1..Len(history)
  BY LenProperties DEF TypeInv, TypeOK, History
<1>1. UNCHANGED knobs
  BY DEF Next, Terminated, vars, knobs
<1>2. CASE UNCHANGED history
  BY <1>0, <1>1, <1>2 DEF HistoryKept
<1>3. ASSUME NEW t \in Threads, CodeExec(t) PROVE HistoryKept
  <2>1. PICK ins \in Insns : history' = Append(history, [tid |-> t, ins |-> ins, wrote |-> {}])
    BY <1>3 DEF CodeExec, Begin
  <2>2. /\ Len(history') = Len(history) + 1
        /\ \A n \in 1..Len(history) : history'[n] = history[n]
    <3> DEFINE h == [tid |-> t, ins |-> ins, wrote |-> {}]
               H == [tid : Threads, ins : Insns, wrote : SUBSET Locs]
    <3>1. h \in H /\ history \in Seq(H) /\ history' = Append(history, h)
      BY <1>0, <2>1 DEF History
    <3> HIDE DEF H, h
    <3> QED
      BY <3>1, AppendProperties
  <2> QED
    BY <1>0, <1>1, <2>2 DEF HistoryKept
<1>4. ASSUME NEW t \in Threads, insn[t] # None, NEW locs \in SUBSET Locs,
             Wrote(insn[t].no, locs)
      PROVE  HistoryKept
  <2>1. /\ Len(history') = Len(history)
        /\ \A n \in DOMAIN history : n # insn[t].no => history'[n] = history[n]
        /\ history'[insn[t].no].ins = history[insn[t].no].ins
    BY <1>4, WroteTypes
  <2> QED
    BY <1>0, <1>1, <2>1 DEF HistoryKept
<1>5. ASSUME NEW t \in Threads, Execute(t) \/ ExecuteCmpxchg(t) PROVE HistoryKept
  <2>1. insn[t] # None
    BY <1>5 DEF Execute, ExecuteCmpxchg, At, TypeInv
  <2>2. PICK rs \in SUBSET Regs, as \in SUBSET Addrs : Wrote(insn[t].no, rs \union as)
    <3>1. CASE Execute(t)
      BY <2>1, <3>1, ExecuteWrites
    <3>2. CASE ExecuteCmpxchg(t)
      BY <2>1, <3>2, CmpxchgWrites
    <3> QED
      BY <1>5, <3>1, <3>2
  <2>3. rs \union as \in SUBSET Locs
    BY DEF Locs
  <2> QED
    BY <1>4, <2>1, <2>2, <2>3
<1>6. ASSUME NEW t \in Threads,
             \/ CodeExecIteration(t) \/ Read(t) \/ RememberWrite(t) \/ Load(t)
             \/ RememberStore(t) \/ WriteAfter(t) \/ StoreAfter(t) \/ ModLoad(t)
             \/ Fini(t) \/ KernelWrites(t) \/ Fault(t)
      PROVE  UNCHANGED history
  BY <1>6 DEF CodeExecIteration, Read, RememberWrite, Load, RememberStore, WriteAfter,
     StoreAfter, ModLoad, Fini, KernelWrites, Fault
<1>7. CASE UNCHANGED vars
  BY <1>2, <1>7 DEF vars
<1> QED
  BY <1>2, <1>3, <1>5, <1>6, <1>7 DEF Next, Terminated

(* The locations of a thread have values.                                  *)
LEMMA HoldingTypes ==
  ASSUME TypeOK, NEW t \in Threads
  PROVE  \A x \in Locs : Holding(t, x) \in Values
BY DEF TypeOK, Locs, Holding

(* Of the locations only some in locs change, to no.                       *)
Becomes(t, locs, no) ==
  \A x \in Locs : \/ Holding(t, x)' = Holding(t, x)
                  \/ Holding(t, x)' = no /\ x \in locs

(* What a write leaves in a location.                                      *)
LEMMA MachineWrites ==
  ASSUME TypeOK, NEW t \in Threads, NEW rs, NEW as, NEW no, Write(t, rs, as, no)
  PROVE  Becomes(t, rs \union as, no)
<1>1. \A r \in Regs : regs'[t][r] = IF r \in rs THEN no ELSE regs[t][r]
  BY DEF Write, TypeOK
<1>2. \A a \in Addrs : mem'[a] = IF a \in as THEN no ELSE mem[a]
  BY DEF Write
<1> QED
  BY <1>1, <1>2 DEF Holding, Locs, Becomes

(* What was known of x still is after the step, with the frame d for c.    *)
KnownStill(t, c, s, d) ==
  \A x \in Locs : \A v, v2, w, w2 :
    /\ v = Holding(t, x) /\ v2 = Holding(t, x)'
    /\ w = Waiting(t) /\ w2 = Waiting(t)'
    /\ KnownAs(c, s, x, v, w)
    => KnownAs(d, s, x, v2, w2)'

(* A step that saves nothing in the container.                             *)
LEMMA ReplayStep ==
  ASSUME ReplayInv, [Next]_vars, ValuesInv', WritesInv', NEW t \in Threads,
         status = "running", UNCHANGED <<out, status>>,
         NEW s, s = Std(out), NEW c \in FrameType, c = current,
         NEW d \in FrameType, d = current', d.ins = c.ins, c.post \subseteq d.post,
         \A o \in d.pre : o \in c.pre \/ (o \in OperandValues /\ Readable(o, c, s, Len(s))),
         Unremembered(t)', KnownStill(t, c, s, d)
  PROVE  ReplayInv'
<1>0. TypeInv /\ TypeOK /\ c # None
  BY DEF ReplayInv, WritesInv, PlaceInv, TypeInv
<1>1. HistoryKept /\ s \in Seq(FrameType)
  BY <1>0, HistoryGrows, TraceIs
<1>2. AllReplayed(s) /\ Replayed(c, s, Len(s)) /\ ReplayHere(t)
  BY <1>0 DEF ReplayInv
<1>3. AllReplayed(s)'
  BY <1>1, <1>2, AllReplayedKept
<1>4. Replayed(d, s, Len(s))'
  <2>1. ASSUME NEW o \in d.pre PROVE o.val \in Values /\ Readable(o, c, s, Len(s))
    BY <1>2 DEF Replayed, FrameType, OperandValues
  <2> DEFINE k == Len(s)
  <2> HIDE DEF k
  <2> QED
    BY <1>1, <2>1, ReplayedKept DEF k
<1>5. ASSUME NEW x \in Locs, NEW v2, NEW w2, v2 = Holding(t, x)', w2 = Waiting(t)'
      PROVE  KnownAs(d, s, x, v2, w2)'
  <2>1. PICK v, w : v = Holding(t, x) /\ w = Waiting(t)
    OBVIOUS
  <2>2. KnownAs(c, s, x, v, w)
    BY <1>2, <2>1 DEF ReplayHere, Known
  <2> QED
    BY <1>5, <2>1, <2>2, Zenon DEF KnownStill
<1>6. ASSUME NEW u \in Threads
      PROVE  /\ Unremembered(u)'
             /\ \A x \in Locs : \E v, w :
                  v = Holding(u, x)' /\ w = Waiting(u)' /\ KnownAs(d, s, x, v, w)'
  <2>1. u = t
    BY OneThread
  <2>2. ASSUME NEW x \in Locs
        PROVE  \E v, w : v = Holding(t, x)' /\ w = Waiting(t)' /\ KnownAs(d, s, x, v, w)'
    BY <1>5, Zenon
  <2> QED
    BY <2>1, <2>2, Zenon
<1>7. Std(out)' = s /\ current' = d
  BY DEF Std
<1> QED
  BY <1>3, <1>4, <1>6, <1>7, ReplayIntroNext, Zenon DEF ReplayIntro

(* A flag that is written is recorded, or left out by the splitter.        *)
LEMMA FlagsTraced ==
  ASSUME NEW ins \in Insns, NEW f \in FlagsChanged(ins, FALSE), f \notin FlagsWritten(ins)
  PROVE  f \in Untraced(ins)
<1>1. f \in Flags /\ ins.affects[f] \notin {"N", "TST", "UND", "M_U"} /\ ins.affects[f] \in affect
  BY InsnTypes DEF FlagsChanged
<1>2. split = "insn"
  BY <1>1 DEF FlagsWritten, FlagsIf
<1>3. ~ins.listed
  BY <1>1, <1>2 DEF FlagsWritten, FlagsIf, affect
<1> QED
  BY <1>1, <1>2, <1>3 DEF Untraced

(* Values are recorded, and are then no longer waiting.                    *)
LEMMA KnownWhenRecorded ==
  ASSUME TypeOK, HistoryKept, NEW t \in Threads, UNCHANGED <<regs, mem>>,
         NEW c, NEW d, c # None, d # None, NEW s,
         NEW values, NEW locs, Says(t, values, locs), d.post = c.post \union values,
         Waiting(t) \subseteq Waiting(t)' \union locs
  PROVE  KnownStill(t, c, s, d)
<1> SUFFICES ASSUME NEW x \in Locs, NEW v, NEW v2, NEW w, NEW w2,
                    v = Holding(t, x), v2 = Holding(t, x)',
                    w = Waiting(t), w2 = Waiting(t)', KnownAs(c, s, x, v, w)
             PROVE  KnownAs(d, s, x, v2, w2)'
  BY Zenon DEF KnownStill
<1>1. v2 = v
  BY DEF Holding
<1>2. v \in Values
  BY HoldingTypes
<1>3. x \in locs => v \in ValuesOf(values, x)
  BY Zenon DEF Says
<1>4. x \notin locs => ValuesOf(values, x) = {}
  BY Zenon DEF Says
<1>5. x \in w => x \in w2 \/ x \in locs
  OBVIOUS
<1>6. KnownAs(d, s, x, v, w2)'
  BY <1>2, <1>3, <1>4, <1>5, KnownRecorded
<1> QED
  BY <1>1, <1>6

(* Nothing is recorded, and more may be waiting.                           *)
LEMMA KnownWhenWaiting ==
  ASSUME TypeOK, HistoryKept, NEW t \in Threads, UNCHANGED <<regs, mem>>,
         NEW c, NEW d, c # None, d # None, NEW s, d.post = c.post,
         Waiting(t) \subseteq Waiting(t)'
  PROVE  KnownStill(t, c, s, d)
<1>1. Says(t, {}, {}) /\ d.post = c.post \union {}
  BY DEF Says, ValuesOf
<1> QED
  BY <1>1, KnownWhenRecorded

(* The machine writes, to locations that are waiting or excused.           *)
LEMMA KnownWhenWritten ==
  ASSUME TypeOK, HistoryKept, NEW t \in Threads, NEW c, c # None, NEW s,
         NEW rs, NEW as, NEW no, Write(t, rs, as, no),
         \A x \in Locs : x \in rs \union as =>
           no <= Len(history') /\ (x \in Waiting(t)' \/ Excused(x, no)'),
         Waiting(t) \subseteq Waiting(t)'
  PROVE  KnownStill(t, c, s, c)
<1> SUFFICES ASSUME NEW x \in Locs, NEW v, NEW v2, NEW w, NEW w2,
                    v = Holding(t, x), v2 = Holding(t, x)',
                    w = Waiting(t), w2 = Waiting(t)', KnownAs(c, s, x, v, w)
             PROVE  KnownAs(c, s, x, v2, w2)'
  BY Zenon DEF KnownStill
<1>1. v2 = v \/ (v2 = no /\ x \in rs \union as)
  <2>1. Becomes(t, rs \union as, no)
    BY MachineWrites
  <2> QED
    BY <2>1, Zenon DEF Becomes
<1>2. CASE v2 = v
  <2>1. v \in Values
    BY HoldingTypes
  <2>2. KnownAs(c, s, x, v, w2)'
    BY <2>1, KnownMore
  <2> QED
    BY <1>2, <2>2
<1>3. CASE v2 = no /\ x \in rs \union as
  <2>1. v2 <= Len(history') /\ (x \in w2 \/ Excused(x, v2)')
    BY <1>3
  <2> QED
    BY <2>1, Zenon DEF KnownAs
<1> QED
  BY <1>1, <1>2, <1>3

(* Before an instruction nothing of what it reads is waiting.              *)
LEMMA ReadsAreKnown ==
  ASSUME ReplayInv, NEW t \in Threads, status = "running", insn[t] # None,
         pc[t] \in {"read", "load"},
         NEW s, s = Std(out), NEW c \in FrameType, c = current,
         NEW o, o.loc \in Locs, o.loc \notin m_regs, o.loc \notin m_mems,
         o.val = Holding(t, o.loc)
  PROVE  Readable(o, c, s, Len(s))
<1>1. ValuesHere(t) /\ Place(t) /\ ReplayHere(t)
  BY DEF ReplayInv, ValuesInv, PlaceInv
<1>2. c.post # {} => c.ins.op = "rep"
  BY <1>1 DEF ValuesHere, Before, Place
<1>3. PICK w : w = Waiting(t)
  OBVIOUS
<1>4. o.loc \notin w
  BY <1>3 DEF Waiting
<1>5. KnownAs(c, s, o.loc, o.val, w)
  BY <1>1, <1>3 DEF ReplayHere, Known
<1> QED
  BY <1>2, <1>4, <1>5, KnownReadable

(* CMPXCHG writes what is then recorded, but for a register that is not,   *)
(* and for flags that are left out.                                        *)
LEMMA CmpxchgKnown ==
  ASSUME TypeInv, NEW t \in Threads, insn[t] # None, ExecuteCmpxchg(t)
  PROVE  \E rs \in SUBSET Regs, as \in SUBSET Addrs :
           /\ Write(t, rs, as, insn[t].no) /\ Wrote(insn[t].no, rs \union as)
           /\ \A r \in rs : r \in Flags =>
                r \in CmpxchgRegs(insn[t].ins, zf'[t]) \union Untraced(insn[t].ins)
           /\ \A a \in as : zf'[t] /\ a \in Stores(insn[t].ins)
<1> DEFINE ins == insn[t].ins
<1>1. ins.op = "cmpxchg" /\ ins \in Insns /\ Len(ins.ops) = 4
  BY InsnOf, BptAssumption DEF ExecuteCmpxchg
<1>2. PICK equal \in BOOLEAN :
        LET ops == ins.ops
            dest == IF equal THEN ops[1] ELSE ops[3]
            rs == FlagsChanged(ins, FALSE) \union
                  (IF dest.kind = "reg" THEN {dest.reg} ELSE {})
            as == IF dest.kind = "mem" THEN {dest.addr} ELSE {}
        IN  /\ zf' = [zf EXCEPT ![t] = equal]
            /\ Write(t, rs, as, insn[t].no) /\ Wrote(insn[t].no, rs \union as)
  BY DEF ExecuteCmpxchg
<1>3. zf'[t] = equal
  BY <1>2 DEF TypeInv, TypeOK
<1>4. PICK dest : dest = IF equal THEN ins.ops[1] ELSE ins.ops[3]
  OBVIOUS
<1>5. PICK rs, as :
        /\ rs = FlagsChanged(ins, FALSE) \union
                  (IF dest.kind = "reg" THEN {dest.reg} ELSE {})
        /\ as = IF dest.kind = "mem" THEN {dest.addr} ELSE {}
  OBVIOUS
<1>6. Write(t, rs, as, insn[t].no) /\ Wrote(insn[t].no, rs \union as)
  BY <1>2, <1>4, <1>5
<1>7. dest \in OperandType /\ dest \in Operands(ins)
  <2>1. ins.ops[1] \in OperandType /\ ins.ops[3] \in OperandType
    BY <1>1, InsnTypes
  <2>2. ins.ops \in Seq(OperandType)
    BY <1>1, BptAssumption DEF InsnType
  <2>3. 1 \in DOMAIN ins.ops /\ 3 \in DOMAIN ins.ops
    BY <1>1, <2>2
  <2> QED
    BY <1>4, <2>1, <2>3 DEF Operands
<1>8. rs \in SUBSET Regs /\ as \in SUBSET Addrs
  BY <1>5, <1>7 DEF OperandType, FlagsChanged
<1>9. ASSUME NEW r \in rs, r \in Flags
      PROVE  r \in CmpxchgRegs(ins, zf'[t]) \union Untraced(ins)
  <2>1. r \in FlagsChanged(ins, FALSE)
    BY <1>1, <1>5, <1>7, <1>9, InsnAssumption
  <2>2. CASE r \in FlagsWritten(ins)
    BY <2>2 DEF CmpxchgRegs
  <2>3. CASE r \notin FlagsWritten(ins)
    BY <1>1, <2>1, <2>3, FlagsTraced
  <2> QED
    BY <2>2, <2>3
<1>10. ASSUME NEW a \in as PROVE zf'[t] /\ a \in Stores(ins)
  <2>1. dest.kind = "mem" /\ a = dest.addr
    BY <1>5
  <2>2. equal /\ dest.written
    BY <1>1, <1>4, <2>1, InsnAssumption
  <2> QED
    BY <1>3, <1>7, <2>1, <2>2 DEF Stores
<1> QED
  BY <1>6, <1>8, <1>9, <1>10

(* Initially nothing is recorded, and every location holds 0.              *)
LEMMA ReplayInit == Init => ReplayInv
<1> SUFFICES ASSUME Init PROVE ReplayInv
  OBVIOUS
<1>1. /\ TypeOK /\ current = None /\ out = Nothing /\ Len(history) = 0 /\ Nothing = <<>>
      /\ Len(Nothing) = 0 /\ m_regs = {} /\ m_mems = {}
      /\ \A t \in Threads : \A x \in Locs : Holding(t, x) = 0
  BY TypeInit DEF Init, Nothing, TypeInv, Holding, Locs
<1>2. Std(out) = Nothing
  <2>1. out \in Entries
    BY <1>1 DEF TypeOK, Entries
  <2>2. Std(out) = Images(Nothing, Itself)
    BY <1>1, <2>1, StdIsImages, Zenon
  <2> QED
    BY <1>1, <2>2, ImagesEmpty, Zenon
<1>3. AllReplayed(Nothing)
  BY <1>1 DEF AllReplayed
<1>4. ASSUME NEW x PROVE Latest(Nothing, 0, x) = {0}
  <2>1. WritersUpTo(Nothing, 0, x) = {}
    BY DEF WritersUpTo
  <2> QED
    BY <2>1 DEF Latest, LatestOf
<1>5. ASSUME NEW t \in Threads, NEW x \in Locs PROVE Known(t, x)
  <2>1. 0 \in Believed(None, Nothing, x)
    BY <1>1, <1>4, Zenon DEF Believed
  <2>2. 0 <= Len(history)
    BY <1>1
  <2> QED
    BY <1>1, <1>2, <2>1, <2>2, Zenon DEF Known, KnownAs
<1>6. \A t \in Threads : Unremembered(t)
  BY <1>1, Zenon DEF Unremembered
<1>7. ValuesInv /\ WritesInv
  BY ValuesInit, WritesInit
<1> QED
  BY <1>1, <1>2, <1>3, <1>5, <1>6, <1>7, Zenon DEF ReplayInv, ReplayHere

(* A step that changes nothing but for an image in the container.          *)
LEMMA ReplaySame ==
  ASSUME ReplayInv, [Next]_vars, ValuesInv', WritesInv', Std(out)' = Std(out),
         UNCHANGED <<pc, insn, machine, pending, current, history, status>>
  PROVE  ReplayInv'
<1>0. TypeInv /\ TypeOK /\ current \in FrameType \union {None}
  BY DEF ReplayInv, WritesInv, PlaceInv, TypeInv, TypeOK
<1>1. PICK s, c : s = Std(out) /\ c = current
  OBVIOUS
<1>2. HistoryKept /\ s \in Seq(FrameType)
  BY <1>0, <1>1, HistoryGrows, TraceIs
<1>3. AllReplayed(s)'
  <2>1. AllReplayed(s)
    BY <1>1 DEF ReplayInv
  <2> QED
    BY <1>2, <2>1, AllReplayedKept
<1>4. ASSUME c # None PROVE Replayed(c, s, Len(s))'
  <2>1. Replayed(c, s, Len(s)) /\ c \in FrameType
    BY <1>0, <1>1, <1>4 DEF ReplayInv
  <2>2. ASSUME NEW o \in c.pre PROVE o.val \in Values /\ Readable(o, c, s, Len(s))
    BY <2>1 DEF Replayed, FrameType, OperandValues
  <2> DEFINE k == Len(s)
  <2> HIDE DEF k
  <2> QED
    BY <1>2, <2>2, ReplayedKept DEF k
<1>5. ASSUME status = "running", NEW t \in Threads
      PROVE  /\ Unremembered(t)'
             /\ \A x \in Locs : \E v, w :
                  v = Holding(t, x)' /\ w = Waiting(t)' /\ KnownAs(c, s, x, v, w)'
  <2>1. Unremembered(t)'
    BY <1>5 DEF Unremembered, ReplayInv, ReplayHere, pending
  <2>2. ASSUME NEW x \in Locs
        PROVE  \E v, w : v = Holding(t, x)' /\ w = Waiting(t)' /\ KnownAs(c, s, x, v, w)'
    <3>1. PICK v, w : v = Holding(t, x) /\ w = Waiting(t)
      OBVIOUS
    <3>2. KnownAs(c, s, x, v, w)
      BY <1>1, <1>5, <3>1 DEF ReplayInv, ReplayHere, Known
    <3>3. v = Holding(t, x)' /\ w = Waiting(t)'
      <4>1. Holding(t, x)' = Holding(t, x)
        BY DEF Holding, machine
      <4>2. /\ insn[t]' = insn[t] /\ zf[t]' = zf[t] /\ pc[t]' = pc[t]
            /\ m_regs' = m_regs /\ m_mems' = m_mems
        BY DEF machine, pending
      <4>3. CmpxchgRegs(insn[t].ins, zf[t])' = CmpxchgRegs(insn[t].ins, zf[t])
        BY <1>2, <4>2 DEF HistoryKept, knobs, CmpxchgRegs, FlagsWritten, FlagsIf
      <4>4. Stores(insn[t].ins)' = Stores(insn[t].ins)
        BY <4>2 DEF Stores, Operands
      <4> QED
        BY <3>1, <4>1, <4>2, <4>3, <4>4 DEF Waiting
    <3>4. v <= Len(history')
      BY <3>2 DEF KnownAs
    <3>5. Excused(x, v) => Excused(x, v)'
      <4>1. v \in Values
        BY <1>0, <3>1, HoldingTypes
      <4> QED
        BY <1>2, <3>2, <4>1, ExcusedKept DEF KnownAs
    <3> QED
      BY <3>2, <3>3, <3>4, <3>5, Zenon DEF KnownAs
  <2> QED
    BY <2>1, <2>2
<1>6. Std(out)' = s /\ current' = c /\ status' = status
  BY <1>1
<1> QED
  BY <1>3, <1>4, <1>5, <1>6, ReplayIntroNext, Zenon DEF ReplayIntro

(* The container when the frame of a thread is added to it.                *)
LEMMA StdAdded ==
  ASSUME TypeOK, NEW d \in FrameType \union {None}, out' = Added(d)
  PROVE  Std(out)' = IF d = None THEN Std(out) ELSE Append(Std(out), d)
<1>1. out \in Entries
  BY DEF TypeOK, Entries
<1>2. Std(out)' = Std(out')
  BY DEF Std
<1>3. CASE d = None
  BY <1>2, <1>3, Zenon DEF Added
<1>4. CASE d # None
  <2>1. d \in FrameType
    BY <1>4
  <2>2. \A f \in FrameType : Std(Append(out, f)) = Append(Std(out), f)
    BY <1>1, StdFacts
  <2>3. Std(Append(out, d)) = Append(Std(out), d)
    BY <2>1, <2>2, Zenon
  <2> QED
    BY <1>2, <1>4, <2>3, Zenon DEF Added
<1> QED
  BY <1>3, <1>4

(* The last frame is added without the writes that are remembered.         *)
LEMMA ReplayFini ==
  ASSUME ReplayInv, [Next]_vars, ValuesInv', WritesInv', NEW t \in Threads, Fini(t)
  PROVE  ReplayInv'
<1>0. TypeInv /\ TypeOK /\ current \in FrameType \union {None}
  BY DEF ReplayInv, WritesInv, PlaceInv, TypeInv, TypeOK
<1>1. PICK s, c : s = Std(out) /\ c = current
  OBVIOUS
<1>2. HistoryKept /\ s \in Seq(FrameType)
  BY <1>0, <1>1, HistoryGrows, TraceIs
<1>3. PICK u : u = IF c = None THEN s ELSE Append(s, c)
  OBVIOUS
<1>4. Std(out)' = u /\ current' = None /\ status' # "running"
  <2>1. out' = Added(current) /\ current' = None /\ status' # "running"
    BY DEF Fini
  <2> QED
    BY <1>0, <1>1, <1>3, <2>1, StdAdded, Zenon
<1>5. AllReplayed(s) /\ (c # None => c \in FrameType /\ Replayed(c, s, Len(s)))
  BY <1>0, <1>1 DEF ReplayInv
<1>6. AllReplayed(u)'
  <2>1. CASE c = None
    <3>1. AllReplayed(s)'
      BY <1>2, <1>5, AllReplayedKept
    <3> QED
      BY <1>3, <2>1, <3>1, Zenon
  <2>2. CASE c # None
    <3>1. AllReplayed(Append(s, c))'
      BY <1>2, <1>5, <2>2, ReplayedSaved
    <3> QED
      BY <1>3, <2>2, <3>1, Zenon
  <2> QED
    BY <2>1, <2>2
<1> QED
  BY <1>4, <1>6, ReplayIntroNext, Zenon DEF ReplayIntro

(* The next instruction begins: the frame of the last gets what was        *)
(* remembered, and is saved.                                               *)
LEMMA ReplayBegin ==
  ASSUME ReplayInv, [Next]_vars, ValuesInv', WritesInv', NEW t \in Threads,
         CodeExec(t)
  PROVE  ReplayInv'
<1>0. TypeInv /\ TypeOK /\ current \in FrameType \union {None} /\ TypeOK'
  BY DEF ReplayInv, WritesInv, ValuesInv, PlaceInv, TypeInv, TypeOK
<1>1. PICK s, c : s = Std(out) /\ c = current
  OBVIOUS
<1>2. HistoryKept /\ s \in Seq(FrameType)
  BY <1>0, <1>1, HistoryGrows, TraceIs
<1>3. PICK ins \in Insns, count \in 1..MaxRep, on \in BOOLEAN :
        Begin(t, ins, count, on) /\ NewFrame(t, ins)
  BY DEF CodeExec
<1>4. /\ status = "running" /\ pc[t] = "code_exec" /\ pc'[t] = "read"
      /\ out' = Added(Updated(t)) /\ current' = Frame(t, Len(history'), ins)
      /\ m_regs' = {} /\ m_mems' = {} /\ UNCHANGED <<regs, mem, zf>>
  BY <1>0, <1>3 DEF Begin, NewFrame, At, Go, machine, TypeOK
<1>5. PICK e : e = current'
  OBVIOUS
<1>6. e \in FrameType /\ e # None /\ e.pre = {} /\ e.post = {}
  <2>1. e.pre = {} /\ e.post = {} /\ e # None
    <3>1. e.pre = {} /\ e.post = {}
      BY <1>4, <1>5 DEF Frame
    <3>2. status' = "running" /\ pc'[t] # "code_exec"
      BY <1>3, <1>4 DEF Begin
    <3> QED
      BY <1>0, <1>5, <3>1, <3>2 DEF TypeOK
  <2> QED
    BY <1>0, <1>5, <2>1 DEF TypeOK
<1>7. PICK d : d = Updated(t)
  OBVIOUS
<1>8. d \in FrameType \union {None} /\ (d = None <=> c = None)
  BY <1>0, <1>1, <1>7, UpdatedTypes
<1>9. PICK u : u = IF d = None THEN s ELSE Append(s, d)
  OBVIOUS
<1>10. Std(out)' = u
  BY <1>0, <1>1, <1>4, <1>7, <1>8, <1>9, StdAdded, Zenon
<1>11. Place(t) /\ ReplayHere(t) /\ AllReplayed(s)
  BY <1>1, <1>4 DEF ReplayInv, ValuesInv, PlaceInv
<1>12. Replayed(e, u, Len(u))'
  BY <1>6, Zenon DEF Replayed
<1>13. Unremembered(t)'
  BY <1>4 DEF Unremembered
<1>14. Waiting(t) = m_regs \union m_mems /\ Waiting(t)' = {}
  BY <1>4 DEF Waiting
<1>15. AllReplayed(u)' /\ KnownStill(t, c, s, d) /\ \A x : Believed(e, u, x) = Believed(d, s, x)
  <2>1. CASE c = None
    <3>1. u = s /\ d = None
      BY <1>8, <1>9, <2>1, Zenon
    <3>2. AllReplayed(s)'
      BY <1>2, <1>11, AllReplayedKept
    <3>3. \A x : Believed(e, s, x) = Believed(None, s, x)
      BY <1>6, BelievedFirst
    <3>4. insn[t] = None
      BY <1>1, <1>11, <2>1 DEF Place
    <3>5. Waiting(t) = {}
      BY <1>11, <1>14, <3>4 DEF Place
    <3>6. KnownStill(t, None, s, None)
      <4> SUFFICES ASSUME NEW x \in Locs, NEW v, NEW v2, NEW w, NEW w2,
                          v = Holding(t, x), v2 = Holding(t, x)',
                          w = Waiting(t), w2 = Waiting(t)', KnownAs(None, s, x, v, w)
                   PROVE  KnownAs(None, s, x, v2, w2)'
        BY Zenon DEF KnownStill
      <4>1. v2 = v /\ w = {} /\ w2 = {}
        BY <1>4, <1>14, <3>5 DEF Holding
      <4>2. v \in Values
        BY <1>0, HoldingTypes
      <4>3. v <= Len(history')
        BY <1>2, <4>2 DEF KnownAs, HistoryKept, Values
      <4>4. Excused(x, v) => Excused(x, v)'
        BY <1>2, <4>2, ExcusedKept DEF KnownAs
      <4> QED
        BY <4>1, <4>3, <4>4 DEF KnownAs
    <3> QED
      BY <2>1, <3>1, <3>2, <3>3, <3>6
  <2>2. CASE c # None
    <3>1. u = Append(s, d) /\ d # None /\ d \in FrameType /\ c \in FrameType
      BY <1>0, <1>1, <1>8, <1>9, <2>2
    <3>2. PICK values : values = RegValues(t, m_regs) \union MemValues(m_mems)
      OBVIOUS
    <3>3. /\ d.post = c.post \union values /\ d.ins = c.ins /\ d.pre = c.pre
          /\ c.post \subseteq d.post
      <4>1. d = [c EXCEPT !.post = @ \union RegValues(t, m_regs) \union MemValues(m_mems)]
        BY <1>1, <1>7, <2>2 DEF Updated
      <4> QED
        BY <3>1, <3>2, <4>1 DEF FrameType
    <3>4. Replayed(c, s, Len(s))
      BY <1>1, <2>2 DEF ReplayInv
    <3>5. AllReplayed(Append(s, d))'
      BY <1>2, <1>11, <3>1, <3>3, <3>4, ReplayedSaved
    <3>6. PICK locs : locs = m_regs \union m_mems
      OBVIOUS
    <3>7. Says(t, values, locs)
      <4>1. m_regs \in SUBSET Regs /\ m_mems \in SUBSET Addrs
        BY <1>0 DEF TypeOK
      <4> QED
        BY <3>2, <3>6, <4>1, ValuesSay
    <3>8. KnownStill(t, c, s, d)
      BY <1>0, <1>2, <1>4, <1>14, <2>2, <3>1, <3>3, <3>6, <3>7, KnownWhenRecorded
    <3>9. \A x : Believed(e, Append(s, d), x) = Believed(d, s, x)
      BY <1>2, <1>6, <3>1, BelievedSaved
    <3> QED
      BY <3>1, <3>5, <3>8, <3>9, Zenon
  <2> QED
    BY <2>1, <2>2
<1>16. ASSUME NEW x \in Locs, NEW v2, NEW w2, v2 = Holding(t, x)', w2 = Waiting(t)'
       PROVE  KnownAs(e, u, x, v2, w2)'
  <2>1. PICK v, w : v = Holding(t, x) /\ w = Waiting(t)
    OBVIOUS
  <2>2. KnownAs(c, s, x, v, w)
    BY <1>1, <1>11, <2>1 DEF ReplayHere, Known
  <2>3. KnownAs(d, s, x, v2, w2)'
    BY <1>15, <1>16, <2>1, <2>2, Zenon DEF KnownStill
  <2>4. Believed(e, u, x) = Believed(d, s, x)
    BY <1>15
  <2> QED
    BY <2>3, <2>4, Zenon DEF KnownAs
<1>17. ASSUME NEW r \in Threads
       PROVE  /\ Unremembered(r)'
              /\ \A x \in Locs : \E v, w :
                   v = Holding(r, x)' /\ w = Waiting(r)' /\ KnownAs(e, u, x, v, w)'
  <2>1. r = t
    BY OneThread
  <2>2. ASSUME NEW x \in Locs
        PROVE  \E v, w : v = Holding(t, x)' /\ w = Waiting(t)' /\ KnownAs(e, u, x, v, w)'
    BY <1>16, Zenon
  <2> QED
    BY <1>13, <2>1, <2>2, Zenon
<1> QED
  BY <1>5, <1>10, <1>12, <1>15, <1>17, ReplayIntroNext, Zenon DEF ReplayIntro

(* Each step keeps what the reader of the trace knows.                     *)
LEMMA ReplayNext ==
  ASSUME ReplayInv, [Next]_vars
  PROVE  ReplayInv'
<1>0. /\ ValuesInv /\ WritesInv /\ PlaceInv /\ TypeInv /\ TypeOK
      /\ ValuesInv' /\ WritesInv' /\ PlaceInv'
  BY ValuesNext, WritesNext DEF ReplayInv, ValuesInv, PlaceInv, TypeInv
<1>a. /\ pc \in [Threads -> Routines] /\ insn \in [Threads -> Executing \union {None}]
      /\ current \in FrameType \union {None} /\ m_regs \in SUBSET Regs /\ m_mems \in SUBSET Addrs
      /\ zf \in [Threads -> BOOLEAN]
  BY <1>0 DEF TypeOK
<1>b. ASSUME NEW t \in Threads, pc[t] # "code_exec" \/ insn[t] # None, status = "running"
      PROVE  /\ insn[t] # None /\ insn[t] \in Executing /\ insn[t].ins \in Insns
             /\ current # None /\ current \in FrameType /\ current.ins = insn[t].ins
             /\ ReplayHere(t) /\ Place(t) /\ WritesHere(t) /\ Unremembered(t)
  <2>1. insn[t] # None
    BY <1>0, <1>b DEF TypeInv
  <2>2. Place(t) /\ ReplayHere(t) /\ WritesHere(t)
    BY <1>b, <2>1 DEF ReplayInv, WritesInv, PlaceInv
  <2> QED
    BY <1>0, <1>a, <2>1, <2>2, InsnOf DEF Place, ReplayHere
<1>c. HistoryKept
  BY <1>0, HistoryGrows
<1>d. PICK s, c : s = Std(out) /\ c = current
  OBVIOUS
<1>e. ASSUME c # None, NEW values \in SUBSET OperandValues
      PROVE  /\ [c EXCEPT !.pre = @ \union values] \in FrameType
             /\ [c EXCEPT !.pre = @ \union values].pre = c.pre \union values
             /\ [c EXCEPT !.pre = @ \union values].post = c.post
             /\ [c EXCEPT !.pre = @ \union values].ins = c.ins
             /\ [c EXCEPT !.post = @ \union values] \in FrameType
             /\ [c EXCEPT !.post = @ \union values].post = c.post \union values
             /\ [c EXCEPT !.post = @ \union values].pre = c.pre
             /\ [c EXCEPT !.post = @ \union values].ins = c.ins
  <2>1. c \in FrameType
    BY <1>a, <1>d, <1>e
  <2> QED
    BY <2>1 DEF FrameType
<1>1. ASSUME NEW t \in Threads, CodeExec(t) PROVE ReplayInv'
  BY <1>0, <1>1, ReplayBegin
<1>2. ASSUME NEW t \in Threads, CodeExecIteration(t) PROVE ReplayInv'
  <2>1. /\ current' = Updated(t) /\ status = "running" /\ UNCHANGED <<out, status, regs, mem>>
        /\ insn[t] # None /\ m_regs' = {} /\ m_mems' = {} /\ pc[t] = "code_exec" /\ pc'[t] = "read"
    BY <1>2, <1>a DEF CodeExecIteration, At, InRep, Go, machine
  <2>2. c # None /\ c \in FrameType
    BY <1>b, <1>d, <2>1
  <2>3. PICK values, locs : /\ values = RegValues(t, m_regs) \union MemValues(m_mems)
                            /\ locs = m_regs \union m_mems
    OBVIOUS
  <2>4. Says(t, values, locs) /\ values \in SUBSET OperandValues
    BY <1>0, <1>a, <2>3, ValuesSay, ValueTypes
  <2>5. PICK d : d = current'
    OBVIOUS
  <2>6. d \in FrameType /\ d.post = c.post \union values /\ d.pre = c.pre /\ d.ins = c.ins
    <3>1. d = [c EXCEPT !.post = @ \union values]
      BY <1>d, <2>1, <2>2, <2>3, <2>5 DEF Updated
    <3> QED
      BY <1>e, <2>2, <2>4, <3>1
  <2>7. Unremembered(t)'
    BY <2>1 DEF Unremembered
  <2>8. Waiting(t) \subseteq Waiting(t)' \union locs
    BY <2>1, <2>3 DEF Waiting
  <2>9. d # None
    BY <2>6
  <2>10. KnownStill(t, c, s, d)
    BY <1>0, <1>c, <2>1, <2>2, <2>4, <2>6, <2>8, <2>9, KnownWhenRecorded
  <2> QED
    BY <1>0, <1>d, <2>1, <2>2, <2>5, <2>6, <2>7, <2>10, ReplayStep
<1>3. ASSUME NEW t \in Threads, Read(t) PROVE ReplayInv'
  <2>1. /\ pc[t] = "read" /\ status = "running" /\ pc'[t] \in {"load", "remember_write"}
        /\ UNCHANGED <<insn, zf, regs, mem, m_regs, m_mems, out, status>>
        /\ current' = [current EXCEPT !.pre = @ \union RegValues(t, RegsRead(insn[t].ins))]
    BY <1>3, <1>a DEF Read, At, Go, SaveReads, machine, pending
  <2>2. /\ c # None /\ c \in FrameType /\ insn[t] # None /\ m_regs = {} /\ m_mems = {}
        /\ RegsRead(insn[t].ins) \in SUBSET Regs
    BY <1>b, <1>d, <2>1, InsnTypes DEF Unremembered
  <2>3. PICK values : values = RegValues(t, RegsRead(insn[t].ins))
    OBVIOUS
  <2>4. values \in SUBSET OperandValues
    BY <1>0, <2>2, <2>3, ValueTypes
  <2>5. PICK d : d = current'
    OBVIOUS
  <2>6. d \in FrameType /\ d.pre = c.pre \union values /\ d.post = c.post /\ d.ins = c.ins
    <3>1. d = [c EXCEPT !.pre = @ \union values]
      BY <1>d, <2>1, <2>3, <2>5
    <3> QED
      BY <1>e, <2>2, <2>4, <3>1
  <2>7. ASSUME NEW o \in values PROVE Readable(o, c, s, Len(s))
    <3>1. PICK r \in RegsRead(insn[t].ins) : o = [loc |-> r, val |-> regs[t][r]]
      BY <2>3 DEF RegValues
    <3>2. o.loc = r /\ o.val = regs[t][r] /\ r \in Regs
      BY <2>2, <3>1
    <3>3. o.loc \in Locs /\ o.val = Holding(t, o.loc)
      BY <3>2 DEF Locs, Holding
    <3> QED
      BY <1>d, <2>1, <2>2, <3>3, ReadsAreKnown
  <2>8. Unremembered(t)'
    BY <2>1, <2>2 DEF Unremembered
  <2>9. Waiting(t) \subseteq Waiting(t)'
    BY <2>1, <2>2 DEF Waiting
  <2>10. KnownStill(t, c, s, d)
    <3>1. d # None
      BY <2>6
    <3> QED
      BY <1>0, <1>c, <2>1, <2>2, <2>6, <2>9, <3>1, KnownWhenWaiting
  <2> QED
    BY <1>0, <1>d, <2>1, <2>2, <2>4, <2>5, <2>6, <2>7, <2>8, <2>10, ReplayStep
<1>4. ASSUME NEW t \in Threads, RememberWrite(t) \/ RememberStore(t) PROVE ReplayInv'
  <2>1. /\ pc[t] \in {"remember_write", "remember_store"} /\ status = "running"
        /\ pc'[t] \in {"load", "execute"}
        /\ pc[t] = "remember_write" => m_mems' = m_mems
        /\ pc[t] = "remember_store" => pc'[t] = "execute"
        /\ UNCHANGED <<insn, zf, regs, mem, current, out, status>>
        /\ m_regs \subseteq m_regs' /\ m_mems \subseteq m_mems'
    BY <1>4, <1>a DEF RememberWrite, RememberStore, At, Go, machine, trace
  <2>2. c # None /\ c \in FrameType /\ Unremembered(t)
    BY <1>b, <1>d, <2>1
  <2>3. Unremembered(t)'
    BY <2>1, <2>2 DEF Unremembered
  <2>4. Waiting(t) \subseteq Waiting(t)'
    BY <2>1 DEF Waiting
  <2>5. KnownStill(t, c, s, c)
    BY <1>0, <1>c, <2>1, <2>2, <2>4, KnownWhenWaiting
  <2> QED
    BY <1>0, <1>d, <2>1, <2>2, <2>3, <2>5, ReplayStep
<1>5. ASSUME NEW t \in Threads, Load(t) PROVE ReplayInv'
  <2>1. /\ pc[t] = "load" /\ status = "running" /\ pc'[t] \in {"execute", "remember_store"}
        /\ UNCHANGED <<insn, zf, regs, mem, m_regs, m_mems, out, status>>
        /\ current' = [current EXCEPT !.pre = @ \union MemValues(Loads(insn[t].ins))]
    BY <1>5, <1>a DEF Load, At, Go, SaveReads, machine, pending
  <2>2. /\ c # None /\ c \in FrameType /\ insn[t] # None /\ m_mems = {}
        /\ Loads(insn[t].ins) \in SUBSET Addrs
    BY <1>b, <1>d, <2>1, InsnTypes DEF Unremembered
  <2>3. PICK values : values = MemValues(Loads(insn[t].ins))
    OBVIOUS
  <2>4. values \in SUBSET OperandValues
    BY <1>0, <2>2, <2>3, ValueTypes
  <2>5. PICK d : d = current'
    OBVIOUS
  <2>6. d \in FrameType /\ d.pre = c.pre \union values /\ d.post = c.post /\ d.ins = c.ins
    <3>1. d = [c EXCEPT !.pre = @ \union values]
      BY <1>d, <2>1, <2>3, <2>5
    <3> QED
      BY <1>e, <2>2, <2>4, <3>1
  <2>7. ASSUME NEW o \in values PROVE Readable(o, c, s, Len(s))
    <3>1. PICK a \in Loads(insn[t].ins) : o = [loc |-> a, val |-> mem[a]]
      BY <2>3 DEF MemValues
    <3>2. o.loc = a /\ o.val = mem[a] /\ a \in Addrs /\ a \notin Regs
      BY <2>2, <3>1, BptAssumption
    <3>3. o.loc \in Locs /\ o.val = Holding(t, o.loc) /\ o.loc \notin m_regs
      BY <1>a, <3>2 DEF Locs, Holding
    <3> QED
      BY <1>d, <2>1, <2>2, <3>3, ReadsAreKnown
  <2>8. Unremembered(t)'
    BY <2>1, <2>2 DEF Unremembered
  <2>9. Waiting(t) \subseteq Waiting(t)'
    BY <2>1, <2>2 DEF Waiting
  <2>10. KnownStill(t, c, s, d)
    <3>1. d # None
      BY <2>6
    <3> QED
      BY <1>0, <1>c, <2>1, <2>2, <2>6, <2>9, <3>1, KnownWhenWaiting
  <2> QED
    BY <1>0, <1>d, <2>1, <2>2, <2>4, <2>5, <2>6, <2>7, <2>8, <2>10, ReplayStep
<1>6. ASSUME NEW t \in Threads, WriteAfter(t) PROVE ReplayInv'
  <2>1. /\ pc[t] = "write_after" /\ status = "running" /\ pc'[t] = "store_after"
        /\ UNCHANGED <<insn, zf, regs, mem, m_regs, m_mems, out, status>>
        /\ current' = [current EXCEPT !.post = @ \union
                         RegValues(t, CmpxchgRegs(insn[t].ins, zf[t]))]
    BY <1>6, <1>a DEF WriteAfter, At, Go, SaveWrites, machine, pending
  <2>2. /\ c # None /\ c \in FrameType /\ insn[t] # None
        /\ CmpxchgRegs(insn[t].ins, zf[t]) \in SUBSET Regs
    <3>1. insn[t].ins.op = "cmpxchg"
      BY <1>0, <2>1 DEF TypeInv
    <3> QED
      BY <1>b, <1>d, <2>1, <3>1, InsnTypes
  <2>3. PICK values, locs : /\ values = RegValues(t, CmpxchgRegs(insn[t].ins, zf[t]))
                            /\ locs = CmpxchgRegs(insn[t].ins, zf[t])
    OBVIOUS
  <2>4. Says(t, values, locs) /\ values \in SUBSET OperandValues
    <3>1. Says(t, RegValues(t, locs), locs)
      BY <2>2, <2>3, ValuesSay
    <3> QED
      BY <1>0, <2>2, <2>3, <3>1, ValueTypes
  <2>5. PICK d : d = current'
    OBVIOUS
  <2>6. d \in FrameType /\ d.post = c.post \union values /\ d.pre = c.pre /\ d.ins = c.ins
    <3>1. d = [c EXCEPT !.post = @ \union values]
      BY <1>d, <2>1, <2>3, <2>5
    <3> QED
      BY <1>e, <2>2, <2>4, <3>1
  <2>7. Unremembered(t)'
    BY <2>1 DEF Unremembered
  <2>8. Waiting(t) \subseteq Waiting(t)' \union locs
    <3>1. Stores(insn[t].ins)' = Stores(insn[t].ins)
      BY <2>1 DEF Stores, Operands
    <3> QED
      BY <2>1, <2>3, <3>1 DEF Waiting
  <2>9. d # None
    BY <2>6
  <2>10. KnownStill(t, c, s, d)
    BY <1>0, <1>c, <2>1, <2>2, <2>4, <2>6, <2>8, <2>9, KnownWhenRecorded
  <2> QED
    BY <1>0, <1>d, <2>1, <2>2, <2>5, <2>6, <2>7, <2>10, ReplayStep
<1>7. ASSUME NEW t \in Threads, StoreAfter(t) PROVE ReplayInv'
  <2>1. /\ pc[t] = "store_after" /\ status = "running" /\ pc'[t] = "code_exec"
        /\ UNCHANGED <<insn, regs, mem, m_regs, m_mems, out, status>>
        /\ current' = [current EXCEPT !.post = @ \union
                         IF zf[t] THEN MemValues(Stores(insn[t].ins)) ELSE {}]
    BY <1>7, <1>a DEF StoreAfter, At, Go, SaveWrites, pending
  <2>2. /\ c # None /\ c \in FrameType /\ insn[t] # None
        /\ Stores(insn[t].ins) \in SUBSET Addrs
    BY <1>b, <1>d, <2>1, InsnTypes
  <2>3. PICK locs : locs = IF zf[t] THEN Stores(insn[t].ins) ELSE {}
    OBVIOUS
  <2>a. PICK values : values = MemValues(locs)
    OBVIOUS
  <2>b. values = IF zf[t] THEN MemValues(Stores(insn[t].ins)) ELSE {}
    <3>1. MemValues({}) = {}
      BY DEF MemValues
    <3> QED
      BY <2>3, <2>a, <3>1
  <2>4. Says(t, values, locs) /\ values \in SUBSET OperandValues
    <3>1. locs \in SUBSET Addrs
      BY <2>2, <2>3
    <3>2. Says(t, MemValues(locs), locs)
      BY <3>1, ValuesSay
    <3> QED
      BY <1>0, <2>a, <3>1, <3>2, ValueTypes
  <2>5. PICK d : d = current'
    OBVIOUS
  <2>6. d \in FrameType /\ d.post = c.post \union values /\ d.pre = c.pre /\ d.ins = c.ins
    <3>1. d = [c EXCEPT !.post = @ \union values]
      BY <1>d, <2>1, <2>b, <2>5
    <3> QED
      BY <1>e, <2>2, <2>4, <3>1
  <2>7. Unremembered(t)'
    BY <2>1 DEF Unremembered
  <2>8. Waiting(t) \subseteq Waiting(t)' \union locs
    BY <2>1, <2>3 DEF Waiting
  <2>9. d # None
    BY <2>6
  <2>10. KnownStill(t, c, s, d)
    BY <1>0, <1>c, <2>1, <2>2, <2>4, <2>6, <2>8, <2>9, KnownWhenRecorded
  <2> QED
    BY <1>0, <1>d, <2>1, <2>2, <2>5, <2>6, <2>7, <2>10, ReplayStep
<1>8. ASSUME NEW t \in Threads, ModLoad(t) PROVE ReplayInv'
  <2>1. /\ out' = Append(out, ModFrame)
        /\ UNCHANGED <<pc, insn, machine, pending, current, history, status>>
    BY <1>8 DEF ModLoad
  <2>2. Std(out)' = Std(out)
    <3>1. out \in Entries
      BY <1>0 DEF TypeOK, Entries
    <3>2. Std(Append(out, ModFrame)) = Std(out)
      BY <3>1, StdFacts
    <3>3. Std(out)' = Std(out')
      BY DEF Std
    <3> QED
      BY <2>1, <3>2, <3>3, Zenon
  <2> QED
    BY <1>0, <2>1, <2>2, ReplaySame
<1>9. ASSUME NEW t \in Threads, Fini(t) PROVE ReplayInv'
  BY <1>0, <1>9, ReplayFini
<1>10. ASSUME NEW t \in Threads, Execute(t) PROVE ReplayInv'
  <2>1. /\ pc[t] = "execute" /\ status = "running" /\ pc'[t] = "code_exec"
        /\ UNCHANGED <<insn, m_regs, m_mems, current, out, status>>
        /\ insn[t].ins.op # "cmpxchg"
    BY <1>10, <1>a DEF Execute, At, Go, trace, pending
  <2>2. /\ c # None /\ c \in FrameType /\ insn[t] # None /\ insn[t].ins \in Insns
        /\ insn[t] \in Executing /\ WritesHere(t) /\ Place(t)
    BY <1>b, <1>d, <2>1
  <2>3. PICK rs \in SUBSET Regs, as \in SUBSET Addrs :
          /\ Write(t, rs, as, insn[t].no) /\ Wrote(insn[t].no, rs \union as)
          /\ insn[t].on =>
               /\ rs \subseteq RegW(insn[t].ins) \union FlagsChanged(insn[t].ins, TRUE)
               /\ as = Stores(insn[t].ins)
          /\ ~insn[t].on => rs = {} /\ as = {}
    BY <1>0, <1>10, <2>2, ExecuteWrites
  <2>4. PICK no, ins : no = insn[t].no /\ ins = insn[t].ins
    OBVIOUS
  <2>5. /\ no \in Nat \ {0} /\ no <= Len(history') /\ history'[no].ins = ins
        /\ Untraced(ins)' = Untraced(ins)
    <3>1. no \in Nat \ {0} /\ no <= Len(history) /\ history[no].ins = ins
      BY <1>0, <2>2, <2>4 DEF TypeInv, Executing, Place
    <3> QED
      BY <1>c, <3>1, KnobsKept DEF HistoryKept
  <2>6. \A x \in (rs \union as) \ Untraced(ins) : x \in m_regs \union m_mems
    <3>1. CASE insn[t].on
      <4>1. RegsWritten(ins) \subseteq m_regs /\ Stores(ins) \subseteq m_mems
        BY <2>1, <2>2, <2>4, <3>1 DEF WritesHere
      <4>2. rs \ Untraced(ins) \subseteq RegsWritten(ins)
        BY <2>2, <2>3, <2>4, <3>1, Traced
      <4> QED
        BY <2>3, <2>4, <3>1, <4>1, <4>2
    <3>2. CASE ~insn[t].on
      BY <2>3, <3>2
    <3> QED
      BY <3>1, <3>2
  <2>7. Unremembered(t)'
    BY <2>1 DEF Unremembered
  <2>8. Waiting(t) = m_regs \union m_mems /\ Waiting(t)' = m_regs \union m_mems
    BY <2>1 DEF Waiting
  <2>9. ASSUME NEW x \in Locs, x \in rs \union as
        PROVE  no <= Len(history') /\ (x \in Waiting(t)' \/ Excused(x, no)')
    <3>1. CASE x \in Untraced(ins)
      BY <2>5, <3>1 DEF Excused
    <3>2. CASE x \notin Untraced(ins)
      BY <2>5, <2>6, <2>8, <2>9, <3>2
    <3> QED
      BY <3>1, <3>2
  <2>10. KnownStill(t, c, s, c)
    <3>1. Write(t, rs, as, no)
      BY <2>3, <2>4
    <3>2. Waiting(t) \subseteq Waiting(t)'
      BY <2>8
    <3> QED
      BY <1>0, <1>c, <2>2, <2>9, <3>1, <3>2, KnownWhenWritten
  <2> QED
    BY <1>0, <1>d, <2>1, <2>2, <2>7, <2>10, ReplayStep
<1>11. ASSUME NEW t \in Threads, ExecuteCmpxchg(t) PROVE ReplayInv'
  <2>1. /\ pc[t] = "execute" /\ status = "running" /\ pc'[t] = "write_after"
        /\ UNCHANGED <<insn, m_regs, m_mems, current, out, status>>
        /\ insn[t].ins.op = "cmpxchg"
    BY <1>11, <1>a DEF ExecuteCmpxchg, At, Go, trace, pending
  <2>2. /\ c # None /\ c \in FrameType /\ insn[t] # None /\ insn[t].ins \in Insns
        /\ insn[t] \in Executing /\ Place(t)
    BY <1>b, <1>d, <2>1
  <2>3. PICK rs \in SUBSET Regs, as \in SUBSET Addrs :
          /\ Write(t, rs, as, insn[t].no)
          /\ \A r \in rs : r \in Flags =>
               r \in CmpxchgRegs(insn[t].ins, zf'[t]) \union Untraced(insn[t].ins)
          /\ \A a \in as : zf'[t] /\ a \in Stores(insn[t].ins)
    BY <1>0, <1>11, <2>2, CmpxchgKnown
  <2>4. PICK no, ins : no = insn[t].no /\ ins = insn[t].ins
    OBVIOUS
  <2>5. /\ no \in Nat \ {0} /\ no <= Len(history') /\ history'[no].ins = ins
        /\ Untraced(ins)' = Untraced(ins)
    <3>1. no \in Nat \ {0} /\ no <= Len(history) /\ history[no].ins = ins
      BY <1>0, <2>2, <2>4 DEF TypeInv, Executing, Place
    <3> QED
      BY <1>c, <3>1, KnobsKept DEF HistoryKept
  <2>6. /\ Waiting(t) = m_regs \union m_mems
        /\ Waiting(t)' = m_regs \union m_mems \union CmpxchgRegs(ins, zf'[t]) \union
                           (IF zf'[t] THEN Stores(ins) ELSE {})
    <3>1. Stores(insn[t].ins)' = Stores(ins)
      BY <2>1, <2>4 DEF Stores, Operands
    <3>2. CmpxchgRegs(insn[t].ins, zf[t])' = CmpxchgRegs(ins, zf'[t])
      BY <1>c, <2>1, <2>4 DEF HistoryKept, knobs, CmpxchgRegs, FlagsWritten, FlagsIf
    <3> QED
      BY <2>1, <3>1, <3>2 DEF Waiting
  <2>7. Unremembered(t)'
    BY <2>1 DEF Unremembered
  <2>8. ASSUME NEW x \in Locs, x \in rs \union as
        PROVE  no <= Len(history') /\ (x \in Waiting(t)' \/ Excused(x, no)')
    <3>1. CASE x \in as
      BY <2>3, <2>4, <2>5, <2>6, <3>1
    <3>2. CASE x \in rs /\ x \in Flags
      <4>1. x \in CmpxchgRegs(ins, zf'[t]) \/ x \in Untraced(ins)
        BY <2>3, <2>4, <3>2
      <4>2. x \in Untraced(ins) => Excused(x, no)'
        BY <2>5 DEF Excused
      <4> QED
        BY <2>5, <2>6, <4>1, <4>2
    <3>3. CASE x \in rs /\ x \notin Flags
      <4>1. FromCmpxchg(x, no)'
        BY <2>1, <2>4, <2>5, <3>3 DEF FromCmpxchg
      <4> QED
        BY <2>5, <4>1 DEF Excused
    <3> QED
      BY <2>8, <3>1, <3>2, <3>3
  <2>9. KnownStill(t, c, s, c)
    <3>1. Write(t, rs, as, no)
      BY <2>3, <2>4
    <3>2. Waiting(t) \subseteq Waiting(t)'
      BY <2>6
    <3> QED
      BY <1>0, <1>c, <2>2, <2>8, <3>1, <3>2, KnownWhenWritten
  <2> QED
    BY <1>0, <1>d, <2>1, <2>2, <2>7, <2>9, ReplayStep
<1>12. ASSUME NEW t \in Threads, KernelWrites(t) \/ Fault(t) PROVE ReplayInv'
  <2>1. /\ (pc[t] # "code_exec" \/ insn[t] # None) /\ status = "running"
        /\ UNCHANGED <<m_regs, m_mems, current, out, status>>
        /\ pc[t] \in {"code_exec", "execute"} /\ pc'[t] = "code_exec"
    BY <1>12, <1>a DEF KernelWrites, Fault, At, Go, trace, pending
  <2>2. c # None /\ c \in FrameType
    BY <1>b, <1>d, <2>1
  <2>3. PICK rs, as : Write(t, rs, as, Kernel)
    BY <1>12 DEF KernelWrites, Fault
  <2>4. Unremembered(t)'
    BY <2>1 DEF Unremembered
  <2>5. Waiting(t) \subseteq Waiting(t)'
    BY <2>1 DEF Waiting
  <2>6. \A x \in Locs : x \in rs \union as =>
          Kernel <= Len(history') /\ (x \in Waiting(t)' \/ Excused(x, Kernel)')
    BY <1>c DEF Excused, Kernel, HistoryKept
  <2>7. KnownStill(t, c, s, c)
    <3>1. PICK no : no = Kernel
      OBVIOUS
    <3>2. /\ Write(t, rs, as, no)
          /\ \A x \in Locs : x \in rs \union as =>
               no <= Len(history') /\ (x \in Waiting(t)' \/ Excused(x, no)')
      BY <2>3, <2>6, <3>1
    <3> QED
      BY <1>0, <1>c, <2>2, <2>5, <3>2, KnownWhenWritten
  <2> QED
    BY <1>0, <1>d, <2>1, <2>2, <2>4, <2>7, ReplayStep
<1>13. CASE UNCHANGED vars
  <2>1. UNCHANGED <<pc, insn, machine, pending, current, history, status, out>>
    BY <1>13 DEF vars, trace
  <2>2. Std(out)' = Std(out)
    BY <2>1 DEF Std
  <2> QED
    BY <1>0, <2>1, <2>2, ReplaySame
<1> QED
  BY <1>1, <1>2, <1>3, <1>4, <1>5, <1>6, <1>7, <1>8, <1>9, <1>10, <1>11, <1>12, <1>13
     DEF Next, Terminated

(* The trace can be replayed: each value that an instruction is recorded   *)
(* to read is the one recorded to be written last, although a write is     *)
(* recorded only when the next instruction begins, and whatever faults,    *)
(* signals, predicates and iterations of REP come in between.  Excepted is *)
(* what the system wrote, the registers that CMPXCHG wrote and the flags   *)
(* that -split-flags insn leaves out.                                      *)
THEOREM ReplayTheorem == Spec => []ReplayConsistent
<1>1. Init => ReplayInv
  BY ReplayInit
<1>2. ReplayInv /\ [Next]_vars => ReplayInv'
  BY ReplayNext
<1>3. ReplayInv => ReplayConsistent
  BY ReplayFollows
<1> QED
  BY <1>1, <1>2, <1>3, PTL DEF Spec
=============================================================================
