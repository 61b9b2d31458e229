------------------------ MODULE MCTaintPropagation -------------------------
(***************************************************************************)
(* Instances of TaintPropagation for TLC: one instruction for each way of  *)
(* moving taint, on ax, dx, flags and ip and three bytes of memory, of     *)
(* which 0 and 2 have the same key.                                        *)
(***************************************************************************)
EXTENDS TaintPropagation

Reg(r, read, written, flow) ==
  [kind |-> "reg", reg |-> r, addrs |-> {}, read |-> read,
   written |-> written, partial |-> FALSE, flow |-> flow]
Read(r) == Reg(r, TRUE, FALSE, {})
Write(r, flow) == Reg(r, FALSE, TRUE, flow)
Modify(r, flow) == Reg(r, TRUE, TRUE, flow)
Part(r, flow) == [Write(r, flow) EXCEPT !.partial = TRUE]
Load(base, as) == [Read(base) EXCEPT !.kind = "mem", !.addrs = as]
Store(base, as, flow) == [Write(base, flow) EXCEPT !.kind = "mem", !.addrs = as]
Agen(base) == [Reg(base, FALSE, FALSE, {}) EXCEPT !.kind = "agen"]

Insn(op, ops) == [op |-> op, ops |-> ops]

(* A load, a store, an addition that leaves the flags alone, xchg, call    *)
(* and ret.                                                                *)
Unix64 ==
  {Insn("plain", <<Write("ax", {2}), Load("dx", {0, 1})>>),
   Insn("plain", <<Store("dx", {2}, {2}), Read("dx")>>),
   Insn("plain", <<Modify("dx", {1, 2}), Read("ax")>>),
   Insn("plain", <<Modify("ax", {2}), Modify("dx", {1})>>),
   Insn("plain", <<Modify("ip", {2}), Read("ax"), Store("dx", {1}, {1})>>),
   Insn("plain", <<Write("ip", {2}), Load("dx", {1})>>)}

(* A load of part of ax, adc, an xor of ax with itself, a conditional      *)
(* store, ret and a conditional jump.                                      *)
Unix32 ==
  {Insn("plain", <<Part("ax", {2}), Load("dx", {1})>>),
   Insn("plain", <<Modify("ax", {1, 2}), Modify("flags", {1, 2})>>),
   Insn("xor", <<Modify("ax", {}), Read("ax"), Write("flags", {})>>),
   Insn("pred", <<Store("dx", {0}, {2}), Read("ax")>>),
   Insn("plain", <<Write("ip", {2}), Load("dx", {1})>>),
   Insn("branch", <<Write("ip", {2}), Read("flags")>>)}

(* A load, lea, xchg, an xor, a jump through dx and a store that is left   *)
(* out.                                                                    *)
Windows ==
  {Insn("plain", <<Write("ax", {2}), Load("dx", {1})>>),
   Insn("plain", <<Write("dx", {2}), Agen("ax")>>),
   Insn("plain", <<Modify("ax", {2}), Modify("dx", {1})>>),
   Insn("xor", <<Modify("dx", {1, 2}), Read("ax"), Write("flags", {1, 2})>>),
   Insn("branch", <<Write("ip", {2}), Read("dx")>>),
   Insn("left out", <<Store("dx", {1}, {2}), Read("ax")>>)}

Program == Unix64 \union Unix32 \union Windows

CommandLine(before, after, indices, seh, ranged, arch64, windows, program) ==
  [before |-> before, after |-> after, indices |-> indices, seh |-> seh,
   ranged |-> ranged, arch64 |-> arch64, windows |-> windows,
   program |-> program]

CommandLines ==
  {CommandLine(FALSE, FALSE, FALSE, FALSE, FALSE, TRUE, FALSE, Unix64),
   CommandLine(FALSE, TRUE, TRUE, FALSE, TRUE, FALSE, FALSE, Unix32),
   CommandLine(TRUE, FALSE, FALSE, TRUE, FALSE, FALSE, TRUE, Windows)}
=============================================================================
