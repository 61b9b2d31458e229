---------------------------- MODULE MCBptTracer ----------------------------
(***************************************************************************)
(* Instances of BptTracer for TLC: a program of six instructions, each of  *)
(* another kind, on the registers ax and bx (a base), the address a and    *)
(* the flags cf and of.                                                    *)
(***************************************************************************)
EXTENDS BptTracer

Reg(r, read, written, partial) ==
  [kind |-> "reg", reg |-> r, addr |-> "a",
   read |-> read, written |-> written, partial |-> partial]
Mem(base, read, written) ==
  [kind |-> "mem", reg |-> base, addr |-> "a",
   read |-> read, written |-> written, partial |-> FALSE]

FlagsOp(read, written) ==
  [kind |-> "flags", reg |-> "cf", addr |-> "a",
   read |-> read, written |-> written, partial |-> FALSE]

Insn(op, ops, auto, cf, of, listed) ==
  [op |-> op, ops |-> ops, auto |-> auto, listed |-> listed,
   affects |-> [f \in {"cf", "of"} |-> IF f = "cf" THEN cf ELSE of]]

R == Reg("ax", TRUE, FALSE, FALSE)

(* pushf, which is not in the table: the base moves.  daa on a byte.  rep  *)
(* stos.  cmovo from memory.  cmpxchg on memory and on a register.         *)
Pushf ==
  Insn("default", <<FlagsOp(TRUE, FALSE), Mem("bx", FALSE, TRUE)>>, {"bx"},
       "TST", "TST", FALSE)
Daa ==
  Insn("default", <<Reg("ax", TRUE, TRUE, TRUE), FlagsOp(TRUE, TRUE)>>, {},
       "T_M", "UND", TRUE)
RepStos ==
  Insn("rep", <<R, Mem("bx", FALSE, TRUE)>>, {"bx"}, "N", "N", TRUE)
Cmovo ==
  Insn("pred", <<Reg("ax", FALSE, TRUE, FALSE), Mem("bx", TRUE, FALSE),
                 FlagsOp(TRUE, FALSE)>>, {}, "N", "TST", TRUE)
CmpxchgTail ==
  <<Reg("bx", TRUE, FALSE, FALSE), Reg("ax", TRUE, TRUE, FALSE),
    FlagsOp(FALSE, TRUE)>>
CmpxchgMem ==
  Insn("cmpxchg", <<Mem("bx", TRUE, TRUE)>> \o CmpxchgTail, {},
       "MOD", "MOD", TRUE)
CmpxchgReg ==
  Insn("cmpxchg", <<Reg("bx", TRUE, TRUE, FALSE)>> \o CmpxchgTail, {},
       "MOD", "MOD", TRUE)

Program ==
  {Pushf, Daa, RepStos, Cmovo, CmpxchgMem, CmpxchgReg}

(* The default, and the mode that records every flag. *)
MCModes == {<<"insn", FALSE>>, <<"full", FALSE>>}
=============================================================================
