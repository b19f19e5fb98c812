----------------------------- MODULE MC_SimPipe -----------------------------
(***************************************************************************)
(* Instances of SimPipe for TLC: every program of Size lines made of the   *)
(* instructions below.                                                     *)
(***************************************************************************)
EXTENDS SimPipe

I(op, t, a, b, n) == [op |-> op, t |-> t, a |-> a, b |-> b, n |-> n]

Straight ==
  {I("NOOP", None, None, None, 0), I("LI", "R1", None, None, 3),
   I("ADD", "R1", "R1", "R14", 0), I("SUB", "R14", "R14", "R1", 0),
   I("MUL", "R14", "R1", "R1", 0), I("DIV", "R14", "R14", "R1", 0),
   I("MOVE", "R14", "R1", None, 0),
   I("L", "R14", None, "R1", 1),   I("S", None, "R14", "R1", 0)}
Jumps ==
  {I("BEQ", None, "R1", "R14", Size - 1), I("BNEQ", None, "R14", "R1", 0),
   I("BNEQ", None, "R1", "R14", 1), I("BLTZ", None, "R1", None, 0),
   I("BGTZ", None, "R1", None, Size - 1), I("BLTZ", None, "R14", None, 1)}

AllPrograms == [0 .. Size - 1 -> Straight \cup Jumps]
CarefulPrograms == {p \in AllPrograms : Careful(p)}

\* Every cell holds a number.
Full == {[c \in 0 .. W - 1 |-> (3 * c + 2) % W]}

\* "R14" has "R1" in it.
Within == {<<"R1", "R1">>, <<"R14", "R14">>, <<"R1", "R14">>}

Costs ==
  [op \in OpCodes |-> IF op \in {"DIV", "L"} THEN 3 ELSE IF op = "NOOP" THEN 1 ELSE 2]
=============================================================================
