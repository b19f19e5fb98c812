--------------------------- MODULE MC_SimTomasulo ---------------------------
(***************************************************************************)
(* Instances of SimTomasulo for TLC: programs of Size lines made of the    *)
(* instructions below.                                                     *)
(***************************************************************************)
EXTENDS SimTomasulo

I(op, t, a, b, n) == [op |-> op, t |-> t, a |-> a, b |-> b, n |-> n]

Pool ==
  {I("LI", "R1", None, None, 3),
   I("ADD", "R1", "R1", "R2", 0), I("MUL", "R2", "R1", "R1", 0),
   I("DIV", "R2", "R2", "R1", 0), I("MOVE", "F1", "R1", None, 0),
   I("L", "R2", None, "R1", 1),   I("S", None, "R2", "R1", 0),
   I("L", "F1", None, "R1", 0),   I("S", None, "F1", "R2", 1),
   I("ADD", "F1", "F1", "F1", 0),
   I("BEQ", None, "R1", "R2", 0), I("BNEQ", None, "R2", "R1", Size),
   I("BLTZ", None, "R2", None, 0)}
PoolOfInts ==
  {I("SUB", "R2", "R1", "R2", 0), I("LI", "R2", None, None, 2),
   I("L", "R1", None, "R1", 0), I("BGTZ", None, "R1", None, Size - 1),
   I("BLTZ", None, "F1", None, 0), I("MOVE", "R1", "F1", None, 0),
   I("L", "R12", None, "R1", 0)}
PoolOfFloats ==
  {I("NOOP", None, None, None, 0), I("MUL", "F1", "F1", "F1", 0),
   I("DIV", "F1", "F1", "F1", 0), I("BEQ", None, "F1", "F1", 0),
   I("S", None, "R12", "R2", 1)}

Begin(first, pool) ==
  {p \in [0 .. Size - 1 -> pool] : p[0] = first}
\* The first line makes the registers differ.
AllPrograms ==
  Begin(I("LI", "R1", None, None, 3), Pool \cup PoolOfFloats)
    \cup Begin(I("L", "R2", None, "R1", 1), Pool \cup PoolOfInts)
Full == {[c \in 0 .. W - 1 |-> (3 * c + 2) % W]}

\* Behind R12, R1 is read as R12 and R2 as R22.
Overwritten ==
  [rs \in Registers \X (Registers \ Floats) |->
     IF rs[1] # "R12" \/ rs[2] = "R12" THEN rs[2]
     ELSE IF rs[2] = "R1" THEN "R12" ELSE None]
Units == [k \in Kinds |-> IF k \in {"intadds", "loads"} THEN 2 ELSE 1]
Costs == [c \in OpCodes \X BOOLEAN |->
            CASE c[1] = "L" -> 4 [] c[1] = "MUL" -> 3
              [] c[1] \in Branches \cup {"LI"} -> 1 [] OTHER -> 2]
=============================================================================
