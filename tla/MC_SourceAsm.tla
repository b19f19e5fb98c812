---------------------------- MODULE MC_SourceAsm ----------------------------
(***************************************************************************)
(* SimTomasulo with the program Source.asm and the stations and costs of   *)
(* arch_params_file.  A cell takes the place of the eight bytes of a       *)
(* double: the loop goes from 0 to 1 in steps of 1, the offsets are 0, 1   *)
(* and 2.                                                                  *)
(***************************************************************************)
EXTENDS SimTomasulo

I(op, t, a, b, n) == [op |-> op, t |-> t, a |-> a, b |-> b, n |-> n]

SourceAsm ==
  {[l \in 0 .. 8 |->
     CASE l = 0 -> I("ADD", "R1", "R0", "R0", 0)
       [] l = 1 -> I("LI", "R2", None, None, 1)
       [] l = 2 -> I("LI", "R3", None, None, 1)
       [] l = 3 -> I("L", "F0", None, "R1", 0)
       [] l = 4 -> I("L", "F1", None, "R1", 1)
       [] l = 5 -> I("ADD", "F2", "F0", "F1", 0)
       [] l = 6 -> I("S", None, "F2", "R1", 2)
       [] l = 7 -> I("ADD", "R1", "R1", "R2", 0)
       [] l = 8 -> I("BNEQ", None, "R1", "R3", 3)]}

Ones == {[c \in 0 .. W - 1 |-> 1]}
\* No register of the program has two digits.
Exact == [rs \in Registers \X (Registers \ Floats) |-> rs[2]]
Units == [k \in Kinds |-> IF k \in {"loads", "stores", "intadds", "fpadds"} THEN 3 ELSE 2]
Costs == [c \in OpCodes \X BOOLEAN |->
            IF c[1] \in {"NOOP", "BNEQ", "BGTZ", "BLTZ"} THEN 1 ELSE 2]
=============================================================================
