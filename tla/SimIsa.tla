------------------------------- MODULE SimIsa -------------------------------
(***************************************************************************)
(* The instructions of the processors of A2 - Instruction Level            *)
(* Parallelism and what they compute, as sim_seq.cpp does it.              *)
(*                                                                         *)
(* An instruction is a record of its operation, the register it writes     *)
(* (t), those it reads (a, b) and a number (n): an immediate, an offset or *)
(* the line of a label.  The .D forms take the same way through the code   *)
(* with registers of the other kind, so a register is just a name; values  *)
(* are words, of W instead of 2^32 values, and their text fits a cell of   *)
(* the memory.                                                             *)
(***************************************************************************)
EXTENDS Integers

CONSTANTS Registers,
          W,        \* words are 0 .. W - 1
          Size,     \* lines of the program
          Programs, \* the programs considered
          Contents, \* the memories considered
          Blank,    \* a cell that holds no text
          None      \* no register

Word  == 0 .. W - 1
Lines == 0 .. Size - 1
Cells == [Word -> Word \cup {Blank}]

Arithmetic == {"ADD", "SUB", "MUL", "DIV"}
Branches   == {"BEQ", "BNEQ", "BGTZ", "BLTZ"}
OpCodes    == Arithmetic \cup Branches \cup {"NOOP", "LI", "L", "S", "MOVE"}

Names == Registers \cup {None}
Instructions == [op : OpCodes, t : Names, a : Names, b : Names, n : Int]

\* Which register an operation has, as the decoders require.
WellFormed(i) ==
  /\ i.t # None <=> i.op \in Arithmetic \cup {"LI", "L", "MOVE"}
  /\ i.a # None <=> i.op \in Arithmetic \cup Branches \cup {"S", "MOVE"}
  /\ i.b # None <=> i.op \in Arithmetic \cup {"BEQ", "BNEQ", "L", "S"}
  /\ i.op \in Branches => i.n \in 0 .. Size

ASSUME SimIsaAssumption ==
  /\ W \in Nat \ {0} /\ Size \in Nat \ {0}
  /\ None \notin Registers /\ Blank \notin Int
  /\ Programs \subseteq [Lines -> Instructions] /\ Contents \subseteq Cells
  /\ \A p \in Programs : \A l \in Lines : WellFormed(p[l])

Signed(v) == IF 2 * v < W THEN v ELSE v - W
Magnitude(v)  == IF v < 0 THEN 0 - v ELSE v

Sum(x, y)        == (x + y) % W
Difference(x, y) == (x - y) % W
Product(x, y)    == (x * y) % W
\* Integer division rounds to zero; a division by 0 and the one quotient that
\* has no word end the simulator.
Divides(x, y)    == y # 0 /\ ~(2 * x = W /\ y = W - 1)
Quotient(x, y) ==
  LET q == Magnitude(Signed(x)) \div Magnitude(Signed(y))
  IN  (IF (Signed(x) < 0) = (Signed(y) < 0) THEN q ELSE 0 - q) % W

Compute(op, x, y) ==
  CASE op = "ADD" -> Sum(x, y) [] op = "SUB" -> Difference(x, y)
    [] op = "MUL" -> Product(x, y) [] OTHER -> Quotient(x, y)

\* atoi of the text of a cell
Loaded(cell) == IF cell = Blank THEN 0 ELSE cell

\* Does branch i go to its label, with x and y in its registers?
Holds(i, x, y) ==
  \/ i.op = "BEQ" /\ x = y
  \/ i.op = "BNEQ" /\ x # y
  \/ i.op = "BGTZ" /\ Signed(x) > 0
  \/ i.op = "BLTZ" /\ Signed(x) < 0
=============================================================================
