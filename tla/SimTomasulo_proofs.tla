------------------------- MODULE SimTomasulo_proofs -------------------------
(***************************************************************************)
(* Proofs about SimTomasulo: the types, and that the processor computes    *)
(* what the sequential processor computes until it mishandles an           *)
(* instruction, which it never does in a program of single assignment.     *)
(***************************************************************************)
EXTENDS SimTomasulo, WellFoundedInduction, TLAPS

(* The constants.                                                          *)

LEMMA WordsAre ==
  /\ W \in Nat \ {0} /\ Size \in Nat \ {0} /\ Blank \notin Word
  /\ 0 \in Word /\ Word \subseteq Nat
  /\ \A n \in Int : n % W \in Word
<1>1. W \in Nat \ {0} /\ Size \in Nat \ {0} /\ Blank \notin Int
  BY SimIsaAssumption
<1>2. \A n \in Int : n % W \in 0 .. W - 1
  BY <1>1
<1> QED
  BY <1>1, <1>2 DEF Word

LEMMA WordIsInt ==
  ASSUME NEW v \in Word PROVE v \in Int
BY SimIsaAssumption DEF Word

LEMMA SumIs ==
  ASSUME NEW x \in Int, NEW y \in Int PROVE Sum(x, y) \in Word
<1>1. x + y \in Int
  OBVIOUS
<1> QED
  BY <1>1, WordsAre DEF Sum

LEMMA ComputeIs ==
  ASSUME NEW op \in Arithmetic, NEW x \in Word, NEW y \in Word,
         op = "DIV" => Divides(x, y)
  PROVE  Compute(op, x, y) \in Word
<1>1. x \in Int /\ y \in Int
  BY WordIsInt
<1>2. Difference(x, y) \in Word
  <2>1. x - y \in Int
    BY <1>1
  <2> QED
    BY <2>1, WordsAre DEF Difference
<1>3. Product(x, y) \in Word
  <2>1. x * y \in Int
    BY <1>1
  <2> QED
    BY <2>1, WordsAre DEF Product
<1>4. ASSUME op = "DIV" PROVE Quotient(x, y) \in Word
  <2> DEFINE a == Magnitude(Signed(x))
             b == Magnitude(Signed(y))
  <2>1. y # 0
    BY <1>4 DEF Divides
  <2>2. Signed(x) \in Int /\ Signed(y) \in Int /\ Signed(y) # 0
    BY <1>1, <2>1, WordsAre DEF Signed, Word
  <2>3. a \in Nat /\ b \in Nat \ {0}
    BY <2>2 DEF Magnitude
  <2>4. Quotient(x, y) = (IF (Signed(x) < 0) = (Signed(y) < 0) THEN a \div b
                                                   ELSE 0 - (a \div b)) % W
    BY DEF Quotient
  <2> HIDE DEF a, b
  <2>5. a \div b \in Int
    BY <2>3
  <2>6. 0 - (a \div b) \in Int
    BY <2>5
  <2>7. (IF (Signed(x) < 0) = (Signed(y) < 0) THEN a \div b ELSE 0 - (a \div b)) \in Int
    BY <2>5, <2>6
  <2> QED
    BY <2>4, <2>7, WordsAre
<1> QED
  BY <1>1, <1>2, <1>3, <1>4, SumIs DEF Compute, Arithmetic

LEMMA LoadedIs ==
  ASSUME NEW m \in Cells, NEW c \in Word PROVE Loaded(m[c]) \in Word
BY WordsAre DEF Cells, Loaded

-----------------------------------------------------------------------------
(* The stations and their order.                                           *)

LEMMA PlaceIs ==
  /\ \A kind \in Kinds : Place[kind] \in 1 .. 8
  /\ \A kind, other \in Kinds : Place[kind] = Place[other] => kind = other
BY DEF Place, Kinds

LEMMA StationIs ==
  ASSUME NEW k \in Stations
  PROVE  /\ k[1] \in Kinds /\ k[2] \in 1 .. NoOfFunctionalUnits[k[1]]
         /\ k = <<k[1], k[2]>> /\ k[2] \in Nat /\ k \notin {Nobody, WritesBack, Issues}
<1>1. PICK kind \in Kinds : \E n \in 1 .. NoOfFunctionalUnits[kind] : k = <<kind, n>>
  BY DEF Stations
<1>2. PICK n \in 1 .. NoOfFunctionalUnits[kind] : k = <<kind, n>>
  BY <1>1
<1>3. NoOfFunctionalUnits[kind] \in Nat
  BY SimTomasuloAssumption
<1> QED
  BY <1>2, <1>3 DEF Kinds, Nobody, WritesBack, Issues

LEMMA BeforeIs ==
  /\ \A j \in Stations : ~Before(j, j)
  /\ \A j, k \in Stations : j # k => Before(j, k) \/ Before(k, j)
  /\ \A j, k \in Stations : ~(Before(j, k) /\ Before(k, j))
  /\ \A i, j, k \in Stations : Before(i, j) /\ Before(j, k) => Before(i, k)
<1>1. \A k \in Stations : /\ Place[k[1]] \in Nat /\ k[2] \in Nat
                          /\ k[1] \in Kinds /\ k = <<k[1], k[2]>>
  BY StationIs, PlaceIs
<1>2. \A j, k \in Stations : Place[j[1]] = Place[k[1]] => j[1] = k[1]
  BY <1>1, PlaceIs
<1>3. \A j, k \in Stations : j[1] = k[1] /\ j[2] = k[2] => j = k
  BY <1>1
<1>4. \A j \in Stations : ~Before(j, j)
  BY <1>1 DEF Before
<1>5. ASSUME NEW j \in Stations, NEW k \in Stations, j # k
      PROVE  Before(j, k) \/ Before(k, j)
  BY <1>1, <1>2, <1>3, <1>5 DEF Before
<1>6. ASSUME NEW j \in Stations, NEW k \in Stations, Before(j, k), Before(k, j)
      PROVE  FALSE
  BY <1>1, <1>6 DEF Before
<1>7. ASSUME NEW i \in Stations, NEW j \in Stations, NEW k \in Stations,
             Before(i, j), Before(j, k)
      PROVE  Before(i, k)
  BY <1>1, <1>7 DEF Before
<1> QED
  BY <1>4, <1>5, <1>6, <1>7

LEMMA LeastNat ==
  ASSUME NEW ns \in SUBSET Nat, ns # {}
  PROVE  \E n \in ns : \A m \in ns : n <= m
<1>1. PICK n \in ns : \A m \in ns : <<m, n>> \notin OpToRel(<, Nat)
  BY NatLessThanWellFounded, WFMin
<1>2. \A m \in ns : ~(m < n)
  BY <1>1 DEF OpToRel
<1> QED
  BY <1>2

\* Of any stations there is a first one.
LEMMA FirstOfIs ==
  ASSUME NEW ks \in SUBSET Stations, ks # {}
  PROVE  /\ FirstOf(ks) \in ks
         /\ \A j \in ks : j # FirstOf(ks) => Before(FirstOf(ks), j)
<1>1. \A k \in ks : Place[k[1]] \in Nat /\ k[2] \in Nat
  BY StationIs, PlaceIs
<1>2. PICK k1 \in ks : \A j \in ks : Place[k1[1]] <= Place[j[1]]
  <2> DEFINE ps == {Place[k[1]] : k \in ks}
  <2>1. ps \in SUBSET Nat /\ ps # {}
    BY <1>1
  <2>2. PICK p \in ps : \A m \in ps : p <= m
    <3> HIDE DEF ps
    <3> QED
      BY <2>1, LeastNat
  <2> QED
    BY <2>2
<1>3. PICK k2 \in ks : /\ k2[1] = k1[1]
                       /\ \A j \in ks : j[1] = k1[1] => k2[2] <= j[2]
  <2> DEFINE ps == {n \in Nat : \E k \in ks : k[1] = k1[1] /\ k[2] = n}
  <2>1. ps \in SUBSET Nat /\ ps # {}
    BY <1>1
  <2>2. PICK p \in ps : \A m \in ps : p <= m
    <3> HIDE DEF ps
    <3> QED
      BY <2>1, LeastNat
  <2> QED
    BY <1>1, <2>2
<1>4. \A j \in ks : j # k2 => Before(k2, j)
  <2> SUFFICES ASSUME NEW j \in ks, j # k2, ~Before(k2, j) PROVE FALSE
    OBVIOUS
  <2>1. Before(j, k2)
    BY BeforeIs
  <2> QED
    BY <1>1, <1>2, <1>3, <2>1 DEF Before
<1>5. \E k \in ks : \A j \in ks \ {k} : Before(k, j)
  BY <1>4
<1>6. FirstOf(ks) \in ks /\ \A j \in ks \ {FirstOf(ks)} : Before(FirstOf(ks), j)
  BY <1>5 DEF FirstOf
<1> QED
  BY <1>6

-----------------------------------------------------------------------------
(* The types.                                                              *)

Ints == Registers \ Floats
File(double) == IF double THEN Floats ELSE Ints

\* What decode makes of a line that is an instruction.
Fit(i) ==
  /\ i \in Instruction /\ i.op # "NOOP"
  /\ i.op \in Branches => i.target = None /\ i.n \in 0 .. Size
  /\ i.op \in Arithmetic \cup {"L", "S", "LI"} => i.target \in File(i.double)
  /\ i.op = "MOVE" => i.target \in File(~i.double)
  /\ i.op \in Branches \cup Arithmetic \cup {"MOVE"} => i.source1 \in File(i.double)
  /\ i.op \in {"L", "S"} => i.source1 \in Ints
  /\ i.op = "LI" => i.source1 = None /\ ~i.double
  /\ IF i.op \in Arithmetic \cup {"BEQ", "BNEQ"} THEN i.source2 \in File(i.double)
                                                   ELSE i.source2 = None
\* The stations an instruction is for.
KindOf(i) ==
  IF i.op = "L" THEN "loads" ELSE IF i.op = "S" THEN "stores"
  ELSE IF i.op = "MUL" THEN (IF i.double THEN "fpmuls" ELSE "intmuls")
  ELSE IF i.op = "DIV" THEN (IF i.double THEN "fpdivs" ELSE "intdivs")
  ELSE (IF i.double THEN "fpadds" ELSE "intadds")

\* A station at work has an instruction of its kind; another one is as it was reset.
Shaped(k, u) ==
  IF u.busy THEN Fit(u.ins) /\ k[1] = KindOf(u.ins) /\ u.left <= Cost(u.ins)
            ELSE u = Idle
Shape == \A k \in Stations : Shaped(k, station[k])
\* The turn is at a station at work; a stall is for a line of the program; what is
\* written back is for a register of the file it says.
Turns ==
  /\ turn \in Stations => station[turn].busy
  /\ bStallIF => programCounter <= Size
  /\ wbobject.busy => wbobject.target \in File(wbobject.isDouble)
  /\ \A double \in BOOLEAN : waitOn[double][None] = Nobody
Types == TypeOK /\ Shape /\ Turns

LEMMA NamesAre ==
  /\ Floats \subseteq Registers /\ Ints \subseteq Registers /\ None \notin Registers
  /\ Floats \cap Ints = {} /\ Floats \cup Ints = Registers
  /\ Registers \subseteq Names /\ None \in Names
BY SimIsaAssumption, SimTomasuloAssumption DEF Ints, Names

LEMMA LinesAre ==
  ASSUME NEW p \in Programs, NEW l \in Lines
  PROVE  /\ p[l].op \in OpCodes /\ p[l].n \in Int
         /\ p[l].t \in Names /\ p[l].a \in Names /\ p[l].b \in Names
         /\ WellFormed(p[l]) /\ ValidRegisters(p[l])
<1>1. p \in [Lines -> Instructions] /\ WellFormed(p[l]) /\ ValidRegisters(p[l])
  BY SimIsaAssumption, SimTomasuloAssumption
<1> QED
  BY <1>1 DEF Instructions

LEMMA CostIs ==
  ASSUME NEW i \in Instruction PROVE Cost(i) \in Nat \ {0}
<1>1. <<i.op, i.double>> \in OpCodes \X BOOLEAN
  BY DEF Instruction
<1>2. Cycles \in [OpCodes \X BOOLEAN -> Nat \ {0}]
  BY SimTomasuloAssumption
<1> QED
  BY <1>1, <1>2 DEF Cost

LEMMA NoInstructionIs == NoInstruction \in Instruction
BY NamesAre DEF NoInstruction, Instruction, OpCodes

LEMMA IdleIs == Idle \in Unit /\ ~Idle.busy
BY NoInstructionIs, WordsAre DEF Idle, Unit

\* The registers of a line, by the form of its operation.
LEMMA FormsAre ==
  ASSUME NEW p \in Programs, NEW l \in Lines, NEW i, i = p[l]
  PROVE  /\ isDouble(i) \in BOOLEAN
         /\ i.op \in Arithmetic => {i.t, i.a, i.b} \subseteq File(isDouble(i))
         /\ i.op \in Branches => i.a \in File(isDouble(i)) /\ i.t = None
         /\ i.op \in {"BEQ", "BNEQ"} => i.b \in File(isDouble(i))
         /\ i.op = "L" => i.t \in File(isDouble(i)) /\ i.b \in Ints
         /\ i.op = "S" => i.a \in File(isDouble(i)) /\ i.b \in Ints
         /\ i.op = "LI" => i.t \in Ints /\ ~isDouble(i)
         /\ i.op = "MOVE" => i.a \in File(isDouble(i)) /\ i.t \in File(~isDouble(i))
<1>1. /\ i.op \in OpCodes /\ i.t \in Names /\ i.a \in Names /\ i.b \in Names
      /\ WellFormed(i) /\ ValidRegisters(i)
  BY LinesAre
<1>2. CASE i.op \in Arithmetic
  BY <1>1, <1>2, NamesAre
     DEF WellFormed, ValidRegisters, isDouble, File, Ints, Names, Arithmetic, Branches
<1>3. CASE i.op \in Branches
  BY <1>1, <1>3, NamesAre
     DEF WellFormed, ValidRegisters, isDouble, File, Ints, Names, Arithmetic, Branches
<1>4. CASE i.op = "L"
  BY <1>1, <1>4, NamesAre
     DEF WellFormed, ValidRegisters, isDouble, File, Ints, Names, Arithmetic, Branches
<1>5. CASE i.op = "S"
  BY <1>1, <1>5, NamesAre
     DEF WellFormed, ValidRegisters, isDouble, File, Ints, Names, Arithmetic, Branches
<1>6. CASE i.op = "LI"
  BY <1>1, <1>6, NamesAre
     DEF WellFormed, ValidRegisters, isDouble, File, Ints, Names, Arithmetic, Branches
<1>7. CASE i.op = "MOVE"
  BY <1>1, <1>7, NamesAre
     DEF WellFormed, ValidRegisters, isDouble, File, Ints, Names, Arithmetic, Branches
<1>8. CASE i.op = "NOOP"
  BY <1>8 DEF isDouble, Arithmetic, Branches
<1> QED
  BY <1>1, <1>2, <1>3, <1>4, <1>5, <1>6, <1>7, <1>8 DEF OpCodes

\* What the decoders keep of a line of which they read the address right.
LEMMA DecodesIs ==
  ASSUME NEW p \in Programs, NEW l \in Lines, NEW i, i = p[l], ~MisreadsBase(i),
         NEW d, d = decode(i)
  PROVE  /\ d.op = i.op
         /\ i.op \in Arithmetic =>
              d = Decoded(i, i.t, i.a, i.b)
         /\ i.op = "LI" => d = Decoded(i, i.t, None, None)
         /\ i.op = "L" => d = Decoded(i, i.t, i.b, None)
         /\ i.op = "S" => d = Decoded(i, i.a, i.b, None)
         /\ i.op \in {"BEQ", "BNEQ"} => d = Decoded(i, None, i.a, i.b)
         /\ i.op \in {"BGTZ", "BLTZ"} => d = Decoded(i, None, i.a, None)
         /\ i.op = "MOVE" => d = Decoded(i, i.t, i.a, None)
         /\ i.op = "NOOP" => d = NoInstruction
<1>1. i.op \in OpCodes
  BY LinesAre
<1>0. i.op \in {"L", "S"} => BaseOf(i) = i.b /\ i.b # None
  BY FormsAre, NamesAre DEF MisreadsBase
<1>2. /\ i.op \in Arithmetic => d = Decoded(i, i.t, i.a, i.b)
      /\ i.op = "LI" => d = Decoded(i, i.t, None, None)
      /\ i.op = "L" => d = Decoded(i, i.t, i.b, None)
      /\ i.op = "S" => d = Decoded(i, i.a, i.b, None)
      /\ i.op \in {"BEQ", "BNEQ"} => d = Decoded(i, None, i.a, i.b)
      /\ i.op \in {"BGTZ", "BLTZ"} => d = Decoded(i, None, i.a, None)
      /\ i.op = "MOVE" => d = Decoded(i, i.t, i.a, None)
      /\ i.op = "NOOP" => d = NoInstruction
  BY <1>0 DEF decode, decodeArithmatic, decodeLI, decodeLoadStore, FirstRegister,
              decodeBEQ, decodeBNEQ, decodeBGTZ, decodeBLTZ, decodeMOVE, Arithmetic
<1>3. \A t, a, b : Decoded(i, t, a, b).op = i.op
  BY DEF Decoded
<1>4. NoInstruction.op = "NOOP"
  BY DEF NoInstruction
<1> QED
  BY <1>1, <1>2, <1>3, <1>4 DEF OpCodes, Branches

LEMMA DecodesFit ==
  ASSUME NEW p \in Programs, NEW l \in Lines
  PROVE  /\ decode(p[l]) = NoInstruction \/ Fit(decode(p[l]))
         /\ decode(p[l]) \in Instruction
<1> DEFINE i == p[l]
           d == decode(i)
<1>1. /\ i.op \in OpCodes /\ i.n \in Int
      /\ i.t \in Names /\ i.a \in Names /\ i.b \in Names /\ WellFormed(i)
  BY LinesAre
<1>2. /\ isDouble(i) \in BOOLEAN
      /\ i.op \in Arithmetic => {i.t, i.a, i.b} \subseteq File(isDouble(i))
      /\ i.op \in Branches => i.a \in File(isDouble(i)) /\ i.t = None
      /\ i.op \in {"BEQ", "BNEQ"} => i.b \in File(isDouble(i))
      /\ i.op = "L" => i.t \in File(isDouble(i)) /\ i.b \in Ints
      /\ i.op = "S" => i.a \in File(isDouble(i)) /\ i.b \in Ints
      /\ i.op = "LI" => i.t \in Ints /\ ~isDouble(i)
      /\ i.op = "MOVE" => i.a \in File(isDouble(i)) /\ i.t \in File(~isDouble(i))
  BY FormsAre
<1>3. i.op \in Branches => i.n \in 0 .. Size
  BY <1>1 DEF WellFormed
<1>4. /\ i.op \in Arithmetic => d = Decoded(i, i.t, i.a, i.b)
      /\ i.op = "LI" => d = Decoded(i, i.t, None, None)
      /\ i.op \in {"BEQ", "BNEQ"} => d = Decoded(i, None, i.a, i.b)
      /\ i.op \in {"BGTZ", "BLTZ"} => d = Decoded(i, None, i.a, None)
      /\ i.op = "MOVE" => d = Decoded(i, i.t, i.a, None)
      /\ i.op = "NOOP" => d = NoInstruction
  <2>1. i.op \notin {"L", "S"} => ~MisreadsBase(i)
    BY DEF MisreadsBase
  <2>2. /\ Arithmetic \cap {"L", "S"} = {}
        /\ {"LI", "BEQ", "BNEQ", "BGTZ", "BLTZ", "MOVE", "NOOP"} \cap {"L", "S"} = {}
    BY DEF Arithmetic
  <2> QED
    BY <2>1, <2>2, DecodesIs
<1>11. ASSUME i.op \in {"L", "S"}
       PROVE  /\ BaseOf(i) \in Ints \cup {None}
              /\ d = IF BaseOf(i) = None THEN NoInstruction
                     ELSE Decoded(i, FirstRegister(i), BaseOf(i), None)
  <2>1. FirstRegister(i) \in Registers /\ i.b \in Ints
    BY <1>2, <1>11, NamesAre DEF FirstRegister, File
  <2>2. BaseRead \in [Registers \X Ints -> Ints \cup {None}]
    BY SimTomasuloAssumption DEF Ints
  <2>3. BaseOf(i) \in Ints \cup {None}
    BY <2>1, <2>2 DEF BaseOf
  <2>4. d = decodeLoadStore(i)
    BY <1>11 DEF decode, Arithmetic
  <2> QED
    BY <2>3, <2>4 DEF decodeLoadStore
<1>5. ASSUME NEW t \in Names, NEW a \in Names, NEW b \in Names
      PROVE  /\ Decoded(i, t, a, b) \in Instruction
             /\ Decoded(i, t, a, b).op = i.op /\ Decoded(i, t, a, b).n = i.n
             /\ Decoded(i, t, a, b).double = isDouble(i)
             /\ Decoded(i, t, a, b).target = t /\ Decoded(i, t, a, b).source1 = a
             /\ Decoded(i, t, a, b).source2 = b
  BY <1>1, <1>2 DEF Decoded, Instruction
<1> SUFFICES (d = NoInstruction \/ Fit(d)) /\ d \in Instruction
  OBVIOUS
<1> HIDE DEF d, i
<1>6. CASE i.op \in Arithmetic
  <2>1. d = Decoded(i, i.t, i.a, i.b)
    BY <1>4, <1>6
  <2>2. /\ d \in Instruction /\ d.op = i.op /\ d.n = i.n /\ d.double = isDouble(i)
        /\ d.target = i.t /\ d.source1 = i.a /\ d.source2 = i.b
    BY <1>1, <1>5, <2>1, NamesAre
  <2>3. Fit(d)
    BY <1>2, <1>6, <2>2 DEF Fit, Arithmetic, Branches, File
  <2> QED
    BY <2>2, <2>3
<1>7. CASE i.op \in {"BEQ", "BNEQ"}
  <2>1. d = Decoded(i, None, i.a, i.b)
    BY <1>4, <1>7
  <2>2. /\ d \in Instruction /\ d.op = i.op /\ d.n = i.n /\ d.double = isDouble(i)
        /\ d.target = None /\ d.source1 = i.a /\ d.source2 = i.b
    BY <1>1, <1>5, <2>1, NamesAre
  <2>3. Fit(d)
    BY <1>2, <1>3, <1>7, <2>2 DEF Fit, Arithmetic, Branches, File
  <2> QED
    BY <2>2, <2>3
<1>8. CASE i.op \in {"BGTZ", "BLTZ"}
  <2>1. d = Decoded(i, None, i.a, None)
    BY <1>4, <1>8
  <2>2. /\ d \in Instruction /\ d.op = i.op /\ d.n = i.n /\ d.double = isDouble(i)
        /\ d.target = None /\ d.source1 = i.a /\ d.source2 = None
    BY <1>1, <1>5, <2>1, NamesAre
  <2>3. Fit(d)
    BY <1>2, <1>3, <1>8, <2>2 DEF Fit, Arithmetic, Branches, File
  <2> QED
    BY <2>2, <2>3
<1>9. CASE i.op = "LI"
  <2>1. d = Decoded(i, i.t, None, None)
    BY <1>4, <1>9
  <2>2. /\ d \in Instruction /\ d.op = i.op /\ d.n = i.n /\ d.double = isDouble(i)
        /\ d.target = i.t /\ d.source1 = None /\ d.source2 = None
    BY <1>1, <1>5, <2>1, NamesAre
  <2>3. Fit(d)
    BY <1>2, <1>9, <2>2 DEF Fit, Arithmetic, Branches, File
  <2> QED
    BY <2>2, <2>3
<1>10. CASE i.op \in {"L", "S"}
  <2>1. CASE BaseOf(i) = None
    BY <1>10, <1>11, <2>1, NoInstructionIs
  <2>2. CASE BaseOf(i) # None
    <3> DEFINE first == FirstRegister(i)
               base == BaseOf(i)
    <3>1. base \in Ints /\ d = Decoded(i, first, base, None)
      BY <1>10, <1>11, <2>2
    <3>2. /\ first \in Names /\ first \in File(isDouble(i))
      BY <1>1, <1>2, <1>10 DEF FirstRegister
    <3> HIDE DEF first, base
    <3>3. /\ d \in Instruction /\ d.op = i.op /\ d.n = i.n /\ d.double = isDouble(i)
          /\ d.target = first /\ d.source1 = base /\ d.source2 = None
      BY <1>5, <3>1, <3>2, NamesAre
    <3>4. Fit(d)
      BY <1>2, <1>10, <3>1, <3>2, <3>3 DEF Fit, Arithmetic, Branches, File
    <3> QED
      BY <3>3, <3>4
  <2> QED
    BY <2>1, <2>2
<1>12. CASE i.op = "MOVE"
  <2>1. d = Decoded(i, i.t, i.a, None)
    BY <1>4, <1>12
  <2>2. /\ d \in Instruction /\ d.op = i.op /\ d.n = i.n /\ d.double = isDouble(i)
        /\ d.target = i.t /\ d.source1 = i.a /\ d.source2 = None
    BY <1>1, <1>5, <2>1, NamesAre
  <2>3. Fit(d)
    BY <1>2, <1>12, <2>2 DEF Fit, Arithmetic, Branches, File
  <2> QED
    BY <2>2, <2>3
<1>13. CASE i.op = "NOOP"
  BY <1>4, <1>13, NoInstructionIs
<1> QED
  BY <1>1, <1>6, <1>7, <1>8, <1>9, <1>10, <1>12, <1>13
     DEF OpCodes, Branches

LEMMA TypesInit == Init => Types
<1> SUFFICES ASSUME Init PROVE Types
  OBVIOUS
<1>1. /\ vprogram \in Programs /\ programCounter \in 0 .. Size + 1 /\ mem \in Cells
      /\ registers \in [Registers -> Word] /\ seqRegisters \in [Registers -> Word]
      /\ seqCounter \in 0 .. Size /\ seqMem \in Cells
  BY WordsAre, SimIsaAssumption DEF Init
<1>2. /\ waitOn \in [BOOLEAN -> [Names -> Stations \cup {Nobody}]]
      /\ \A double \in BOOLEAN : waitOn[double][None] = Nobody
  BY NamesAre DEF Init
<1>3. station \in [Stations -> Unit] /\ Shape
  BY IdleIs DEF Init, Shape, Shaped
<1>4. wbobject \in [busy : BOOLEAN, isDouble : BOOLEAN, target : Names, val : Word]
      /\ ~wbobject.busy
  BY NamesAre, WordsAre DEF Init, NothingToWrite
<1>5. /\ bStallIF = FALSE /\ bStallDueToBranch = FALSE /\ stallDueToRSid = {}
      /\ triggerend = FALSE /\ turn = WritesBack /\ spoiled = FALSE
  BY DEF Init
<1>6. turn \notin Stations
  BY <1>5, StationIs
<1> QED
  BY <1>1, <1>2, <1>3, <1>4, <1>5, <1>6 DEF Types, TypeOK, Turns

LEMMA TypesAre ==
  ASSUME Types
  PROVE  /\ vprogram \in Programs /\ programCounter \in 0 .. Size + 1
         /\ registers \in [Registers -> Word] /\ mem \in Cells
         /\ waitOn \in [BOOLEAN -> [Names -> Stations \cup {Nobody}]]
         /\ station \in [Stations -> Unit]
         /\ wbobject \in [busy : BOOLEAN, isDouble : BOOLEAN, target : Names, val : Word]
         /\ bStallIF \in BOOLEAN /\ bStallDueToBranch \in BOOLEAN
         /\ stallDueToRSid \in SUBSET Kinds /\ triggerend \in BOOLEAN
         /\ turn \in Stations \cup {WritesBack, Issues}
         /\ seqCounter \in 0 .. Size /\ seqRegisters \in [Registers -> Word]
         /\ seqMem \in Cells /\ spoiled \in BOOLEAN
BY DEF Types, TypeOK

LEMMA UnitsAre ==
  ASSUME NEW u \in Unit
  PROVE  /\ u.busy \in BOOLEAN /\ u.ins \in Instruction /\ u.hold \in BOOLEAN
         /\ u.left \in Nat /\ u.vj \in BOOLEAN /\ u.vk \in BOOLEAN
         /\ u.s1 \in Word /\ u.s2 \in Word /\ u.waiting \in BOOLEAN /\ u.value \in Word
         /\ u.x \in Word /\ u.y \in Word /\ u.behind \in BOOLEAN
BY DEF Unit

LEMMA InsAre ==
  ASSUME NEW i \in Instruction
  PROVE  /\ i.op \in OpCodes /\ i.double \in BOOLEAN /\ i.target \in Names
         /\ i.source1 \in Names /\ i.source2 \in Names /\ i.n \in Int
BY DEF Instruction

LEMMA RegIs ==
  ASSUME Types, NEW r \in Names PROVE Reg(r) \in Word
BY TypesAre, WordsAre DEF Reg, Names

LEMMA TargetIs ==
  ASSUME NEW i, Fit(i), i.target # None
  PROVE  i.target \in Registers /\ i.target \in Names
BY NamesAre DEF Fit, Instruction, Names

LEMMA TurnIs ==
  ASSUME Types, NEW k \in Stations, turn = k
  PROVE  station[k].busy /\ Fit(station[k].ins) /\ k[1] = KindOf(station[k].ins)
BY DEF Types, Turns, Shape, Shaped

\* A step that changes one station.
LEMMA ChangesOne ==
  ASSUME Types, NEW k \in Stations, NEW u \in Unit, Shaped(k, u),
         station' = [station EXCEPT ![k] = u]
  PROVE  /\ station' \in [Stations -> Unit] /\ Shape'
         /\ station'[k] = u /\ \A j \in Stations : j # k => station'[j] = station[j]
<1>1. station \in [Stations -> Unit]
  BY TypesAre
<1>2. station' \in [Stations -> Unit]
  BY <1>1
<1>3. station'[k] = u /\ \A j \in Stations : j # k => station'[j] = station[j]
  BY <1>1
<1>4. Shape'
  BY <1>3 DEF Types, Shape, Shaped
<1> QED
  BY <1>2, <1>3, <1>4

\* A step that changes one lock.
LEMMA LocksOne ==
  ASSUME Types, NEW d \in BOOLEAN, NEW r \in Registers,
         NEW who \in Stations \cup {Nobody}, waitOn' = [waitOn EXCEPT ![d][r] = who]
  PROVE  /\ waitOn' \in [BOOLEAN -> [Names -> Stations \cup {Nobody}]]
         /\ \A double \in BOOLEAN : waitOn'[double][None] = Nobody
         /\ \A double \in BOOLEAN : \A s \in Names :
              waitOn'[double][s] = IF double = d /\ s = r THEN who ELSE waitOn[double][s]
<1>1. /\ waitOn \in [BOOLEAN -> [Names -> Stations \cup {Nobody}]]
      /\ \A double \in BOOLEAN : waitOn[double][None] = Nobody
  BY TypesAre DEF Types, Turns
<1>2. r \in Names /\ r # None /\ None \in Names
  BY NamesAre
<1>3. waitOn' \in [BOOLEAN -> [Names -> Stations \cup {Nobody}]]
  BY <1>1, <1>2
<1>4. \A double \in BOOLEAN : \A s \in Names :
        waitOn'[double][s] = IF double = d /\ s = r THEN who ELSE waitOn[double][s]
  BY <1>1, <1>2
<1> QED
  BY <1>1, <1>2, <1>3, <1>4

LEMMA FirstTurnIs ==
  /\ FirstTurn = Issues <=> Busy = {}
  /\ Busy # {} => /\ FirstTurn \in Busy
                  /\ \A j \in Busy : j # FirstTurn => Before(FirstTurn, j)
<1>1. Busy \in SUBSET Stations
  BY DEF Busy
<1>2. Busy # {} => /\ FirstOf(Busy) \in Busy
                   /\ \A j \in Busy : j # FirstOf(Busy) => Before(FirstOf(Busy), j)
  BY <1>1, FirstOfIs
<1> QED
  BY <1>1, <1>2, StationIs DEF FirstTurn

LEMMA NextTurnIs ==
  ASSUME NEW k \in Stations
  PROVE  \/ NextTurn(k) = Issues /\ \A j \in Busy : ~Before(k, j)
         \/ /\ NextTurn(k) \in Busy /\ NextTurn(k) \in Stations /\ Before(k, NextTurn(k))
            /\ \A j \in Busy : Before(k, j) /\ j # NextTurn(k) => Before(NextTurn(k), j)
<1> DEFINE later == {j \in Busy : Before(k, j)}
<1>1. later \in SUBSET Stations
  BY DEF Busy
<1>2. NextTurn(k) = IF later = {} THEN Issues ELSE FirstOf(later)
  BY DEF NextTurn
<1>3. CASE later = {}
  BY <1>2, <1>3
<1>4. CASE later # {}
  <2>1. FirstOf(later) \in later /\ \A j \in later : j # FirstOf(later) => Before(FirstOf(later), j)
    <3> HIDE DEF later
    <3> QED
      BY <1>1, <1>4, FirstOfIs
  <2> QED
    BY <1>2, <1>4, <2>1 DEF Busy
<1> QED
  BY <1>3, <1>4

\* What every step of a station keeps; what else it changes is left to show.
LEMMA TypesExecute ==
  ASSUME Types, NEW k \in Stations, Executes(k),
         NEW u \in Unit, Shaped(k, u), station' = [station EXCEPT ![k] = u],
         programCounter' \in 0 .. Size + 1, mem' \in Cells,
         waitOn' \in [BOOLEAN -> [Names -> Stations \cup {Nobody}]],
         \A double \in BOOLEAN : waitOn'[double][None] = Nobody,
         wbobject' \in [busy : BOOLEAN, isDouble : BOOLEAN, target : Names, val : Word],
         wbobject'.busy => wbobject'.target \in File(wbobject'.isDouble),
         bStallIF' \in BOOLEAN, bStallDueToBranch' \in BOOLEAN,
         bStallIF' => programCounter' <= Size
  PROVE  Types'
<1>1. /\ station' \in [Stations -> Unit] /\ Shape'
      /\ station'[k] = u /\ \A j \in Stations : j # k => station'[j] = station[j]
  BY ChangesOne
<1>2. /\ turn' = NextTurn(k) /\ triggerend' = FALSE /\ vprogram' = vprogram
      /\ registers' = registers /\ stallDueToRSid' = stallDueToRSid
      /\ seqCounter' = seqCounter /\ seqRegisters' = seqRegisters /\ seqMem' = seqMem
      /\ spoiled' = spoiled
  BY DEF Executes, ahead
<1>3. /\ turn' \in Stations \cup {Issues}
      /\ turn' \in Stations => turn' # k /\ station[turn'].busy
  BY <1>2, NextTurnIs, BeforeIs, StationIs DEF Busy
<1>4. turn' \in Stations => station'[turn'].busy
  BY <1>1, <1>3
<1>5. TypeOK'
  BY <1>1, <1>2, <1>3, TypesAre DEF TypeOK
<1>6. Turns'
  BY <1>4 DEF Turns
<1> QED
  BY <1>1, <1>5, <1>6 DEF Types

LEMMA LocksKept ==
  ASSUME Types, waitOn' = waitOn
  PROVE  /\ waitOn' \in [BOOLEAN -> [Names -> Stations \cup {Nobody}]]
         /\ \A double \in BOOLEAN : waitOn'[double][None] = Nobody
BY DEF Types, TypeOK, Turns

LEMMA WrittenKept ==
  ASSUME Types, wbobject' = wbobject
  PROVE  /\ wbobject' \in [busy : BOOLEAN, isDouble : BOOLEAN, target : Names, val : Word]
         /\ wbobject'.busy => wbobject'.target \in File(wbobject'.isDouble)
BY DEF Types, TypeOK, Turns

LEMMA StallsKept ==
  ASSUME Types, programCounter' = programCounter, bStallIF' = bStallIF,
         bStallDueToBranch' = bStallDueToBranch
  PROVE  /\ programCounter' \in 0 .. Size + 1
         /\ bStallIF' \in BOOLEAN /\ bStallDueToBranch' \in BOOLEAN
         /\ bStallIF' => programCounter' <= Size
BY DEF Types, TypeOK, Turns

\* Where the turn is, a station at work and its instruction.
LEMMA UnitIs ==
  ASSUME Types, NEW k \in Stations, turn = k, NEW u, u = station[k]
  PROVE  /\ u \in Unit /\ u.busy /\ Fit(u.ins) /\ k[1] = KindOf(u.ins)
         /\ u.left \in Nat /\ u.left <= Cost(u.ins) /\ Cost(u.ins) \in Nat \ {0}
         /\ u.s1 \in Word /\ u.s2 \in Word /\ u.value \in Word /\ u.ins \in Instruction
<1>1. u \in Unit /\ u.busy /\ Shaped(k, u)
  BY TypesAre DEF Types, Turns, Shape
<1>2. u.ins \in Instruction /\ u.left \in Nat /\ u.left <= Cost(u.ins)
  BY <1>1, UnitsAre DEF Shaped
<1> QED
  BY <1>1, <1>2, UnitsAre, CostIs DEF Shaped

\* A station that goes on with its instruction.
LEMMA ShapedIs ==
  ASSUME NEW k \in Stations, NEW u \in Unit, u.busy, Fit(u.ins), k[1] = KindOf(u.ins),
         u.left <= Cost(u.ins)
  PROVE  Shaped(k, u)
BY DEF Shaped

LEMMA HeldTypes ==
  ASSUME Types, NEW k \in Stations, Held(k) PROVE Types'
<1> DEFINE v == [station[k] EXCEPT !.hold = FALSE]
<1>0. v = [station[k] EXCEPT !.hold = FALSE]
  OBVIOUS
<1> HIDE DEF v
<1>1. turn = k /\ Executes(k)
  BY DEF Held, Executes
<1>2. v \in Unit /\ Shaped(k, v)
  <2>1. /\ station[k] \in Unit /\ station[k].busy /\ Fit(station[k].ins)
        /\ k[1] = KindOf(station[k].ins) /\ station[k].left <= Cost(station[k].ins)
    BY <1>1, UnitIs
  <2>2. v \in Unit /\ v.busy = station[k].busy /\ v.ins = station[k].ins
        /\ v.left = station[k].left
    BY <1>0, <2>1 DEF Unit
  <2> QED
    BY <2>1, <2>2, ShapedIs
<1>3. station' = [station EXCEPT ![k] = v]
  BY <1>0, TypesAre DEF Held
<1>4. /\ programCounter' = programCounter /\ mem' = mem /\ waitOn' = waitOn
      /\ wbobject' = wbobject /\ bStallIF' = bStallIF
      /\ bStallDueToBranch' = bStallDueToBranch
  BY DEF Held
<1> HIDE DEF v
<1> QED
  BY <1>1, <1>2, <1>3, <1>4, TypesExecute, LocksKept, WrittenKept, StallsKept, TypesAre

LEMMA CountsTypes ==
  ASSUME Types, NEW k \in Stations, Executes(k), Counts(k) PROVE Types'
<1> DEFINE v == [station[k] EXCEPT !.left = @ - 1]
<1>0. v = [station[k] EXCEPT !.left = @ - 1]
  OBVIOUS
<1> HIDE DEF v
<1>1. turn = k
  BY DEF Executes
<1>2. v \in Unit /\ Shaped(k, v)
  <2>1. /\ station[k].left > 0 /\ station[k] \in Unit /\ station[k].busy
        /\ Fit(station[k].ins) /\ k[1] = KindOf(station[k].ins)
        /\ station[k].left \in Nat /\ station[k].left <= Cost(station[k].ins)
        /\ Cost(station[k].ins) \in Nat
    BY <1>1, UnitIs DEF Counts
  <2>4. station[k].left - 1 \in Nat
    BY <2>1
  <2>2. /\ v.busy = station[k].busy /\ v.ins = station[k].ins
        /\ v.left = station[k].left - 1 /\ v \in Unit
    BY <1>0, <2>1, <2>4 DEF Unit
  <2>3. v.left <= Cost(v.ins)
    BY <2>1, <2>2
  <2> QED
    BY <2>1, <2>2, <2>3, ShapedIs
<1>3. station' = [station EXCEPT ![k] = v]
  BY <1>0, TypesAre DEF Counts
<1>4. /\ programCounter' = programCounter /\ mem' = mem /\ waitOn' = waitOn
      /\ wbobject' = wbobject /\ bStallIF' = bStallIF
      /\ bStallDueToBranch' = bStallDueToBranch
  BY DEF Counts
<1> HIDE DEF v
<1> QED
  BY <1>1, <1>2, <1>3, <1>4, TypesExecute, LocksKept, WrittenKept, StallsKept, TypesAre

\* A station that does nothing, or starts with operands a and b and locks its target.
LEMMA StartsTypes ==
  ASSUME Types, NEW k \in Stations, Executes(k), NEW v \in Unit,
         station' = [station EXCEPT ![k] = v],
         v.busy, v.ins = station[k].ins, v.left <= station[k].left,
         \/ waitOn' = waitOn
         \/ /\ station[k].ins.target # None
            /\ waitOn' = [waitOn EXCEPT ![station[k].ins.double][station[k].ins.target] = k],
         UNCHANGED <<programCounter, mem, wbobject, bStallIF, bStallDueToBranch>>
  PROVE  Types'
<1>1. turn = k
  BY DEF Executes
<1>2. /\ Fit(station[k].ins) /\ k[1] = KindOf(station[k].ins) /\ station[k].left \in Nat
      /\ station[k].left <= Cost(station[k].ins) /\ Cost(station[k].ins) \in Nat
  BY <1>1, UnitIs
<1>3. v.left \in Nat
  BY UnitsAre
<1>4. Shaped(k, v)
  BY <1>2, <1>3, ShapedIs
<1>5. /\ waitOn' \in [BOOLEAN -> [Names -> Stations \cup {Nobody}]]
      /\ \A double \in BOOLEAN : waitOn'[double][None] = Nobody
  <2>1. CASE waitOn' = waitOn
    BY <2>1, LocksKept
  <2>2. CASE /\ station[k].ins.target # None
             /\ waitOn' = [waitOn EXCEPT ![station[k].ins.double][station[k].ins.target] = k]
    <3>1. station[k].ins.target \in Registers /\ station[k].ins.double \in BOOLEAN
      BY <1>2, <2>2, TargetIs, InsAre DEF Fit
    <3> QED
      BY <2>2, <3>1, LocksOne
  <2> QED
    BY <2>1, <2>2
<1> QED
  BY <1>1, <1>4, <1>5, TypesExecute, WrittenKept, StallsKept, TypesAre

LEMMA AddressedTypes ==
  ASSUME Types, NEW k \in Stations, Executes(k), k[1] \in {"loads", "stores"}, Addressed(k)
  PROVE  Types'
<1> DEFINE u == station[k]
           i == u.ins
           v == [u EXCEPT !.left = @ - 1, !.s1 = Sum(i.n, Reg(i.source1))]
<1>1. turn = k
  BY DEF Executes
<1>2. /\ u \in Unit /\ u.busy /\ Fit(i) /\ k[1] = KindOf(i) /\ u.left \in Nat
      /\ Cost(i) \in Nat \ {0} /\ i \in Instruction /\ u.left = Cost(i)
  BY <1>1, UnitIs DEF Addressed, NotStarted
<1>3. i.op \in {"L", "S"}
  BY <1>2 DEF KindOf
<1>4. i.target # None
  BY <1>2, <1>3, NamesAre DEF Fit, File
<1>5. CASE FreeRegister(FALSE, i.source1) /\ Lockable(k, i.double, i.target)
  <2>1. Sum(i.n, Reg(i.source1)) \in Word
    BY <1>2, InsAre, RegIs, WordIsInt, SumIs
  <2>2. v \in Unit /\ v.busy /\ v.ins = i /\ v.left = u.left - 1
    <3>1. u.left - 1 \in Nat /\ v = [u EXCEPT !.left = @ - 1, !.s1 = Sum(i.n, Reg(i.source1))]
      BY <1>2
    <3> HIDE DEF v
    <3> QED
      BY <1>2, <2>1, <3>1 DEF Unit
  <2>3. /\ station' = [station EXCEPT ![k].left = @ - 1,
                                      ![k].s1 = Sum(i.n, Reg(i.source1))]
        /\ waitOn' = [waitOn EXCEPT ![i.double][i.target] = k]
        /\ UNCHANGED <<programCounter, mem, wbobject, bStallIF, bStallDueToBranch>>
    BY <1>5 DEF Addressed
  <2>4. station' = [station EXCEPT ![k] = v]
    BY <2>3, TypesAre
  <2> HIDE DEF v
  <2>5. v.left <= u.left
    BY <1>2, <2>2
  <2> QED
    BY <1>4, <2>2, <2>3, <2>4, <2>5, StartsTypes
<1>6. CASE ~(FreeRegister(FALSE, i.source1) /\ Lockable(k, i.double, i.target))
  <2>1. /\ station' = station /\ waitOn' = waitOn
        /\ UNCHANGED <<programCounter, mem, wbobject, bStallIF, bStallDueToBranch>>
    BY <1>6 DEF Addressed
  <2>2. station' = [station EXCEPT ![k] = u]
    BY <2>1, TypesAre
  <2>3. u.left <= station[k].left
    BY <1>2
  <2> QED
    BY <1>2, <2>1, <2>2, <2>3, StartsTypes
<1> QED
  BY <1>5, <1>6

LEMMA OperandsTypes ==
  ASSUME Types, NEW k \in Stations, Executes(k), NEW locks \in BOOLEAN, Operands(k, locks)
  PROVE  Types'
<1> DEFINE i == station[k].ins
           u == [station[k] EXCEPT !.vj = @ \/ FreeRegister(i.double, i.source1),
                                   !.vk = @ \/ FreeRegister(i.double, i.source2)]
           starts == /\ u.vj /\ u.vk
                     /\ locks => i.target # None /\ Lockable(k, i.double, i.target)
           v == [u EXCEPT !.left = @ - 1, !.s1 = Reg(i.source1), !.s2 = Reg(i.source2)]
<1>0. u = [station[k] EXCEPT !.vj = @ \/ FreeRegister(i.double, i.source1),
                             !.vk = @ \/ FreeRegister(i.double, i.source2)]
  OBVIOUS
<1>1. turn = k
  BY DEF Executes
<1>2. /\ station[k] \in Unit /\ station[k].busy /\ i \in Instruction
      /\ station[k].left \in Nat /\ Cost(i) \in Nat \ {0}
  BY <1>1, UnitIs
<1>3. /\ NotStarted(u)
      /\ station' = [station EXCEPT ![k] = IF starts THEN v ELSE u]
      /\ waitOn' = IF starts /\ locks THEN [waitOn EXCEPT ![i.double][i.target] = k]
                                      ELSE waitOn
      /\ UNCHANGED <<programCounter, mem, wbobject, bStallIF, bStallDueToBranch>>
  BY DEF Operands
<1>4. FreeRegister(i.double, i.source1) \in BOOLEAN /\ FreeRegister(i.double, i.source2) \in BOOLEAN
  BY DEF FreeRegister
<1>5. u \in Unit /\ u.busy /\ u.ins = i /\ u.left = station[k].left
  <2> HIDE DEF u
  <2> QED
    BY <1>0, <1>2, <1>4 DEF Unit
<1>6. u.left = Cost(i)
  BY <1>3, <1>5 DEF NotStarted
<1>7. Reg(i.source1) \in Word /\ Reg(i.source2) \in Word
  BY <1>2, InsAre, RegIs
<1> HIDE DEF u
<1>8. v \in Unit /\ v.busy /\ v.ins = i /\ v.left = u.left - 1
  <2>1. /\ u.left - 1 \in Nat
        /\ v = [u EXCEPT !.left = @ - 1, !.s1 = Reg(i.source1), !.s2 = Reg(i.source2)]
    BY <1>2, <1>6
  <2> HIDE DEF v
  <2> QED
    BY <1>5, <1>7, <2>1 DEF Unit
<1> HIDE DEF v, starts
<1>9. v.left <= station[k].left /\ u.left <= station[k].left
  BY <1>2, <1>5, <1>8
<1>10. starts /\ locks => i.target # None
  BY DEF starts
<1>11. CASE starts
  BY <1>3, <1>8, <1>9, <1>10, <1>11, StartsTypes
<1>12. CASE ~starts
  BY <1>3, <1>5, <1>9, <1>12, StartsTypes
<1> QED
  BY <1>11, <1>12

\* A station that is done, with or without room for its result.
LEMMA WritesTypes ==
  ASSUME Types, NEW k \in Stations, Executes(k), NEW double \in BOOLEAN, NEW value \in Word,
         SendToWriteBack(k, double, value), station[k].ins.target \in File(double),
         UNCHANGED <<programCounter, mem, waitOn, bStallIF, bStallDueToBranch>>
  PROVE  Types'
<1> DEFINE u == station[k]
           w == IF u.waiting THEN u.value ELSE value
           v == [u EXCEPT !.waiting = TRUE, !.value = w]
<1>1. turn = k
  BY DEF Executes
<1>2. /\ u \in Unit /\ u.busy /\ Fit(u.ins) /\ k[1] = KindOf(u.ins) /\ u.left \in Nat
      /\ u.value \in Word /\ u.left <= Cost(u.ins) /\ u.ins \in Instruction
  BY <1>1, UnitIs
<1>3. w \in Word
  BY <1>2
<1>4. CASE wbobject.busy
  <2>1. v \in Unit /\ v.busy /\ v.ins = u.ins /\ v.left = u.left
    <3>1. v = [u EXCEPT !.waiting = TRUE, !.value = w]
      OBVIOUS
    <3> HIDE DEF v, w
    <3> QED
      BY <1>2, <1>3, <3>1 DEF Unit
  <2>2. station' = [station EXCEPT ![k] = v] /\ wbobject' = wbobject
    BY <1>4, TypesAre DEF SendToWriteBack
  <2> HIDE DEF v
  <2>3. v.left <= u.left
    BY <1>2, <2>1
  <2> QED
    BY <2>1, <2>2, <2>3, StartsTypes
<1>5. CASE ~wbobject.busy
  <2>1. /\ wbobject' = [busy |-> TRUE, isDouble |-> double,
                        target |-> u.ins.target, val |-> w]
        /\ station' = [station EXCEPT ![k] = Idle]
    BY <1>5 DEF SendToWriteBack
  <2>2. /\ wbobject' \in [busy : BOOLEAN, isDouble : BOOLEAN, target : Names, val : Word]
        /\ wbobject'.target \in File(wbobject'.isDouble)
    BY <1>2, <1>3, <2>1, InsAre
  <2>3. Shaped(k, Idle)
    BY IdleIs DEF Shaped
  <2> QED
    BY <1>1, <2>1, <2>2, <2>3, IdleIs, TypesExecute, LocksKept, StallsKept, TypesAre
<1> QED
  BY <1>4, <1>5

LEMMA StoreTypes ==
  ASSUME Types, NEW k \in Stations, Executes(k), Store(k) PROVE Types'
<1> DEFINE u == station[k]
           i == u.ins
<1>1. turn = k
  BY DEF Executes
<1>2. u \in Unit /\ Fit(i) /\ k[1] = KindOf(i) /\ u.s1 \in Word /\ i \in Instruction
  BY <1>1, UnitIs
<1>3. i.op = "S"
  BY <1>2 DEF Store, KindOf
<1>4. i.target \in Registers /\ i.double \in BOOLEAN
  BY <1>2, <1>3, NamesAre, InsAre DEF Fit, File
<1>5. /\ mem' = [mem EXCEPT ![u.s1] = Reg(i.target)]
      /\ waitOn' = [waitOn EXCEPT ![i.double][i.target] = Nobody]
      /\ station' = [station EXCEPT ![k] = Idle]
      /\ UNCHANGED <<programCounter, wbobject, bStallIF, bStallDueToBranch>>
  BY DEF Store
<1>6. mem' \in Cells
  <2>1. Reg(i.target) \in Word
    BY <1>4, NamesAre, RegIs
  <2> QED
    BY <1>2, <1>5, <2>1, TypesAre DEF Cells
<1>7. /\ waitOn' \in [BOOLEAN -> [Names -> Stations \cup {Nobody}]]
      /\ \A double \in BOOLEAN : waitOn'[double][None] = Nobody
  BY <1>4, <1>5, LocksOne
<1>8. Shaped(k, Idle)
  BY IdleIs DEF Shaped
<1> QED
  BY <1>5, <1>6, <1>7, <1>8, IdleIs, TypesExecute, WrittenKept, StallsKept

LEMMA ResolvesTypes ==
  ASSUME Types, NEW k \in Stations, Executes(k), NEW taken \in BOOLEAN,
         Resolves(k, taken), station[k].ins.op \in Branches
  PROVE  Types'
<1> DEFINE i == station[k].ins
<1>1. turn = k
  BY DEF Executes
<1>2. i.n \in 0 .. Size
  BY <1>1, UnitIs DEF Fit
<1>3. /\ station' = [station EXCEPT ![k] = Idle]
      /\ bStallIF' = (bStallIF /\ ~bStallDueToBranch) /\ bStallDueToBranch' = FALSE
      /\ programCounter' = IF taken THEN i.n ELSE programCounter
      /\ mem' = mem /\ waitOn' = waitOn /\ wbobject' = wbobject
  BY DEF Resolves
<1>4. programCounter' \in 0 .. Size + 1 /\ (bStallIF' => programCounter' <= Size)
  BY <1>2, <1>3, TypesAre, WordsAre DEF Types, Turns
<1>5. bStallIF' \in BOOLEAN /\ bStallDueToBranch' \in BOOLEAN
  BY <1>3, TypesAre
<1>6. Shaped(k, Idle)
  BY IdleIs DEF Shaped
<1> QED
  BY <1>3, <1>4, <1>5, <1>6, IdleIs, TypesExecute, LocksKept, WrittenKept, TypesAre

LEMMA ExecuteTypes ==
  ASSUME Types, NEW k \in Stations, LSExecute(k) \/ IntegerAddExecute(k)
           \/ IntegerMulExecute(k) \/ IntegerDivExecute(k) \/ FloatAddExecute(k)
           \/ FloatMulExecute(k) \/ FloatDivExecute(k)
  PROVE  Types'
<1> DEFINE u == station[k]
           i == u.ins
<1>1. Executes(k) /\ turn = k
  BY DEF LSExecute, IntegerAddExecute, IntegerMulExecute, IntegerDivExecute,
         FloatAddExecute, FloatMulExecute, FloatDivExecute, Executes
<1>2. /\ u.busy /\ Fit(i) /\ k[1] = KindOf(i) /\ u.s1 \in Word /\ u.s2 \in Word
      /\ i \in Instruction /\ i.double \in BOOLEAN /\ i.n \in Int /\ i.op \in OpCodes
  BY <1>1, UnitIs, InsAre
<1>3. ASSUME Counts(k) PROVE Types'
  BY <1>1, <1>3, CountsTypes
<1>4. ASSUME NEW locks \in BOOLEAN, Operands(k, locks) PROVE Types'
  BY <1>1, <1>4, OperandsTypes
<1>5. ASSUME NEW double \in BOOLEAN, NEW value \in Word, Writes(k, double, value),
             i.target \in File(double)
      PROVE  Types'
  BY <1>1, <1>5, WritesTypes DEF Writes
<1>6. ASSUME NEW taken \in BOOLEAN, Resolves(k, taken), i.op \in Branches PROVE Types'
  BY <1>1, <1>6, ResolvesTypes
<1>7. /\ i.op \in Arithmetic \cup {"L", "LI"} => i.target \in File(i.double)
      /\ i.op = "MOVE" => i.target \in File(~i.double)
      /\ i.op = "LI" => ~i.double
  BY <1>2 DEF Fit
<1>8. ASSUME i.op \in Arithmetic, i.op = "DIV" => CanDivide(k) PROVE Applied(k) \in Word
  BY <1>2, <1>8, ComputeIs DEF Applied, CanDivide
<1>9. \A v \in SameBits(u.s1) : v \in Word
  BY WordsAre DEF SameBits
<1>10. /\ k[1] = "intadds" => ~i.double /\ i.op \notin {"L", "S", "MUL", "DIV"}
       /\ k[1] = "intmuls" => ~i.double /\ i.op = "MUL"
       /\ k[1] = "intdivs" => ~i.double /\ i.op = "DIV"
       /\ k[1] = "fpadds" => i.double /\ i.op \notin {"L", "S", "MUL", "DIV"}
       /\ k[1] = "fpmuls" => i.double /\ i.op = "MUL"
       /\ k[1] = "fpdivs" => i.double /\ i.op = "DIV"
       /\ k[1] = "loads" => i.op = "L"
  BY <1>2 DEF KindOf
<1> HIDE DEF u, i
<1>11. CASE LSExecute(k)
  <2>1. CASE Addressed(k)
    BY <1>1, <1>11, <2>1, AddressedTypes DEF LSExecute
  <2>2. CASE Load(k)
    <3>1. i.op = "L" /\ i.target \in File(i.double)
      BY <1>7, <1>10, <2>2 DEF Load
    <3>2. Loaded(mem[u.s1]) \in Word
      BY <1>2, LoadedIs, TypesAre
    <3> QED
      BY <1>1, <1>2, <2>2, <3>1, <3>2, WritesTypes DEF Load, u, i
  <2>3. CASE Store(k)
    BY <1>1, <2>3, StoreTypes
  <2> QED
    BY <1>3, <1>11, <2>1, <2>2, <2>3 DEF LSExecute
<1>12. CASE IntegerAddExecute(k)
  <2>1. /\ k[1] = "intadds"
        /\ \/ Operands(k, i.op \in {"ADD", "SUB", "LI"}) \/ Counts(k)
           \/ i.op \in {"ADD", "SUB"} /\ Writes(k, FALSE, Applied(k))
           \/ i.op = "LI" /\ Writes(k, FALSE, i.n % W)
           \/ i.op = "MOVE" /\ \E v \in SameBits(u.s1) : Writes(k, TRUE, v)
           \/ i.op \in Branches /\ Resolves(k, Holds(i, u.s1, u.s2))
    BY <1>12 DEF IntegerAddExecute, u, i
  <2>2. CASE Operands(k, i.op \in {"ADD", "SUB", "LI"})
    <3>1. (i.op \in {"ADD", "SUB", "LI"}) \in BOOLEAN
      OBVIOUS
    <3> QED
      BY <1>4, <2>2, <3>1
  <2>3. CASE i.op \in {"ADD", "SUB"} /\ Writes(k, FALSE, Applied(k))
    BY <1>5, <1>7, <1>8, <1>10, <2>1, <2>3 DEF Arithmetic, File
  <2>4. CASE i.op = "LI" /\ Writes(k, FALSE, i.n % W)
    <3>1. i.n % W \in Word
      BY <1>2, WordsAre
    <3> QED
      BY <1>5, <1>7, <2>4, <3>1 DEF File
  <2>5. CASE i.op = "MOVE" /\ \E v \in SameBits(u.s1) : Writes(k, TRUE, v)
    <3>1. PICK v \in SameBits(u.s1) : Writes(k, TRUE, v)
      BY <2>5
    <3>2. i.target \in File(TRUE)
      BY <1>2, <1>7, <1>10, <2>1, <2>5 DEF File
    <3> QED
      BY <1>5, <1>9, <3>1, <3>2
  <2>6. CASE i.op \in Branches /\ Resolves(k, Holds(i, u.s1, u.s2))
    <3>1. Holds(i, u.s1, u.s2) \in BOOLEAN
      BY DEF Holds
    <3> QED
      BY <1>6, <2>6, <3>1
  <2> QED
    BY <1>3, <2>1, <2>2, <2>3, <2>4, <2>5, <2>6
<1>13. CASE IntegerMulExecute(k)
  <2>1. k[1] = "intmuls" /\ (Operands(k, TRUE) \/ Counts(k) \/ Writes(k, FALSE, Applied(k)))
    BY <1>13 DEF IntegerMulExecute
  <2>2. i.target \in File(FALSE) /\ Applied(k) \in Word
    BY <1>7, <1>8, <1>10, <2>1 DEF Arithmetic, File
  <2> QED
    BY <1>3, <1>4, <1>5, <2>1, <2>2
<1>14. CASE IntegerDivExecute(k)
  <2>1. /\ k[1] = "intdivs"
        /\ \/ Operands(k, TRUE) \/ Counts(k)
           \/ CanDivide(k) /\ Writes(k, FALSE, Applied(k))
    BY <1>14 DEF IntegerDivExecute
  <2>2. i.target \in File(FALSE) /\ (CanDivide(k) => Applied(k) \in Word)
    BY <1>7, <1>8, <1>10, <2>1 DEF Arithmetic, File
  <2> QED
    BY <1>3, <1>4, <1>5, <2>1, <2>2
<1>15. CASE FloatAddExecute(k)
  <2>1. /\ k[1] = "fpadds"
        /\ \/ Operands(k, i.op \in {"ADD", "SUB", "MOVE", "BLTZ", "BGTZ"}) \/ Counts(k)
           \/ i.op \in {"ADD", "SUB"} /\ Writes(k, TRUE, Applied(k))
           \/ i.op = "MOVE" /\ \E v \in SameBits(u.s1) : Writes(k, FALSE, v)
           \/ i.op \in Branches /\ Resolves(k, FALSE)
    BY <1>15 DEF FloatAddExecute, u, i
  <2>2. CASE Operands(k, i.op \in {"ADD", "SUB", "MOVE", "BLTZ", "BGTZ"})
    <3>1. (i.op \in {"ADD", "SUB", "MOVE", "BLTZ", "BGTZ"}) \in BOOLEAN
      OBVIOUS
    <3> QED
      BY <1>4, <2>2, <3>1
  <2>3. CASE i.op \in {"ADD", "SUB"} /\ Writes(k, TRUE, Applied(k))
    BY <1>5, <1>7, <1>8, <1>10, <2>1, <2>3 DEF Arithmetic, File
  <2>5. CASE i.op = "MOVE" /\ \E v \in SameBits(u.s1) : Writes(k, FALSE, v)
    <3>1. PICK v \in SameBits(u.s1) : Writes(k, FALSE, v)
      BY <2>5
    <3>2. i.target \in File(FALSE)
      BY <1>7, <1>10, <2>1, <2>5 DEF File
    <3> QED
      BY <1>5, <1>9, <3>1, <3>2
  <2>6. CASE i.op \in Branches /\ Resolves(k, FALSE)
    BY <1>6, <2>6
  <2> QED
    BY <1>3, <2>1, <2>2, <2>3, <2>5, <2>6
<1>16. CASE FloatMulExecute(k)
  <2>1. k[1] = "fpmuls" /\ (Operands(k, TRUE) \/ Counts(k) \/ Writes(k, TRUE, Applied(k)))
    BY <1>16 DEF FloatMulExecute
  <2>2. i.target \in File(TRUE) /\ Applied(k) \in Word
    BY <1>7, <1>8, <1>10, <2>1 DEF Arithmetic, File
  <2> QED
    BY <1>3, <1>4, <1>5, <2>1, <2>2
<1>17. CASE FloatDivExecute(k)
  <2>1. /\ k[1] = "fpdivs"
        /\ \/ Operands(k, TRUE) \/ Counts(k)
           \/ CanDivide(k) /\ Writes(k, TRUE, Applied(k))
    BY <1>17 DEF FloatDivExecute
  <2>2. i.target \in File(TRUE) /\ (CanDivide(k) => Applied(k) \in Word)
    BY <1>7, <1>8, <1>10, <2>1 DEF Arithmetic, File
  <2> QED
    BY <1>3, <1>4, <1>5, <2>1, <2>2
<1> QED
  BY <1>11, <1>12, <1>13, <1>14, <1>15, <1>16, <1>17

LEMMA SameIsa ==
  /\ Sequential!Arithmetic = Arithmetic /\ Sequential!Branches = Branches
  /\ \A x, y : Sequential!Divides(x, y) = Divides(x, y)
  /\ \A x, y : Sequential!Sum(x, y) = Sum(x, y)
  /\ \A op, x, y : Sequential!Compute(op, x, y) = Compute(op, x, y)
  /\ \A i, x, y : Sequential!Holds(i, x, y) = Holds(i, x, y)
  /\ \A v : Sequential!Loaded(v) = Loaded(v)
<1>1. /\ Sequential!Arithmetic = Arithmetic /\ Sequential!Branches = Branches
  BY DEF Sequential!Arithmetic, Sequential!Branches, Arithmetic, Branches
<1>2. \A v : Sequential!Signed(v) = Signed(v)
  BY DEF Sequential!Signed, Signed
<1>3. \A v : Sequential!Magnitude(v) = Magnitude(v)
  BY DEF Sequential!Magnitude, Magnitude
<1>4. /\ \A x, y : Sequential!Divides(x, y) = Divides(x, y)
      /\ \A x, y : Sequential!Sum(x, y) = Sum(x, y)
      /\ \A x, y : Sequential!Difference(x, y) = Difference(x, y)
      /\ \A x, y : Sequential!Product(x, y) = Product(x, y)
  BY DEF Sequential!Divides, Divides, Sequential!Sum, Sum,
         Sequential!Difference, Difference, Sequential!Product, Product
<1>5. \A x, y : Sequential!Quotient(x, y) = Quotient(x, y)
  BY <1>2, <1>3 DEF Sequential!Quotient, Quotient
<1>6. \A op, x, y : Sequential!Compute(op, x, y) = Compute(op, x, y)
  BY <1>4, <1>5 DEF Sequential!Compute, Compute
<1>7. \A i, x, y : Sequential!Holds(i, x, y) = Holds(i, x, y)
  BY <1>2 DEF Sequential!Holds, Holds
<1>8. \A v : Sequential!Loaded(v) = Loaded(v)
  BY DEF Sequential!Loaded, Loaded
<1> QED
  BY <1>1, <1>4, <1>6, <1>7, <1>8

\* A register of the sequential processor.
Val(r) == IF r = None THEN 0 ELSE seqRegisters[r]

\* What the sequential processor does with its next line.
LEMMA SeqDoes ==
  ASSUME Types, Sequential!Execute, NEW i, i = vprogram[seqCounter]
  PROVE  /\ seqCounter \in Lines /\ i.op \in OpCodes
         /\ seqCounter' = IF Holds(i, Val(i.a), Val(i.b)) THEN i.n ELSE seqCounter + 1
         /\ i.op \in Arithmetic =>
              /\ i.op = "DIV" => Divides(Val(i.a), Val(i.b))
              /\ seqRegisters' = [seqRegisters EXCEPT ![i.t] = Compute(i.op, Val(i.a), Val(i.b))]
         /\ i.op = "LI" => seqRegisters' = [seqRegisters EXCEPT ![i.t] = i.n % W]
         /\ i.op = "MOVE" => seqRegisters' = [seqRegisters EXCEPT ![i.t] = Val(i.a)]
         /\ i.op = "L" => seqRegisters' = [seqRegisters EXCEPT
                            ![i.t] = Loaded(seqMem[Sum(i.n, Val(i.b))])]
         /\ i.op \notin Arithmetic \cup {"LI", "MOVE", "L"} => seqRegisters' = seqRegisters
         /\ i.op = "S" => seqMem' = [seqMem EXCEPT ![Sum(i.n, Val(i.b))] = Val(i.a)]
         /\ i.op # "S" => seqMem' = seqMem
<1>1. seqCounter \in Lines
  <2>1. seqCounter # Size
    BY DEF Sequential!Execute
  <2>2. seqCounter \in 0 .. Size /\ Size \in Nat
    BY TypesAre, WordsAre
  <2> QED
    BY <2>1, <2>2 DEF Lines
<1>2. i.op \in OpCodes
  BY <1>1, TypesAre, LinesAre
<1>3. \A r : Sequential!Reg(r) = Val(r)
  BY DEF Sequential!Reg, Val
<1>4. /\ \/ Sequential!Computed(i) \/ Sequential!LoadImmediate(i) \/ Sequential!Move(i)
         \/ Sequential!Load(i) \/ Sequential!Store(i) \/ Sequential!NoEffect(i)
      /\ seqCounter' = IF Holds(i, Val(i.a), Val(i.b)) THEN i.n ELSE seqCounter + 1
  BY <1>3, SameIsa DEF Sequential!Execute
<1>5. Sequential!Computed(i) =>
        /\ i.op \in Arithmetic /\ (i.op = "DIV" => Divides(Val(i.a), Val(i.b)))
        /\ seqRegisters' = [seqRegisters EXCEPT ![i.t] = Compute(i.op, Val(i.a), Val(i.b))]
        /\ seqMem' = seqMem
  BY <1>3, SameIsa DEF Sequential!Computed, Sequential!Put
<1>6. Sequential!LoadImmediate(i) =>
        i.op = "LI" /\ seqRegisters' = [seqRegisters EXCEPT ![i.t] = i.n % W] /\ seqMem' = seqMem
  BY DEF Sequential!LoadImmediate, Sequential!Put
<1>7. Sequential!Move(i) =>
        i.op = "MOVE" /\ seqRegisters' = [seqRegisters EXCEPT ![i.t] = Val(i.a)] /\ seqMem' = seqMem
  BY <1>3 DEF Sequential!Move, Sequential!Put
<1>8. Sequential!Load(i) =>
        /\ i.op = "L" /\ seqMem' = seqMem
        /\ seqRegisters' = [seqRegisters EXCEPT ![i.t] = Loaded(seqMem[Sum(i.n, Val(i.b))])]
  BY <1>3, SameIsa DEF Sequential!Load, Sequential!Put
<1>9. Sequential!Store(i) =>
        /\ i.op = "S" /\ seqRegisters' = seqRegisters
        /\ seqMem' = [seqMem EXCEPT ![Sum(i.n, Val(i.b))] = Val(i.a)]
  BY <1>3, SameIsa DEF Sequential!Store
<1>10. Sequential!NoEffect(i) =>
        i.op \in Branches \cup {"NOOP"} /\ seqRegisters' = seqRegisters /\ seqMem' = seqMem
  BY SameIsa DEF Sequential!NoEffect
<1> QED
  BY <1>1, <1>2, <1>4, <1>5, <1>6, <1>7, <1>8, <1>9, <1>10 DEF Arithmetic, Branches

LEMMA SeqTypes ==
  ASSUME Types, Sequential!Execute
  PROVE  /\ seqCounter' \in 0 .. Size /\ seqRegisters' \in [Registers -> Word]
         /\ seqMem' \in Cells
<1> DEFINE i == vprogram[seqCounter]
<1>0. i = vprogram[seqCounter]
  OBVIOUS
<1> HIDE DEF i
<1>1. /\ seqCounter \in Lines /\ i.op \in OpCodes
      /\ seqCounter' = IF Holds(i, Val(i.a), Val(i.b)) THEN i.n ELSE seqCounter + 1
      /\ i.op \in Arithmetic =>
           /\ i.op = "DIV" => Divides(Val(i.a), Val(i.b))
           /\ seqRegisters' = [seqRegisters EXCEPT ![i.t] = Compute(i.op, Val(i.a), Val(i.b))]
      /\ i.op = "LI" => seqRegisters' = [seqRegisters EXCEPT ![i.t] = i.n % W]
      /\ i.op = "MOVE" => seqRegisters' = [seqRegisters EXCEPT ![i.t] = Val(i.a)]
      /\ i.op = "L" => seqRegisters' = [seqRegisters EXCEPT
                         ![i.t] = Loaded(seqMem[Sum(i.n, Val(i.b))])]
      /\ i.op \notin Arithmetic \cup {"LI", "MOVE", "L"} => seqRegisters' = seqRegisters
      /\ i.op = "S" => seqMem' = [seqMem EXCEPT ![Sum(i.n, Val(i.b))] = Val(i.a)]
      /\ i.op # "S" => seqMem' = seqMem
  BY <1>0, SeqDoes
<1>2. /\ i.n \in Int /\ i.t \in Names /\ i.a \in Names /\ i.b \in Names /\ WellFormed(i)
      /\ seqRegisters \in [Registers -> Word] /\ seqMem \in Cells
  BY <1>0, <1>1, TypesAre, LinesAre
<1>3. \A r \in Names : Val(r) \in Word
  BY <1>2, WordsAre DEF Val, Names
<1>4. i.op \in Arithmetic \cup {"LI", "MOVE", "L"} => i.t \in Registers
  BY <1>2 DEF WellFormed, Names
<1>5. Val(i.a) \in Word /\ Val(i.b) \in Word /\ i.n % W \in Word
  BY <1>2, <1>3, WordsAre
<1>6. Sum(i.n, Val(i.b)) \in Word
  BY <1>2, <1>5, WordIsInt, SumIs
<1>7. Loaded(seqMem[Sum(i.n, Val(i.b))]) \in Word
  BY <1>2, <1>6, LoadedIs
<1>8. i.op \in Arithmetic => Compute(i.op, Val(i.a), Val(i.b)) \in Word
  BY <1>1, <1>5, ComputeIs
<1>9. seqRegisters' \in [Registers -> Word]
  BY <1>1, <1>2, <1>4, <1>5, <1>7, <1>8
<1>10. seqMem' \in Cells
  BY <1>1, <1>2, <1>5, <1>6 DEF Cells
<1>11. Holds(i, Val(i.a), Val(i.b)) => i.n \in 0 .. Size
  BY <1>2 DEF Holds, WellFormed, Branches
<1>12. seqCounter' \in 0 .. Size
  BY <1>1, <1>11, WordsAre DEF Lines
<1> QED
  BY <1>9, <1>10, <1>12

LEMMA WriteBackTypes ==
  ASSUME Types, WriteBackRun PROVE Types'
<1>1. /\ triggerend' = TRUE /\ turn' = FirstTurn /\ station' = station
      /\ vprogram' = vprogram /\ programCounter' = programCounter /\ mem' = mem
      /\ bStallIF' = bStallIF /\ bStallDueToBranch' = bStallDueToBranch
      /\ stallDueToRSid' = stallDueToRSid /\ seqCounter' = seqCounter
      /\ seqRegisters' = seqRegisters /\ seqMem' = seqMem /\ spoiled' = spoiled
  BY DEF WriteBackRun, stalls, ahead
<1>2. /\ turn' \in Stations \cup {Issues}
      /\ turn' \in Stations => station'[turn'].busy
  BY <1>1, FirstTurnIs, StationIs DEF Busy
<1>3. /\ registers' \in [Registers -> Word]
      /\ wbobject' \in [busy : BOOLEAN, isDouble : BOOLEAN, target : Names, val : Word]
      /\ wbobject'.busy => wbobject'.target \in File(wbobject'.isDouble)
      /\ waitOn' \in [BOOLEAN -> [Names -> Stations \cup {Nobody}]]
      /\ \A double \in BOOLEAN : waitOn'[double][None] = Nobody
  <2>1. CASE ~wbobject.busy
    BY <2>1, TypesAre, LocksKept, WrittenKept DEF WriteBackRun
  <2>2. CASE wbobject.busy
    <3>1. /\ wbobject.target \in Registers /\ wbobject.isDouble \in BOOLEAN
          /\ wbobject.val \in Word
      BY <2>2, TypesAre, NamesAre DEF Types, Turns, File
    <3>2. /\ registers' = [registers EXCEPT ![wbobject.target] = wbobject.val]
          /\ waitOn' = [waitOn EXCEPT ![wbobject.isDouble][wbobject.target] = Nobody]
          /\ wbobject' = NothingToWrite
      BY <2>2 DEF WriteBackRun
    <3>3. /\ waitOn' \in [BOOLEAN -> [Names -> Stations \cup {Nobody}]]
          /\ \A double \in BOOLEAN : waitOn'[double][None] = Nobody
      BY <3>1, <3>2, LocksOne
    <3>4. /\ wbobject' \in [busy : BOOLEAN, isDouble : BOOLEAN, target : Names, val : Word]
          /\ ~wbobject'.busy
      BY <3>2, NamesAre, WordsAre DEF NothingToWrite
    <3> QED
      BY <3>1, <3>2, <3>3, <3>4, TypesAre
  <2> QED
    BY <2>1, <2>2
<1>4. TypeOK'
  BY <1>1, <1>2, <1>3, TypesAre DEF TypeOK
<1>5. Shape' /\ Turns'
  BY <1>1, <1>2, <1>3 DEF Types, Shape, Turns
<1> QED
  BY <1>4, <1>5 DEF Types

\* The line that is issued.
LEMMA IRIs ==
  ASSUME Types, bStallIF => programCounter # 0
  PROVE  /\ IR \in Instruction /\ (IR = NoInstruction \/ Fit(IR))
         /\ Fetches => /\ programCounter \in Lines /\ Line = vprogram[programCounter]
                       /\ IR = decode(vprogram[programCounter])
         /\ bStallIF => /\ programCounter - 1 \in Lines
                        /\ Line = vprogram[programCounter - 1]
                        /\ IR = decode(vprogram[programCounter - 1])
         /\ ~OnProgram => IR = NoInstruction
<1>1. /\ programCounter \in 0 .. Size + 1 /\ vprogram \in Programs
      /\ bStallIF => programCounter <= Size
  BY TypesAre DEF Types, Turns
<1>2. Fetches => programCounter \in Lines /\ ~bStallIF
  BY <1>1, WordsAre DEF Fetches, Lines
<1>3. bStallIF => programCounter - 1 \in Lines
  BY <1>1, WordsAre DEF Lines
<1>4. \A l \in Lines : /\ decode(vprogram[l]) \in Instruction
                       /\ decode(vprogram[l]) = NoInstruction \/ Fit(decode(vprogram[l]))
  BY <1>1, DecodesFit
<1>5. CASE Fetches
  <2>1. Line = vprogram[programCounter] /\ IR = decode(vprogram[programCounter])
    BY <1>5 DEF IR, Line, OnProgram
  <2> QED
    BY <1>2, <1>4, <1>5, <2>1 DEF OnProgram
<1>6. CASE bStallIF
  <2>1. /\ Line = vprogram[programCounter - 1] /\ ~Fetches
        /\ IR = decode(vprogram[programCounter - 1])
    BY <1>2, <1>6 DEF IR, Line, OnProgram
  <2> QED
    BY <1>3, <1>4, <1>6, <2>1 DEF OnProgram
<1>7. CASE ~Fetches /\ ~bStallIF
  <2>1. IR = NoInstruction
    BY <1>7 DEF IR, OnProgram
  <2> QED
    BY <1>7, <2>1, NoInstructionIs
<1> QED
  BY <1>5, <1>6, <1>7

\* The four ways an issue goes.
EntersIts(i) ==
  /\ Fit(i) /\ HasRoom(KindOf(i), i) /\ Enters(KindOf(i), i)
  /\ i.op \in {"L", "S"} => FreeRegister(i.double, i.target)
StallsOn(i) ==
  /\ Fit(i) /\ Stalls(KindOf(i))
  /\ ~HasRoom(KindOf(i), i) \/ (i.op = "L" /\ ~FreeRegister(i.double, i.target))
Misses(i) == Fit(i) /\ i.op = "S" /\ MissesItsLock(i) /\ IssueStore(i)
Nothing(i) == (i = NoInstruction \/ Dropped(i)) /\ UNCHANGED <<station, waitOn, stalls>>

LEMMA IssueIs ==
  ASSUME NEW i, i = NoInstruction \/ Fit(i), LoadReservationStation(i)
  PROVE  EntersIts(i) \/ StallsOn(i) \/ Misses(i) \/ Nothing(i)
<1>1. NoInstruction.op = "NOOP"
  BY DEF NoInstruction
<1>2. i.op = "NOOP" => i = NoInstruction
  BY DEF Fit
<1>3. CASE IssueLoad(i)
  <2>1. i.op = "L" /\ Fit(i) /\ KindOf(i) = "loads"
    BY <1>1, <1>3 DEF IssueLoad, KindOf
  <2> QED
    BY <1>3, <2>1 DEF IssueLoad, EntersIts, StallsOn
<1>4. CASE IssueStore(i)
  <2>1. i.op = "S" /\ Fit(i) /\ KindOf(i) = "stores"
    BY <1>1, <1>4 DEF IssueStore, KindOf
  <2>2. CASE MissesItsLock(i)
    BY <1>4, <2>1, <2>2 DEF Misses
  <2>3. CASE ~MissesItsLock(i) /\ HasRoom("stores", i)
    BY <1>4, <2>1, <2>3 DEF IssueStore, EntersIts, MissesItsLock
  <2>4. CASE ~MissesItsLock(i) /\ ~HasRoom("stores", i)
    BY <1>4, <2>1, <2>4 DEF IssueStore, StallsOn
  <2> QED
    BY <2>2, <2>3, <2>4
<1>5. ASSUME Fit(i), i.op \notin {"L", "S"}, Reserves(KindOf(i), i)
      PROVE  EntersIts(i) \/ StallsOn(i)
  BY <1>5 DEF Reserves, EntersIts, StallsOn
<1>6. CASE IssueIntegerAdd(i) \/ IssueIntegerOther(i)
  <2>1. /\ i.op \notin {"L", "S", "NOOP"} /\ KindOf(i) = "intadds"
        /\ Reserves("intadds", i)
    BY <1>6 DEF IssueIntegerAdd, IssueIntegerOther, Branches, KindOf
  <2> QED
    BY <1>1, <1>5, <2>1
<1>7. CASE IssueFloatAdd(i)
  <2>1. /\ i.op \notin {"L", "S", "NOOP"} /\ KindOf(i) = "fpadds"
        /\ Reserves("fpadds", i)
    BY <1>7 DEF IssueFloatAdd, Branches, KindOf
  <2> QED
    BY <1>1, <1>5, <2>1
<1>8. CASE IssueIntegerMul(i)
  <2>1. /\ i.op \notin {"L", "S", "NOOP"} /\ KindOf(i) = "intmuls"
        /\ Reserves("intmuls", i)
    BY <1>8 DEF IssueIntegerMul, KindOf
  <2> QED
    BY <1>1, <1>5, <2>1
<1>9. CASE IssueFloatMul(i)
  <2>1. /\ i.op \notin {"L", "S", "NOOP"} /\ KindOf(i) = "fpmuls"
        /\ Reserves("fpmuls", i)
    BY <1>9 DEF IssueFloatMul, KindOf
  <2> QED
    BY <1>1, <1>5, <2>1
<1>10. CASE IssueIntegerDiv(i)
  <2>1. /\ i.op \notin {"L", "S", "NOOP"} /\ KindOf(i) = "intdivs"
        /\ Reserves("intdivs", i)
    BY <1>10 DEF IssueIntegerDiv, KindOf
  <2> QED
    BY <1>1, <1>5, <2>1
<1>11. CASE IssueFloatDiv(i)
  <2>1. i.op \notin {"L", "S", "NOOP"} /\ KindOf(i) = "fpdivs"
    BY <1>11 DEF IssueFloatDiv, KindOf
  <2>2. CASE Dropped(i)
    BY <1>11, <2>2 DEF IssueFloatDiv, Nothing
  <2>3. CASE ~Dropped(i)
    BY <1>1, <1>5, <1>11, <2>1, <2>3 DEF IssueFloatDiv
  <2> QED
    BY <2>2, <2>3
<1>12. CASE IssueNothing(i)
  BY <1>2, <1>12 DEF IssueNothing, Nothing
<1> QED
  BY <1>3, <1>4, <1>6, <1>7, <1>8, <1>9, <1>10, <1>11, <1>12 DEF LoadReservationStation

LEMMA AssignedIs ==
  ASSUME Types, NEW i \in Instruction, NEW u, u = Assigned(i)
  PROVE  /\ u \in Unit /\ u.busy /\ u.ins = i /\ u.hold /\ u.left = Cost(i)
         /\ u.vj = FreeRegister(i.double, i.source1)
         /\ u.vk = FreeRegister(i.double, i.source2)
         /\ ~u.waiting /\ u.x = SeqReg(i.source1) /\ u.y = SeqReg(i.source2)
         /\ u.behind = (i.target # None /\ waitOn[i.double][i.target] \in Busy)
<1>1. Cost(i) \in Nat /\ i.source1 \in Names /\ i.source2 \in Names
  BY CostIs, InsAre
<1>2. \A r \in Names : SeqReg(r) \in Word
  BY TypesAre, WordsAre DEF SeqReg, Names
<1>3. SeqReg(i.source1) \in Word /\ SeqReg(i.source2) \in Word
  BY <1>1, <1>2
<1>4. /\ FreeRegister(i.double, i.source1) \in BOOLEAN
      /\ FreeRegister(i.double, i.source2) \in BOOLEAN
      /\ (i.target # None /\ waitOn[i.double][i.target] \in Busy) \in BOOLEAN
  BY DEF FreeRegister
<1>5. u = [busy |-> TRUE, ins |-> i, hold |-> TRUE, left |-> Cost(i),
           vj |-> FreeRegister(i.double, i.source1),
           vk |-> FreeRegister(i.double, i.source2),
           s1 |-> 0, s2 |-> 0, waiting |-> FALSE, value |-> 0,
           x |-> SeqReg(i.source1), y |-> SeqReg(i.source2),
           behind |-> i.target # None /\ waitOn[i.double][i.target] \in Busy]
  BY DEF Assigned
<1>6. u \in Unit
  BY <1>1, <1>3, <1>4, <1>5, WordsAre DEF Unit
<1> QED
  BY <1>5, <1>6

LEMMA FirstUnused ==
  ASSUME NEW kind, Unused(kind) # {}
  PROVE  /\ FirstOf(Unused(kind)) \in Stations /\ FirstOf(Unused(kind))[1] = kind
         /\ ~station[FirstOf(Unused(kind))].busy
<1>1. Unused(kind) \in SUBSET Stations
  BY DEF Unused
<1>2. FirstOf(Unused(kind)) \in Unused(kind)
  BY <1>1, FirstOfIs
<1> QED
  BY <1>2 DEF Unused

LEMMA KindIs ==
  ASSUME NEW i PROVE KindOf(i) \in Kinds
BY DEF KindOf, Kinds

LEMMA EntersTypes ==
  ASSUME Types, NEW i \in Instruction, EntersIts(i)
  PROVE  /\ station' \in [Stations -> Unit] /\ Shape'
         /\ waitOn' \in [BOOLEAN -> [Names -> Stations \cup {Nobody}]]
         /\ \A double \in BOOLEAN : waitOn'[double][None] = Nobody
         /\ bStallIF' \in BOOLEAN /\ bStallDueToBranch' \in BOOLEAN
         /\ stallDueToRSid' \in SUBSET Kinds
<1> DEFINE k == FirstOf(Unused(KindOf(i)))
<1>1. k \in Stations /\ k[1] = KindOf(i)
  BY FirstUnused DEF EntersIts, HasRoom
<1>2. /\ station' = [station EXCEPT ![k] = Assigned(i)]
      /\ waitOn' = IF i.target # None /\ FreeRegister(i.double, i.target)
                     THEN [waitOn EXCEPT ![i.double][i.target] = k] ELSE waitOn
      /\ bStallDueToBranch' = Branching(i)
      /\ bStallIF' = ((bStallIF \/ Branching(i)) /\ KindOf(i) \notin stallDueToRSid)
      /\ stallDueToRSid' = stallDueToRSid \ {KindOf(i)}
  BY DEF EntersIts, Enters
<1>3. Assigned(i) \in Unit /\ Shaped(k, Assigned(i))
  <2> DEFINE u == Assigned(i)
  <2>1. u = Assigned(i)
    OBVIOUS
  <2> HIDE DEF u
  <2>2. u \in Unit /\ u.busy /\ u.ins = i /\ u.left = Cost(i)
    BY <2>1, AssignedIs
  <2>3. u.left <= Cost(u.ins)
    BY <2>2, CostIs
  <2>4. Shaped(k, u)
    BY <1>1, <2>2, <2>3, ShapedIs DEF EntersIts
  <2> QED
    BY <2>1, <2>2, <2>4
<1> HIDE DEF k
<1>4. station' \in [Stations -> Unit] /\ Shape'
  BY <1>1, <1>2, <1>3, ChangesOne
<1>5. /\ waitOn' \in [BOOLEAN -> [Names -> Stations \cup {Nobody}]]
      /\ \A double \in BOOLEAN : waitOn'[double][None] = Nobody
  <2>1. CASE i.target # None /\ FreeRegister(i.double, i.target)
    <3>1. i.target \in Registers /\ i.double \in BOOLEAN
      BY <2>1, InsAre, TargetIs DEF EntersIts
    <3> QED
      BY <1>1, <1>2, <2>1, <3>1, LocksOne
  <2>2. CASE ~(i.target # None /\ FreeRegister(i.double, i.target))
    BY <1>2, <2>2, LocksKept
  <2> QED
    BY <2>1, <2>2
<1>6. bStallIF' \in BOOLEAN /\ bStallDueToBranch' \in BOOLEAN
  BY <1>2 DEF Branching
<1> QED
  BY <1>2, <1>4, <1>5, <1>6, TypesAre

LEMMA MissesTypes ==
  ASSUME Types, NEW i \in Instruction, Misses(i), turn \notin Stations
  PROVE  /\ station' \in [Stations -> Unit] /\ Shape' /\ waitOn' = waitOn
         /\ bStallIF' \in BOOLEAN /\ bStallDueToBranch' \in BOOLEAN
         /\ stallDueToRSid' \in SUBSET Kinds
<1> DEFINE k == FirstOf(Unused("stores"))
           l == <<"loads", k[2]>>
           u == Assigned(i)
<1>0. u = Assigned(i)
  OBVIOUS
<1>1. k \in Stations /\ k[1] = "stores"
  BY FirstUnused DEF Misses, MissesItsLock, HasRoom
<1> HIDE DEF k, u
<1>2. l \in Stations /\ l # k
  <2>1. k[2] \in 1 .. NoOfFunctionalUnits["stores"] /\ k[2] \in Nat /\ k = <<k[1], k[2]>>
    BY <1>1, StationIs
  <2>2. /\ NoOfFunctionalUnits["stores"] \in Nat /\ NoOfFunctionalUnits["loads"] \in Nat
        /\ NoOfFunctionalUnits["stores"] <= NoOfFunctionalUnits["loads"]
    BY SimTomasuloAssumption DEF Kinds
  <2>3. k[2] \in 1 .. NoOfFunctionalUnits["loads"]
    BY <2>1, <2>2
  <2>4. "loads" \in Kinds
    BY DEF Kinds
  <2> QED
    BY <1>1, <2>1, <2>3, <2>4 DEF Stations
<1>3. /\ station' = [station EXCEPT ![k] = u, ![l] = Idle]
      /\ waitOn' = waitOn /\ bStallDueToBranch' = bStallDueToBranch
      /\ \/ bStallIF' = TRUE /\ stallDueToRSid' = stallDueToRSid \cup {"stores"}
         \/ bStallIF' = bStallIF /\ stallDueToRSid' = stallDueToRSid
  BY <1>0 DEF Misses, IssueStore, k
<1>4. u \in Unit /\ u.busy /\ u.ins = i /\ u.left = Cost(i)
  BY <1>0, AssignedIs
<1>5. Shaped(k, u)
  <2>1. u.left <= Cost(u.ins) /\ KindOf(i) = "stores"
    BY <1>4, CostIs DEF Misses, KindOf
  <2> QED
    BY <1>1, <1>4, <2>1, ShapedIs DEF Misses
<1>6. Shaped(l, Idle)
  BY IdleIs DEF Shaped
<1> HIDE DEF l
<1>7. station' \in [Stations -> Unit]
  BY <1>1, <1>2, <1>3, <1>4, IdleIs, TypesAre
<1>8. /\ station'[k] = u /\ station'[l] = Idle
      /\ \A j \in Stations : j \notin {k, l} => station'[j] = station[j]
  BY <1>1, <1>2, <1>3, TypesAre
<1>9. Shape'
  BY <1>5, <1>6, <1>8 DEF Types, Shape, Shaped
<1> QED
  BY <1>3, <1>7, <1>9, TypesAre DEF Kinds

LEMMA IssueTypes ==
  ASSUME Types, Issue PROVE Types'
<1>1. /\ turn = Issues /\ turn' = WritesBack /\ vprogram' = vprogram
      /\ registers' = registers /\ mem' = mem /\ wbobject' = wbobject
      /\ bStallIF => programCounter # 0
  BY DEF Issue
<1>2. turn \notin Stations /\ turn' \notin Stations
  BY <1>1, StationIs
<1>3. CASE bStallDueToBranch
  <2>1. UNCHANGED <<programCounter, station, waitOn, stalls, triggerend, ahead, spoiled>>
    BY <1>3 DEF Issue
  <2>2. TypeOK'
    BY <1>1, <2>1, TypesAre DEF TypeOK, stalls, ahead
  <2>3. Shape' /\ Turns'
    BY <1>1, <1>2, <2>1 DEF Types, Shape, Turns, stalls
  <2> QED
    BY <2>2, <2>3 DEF Types
<1>4. CASE ~bStallDueToBranch
  <2> DEFINE i == IR
  <2>1. /\ programCounter' = NextCounter /\ triggerend' = (triggerend /\ ~Fetches)
        /\ LoadReservationStation(i) /\ Follows(i)
    BY <1>4 DEF Issue
  <2>2. /\ i \in Instruction /\ (i = NoInstruction \/ Fit(i))
        /\ ~OnProgram => i = NoInstruction
    BY <1>1, IRIs
  <2> HIDE DEF i
  <2>3. EntersIts(i) \/ StallsOn(i) \/ Misses(i) \/ Nothing(i)
    BY <2>1, <2>2, IssueIs
  <2>4. /\ station' \in [Stations -> Unit] /\ Shape'
        /\ waitOn' \in [BOOLEAN -> [Names -> Stations \cup {Nobody}]]
        /\ \A double \in BOOLEAN : waitOn'[double][None] = Nobody
        /\ bStallIF' \in BOOLEAN /\ bStallDueToBranch' \in BOOLEAN
        /\ stallDueToRSid' \in SUBSET Kinds
    <3>1. CASE EntersIts(i)
      BY <2>2, <3>1, EntersTypes
    <3>2. CASE StallsOn(i)
      BY <3>2, KindIs, TypesAre, LocksKept DEF StallsOn, Stalls, Types, Shape
    <3>3. CASE Misses(i)
      BY <1>2, <2>2, <3>3, MissesTypes, LocksKept
    <3>4. CASE Nothing(i)
      BY <3>4, TypesAre, LocksKept DEF Nothing, stalls, Types, Shape
    <3> QED
      BY <2>3, <3>1, <3>2, <3>3, <3>4
  <2>5. /\ programCounter' \in 0 .. Size + 1
        /\ bStallIF' => programCounter' <= Size
    <3>1. /\ programCounter \in 0 .. Size + 1
          /\ bStallIF => programCounter <= Size
      BY TypesAre DEF Types, Turns
    <3>2. bStallIF' => OnProgram
      <4>1. Fit(i) => i # NoInstruction
        BY DEF Fit, NoInstruction
      <4>2. CASE EntersIts(i) \/ StallsOn(i) \/ Misses(i)
        BY <2>2, <4>1, <4>2 DEF EntersIts, StallsOn, Misses
      <4>3. CASE Nothing(i)
        BY <4>3 DEF Nothing, stalls, OnProgram
      <4> QED
        BY <2>3, <4>2, <4>3
    <3> QED
      BY <2>1, <3>1, <3>2, WordsAre DEF NextCounter, OnProgram, Fetches
  <2>6. /\ seqCounter' \in 0 .. Size /\ seqRegisters' \in [Registers -> Word]
        /\ seqMem' \in Cells /\ spoiled' \in BOOLEAN
    <3>1. \/ UNCHANGED ahead /\ spoiled' \in BOOLEAN
          \/ Sequential!Execute /\ spoiled' = spoiled
      BY <2>1, TypesAre DEF Follows
    <3> QED
      BY <3>1, SeqTypes, TypesAre DEF ahead
  <2>7. TypeOK'
    BY <1>1, <2>1, <2>4, <2>5, <2>6, TypesAre DEF TypeOK
  <2>8. Turns'
    BY <1>1, <1>2, <2>4, <2>5 DEF Types, Turns
  <2> QED
    BY <2>4, <2>7, <2>8 DEF Types
<1> QED
  BY <1>3, <1>4

LEMMA TypesStep == Types /\ [Next]_vars => Types'
<1> SUFFICES ASSUME Types, [Next]_vars PROVE Types'
  OBVIOUS
<1>1. CASE WriteBackRun
  BY <1>1, WriteBackTypes
<1>2. CASE Execute
  <2>1. PICK k \in Stations :
          \/ Held(k) \/ LSExecute(k) \/ IntegerAddExecute(k) \/ IntegerMulExecute(k)
          \/ IntegerDivExecute(k) \/ FloatAddExecute(k) \/ FloatMulExecute(k)
          \/ FloatDivExecute(k)
    BY <1>2 DEF Execute
  <2> QED
    BY <2>1, HeldTypes, ExecuteTypes
<1>3. CASE Issue
  BY <1>3, IssueTypes
<1>4. CASE UNCHANGED vars
  BY <1>4 DEF vars, machine, stalls, ahead, Types, TypeOK, Shape, Turns
<1> QED
  BY <1>1, <1>2, <1>3, <1>4 DEF Next

\* The variables keep their types: the counter stays within the program, a value
\* fits a register and a cell, and a turn, a lock and a stall name stations there are.
THEOREM TypeCorrect == Spec => []TypeOK
<1>1. Init => Types
  BY TypesInit
<1>2. Types => TypeOK
  BY DEF Types
<1> QED
  BY <1>1, <1>2, TypesStep, PTL DEF Spec

-----------------------------------------------------------------------------
(* The invariant.  It holds as long as the processor has not mishandled the *)
(* program.                                                                *)

\* Station k has an instruction that writes register r, or whose target it is.
Writer(k, r)  == station[k].busy /\ WritesRegister(station[k].ins, r)
Targets(k, r) == station[k].busy /\ station[k].ins.target = r
IsMove(k)     == station[k].ins.op = "MOVE"
Fresh(k)      == NotStarted(station[k])
Hold(k)       == station[k].hold
Behind(k)     == station[k].behind
\* It has had its turn in this cycle.
Passed(k) == turn = Issues \/ (turn \in Stations /\ Before(k, turn))

\* The lock of a register, in the array of its file and in the other one.
Lock(r)  == waitOn[(r \in Floats)][r]
Other(r) == waitOn[(r \notin Floats)][r]

\* The register as it will be after the write back.
Pending(r) == wbobject.busy /\ wbobject.target = r
Value(r)   == IF Pending(r) THEN wbobject.val ELSE registers[r]

\* The result of an instruction in flight in the sequential processor.
Due(k) ==
  LET u == station[k]
  IN  IF u.ins.op \in Arithmetic THEN Compute(u.ins.op, u.x, u.y)
      ELSE IF u.ins.op = "LI" THEN u.ins.n % W
      ELSE IF u.ins.op = "L" THEN Loaded(seqMem[Cell(u)]) ELSE 0

\* Station k starts in its next turn.
Ready(k) == station[k].vj /\ station[k].vk /\ ~station[k].behind

\* Station k needs value x in register r; v says that it has found r free.
Needs(k, r, v, x) ==
  LET u == station[k]
  IN  \/ r = u.ins.source1 /\ v = (u.vj /\ ~Accesses(u.ins)) /\ x = u.x
      \/ r = u.ins.source2 /\ v = (u.vk /\ ~Accesses(u.ins)) /\ x = u.y
      \/ u.ins.op = "S" /\ r = u.ins.target /\ v = FALSE /\ x = seqMem[Cell(u)]
\* It will have it: what has found its register free starts before a later writer
\* does; what has not waits for the one writer before it.
Gets(k, r, v, x) ==
  IF r = None THEN x = 0
  ELSE IF v
    THEN /\ Value(r) = x /\ (turn # WritesBack => ~Pending(r))
         /\ \A w \in Stations :
              Writer(w, r) /\ w # k => /\ Ready(k) /\ ~Passed(k) /\ ~Hold(k)
                                       /\ Fresh(w) /\ (Hold(w) \/ Passed(w))
    ELSE \/ /\ Value(r) = x /\ (turn # WritesBack /\ Pending(r) => Lock(r) # Nobody)
            /\ \A w \in Stations : Writer(w, r) => w = k
         \/ \E w \in Stations :
              /\ w # k /\ Lock(r) = w /\ Writer(w, r) /\ ~IsMove(w) /\ Due(w) = x
              /\ ~Pending(r)
              /\ \A j \in Stations : Writer(j, r) => j \in {k, w}

\* A writer that does not have the lock has not started and is the last one, of at
\* most two; MOVE, which locks a register of the other file, is alone.
Locks(r) ==
  /\ \A k \in Stations : Writer(k, r) /\ ~IsMove(k) /\ Lock(r) # k => Behind(k) /\ Fresh(k)
  /\ \A k, j \in Stations :
       Writer(k, r) /\ Writer(j, r) /\ k # j => Lock(r) \in {k, j} /\ ~IsMove(k)
  /\ Lock(r) # Nobody /\ ~Pending(r) => Targets(Lock(r), r) /\ ~IsMove(Lock(r))
  /\ \A k \in Stations :
       Pending(r) /\ Writer(k, r) => Lock(r) # k /\ Lock(r) # Nobody /\ ~IsMove(k)
  /\ Pending(r) => Lock(r) = Nobody \/ Lock(r)[1] # "stores"
Alone(k, r) ==
  Writer(k, r) /\ IsMove(k) =>
    /\ Lock(r) = Nobody /\ ~Pending(r)
    /\ \A j \in Stations : Targets(j, r) => j = k
    /\ station[k].x = 0
    /\ station[k].ins.double => ~Behind(k) /\ Other(r) = k

Data(k) ==
  station[k].busy =>
    LET u == station[k]
    IN  /\ ~Fresh(k) /\ ~Accesses(u.ins) => u.s1 = u.x /\ u.s2 = u.y
        /\ ~Fresh(k) /\ Accesses(u.ins) => u.s1 = Cell(u)
        /\ u.waiting => u.value = Due(k)
        /\ u.ins.op = "DIV" => Divides(u.x, u.y)
        /\ ~Fresh(k) /\ u.ins.op = "S" =>
             /\ registers[u.ins.target] = seqMem[Cell(u)] /\ ~Pending(u.ins.target)
             /\ Lock(u.ins.target) = k
Operand(k) ==
  station[k].busy /\ Fresh(k) =>
    \A r \in Names, v \in BOOLEAN, x \in Word \cup {Blank} :
      Needs(k, r, v, x) => Gets(k, r, v, x)

\* The last writer of a register makes what the sequential processor has in it.
Regs(r) ==
  /\ (\A k \in Stations : ~Writer(k, r)) => Value(r) = seqRegisters[r]
  /\ \A k \in Stations :
       Writer(k, r) /\ (Lock(r) # k \/ \A j \in Stations : Writer(j, r) => j = k)
         => Due(k) = seqRegisters[r]

\* What is at a cell: a store, or loads.
StoreAt(k, c)  == station[k].busy /\ station[k].ins.op = "S" /\ Cell(station[k]) = c
AccessAt(k, c) == station[k].busy /\ Accesses(station[k].ins) /\ Cell(station[k]) = c
Mems ==
  /\ \A c \in Word : mem[c] = seqMem[c] \/ \E k \in Stations : StoreAt(k, c)
  /\ \A k, j \in Stations : \A c \in Word :
       k # j /\ StoreAt(k, c) => ~AccessAt(j, c)

\* The instruction that was issued last is held, in the cycle of its issue.
Holding ==
  /\ \A k \in Stations : station[k].busy /\ Hold(k) => ~Passed(k)
  /\ \A k, j \in Stations :
       station[k].busy /\ station[j].busy /\ Hold(k) /\ Hold(j) => k = j

BranchAt(k) == station[k].busy /\ station[k].ins.op \in Branches
Stalling ==
  /\ bStallDueToBranch <=> \E k \in Stations : BranchAt(k)
  /\ \A k, j \in Stations : BranchAt(k) /\ BranchAt(j) => k = j
  /\ \A k \in Stations : BranchAt(k) =>
       /\ ~station[k].ins.double /\ programCounter \in 1 .. Size /\ stallDueToRSid = {}
       /\ seqCounter = IF Holds(station[k].ins, station[k].x, station[k].y)
                         THEN station[k].ins.n ELSE programCounter
  /\ ~bStallDueToBranch =>
       /\ NextLine = seqCounter
       /\ bStallIF => /\ decode(vprogram[programCounter - 1]).op # "NOOP"
                      /\ stallDueToRSid = {KindOf(decode(vprogram[programCounter - 1]))}
       /\ ~bStallIF => stallDueToRSid = {}

AllDone == (\A k \in Stations : ~station[k].busy) /\ ~wbobject.busy /\ ~bStallIF
Ending ==
  /\ turn = WritesBack /\ triggerend => AllDone /\ seqCounter = Size
  /\ turn = Issues /\ triggerend => AllDone
  /\ turn = WritesBack /\ bStallIF => \E k \in Stations : station[k].busy

Right ==
  /\ Holding /\ Stalling /\ Ending /\ Mems
  /\ \A r \in Registers : Locks(r) /\ Regs(r)
  /\ \A r \in Registers : \A k \in Stations : Alone(k, r)
  /\ \A k \in Stations : Data(k) /\ Operand(k)
Inv == Types /\ (spoiled \/ Right)

(* Registers and locks.                                                    *)

LEMMA FreeIs ==
  ASSUME NEW d \in BOOLEAN, NEW r \in File(d)
  PROVE  /\ waitOn[d][r] = Lock(r) /\ r \in Registers /\ r # None
         /\ FreeRegister(d, r) <=> Lock(r) = Nobody
         /\ waitOn[~d][r] = Other(r)
<1>1. r \in Registers /\ (r \in Floats) = d /\ (r \notin Floats) = ~d
  BY NamesAre DEF File
<1> QED
  BY <1>1, NamesAre DEF Lock, Other, FreeRegister

LEMMA LockPut ==
  ASSUME Types, NEW d \in BOOLEAN, NEW r \in File(d),
         NEW who \in Stations \cup {Nobody}, waitOn' = [waitOn EXCEPT ![d][r] = who]
  PROVE  /\ Lock(r)' = who
         /\ \A s \in Registers : s # r => Lock(s)' = Lock(s)
         /\ \A s \in Registers : Other(s)' = Other(s)
<1>1. r \in Registers /\ (r \in Floats) = d /\ Registers \subseteq Names
  BY NamesAre DEF File
<1>2. \A double \in BOOLEAN : \A s \in Names :
        waitOn'[double][s] = IF double = d /\ s = r THEN who ELSE waitOn[double][s]
  BY <1>1, LocksOne
<1>3. \A s : (s \in Floats) \in BOOLEAN /\ (s \notin Floats) \in BOOLEAN
  OBVIOUS
<1>4. \A s \in Registers :
        /\ waitOn'[(s \in Floats)][s] = IF (s \in Floats) = d /\ s = r THEN who
                                       ELSE waitOn[(s \in Floats)][s]
        /\ waitOn'[(s \notin Floats)][s] = IF (s \notin Floats) = d /\ s = r THEN who
                                          ELSE waitOn[(s \notin Floats)][s]
  BY <1>1, <1>2, <1>3
<1> QED
  BY <1>1, <1>4 DEF Lock, Other

LEMMA OtherPut ==
  ASSUME Types, NEW d \in BOOLEAN, NEW r \in File(~d),
         NEW who \in Stations \cup {Nobody}, waitOn' = [waitOn EXCEPT ![d][r] = who]
  PROVE  /\ Other(r)' = who
         /\ \A s \in Registers : s # r => Other(s)' = Other(s)
         /\ \A s \in Registers : Lock(s)' = Lock(s)
<1>1. r \in Registers /\ (r \in Floats) = ~d /\ Registers \subseteq Names
  BY NamesAre DEF File
<1>2. \A double \in BOOLEAN : \A s \in Names :
        waitOn'[double][s] = IF double = d /\ s = r THEN who ELSE waitOn[double][s]
  BY <1>1, LocksOne
<1>3. \A s : (s \in Floats) \in BOOLEAN /\ (s \notin Floats) \in BOOLEAN
  OBVIOUS
<1>4. \A s \in Registers :
        /\ waitOn'[(s \in Floats)][s] = IF (s \in Floats) = d /\ s = r THEN who
                                       ELSE waitOn[(s \in Floats)][s]
        /\ waitOn'[(s \notin Floats)][s] = IF (s \notin Floats) = d /\ s = r THEN who
                                          ELSE waitOn[(s \notin Floats)][s]
  BY <1>1, <1>2, <1>3
<1> QED
  BY <1>1, <1>4 DEF Lock, Other

LEMMA SameLocks ==
  ASSUME waitOn' = waitOn
  PROVE  \A s \in Registers : Lock(s)' = Lock(s) /\ Other(s)' = Other(s)
BY DEF Lock, Other

LEMMA LockIs ==
  ASSUME Types, NEW r \in Registers PROVE Lock(r) \in Stations \cup {Nobody}
<1>1. r \in Names /\ (r \in Floats) \in BOOLEAN
  BY NamesAre
<1> QED
  BY <1>1, TypesAre DEF Lock

\* When it is the turn of station k, a station has had its turn if it is before k;
\* after it, k has had it, too.
LEMMA PassedMoves ==
  ASSUME Types, NEW k \in Stations, Executes(k)
  PROVE  /\ turn = k /\ turn # WritesBack /\ turn' # WritesBack /\ ~Passed(k)
         /\ turn \in Stations /\ triggerend' = FALSE
         /\ \A j \in Stations : station[j].busy => (Passed(j)' <=> Passed(j) \/ j = k)
<1>1. turn = k /\ turn' = NextTurn(k) /\ triggerend' = FALSE
  BY DEF Executes
<1>2. turn \in Stations /\ turn # WritesBack /\ turn # Issues
  BY <1>1, StationIs
<1>3. \A j \in Stations : Passed(j) <=> Before(j, k)
  BY <1>1, <1>2 DEF Passed
<1>4. ~Passed(k)
  BY <1>3, BeforeIs
<1>5. ASSUME NEW j \in Stations, station[j].busy
      PROVE  Passed(j)' <=> Before(j, k) \/ j = k
  <2>1. j \in Busy
    BY <1>5 DEF Busy
  <2>2. CASE turn' = Issues /\ \A i \in Busy : ~Before(k, i)
    <3>1. Passed(j)'
      BY <2>2 DEF Passed
    <3>2. Before(j, k) \/ j = k
      BY <2>1, <2>2, BeforeIs
    <3> QED
      BY <3>1, <3>2
  <2>3. CASE /\ turn' \in Stations /\ Before(k, turn')
             /\ \A i \in Busy : Before(k, i) /\ i # turn' => Before(turn', i)
    <3>1. turn' # Issues
      BY <2>3, StationIs
    <3>2. Passed(j)' <=> Before(j, turn')
      BY <2>3, <3>1 DEF Passed
    <3>3. Before(j, turn') => Before(j, k) \/ j = k
      BY <2>1, <2>3, BeforeIs
    <3>4. Before(j, k) \/ j = k => Before(j, turn')
      BY <2>3, BeforeIs
    <3> QED
      BY <3>2, <3>3, <3>4
  <2> QED
    BY <1>1, <2>2, <2>3, NextTurnIs
<1>6. turn' # WritesBack
  BY <1>1, NextTurnIs, StationIs DEF Issues, WritesBack
<1> QED
  BY <1>1, <1>2, <1>3, <1>4, <1>5, <1>6

-----------------------------------------------------------------------------
(* A station goes on with its instruction.                                 *)

GoesOn(k) ==
  /\ Executes(k)
  /\ UNCHANGED <<programCounter, mem, wbobject, bStallIF, bStallDueToBranch>>
  /\ \A j \in Stations : j # k => station'[j] = station[j]
  /\ station'[k].busy /\ station'[k].ins = station[k].ins
  /\ station'[k].x = station[k].x /\ station'[k].y = station[k].y
  /\ station'[k].behind = station[k].behind /\ station'[k].hold = FALSE

LEMMA GoesOnIs ==
  ASSUME Types, NEW k \in Stations, GoesOn(k)
  PROVE  /\ \A j \in Stations :
              /\ station'[j].busy <=> station[j].busy
              /\ station'[j].ins = station[j].ins
              /\ station'[j].x = station[j].x /\ station'[j].y = station[j].y
              /\ IsMove(j)' <=> IsMove(j)
              /\ Behind(j)' <=> Behind(j)
              /\ Due(j)' = Due(j)
              /\ BranchAt(j)' <=> BranchAt(j)
              /\ j # k => /\ Fresh(j)' <=> Fresh(j)
                          /\ Hold(j)' <=> Hold(j)
                          /\ Ready(j)' <=> Ready(j)
         /\ \A j \in Stations : \A r \in Registers :
              (Writer(j, r)' <=> Writer(j, r)) /\ (Targets(j, r)' <=> Targets(j, r))
         /\ \A j \in Stations : \A c \in Word :
              (StoreAt(j, c)' <=> StoreAt(j, c)) /\ (AccessAt(j, c)' <=> AccessAt(j, c))
         /\ \A r \in Registers :
              (Pending(r)' <=> Pending(r)) /\ Value(r)' = Value(r)
         /\ station[k].busy /\ ~Hold(k)'
<1>1. /\ programCounter' = programCounter /\ mem' = mem /\ wbobject' = wbobject
      /\ registers' = registers /\ seqMem' = seqMem /\ turn = k
      /\ \A j \in Stations : j # k => station'[j] = station[j]
      /\ station'[k].busy /\ station'[k].ins = station[k].ins
      /\ station'[k].x = station[k].x /\ station'[k].y = station[k].y
      /\ station'[k].behind = station[k].behind /\ station'[k].hold = FALSE
  BY DEF GoesOn, Executes, ahead
<1>2. station[k].busy
  BY <1>1, UnitIs
<1>3. \A j \in Stations :
        /\ station'[j].busy <=> station[j].busy
        /\ station'[j].ins = station[j].ins
        /\ station'[j].x = station[j].x /\ station'[j].y = station[j].y
        /\ station'[j].behind = station[j].behind
  BY <1>1, <1>2
<1>4. \A j \in Stations : Cell(station[j])' = Cell(station[j])
  BY <1>3 DEF Cell
<1>5. \A j \in Stations :
        /\ IsMove(j)' <=> IsMove(j)
        /\ Behind(j)' <=> Behind(j)
        /\ BranchAt(j)' <=> BranchAt(j)
        /\ j # k => /\ Fresh(j)' <=> Fresh(j)
                    /\ Hold(j)' <=> Hold(j)
                    /\ Ready(j)' <=> Ready(j)
  BY <1>1, <1>3 DEF IsMove, Behind, BranchAt, Fresh, NotStarted, Hold, Ready
<1>6. \A j \in Stations : Due(j)' = Due(j)
  BY <1>1, <1>3, <1>4 DEF Due
<1>7. \A j \in Stations : \A r \in Registers :
        (Writer(j, r)' <=> Writer(j, r)) /\ (Targets(j, r)' <=> Targets(j, r))
  BY <1>3 DEF Writer, Targets
<1>8. \A j \in Stations : \A c \in Word :
        (StoreAt(j, c)' <=> StoreAt(j, c)) /\ (AccessAt(j, c)' <=> AccessAt(j, c))
  BY <1>3, <1>4 DEF StoreAt, AccessAt
<1>9. \A r \in Registers : (Pending(r)' <=> Pending(r)) /\ Value(r)' = Value(r)
  BY <1>1 DEF Pending, Value
<1>10. ~Hold(k)'
  BY <1>1 DEF Hold
<1> QED
  BY <1>2, <1>3, <1>5, <1>6, <1>7, <1>8, <1>9, <1>10

\* What does not depend on how far the station is.
LEMMA GoesOnKeeps ==
  ASSUME Types, NEW k \in Stations, GoesOn(k), Holding, Stalling, Mems
  PROVE  Holding' /\ Stalling' /\ Ending' /\ Mems'
<1>1. /\ turn # WritesBack /\ turn' # WritesBack /\ ~Passed(k) /\ triggerend' = FALSE
      /\ \A j \in Stations : station[j].busy => (Passed(j)' <=> Passed(j) \/ j = k)
  BY PassedMoves DEF GoesOn
<1>2. /\ \A j \in Stations :
           /\ station'[j].busy <=> station[j].busy
           /\ station'[j].ins = station[j].ins
           /\ station'[j].x = station[j].x /\ station'[j].y = station[j].y
           /\ BranchAt(j)' <=> BranchAt(j)
           /\ j # k => (Hold(j)' <=> Hold(j))
      /\ \A j \in Stations : \A c \in Word :
           (StoreAt(j, c)' <=> StoreAt(j, c)) /\ (AccessAt(j, c)' <=> AccessAt(j, c))
      /\ ~Hold(k)'
  BY GoesOnIs
<1>3. /\ programCounter' = programCounter /\ mem' = mem /\ bStallIF' = bStallIF
      /\ bStallDueToBranch' = bStallDueToBranch /\ stallDueToRSid' = stallDueToRSid
      /\ vprogram' = vprogram /\ seqCounter' = seqCounter /\ seqMem' = seqMem
  BY DEF GoesOn, Executes, ahead
<1>4. Holding'
  BY <1>1, <1>2 DEF Holding
<1>5. Stalling'
  <2>1. NextLine' = NextLine
    BY <1>3 DEF NextLine
  <2> QED
    BY <1>2, <1>3, <2>1 DEF Stalling
<1>6. Ending'
  BY <1>1 DEF Ending
<1>7. Mems'
  BY <1>2, <1>3 DEF Mems
<1> QED
  BY <1>4, <1>5, <1>6, <1>7

\* Another station gets what it needs all the same, if the step takes no lock.
LEMMA GoesOnGets ==
  ASSUME Types, NEW k \in Stations, GoesOn(k), waitOn' = waitOn, Fresh(k)' <=> Fresh(k),
         NEW j \in Stations, j # k, station[j].busy, NEW r \in Names, NEW v \in BOOLEAN, NEW x,
         Gets(j, r, v, x)
  PROVE  Gets(j, r, v, x)'
<1>1. /\ turn # WritesBack /\ turn' # WritesBack
      /\ \A w \in Stations : station[w].busy => (Passed(w)' <=> Passed(w) \/ w = k)
  BY PassedMoves DEF GoesOn
<1>2. CASE r = None
  BY <1>2 DEF Gets
<1>3. CASE r # None
  <2>1. r \in Registers
    BY <1>3 DEF Names
  <2>2. Lock(r)' = Lock(r) /\ (Pending(r)' <=> Pending(r)) /\ Value(r)' = Value(r)
    BY <2>1, SameLocks, GoesOnIs
  <2>3. /\ \A w \in Stations :
             /\ Writer(w, r)' <=> Writer(w, r)
             /\ IsMove(w)' <=> IsMove(w)
             /\ Due(w)' = Due(w)
             /\ Fresh(w)' <=> Fresh(w)
             /\ w # k => (Hold(w)' <=> Hold(w))
        /\ Ready(j)' <=> Ready(j)
    BY <2>1, GoesOnIs
  <2>4. \A w \in Stations : Writer(w, r) => station[w].busy
    BY DEF Writer
  <2>5. CASE v
    BY <1>1, <1>3, <2>2, <2>3, <2>4, <2>5 DEF Gets
  <2>6. CASE ~v
    BY <1>1, <1>3, <2>2, <2>3, <2>6 DEF Gets
  <2> QED
    BY <2>5, <2>6
<1> QED
  BY <1>2, <1>3

LEMMA NeedsKept ==
  ASSUME NEW j \in Stations, station'[j] = station[j], seqMem' = seqMem,
         NEW r \in Names, NEW v \in BOOLEAN, NEW x
  PROVE  Needs(j, r, v, x)' <=> Needs(j, r, v, x)
BY DEF Needs, Cell

\* A step that takes no lock.
LEMMA GoesOnLocks ==
  ASSUME Types, NEW k \in Stations, GoesOn(k), waitOn' = waitOn, Fresh(k)' <=> Fresh(k),
         Right
  PROVE  /\ \A r \in Registers : Locks(r)' /\ Regs(r)'
         /\ \A r \in Registers : \A j \in Stations : Alone(j, r)'
         /\ \A j \in Stations : j # k => Data(j)' /\ Operand(j)'
<1>1. /\ \A j \in Stations :
           /\ station'[j].busy <=> station[j].busy
           /\ station'[j].ins = station[j].ins
           /\ station'[j].x = station[j].x
           /\ IsMove(j)' <=> IsMove(j)
           /\ Behind(j)' <=> Behind(j)
           /\ Due(j)' = Due(j)
           /\ Fresh(j)' <=> Fresh(j)
      /\ \A j \in Stations : \A r \in Registers :
           (Writer(j, r)' <=> Writer(j, r)) /\ (Targets(j, r)' <=> Targets(j, r))
      /\ \A r \in Registers : (Pending(r)' <=> Pending(r)) /\ Value(r)' = Value(r)
  BY GoesOnIs
<1>2. \A r \in Registers : Lock(r)' = Lock(r) /\ Other(r)' = Other(r)
  BY SameLocks
<1>3. /\ registers' = registers /\ seqMem' = seqMem /\ seqRegisters' = seqRegisters
      /\ \A j \in Stations : j # k => station'[j] = station[j]
  BY DEF GoesOn, Executes, ahead
<1>4. ASSUME NEW r \in Registers PROVE Locks(r)'
  <2>1. Locks(r) /\ (Lock(r) # Nobody => Lock(r) \in Stations)
    BY LockIs DEF Right
  <2> QED
    BY <1>1, <1>2, <2>1 DEF Locks
<1>5. ASSUME NEW r \in Registers PROVE Regs(r)'
  <2>1. Regs(r)
    BY DEF Right
  <2> QED
    BY <1>1, <1>2, <1>3, <2>1 DEF Regs
<1>6. ASSUME NEW r \in Registers, NEW j \in Stations PROVE Alone(j, r)'
  <2>1. Alone(j, r)
    BY DEF Right
  <2> QED
    BY <1>1, <1>2, <2>1 DEF Alone
<1>7. ASSUME NEW j \in Stations, j # k PROVE Data(j)'
  <2>1. Data(j) /\ station'[j] = station[j]
    BY <1>3, <1>7 DEF Right
  <2> DEFINE r == station[j].ins.target
  <2>2. station[j].busy /\ station[j].ins.op = "S" => r \in Registers
    <3>1. station[j].busy => Fit(station[j].ins)
      BY DEF Types, Shape, Shaped
    <3> QED
      BY <3>1, NamesAre DEF Fit, File
  <2>3. r \in Registers => Lock(r)' = Lock(r) /\ (Pending(r)' <=> Pending(r))
    BY <1>1, <1>2
  <2> HIDE DEF r
  <2>4. Cell(station[j])' = Cell(station[j])
    BY <2>1 DEF Cell
  <2> QED
    BY <1>1, <1>3, <2>1, <2>2, <2>3, <2>4 DEF Data, r
<1>8. ASSUME NEW j \in Stations, j # k PROVE Operand(j)'
  <2>1. Operand(j) /\ station'[j] = station[j]
    BY <1>3, <1>8 DEF Right
  <2>2. \A r \in Names, v \in BOOLEAN, x \in Word \cup {Blank} :
          /\ Needs(j, r, v, x)' <=> Needs(j, r, v, x)
          /\ station[j].busy /\ Gets(j, r, v, x) => Gets(j, r, v, x)'
    BY <1>3, <1>8, <2>1, NeedsKept, GoesOnGets
  <2>3. Fresh(j)' <=> Fresh(j)
    BY <1>1
  <2> QED
    BY <2>1, <2>2, <2>3 DEF Operand
<1> QED
  BY <1>4, <1>5, <1>6, <1>7, <1>8

\* A step that starts the instruction, and may take the lock of its target.
TakesLock(k) ==
  /\ \A r \in Registers : Other(r)' = Other(r)
  /\ \A r \in Registers :
       \/ Lock(r)' = Lock(r)
       \/ /\ Lock(r) = Nobody /\ Lock(r)' = k /\ Targets(k, r) /\ ~IsMove(k) /\ ~Pending(r)
          /\ \A j \in Stations : Writer(j, r) => j = k
  /\ \A r \in Registers : Writer(k, r) /\ ~IsMove(k) => Lock(r)' = k

LEMMA StartsGets ==
  ASSUME Types, NEW k \in Stations, GoesOn(k), TakesLock(k), ~Hold(k),
         NEW j \in Stations, j # k, station[j].busy, NEW r \in Names, NEW v \in BOOLEAN, NEW x,
         Gets(j, r, v, x)
  PROVE  Gets(j, r, v, x)'
<1>1. /\ turn # WritesBack /\ turn' # WritesBack /\ ~Passed(k)
      /\ \A w \in Stations : station[w].busy => (Passed(w)' <=> Passed(w) \/ w = k)
  BY PassedMoves DEF GoesOn
<1>2. CASE r = None
  BY <1>2 DEF Gets
<1>3. CASE r # None
  <2>1. r \in Registers
    BY <1>3 DEF Names
  <2>2. /\ (Pending(r)' <=> Pending(r)) /\ Value(r)' = Value(r)
        /\ Lock(r)' = Lock(r) \/ (Lock(r) = Nobody /\ Lock(r)' = k)
    BY <2>1, GoesOnIs DEF TakesLock
  <2>3. /\ \A w \in Stations :
             /\ Writer(w, r)' <=> Writer(w, r)
             /\ IsMove(w)' <=> IsMove(w)
             /\ Due(w)' = Due(w)
             /\ w # k => (Hold(w)' <=> Hold(w)) /\ (Fresh(w)' <=> Fresh(w))
        /\ Ready(j)' <=> Ready(j)
    BY <2>1, GoesOnIs
  <2>4. \A w \in Stations : Writer(w, r) => station[w].busy
    BY DEF Writer
  <2>5. CASE v
    BY <1>1, <1>3, <2>2, <2>3, <2>4, <2>5 DEF Gets
  <2>6. CASE ~v
    <3>1. k # Nobody /\ \A w \in Stations : w # Nobody
      BY StationIs
    <3> QED
      BY <1>1, <1>3, <2>2, <2>3, <2>6, <3>1 DEF Gets
  <2> QED
    BY <2>5, <2>6
<1> QED
  BY <1>2, <1>3

LEMMA StartsLocks ==
  ASSUME Types, NEW k \in Stations, GoesOn(k), TakesLock(k), ~Hold(k), Right
  PROVE  /\ \A r \in Registers : Locks(r)' /\ Regs(r)'
         /\ \A r \in Registers : \A j \in Stations : Alone(j, r)'
         /\ \A j \in Stations : j # k => Data(j)' /\ Operand(j)'
<1>1. /\ \A j \in Stations :
           /\ station'[j].busy <=> station[j].busy
           /\ station'[j].ins = station[j].ins
           /\ station'[j].x = station[j].x
           /\ IsMove(j)' <=> IsMove(j)
           /\ Behind(j)' <=> Behind(j)
           /\ Due(j)' = Due(j)
           /\ j # k => (Fresh(j)' <=> Fresh(j))
      /\ \A j \in Stations : \A r \in Registers :
           (Writer(j, r)' <=> Writer(j, r)) /\ (Targets(j, r)' <=> Targets(j, r))
      /\ \A r \in Registers : (Pending(r)' <=> Pending(r)) /\ Value(r)' = Value(r)
  BY GoesOnIs
<1>2. \A r \in Registers :
       /\ Other(r)' = Other(r)
       /\ \/ Lock(r)' = Lock(r)
          \/ /\ Lock(r) = Nobody /\ Lock(r)' = k /\ Targets(k, r) /\ ~IsMove(k)
             /\ ~Pending(r) /\ \A j \in Stations : Writer(j, r) => j = k
       /\ Writer(k, r) /\ ~IsMove(k) => Lock(r)' = k
  BY DEF TakesLock
<1>3. /\ registers' = registers /\ seqMem' = seqMem /\ seqRegisters' = seqRegisters
      /\ \A j \in Stations : j # k => station'[j] = station[j]
  BY DEF GoesOn, Executes, ahead
<1>4. k # Nobody /\ \A w \in Stations : w # Nobody
  BY StationIs
<1>5. ASSUME NEW r \in Registers PROVE Locks(r)'
  <2>1. Locks(r) /\ (Lock(r) # Nobody => Lock(r) \in Stations)
    BY LockIs DEF Right
  <2>2. CASE Lock(r)' = Lock(r)
    BY <1>1, <1>2, <2>1, <2>2 DEF Locks
  <2>3. CASE /\ Lock(r) = Nobody /\ Lock(r)' = k /\ Targets(k, r) /\ ~IsMove(k)
             /\ ~Pending(r) /\ \A j \in Stations : Writer(j, r) => j = k
    BY <1>1, <1>4, <2>3 DEF Locks
  <2> QED
    BY <1>2, <2>2, <2>3
<1>6. ASSUME NEW r \in Registers PROVE Regs(r)'
  <2>1. Regs(r)
    BY DEF Right
  <2> QED
    BY <1>1, <1>2, <1>3, <1>4, <2>1 DEF Regs
<1>7. ASSUME NEW r \in Registers, NEW j \in Stations PROVE Alone(j, r)'
  <2>1. Alone(j, r)
    BY DEF Right
  <2> QED
    BY <1>1, <1>2, <2>1 DEF Alone
<1>8. ASSUME NEW j \in Stations, j # k PROVE Data(j)'
  <2>1. Data(j) /\ station'[j] = station[j]
    BY <1>3, <1>8 DEF Right
  <2> DEFINE r == station[j].ins.target
  <2>2. station[j].busy /\ station[j].ins.op = "S" => r \in Registers
    <3>1. station[j].busy => Fit(station[j].ins)
      BY DEF Types, Shape, Shaped
    <3> QED
      BY <3>1, NamesAre DEF Fit, File
  <2>3. r \in Registers => /\ Pending(r)' <=> Pending(r)
                           /\ Lock(r)' = Lock(r) \/ Lock(r) = Nobody
    BY <1>1, <1>2
  <2> HIDE DEF r
  <2>4. Cell(station[j])' = Cell(station[j])
    BY <2>1 DEF Cell
  <2> QED
    BY <1>1, <1>3, <1>4, <1>8, <2>1, <2>2, <2>3, <2>4 DEF Data, r
<1>9. ASSUME NEW j \in Stations, j # k PROVE Operand(j)'
  <2>1. Operand(j) /\ station'[j] = station[j]
    BY <1>3, <1>9 DEF Right
  <2>2. \A r \in Names, v \in BOOLEAN, x \in Word \cup {Blank} :
          /\ Needs(j, r, v, x)' <=> Needs(j, r, v, x)
          /\ station[j].busy /\ Gets(j, r, v, x) => Gets(j, r, v, x)'
    BY <1>3, <1>9, <2>1, NeedsKept, StartsGets
  <2>3. Fresh(j)' <=> Fresh(j)
    BY <1>1, <1>9
  <2> QED
    BY <2>1, <2>2, <2>3 DEF Operand
<1> QED
  BY <1>5, <1>6, <1>7, <1>8, <1>9

\* The station itself, as long as it has not started or once it has.
LEMMA OwnData ==
  ASSUME Types, NEW k \in Stations, GoesOn(k), waitOn' = waitOn, Fresh(k)' <=> Fresh(k),
         station'[k].s1 = station[k].s1, station'[k].s2 = station[k].s2,
         station'[k].waiting => station'[k].value = Due(k), Data(k)
  PROVE  Data(k)'
<1>1. /\ station'[k].ins = station[k].ins /\ station[k].busy
      /\ station'[k].x = station[k].x /\ station'[k].y = station[k].y
      /\ Due(k)' = Due(k)
  BY GoesOnIs DEF GoesOn
<1>2. registers' = registers /\ seqMem' = seqMem
  BY DEF GoesOn, Executes, ahead
<1> DEFINE r == station[k].ins.target
<1>3. station[k].ins.op = "S" => r \in Registers
  <2>1. Fit(station[k].ins)
    BY <1>1 DEF Types, Shape, Shaped
  <2> QED
    BY <2>1, NamesAre DEF Fit, File
<1>4. r \in Registers => Lock(r)' = Lock(r) /\ (Pending(r)' <=> Pending(r))
  BY GoesOnIs, SameLocks
<1>5. Cell(station[k])' = Cell(station[k])
  BY <1>1 DEF Cell
<1> HIDE DEF r
<1> QED
  BY <1>1, <1>2, <1>3, <1>4, <1>5 DEF Data, r

LEMMA OwnGets ==
  ASSUME Types, NEW k \in Stations, GoesOn(k), waitOn' = waitOn,
         NEW r \in Names, NEW v \in BOOLEAN, NEW x, Gets(k, r, v, x),
         v => \A w \in Stations : Writer(w, r) => w = k
  PROVE  Gets(k, r, v, x)'
<1>1. turn # WritesBack /\ turn' # WritesBack
  BY PassedMoves DEF GoesOn
<1>2. CASE r = None
  BY <1>2 DEF Gets
<1>3. CASE r # None
  <2>1. r \in Registers
    BY <1>3 DEF Names
  <2>2. Lock(r)' = Lock(r) /\ (Pending(r)' <=> Pending(r)) /\ Value(r)' = Value(r)
    BY <2>1, SameLocks, GoesOnIs
  <2>3. \A w \in Stations :
             /\ Writer(w, r)' <=> Writer(w, r)
             /\ IsMove(w)' <=> IsMove(w)
             /\ Due(w)' = Due(w)
    BY <2>1, GoesOnIs
  <2>4. CASE v
    BY <1>1, <1>3, <2>2, <2>3, <2>4 DEF Gets
  <2>5. CASE ~v
    BY <1>1, <1>3, <2>2, <2>3, <2>5 DEF Gets
  <2> QED
    BY <2>4, <2>5
<1> QED
  BY <1>2, <1>3

\* A register that is free has no writer on its way.
LEMMA FoundFree ==
  ASSUME Types, NEW k \in Stations, turn # WritesBack, NEW r \in Registers, NEW x,
         Gets(k, r, FALSE, x), Lock(r) \in {Nobody, k}, Lock(r) = k => ~Pending(r)
  PROVE  /\ registers[r] = x /\ Value(r) = x /\ ~Pending(r)
         /\ \A w \in Stations : Writer(w, r) => w = k
<1>1. r # None /\ \A w \in Stations : w # Nobody
  BY NamesAre, StationIs
<1>2. /\ Value(r) = x /\ (Pending(r) => Lock(r) # Nobody)
      /\ \A w \in Stations : Writer(w, r) => w = k
  BY <1>1 DEF Gets
<1> QED
  BY <1>2 DEF Value


LEMMA RightGoesOn ==
  ASSUME Types, Right, NEW k \in Stations, GoesOn(k),
         \A r \in Registers : Locks(r)' /\ Regs(r)',
         \A r \in Registers : \A j \in Stations : Alone(j, r)',
         \A j \in Stations : j # k => Data(j)' /\ Operand(j)',
         Data(k)', Operand(k)'
  PROVE  Right'
<1>1. Holding' /\ Stalling' /\ Ending' /\ Mems'
  BY GoesOnKeeps DEF Right
<1>2. \A j \in Stations : Data(j)' /\ Operand(j)'
  OBVIOUS
<1> QED
  BY <1>1, <1>2 DEF Right

LEMMA NeedsSame ==
  ASSUME NEW k \in Stations, station'[k].ins = station[k].ins,
         station'[k].vj = station[k].vj, station'[k].vk = station[k].vk,
         station'[k].x = station[k].x, station'[k].y = station[k].y, seqMem' = seqMem,
         NEW r \in Names, NEW v \in BOOLEAN, NEW x
  PROVE  Needs(k, r, v, x)' <=> Needs(k, r, v, x)
BY DEF Needs, Cell

LEMMA SameMem == ASSUME NEW k, Executes(k) PROVE seqMem' = seqMem /\ registers' = registers
BY DEF Executes, ahead

LEMMA HeldRight ==
  ASSUME Types, Right, NEW k \in Stations, Held(k) PROVE Right'
<1> DEFINE v == [station[k] EXCEPT !.hold = FALSE]
<1>0. v = [station[k] EXCEPT !.hold = FALSE]
  OBVIOUS
<1> HIDE DEF v
<1>1. /\ Executes(k) /\ turn = k /\ Hold(k) /\ waitOn' = waitOn
      /\ UNCHANGED <<programCounter, mem, wbobject, bStallIF, bStallDueToBranch>>
  BY DEF Held, Executes, Hold
<1>2. station[k] \in Unit /\ station[k].busy
  BY <1>1, UnitIs
<1>3. /\ v.busy /\ v.ins = station[k].ins /\ v.left = station[k].left /\ v.hold = FALSE
      /\ v.vj = station[k].vj /\ v.vk = station[k].vk
      /\ v.s1 = station[k].s1 /\ v.s2 = station[k].s2
      /\ v.waiting = station[k].waiting /\ v.value = station[k].value
      /\ v.x = station[k].x /\ v.y = station[k].y /\ v.behind = station[k].behind
  BY <1>0, <1>2 DEF Unit
<1>4. station'[k] = v /\ \A j \in Stations : j # k => station'[j] = station[j]
  BY <1>0, TypesAre DEF Held
<1>5. GoesOn(k)
  BY <1>1, <1>3, <1>4 DEF GoesOn
<1>6. Fresh(k)' <=> Fresh(k)
  BY <1>3, <1>4 DEF Fresh, NotStarted
<1>7. Data(k)'
  <2>1. Data(k)
    BY DEF Right
  <2> QED
    BY <1>1, <1>2, <1>3, <1>4, <1>5, <1>6, <2>1, OwnData DEF Data
<1>8. Operand(k)'
  <2>1. Operand(k) /\ station[k].busy
    BY <1>2 DEF Right
  <2>2. ASSUME NEW r \in Names, NEW b \in BOOLEAN, NEW x \in Word \cup {Blank},
               Fresh(k), Needs(k, r, b, x)'
        PROVE  Gets(k, r, b, x)'
    <3>1. Needs(k, r, b, x)
      BY <1>1, <1>3, <1>4, <2>2, NeedsSame, SameMem
    <3>2. Gets(k, r, b, x)
      BY <2>1, <2>2, <3>1 DEF Operand
    <3>3. b => \A w \in Stations : Writer(w, r) => w = k
      <4>1. r = None => \A w \in Stations : ~Writer(w, r)
        BY DEF Writer, WritesRegister
      <4> QED
        BY <1>1, <3>2, <4>1 DEF Gets
    <3> QED
      BY <1>1, <1>5, <3>2, <3>3, OwnGets
  <2> QED
    BY <1>6, <2>2 DEF Operand
<1> QED
  BY <1>1, <1>5, <1>6, <1>7, <1>8, GoesOnLocks, RightGoesOn

\* A station that is at work, or waits for room for its result.
LEMMA WorksRight ==
  ASSUME Types, Right, NEW k \in Stations, GoesOn(k), waitOn' = waitOn,
         ~Fresh(k), ~Fresh(k)',
         station'[k].s1 = station[k].s1, station'[k].s2 = station[k].s2,
         station'[k].waiting => station'[k].value = Due(k)
  PROVE  Right'
<1>1. Data(k)
  BY DEF Right
<1>2. Data(k)'
  BY <1>1, OwnData
<1>3. Operand(k)'
  BY DEF Operand
<1> QED
  BY <1>2, <1>3, GoesOnLocks, RightGoesOn

LEMMA CountsRight ==
  ASSUME Types, Right, NEW k \in Stations, Executes(k), ~station[k].hold, Counts(k)
  PROVE  Right'
<1> DEFINE v == [station[k] EXCEPT !.left = @ - 1]
<1>0. v = [station[k] EXCEPT !.left = @ - 1]
  OBVIOUS
<1> HIDE DEF v
<1>1. /\ turn = k /\ waitOn' = waitOn /\ station[k].left > 0 /\ ~NotStarted(station[k])
      /\ UNCHANGED <<programCounter, mem, wbobject, bStallIF, bStallDueToBranch>>
  BY DEF Executes, Counts
<1>2. /\ station[k] \in Unit /\ station[k].busy /\ station[k].left \in Nat
      /\ station[k].left <= Cost(station[k].ins) /\ Cost(station[k].ins) \in Nat
  BY <1>1, UnitIs
<1>3. station[k].left - 1 \in Nat
  BY <1>1, <1>2
<1>4. /\ v.busy /\ v.ins = station[k].ins /\ v.left = station[k].left - 1
      /\ v.hold = station[k].hold
      /\ v.s1 = station[k].s1 /\ v.s2 = station[k].s2
      /\ v.waiting = station[k].waiting /\ v.value = station[k].value
      /\ v.x = station[k].x /\ v.y = station[k].y /\ v.behind = station[k].behind
  BY <1>0, <1>2, <1>3 DEF Unit
<1>5. station'[k] = v /\ \A j \in Stations : j # k => station'[j] = station[j]
  BY <1>0, TypesAre DEF Counts
<1>6. GoesOn(k)
  <2>1. station[k].hold = FALSE
    BY <1>2, UnitsAre
  <2> QED
    BY <1>1, <1>4, <1>5, <2>1 DEF GoesOn
<1>7. ~Fresh(k) /\ ~Fresh(k)'
  <2>1. v.left # Cost(v.ins)
    BY <1>1, <1>2, <1>4
  <2> QED
    BY <1>1, <1>5, <2>1 DEF Fresh, NotStarted
<1>8. station'[k].waiting => station'[k].value = Due(k)
  BY <1>2, <1>4, <1>5 DEF Right, Data
<1> QED
  BY <1>1, <1>4, <1>5, <1>6, <1>7, <1>8, WorksRight

\* What a station does that has finished: its operands were the right ones.
LEMMA DoneIs ==
  ASSUME Types, Right, NEW k \in Stations, Executes(k), station[k].left = 0
  PROVE  /\ ~Fresh(k) /\ turn = k /\ station[k].busy
         /\ \A r \in Registers : Writer(k, r) /\ ~IsMove(k) => Lock(r) = k
         /\ ~Accesses(station[k].ins) =>
              station[k].s1 = station[k].x /\ station[k].s2 = station[k].y
         /\ Accesses(station[k].ins) => station[k].s1 = Cell(station[k])
         /\ station[k].waiting => station[k].value = Due(k)
         /\ station[k].ins.op = "S" =>
              /\ registers[station[k].ins.target] = seqMem[Cell(station[k])]
              /\ ~Pending(station[k].ins.target) /\ Lock(station[k].ins.target) = k
<1>1. turn = k
  BY DEF Executes
<1>2. station[k].busy /\ Cost(station[k].ins) \in Nat \ {0}
  BY <1>1, UnitIs
<1>3. ~Fresh(k)
  BY <1>2 DEF Fresh, NotStarted
<1>4. \A r \in Registers : Writer(k, r) /\ ~IsMove(k) => Lock(r) = k
  <2>1. \A r \in Registers : Locks(r)
    BY DEF Right
  <2> QED
    BY <1>3, <2>1 DEF Locks
<1>5. Data(k)
  BY DEF Right
<1> QED
  BY <1>1, <1>2, <1>3, <1>4, <1>5 DEF Data

\* A free register, and one found free before, holds the operand.
LEMMA ReadsRight ==
  ASSUME Types, NEW k \in Stations, turn # WritesBack, NEW r \in Names, NEW v \in BOOLEAN,
         NEW x, Gets(k, r, v, x), ~v /\ r # None => Lock(r) = Nobody
  PROVE  /\ Reg(r) = x
         /\ IF r = None THEN x = 0 ELSE Value(r) = x /\ ~Pending(r)
         /\ ~v /\ r # None => \A w \in Stations : Writer(w, r) => w = k
<1>1. CASE r = None
  BY <1>1 DEF Gets, Reg
<1>2. CASE r # None /\ v
  <2>1. Value(r) = x /\ ~Pending(r)
    BY <1>2 DEF Gets
  <2> QED
    BY <1>2, <2>1 DEF Value, Reg
<1>3. CASE r # None /\ ~v
  <2>1. r \in Registers /\ Lock(r) = Nobody /\ k # Nobody
    BY <1>3, StationIs DEF Names
  <2>2. Gets(k, r, FALSE, x)
    BY <1>3
  <2>3. /\ registers[r] = x /\ Value(r) = x /\ ~Pending(r)
        /\ \A w \in Stations : Writer(w, r) => w = k
    BY <2>1, <2>2, FoundFree
  <2> QED
    BY <1>3, <2>3 DEF Reg
<1> QED
  BY <1>1, <1>2, <1>3

\* A station that is not behind another writer has the lock of its target.
LEMMA LocksTarget ==
  ASSUME Types, Right, NEW k \in Stations, turn = k, ~Behind(k),
         \/ station[k].ins.op \in Arithmetic \cup {"LI"}
         \/ station[k].ins.op = "MOVE" /\ station[k].ins.double
  PROVE  /\ station[k].ins.target # None
         /\ Lockable(k, station[k].ins.double, station[k].ins.target)
<1> DEFINE i == station[k].ins
           t == i.target
<1>1. Fit(i) /\ i.double \in BOOLEAN /\ station[k].busy
  BY UnitIs, InsAre
<1>2. CASE i.op \in Arithmetic \cup {"LI"}
  <2>1. t \in File(i.double)
    BY <1>1, <1>2 DEF Fit
  <2>2. t \in Registers /\ t # None /\ waitOn[i.double][t] = Lock(t)
    BY <1>1, <2>1, FreeIs
  <2>3. Writer(k, t) /\ ~IsMove(k)
    BY <1>1, <1>2, <2>2 DEF Writer, WritesRegister, IsMove, Arithmetic
  <2>4. Locks(t)
    BY <2>2 DEF Right
  <2>5. Lock(t) = k
    BY <2>3, <2>4 DEF Locks
  <2> QED
    BY <2>2, <2>5 DEF Lockable
<1>3. CASE i.op = "MOVE" /\ i.double
  <2>1. t \in File(FALSE)
    BY <1>1, <1>3 DEF Fit
  <2>2. t \in Registers /\ t # None /\ waitOn[TRUE][t] = Other(t)
    BY <2>1, FreeIs
  <2>3. Writer(k, t) /\ IsMove(k)
    BY <1>1, <1>3, <2>2 DEF Writer, WritesRegister, IsMove
  <2>4. Alone(k, t)
    BY <2>2 DEF Right
  <2>5. Other(t) = k
    BY <1>3, <2>3, <2>4 DEF Alone
  <2>6. i.double = TRUE
    BY <1>1, <1>3
  <2> QED
    BY <2>2, <2>5, <2>6 DEF Lockable
<1> QED
  BY <1>2, <1>3

\* To lock the target when it is free is to take the lock of no other instruction.
LEMMA LockTaken ==
  ASSUME Types, Right, NEW k \in Stations, turn = k, NEW t, t = station[k].ins.target,
         t \in Registers, ~IsMove(k), Lock(t) \in {Nobody, k}, Lock(t)' = k,
         Lock(t) = Nobody => ~Pending(t) /\ \A j \in Stations : Writer(j, t) => j = k,
         \A s \in Registers : s # t => Lock(s)' = Lock(s),
         \A s \in Registers : Other(s)' = Other(s)
  PROVE  TakesLock(k)
<1>1. station[k].busy
  BY UnitIs
<1>2. Targets(k, t) /\ \A r \in Registers : Writer(k, r) => r = t
  BY <1>1 DEF Targets, Writer, WritesRegister
<1> QED
  BY <1>2 DEF TakesLock

LEMMA WriterTakes ==
  ASSUME Types, Right, NEW k \in Stations, NEW t \in Registers, Writer(k, t),
         ~IsMove(k), Lock(t) = Nobody
  PROVE  ~Pending(t) /\ \A j \in Stations : Writer(j, t) => j = k
<1>1. Locks(t) /\ \A j \in Stations : j # Nobody
  BY StationIs DEF Right
<1> QED
  BY <1>1 DEF Locks

\* The station starts with the right operands.
LEMMA StartsRight ==
  ASSUME Types, Right, NEW k \in Stations, GoesOn(k), TakesLock(k), ~Hold(k), ~Fresh(k)',
         station'[k].waiting = station[k].waiting, station'[k].value = station[k].value,
         ~Accesses(station[k].ins) =>
           station'[k].s1 = station[k].x /\ station'[k].s2 = station[k].y,
         Accesses(station[k].ins) => station'[k].s1 = Cell(station[k]),
         station[k].ins.op = "S" =>
              /\ registers[station[k].ins.target] = seqMem[Cell(station[k])]
              /\ ~Pending(station[k].ins.target)
              /\ Lock(station[k].ins.target)' = k
  PROVE  Right'
<1>1. /\ station'[k].busy /\ station'[k].ins = station[k].ins
      /\ station'[k].x = station[k].x /\ station'[k].y = station[k].y
      /\ station[k].busy /\ Due(k)' = Due(k)
  BY GoesOnIs DEF GoesOn
<1>2. registers' = registers /\ seqMem' = seqMem
  BY SameMem DEF GoesOn
<1>3. Cell(station[k])' = Cell(station[k])
  BY <1>1 DEF Cell
<1>4. Pending(station[k].ins.target)' <=> Pending(station[k].ins.target)
  BY <1>1 DEF Pending, GoesOn
<1>5. Data(k)
  BY DEF Right
<1>6. Data(k)'
  BY <1>1, <1>2, <1>3, <1>4, <1>5 DEF Data
<1>7. Operand(k)'
  BY DEF Operand
<1> QED
  BY <1>6, <1>7, StartsLocks, RightGoesOn

LEMMA AddressedRight ==
  ASSUME Types, Right, NEW k \in Stations, Executes(k), ~station[k].hold,
         k[1] \in {"loads", "stores"}, Addressed(k)
  PROVE  Right'
<1> DEFINE u == station[k]
           i == u.ins
           r == i.source1
           v == [u EXCEPT !.left = @ - 1, !.s1 = Sum(i.n, Reg(i.source1))]
<1>1. turn = k /\ turn # WritesBack
  BY StationIs DEF Executes
<1>2. /\ u \in Unit /\ u.busy /\ Fit(i) /\ k[1] = KindOf(i) /\ u.left \in Nat
      /\ Cost(i) \in Nat \ {0} /\ i \in Instruction /\ u.left = Cost(i) /\ i.double \in BOOLEAN
  BY <1>1, UnitIs, InsAre DEF Addressed, NotStarted
<1>0. PICK t \in Names : t = i.target
  BY <1>2, InsAre
<1>3. i.op \in {"L", "S"} /\ (i.op = "S" <=> k[1] = "stores")
  BY <1>2 DEF KindOf
<1>4. /\ t \in File(i.double) /\ r \in File(FALSE) /\ Accesses(i)
  BY <1>0, <1>2, <1>3 DEF Fit, File, Accesses
<1>5. /\ t \in Registers /\ t # None /\ waitOn[i.double][t] = Lock(t)
      /\ r \in Registers /\ r # None /\ (FreeRegister(FALSE, r) <=> Lock(r) = Nobody)
      /\ r \in Names /\ t \in Names
  BY <1>2, <1>4, FreeIs, NamesAre
<1>6. Fresh(k) /\ Operand(k)
  BY <1>2 DEF Fresh, NotStarted, Right
<1>7. /\ u.hold = FALSE
      /\ UNCHANGED <<programCounter, mem, wbobject, bStallIF, bStallDueToBranch>>
  BY <1>2, UnitsAre DEF Addressed
<1>8. CASE ~(FreeRegister(FALSE, r) /\ Lockable(k, i.double, t))
  <2>1. station' = station /\ waitOn' = waitOn
    BY <1>0, <1>8 DEF Addressed
  <2>2. GoesOn(k)
    BY <1>2, <1>7, <2>1 DEF GoesOn
  <2>3. Fresh(k)' <=> Fresh(k)
    BY <2>1 DEF Fresh, NotStarted
  <2>4. Data(k)'
    BY <1>2, <2>1, <2>2, <2>3, OwnData DEF Right, Data
  <2>5. Operand(k)'
    <3>1. ASSUME NEW s \in Names, NEW b \in BOOLEAN, NEW x \in Word \cup {Blank},
                 Needs(k, s, b, x)'
          PROVE  Gets(k, s, b, x)'
      <4>1. Needs(k, s, b, x)
        BY <2>1, <3>1, NeedsSame, SameMem
      <4>2. Gets(k, s, b, x)
        BY <1>2, <1>6, <4>1 DEF Operand
      <4>3. ~b
        BY <1>4, <4>1 DEF Needs
      <4> QED
        BY <2>1, <2>2, <4>2, <4>3, OwnGets
    <3> QED
      BY <3>1 DEF Operand
  <2> QED
    BY <2>1, <2>2, <2>3, <2>4, <2>5, GoesOnLocks, RightGoesOn
<1>9. CASE FreeRegister(FALSE, r) /\ Lockable(k, i.double, t)
  <2>1. /\ station' = [station EXCEPT ![k].left = @ - 1,
                                      ![k].s1 = Sum(i.n, Reg(i.source1))]
        /\ waitOn' = [waitOn EXCEPT ![i.double][t] = k]
    BY <1>0, <1>9 DEF Addressed
  <2>2. Sum(i.n, Reg(i.source1)) \in Word
    BY <1>2, InsAre, RegIs, WordIsInt, SumIs
  <2>3. /\ v.busy /\ v.ins = i /\ v.left = u.left - 1 /\ v.hold = u.hold
        /\ v.x = u.x /\ v.y = u.y /\ v.behind = u.behind /\ v.waiting = u.waiting
        /\ v.value = u.value /\ v.s1 = Sum(i.n, Reg(r))
    <3>1. u.left - 1 \in Nat /\ v = [u EXCEPT !.left = @ - 1, !.s1 = Sum(i.n, Reg(i.source1))]
      BY <1>2
    <3> HIDE DEF v
    <3> QED
      BY <1>2, <2>2, <3>1 DEF Unit
  <2>4. station'[k] = v /\ \A j \in Stations : j # k => station'[j] = station[j]
    BY <2>1, TypesAre
  <2> HIDE DEF v
  <2>5. GoesOn(k)
    BY <1>7, <2>3, <2>4 DEF GoesOn
  <2>6. ~Fresh(k)'
    <3>1. v.left # Cost(v.ins)
      BY <1>2, <2>3
    <3> QED
      BY <2>4, <3>1 DEF Fresh, NotStarted
  <2>7. Reg(r) = u.x
    <3>1. Needs(k, r, FALSE, u.x) /\ u.x \in Word
      BY <1>2, <1>4, UnitsAre DEF Needs
    <3>2. Gets(k, r, FALSE, u.x)
      BY <1>2, <1>5, <1>6, <3>1 DEF Operand
    <3> QED
      BY <1>1, <1>5, <1>9, <3>2, ReadsRight
  <2>8. Lock(t) \in {Nobody, k}
    BY <1>5, <1>9 DEF Lockable
  <2>9. ASSUME i.op = "S"
        PROVE  /\ registers[t] = seqMem[Cell(u)] /\ ~Pending(t)
               /\ \A w \in Stations : Writer(w, t) => w = k
    <3> DEFINE x == seqMem[Cell(u)]
    <3>1. Cell(u) \in Word
      BY <1>2, UnitsAre, InsAre, WordIsInt, SumIs DEF Cell
    <3>2. x \in Word \cup {Blank}
      BY <3>1, TypesAre DEF Cells
    <3>3. Needs(k, t, FALSE, x)
      BY <1>0, <2>9 DEF Needs
    <3> HIDE DEF x
    <3>4. Gets(k, t, FALSE, x)
      BY <1>2, <1>5, <1>6, <3>2, <3>3 DEF Operand
    <3>5. Lock(t) = k => ~Pending(t)
      <4>1. Locks(t) /\ k # Nobody
        BY <1>5, StationIs DEF Right
      <4> QED
        BY <1>3, <2>9, <4>1 DEF Locks
    <3>6. registers[t] = x /\ ~Pending(t) /\ \A w \in Stations : Writer(w, t) => w = k
      BY <1>1, <1>5, <2>8, <3>4, <3>5, FoundFree
    <3> QED
      BY <3>6 DEF x
  <2>10. ~IsMove(k) /\ (i.op = "L" => Writer(k, t))
    BY <1>0, <1>2, <1>3, <1>5 DEF IsMove, Writer, WritesRegister
  <2>11. Lock(t) = Nobody => ~Pending(t) /\ \A j \in Stations : Writer(j, t) => j = k
    BY <1>3, <1>5, <2>9, <2>10, WriterTakes
  <2>12. /\ Lock(t)' = k
         /\ \A s \in Registers : s # t => Lock(s)' = Lock(s)
         /\ \A s \in Registers : Other(s)' = Other(s)
    <3>1. k \in Stations \cup {Nobody}
      OBVIOUS
    <3> HIDE DEF i, u
    <3> QED
      BY <1>2, <1>4, <2>1, <3>1, LockPut
  <2>13. TakesLock(k)
    BY <1>0, <1>1, <1>5, <2>8, <2>10, <2>11, <2>12, LockTaken
  <2>14. station'[k].s1 = Cell(u)
    BY <2>3, <2>4, <2>7 DEF Cell
  <2>15. ~Hold(k)
    BY <1>7 DEF Hold
  <2>16. station'[k].waiting = u.waiting /\ station'[k].value = u.value
    BY <2>3, <2>4
  <2>17. station'[k].ins.target = t
    BY <1>0, <2>3, <2>4
  <2>18. i.op = "S" => Lock(i.target)' = k
    BY <2>12, <2>17
  <2> QED
    BY <1>0, <1>4, <2>5, <2>6, <2>9, <2>18, <2>12, <2>13, <2>14, <2>15, <2>16, StartsRight
<1> QED
  BY <1>8, <1>9

\* The operand of a station that loads or stores nothing.
LEMMA SourceIs ==
  ASSUME Types, NEW i, Fit(i), ~Accesses(i), NEW r \in {i.source1, i.source2}
  PROVE  /\ r \in Names
         /\ r # None => r \in Registers /\ (FreeRegister(i.double, r) <=> Lock(r) = Nobody)
<1>1. i.op \in OpCodes /\ i.double \in BOOLEAN /\ r \in Names
  BY InsAre DEF Fit
<1>2. r = None \/ r \in File(i.double)
  BY <1>1 DEF Fit, Accesses, OpCodes
<1> QED
  BY <1>1, <1>2, FreeIs

LEMMA OperandsKeep ==
  ASSUME Types, Right, NEW k \in Stations, GoesOn(k), ~Accesses(station[k].ins),
         waitOn' = waitOn, Fresh(k), Fresh(k)',
         NEW r \in Names, NEW b \in BOOLEAN, NEW x, Gets(k, r, b, x),
         r # None => r \in Registers,
         NEW c \in BOOLEAN, b => c, c /\ ~b /\ r # None => Lock(r) = Nobody,
         ~Ready(k)
  PROVE  Gets(k, r, c, x)'
<1>1. turn # WritesBack
  BY StationIs DEF GoesOn, Executes
<1>2. CASE c = b
  <2>1. b => \A w \in Stations : Writer(w, r) => w = k
    <3>1. r = None => \A w \in Stations : ~Writer(w, r)
      BY DEF Writer, WritesRegister
    <3> QED
      BY <1>2, <3>1 DEF Gets
  <2> QED
    BY <1>2, <2>1, OwnGets
<1>3. CASE c # b
  <2>1. c /\ ~b
    BY <1>3
  <2>2. IF r = None THEN x = 0
        ELSE /\ Value(r) = x /\ ~Pending(r)
             /\ \A w \in Stations : Writer(w, r) => w = k
    BY <1>1, <2>1, ReadsRight
  <2>3. r # None => /\ Value(r)' = x /\ ~Pending(r)'
                    /\ \A w \in Stations : Writer(w, r)' => w = k
    BY <2>2, GoesOnIs
  <2> QED
    BY <2>1, <2>2, <2>3 DEF Gets
<1> QED
  BY <1>2, <1>3

LEMMA OperandsRight ==
  ASSUME Types, Right, NEW k \in Stations, Executes(k), ~station[k].hold,
         ~Accesses(station[k].ins), NEW locks \in BOOLEAN, Operands(k, locks),
         locks <=> \/ station[k].ins.op \in Arithmetic \cup {"LI"}
                   \/ station[k].ins.op = "MOVE" /\ station[k].ins.double
  PROVE  Right'
<1> DEFINE o == station[k]
           i == o.ins
           free1 == FreeRegister(i.double, i.source1)
           free2 == FreeRegister(i.double, i.source2)
           u == [station[k] EXCEPT !.vj = @ \/ FreeRegister(i.double, i.source1),
                                   !.vk = @ \/ FreeRegister(i.double, i.source2)]
           starts == /\ u.vj /\ u.vk
                     /\ locks => i.target # None /\ Lockable(k, i.double, i.target)
           v == [u EXCEPT !.left = @ - 1, !.s1 = Reg(i.source1), !.s2 = Reg(i.source2)]
<1>0. u = [o EXCEPT !.vj = @ \/ free1, !.vk = @ \/ free2]
  OBVIOUS
<1>1. turn = k /\ turn # WritesBack
  BY StationIs DEF Executes
<1>2. /\ o \in Unit /\ o.busy /\ Fit(i) /\ i \in Instruction
      /\ o.left \in Nat /\ Cost(i) \in Nat \ {0} /\ i.double \in BOOLEAN
      /\ o.x \in Word /\ o.y \in Word /\ o.vj \in BOOLEAN /\ o.vk \in BOOLEAN
      /\ o.hold = FALSE
  BY <1>1, UnitIs, UnitsAre, InsAre
<1>3. /\ NotStarted(u)
      /\ station' = [station EXCEPT ![k] = IF starts THEN v ELSE u]
      /\ waitOn' = IF starts /\ locks THEN [waitOn EXCEPT ![i.double][i.target] = k]
                                      ELSE waitOn
      /\ UNCHANGED <<programCounter, mem, wbobject, bStallIF, bStallDueToBranch>>
  BY DEF Operands
<1>4. free1 \in BOOLEAN /\ free2 \in BOOLEAN
  BY DEF FreeRegister
<1>5. /\ u \in Unit /\ u.busy /\ u.ins = i /\ u.left = o.left /\ u.hold = FALSE
      /\ u.vj = (o.vj \/ free1) /\ u.vk = (o.vk \/ free2)
      /\ u.s1 = o.s1 /\ u.s2 = o.s2 /\ u.waiting = o.waiting /\ u.value = o.value
      /\ u.x = o.x /\ u.y = o.y /\ u.behind = o.behind
  <2> HIDE DEF u, free1, free2, i
  <2>1. (o.vj \/ free1) \in BOOLEAN /\ (o.vk \/ free2) \in BOOLEAN
    BY <1>2, <1>4
  <2> HIDE DEF o
  <2> QED
    BY <1>0, <1>2, <1>4, <2>1 DEF Unit, i
<1>6. u.left = Cost(i)
  BY <1>3, <1>5 DEF NotStarted
<1>7. Reg(i.source1) \in Word /\ Reg(i.source2) \in Word
  BY <1>2, InsAre, RegIs
<1>8. station'[k] = (IF starts THEN v ELSE u) /\ \A j \in Stations : j # k => station'[j] = station[j]
  BY <1>3, TypesAre
<1> HIDE DEF u
<1>9. /\ v.busy /\ v.ins = i /\ v.left = u.left - 1 /\ v.hold = FALSE
      /\ v.s1 = Reg(i.source1) /\ v.s2 = Reg(i.source2)
      /\ v.waiting = o.waiting /\ v.value = o.value
      /\ v.x = o.x /\ v.y = o.y /\ v.behind = o.behind
  <2>1. /\ u.left - 1 \in Nat
        /\ v = [u EXCEPT !.left = @ - 1, !.s1 = Reg(i.source1), !.s2 = Reg(i.source2)]
    BY <1>2, <1>6
  <2> HIDE DEF v
  <2> QED
    BY <1>5, <1>7, <2>1 DEF Unit
<1>10. /\ i.source1 \in Names /\ i.source2 \in Names
       /\ i.source1 # None => i.source1 \in Registers /\ (free1 <=> Lock(i.source1) = Nobody)
       /\ i.source2 # None => i.source2 \in Registers /\ (free2 <=> Lock(i.source2) = Nobody)
  BY <1>2, SourceIs
<1>11. Fresh(k) /\ Operand(k)
  BY <1>5, <1>6 DEF Fresh, NotStarted, Right
<1>12. Gets(k, i.source1, o.vj, o.x) /\ Gets(k, i.source2, o.vk, o.y)
  <2>1. Needs(k, i.source1, o.vj, o.x) /\ Needs(k, i.source2, o.vk, o.y)
    BY <1>2 DEF Needs
  <2> QED
    BY <1>2, <1>10, <1>11, <2>1 DEF Operand
<1>13. GoesOn(k)
  <2> HIDE DEF v, starts
  <2> QED
    BY <1>3, <1>5, <1>8, <1>9 DEF GoesOn
<1>14. starts => u.vj /\ u.vk /\ (locks => i.target # None /\ Lockable(k, i.double, i.target))
  OBVIOUS
<1>15. ~starts /\ u.vj /\ u.vk => locks /\ ~(i.target # None /\ Lockable(k, i.double, i.target))
  OBVIOUS
<1> HIDE DEF v, starts, free1, free2
<1>16. CASE starts
  <2>1. Reg(i.source1) = o.x /\ Reg(i.source2) = o.y
    <3>1. ~o.vj /\ i.source1 # None => Lock(i.source1) = Nobody
      BY <1>5, <1>10, <1>14, <1>16
    <3>2. ~o.vk /\ i.source2 # None => Lock(i.source2) = Nobody
      BY <1>5, <1>10, <1>14, <1>16
    <3> QED
      BY <1>1, <1>2, <1>10, <1>12, <3>1, <3>2, ReadsRight
  <2>2. ~Fresh(k)'
    <3>1. v.left # Cost(v.ins)
      BY <1>2, <1>6, <1>9
    <3> QED
      BY <1>8, <1>16, <3>1 DEF Fresh, NotStarted
  <2>3. TakesLock(k)
    <3>1. PICK t \in Names : t = i.target
      BY <1>2, InsAre
    <3>2. CASE i.op \in Arithmetic \cup {"LI"}
      <4>1. t \in File(i.double)
        BY <1>2, <3>1, <3>2 DEF Fit
      <4>2. t \in Registers /\ t # None /\ waitOn[i.double][t] = Lock(t)
        BY <1>2, <4>1, FreeIs
      <4>3. Writer(k, t) /\ ~IsMove(k)
        BY <1>2, <3>1, <3>2, <4>2 DEF Writer, WritesRegister, IsMove, Arithmetic
      <4>4. Lock(t) \in {Nobody, k}
        BY <1>14, <1>16, <3>1, <3>2, <4>2 DEF Lockable
      <4>5. Lock(t) = Nobody => ~Pending(t) /\ \A j \in Stations : Writer(j, t) => j = k
        BY <4>2, <4>3, WriterTakes
      <4>6. waitOn' = [waitOn EXCEPT ![i.double][t] = k] /\ k \in Stations \cup {Nobody}
        BY <1>3, <1>16, <3>1, <3>2
      <4>7. /\ Lock(t)' = k
            /\ \A s \in Registers : s # t => Lock(s)' = Lock(s)
            /\ \A s \in Registers : Other(s)' = Other(s)
        BY <1>2, <4>1, <4>6, LockPut
      <4> QED
        BY <1>1, <3>1, <4>2, <4>3, <4>4, <4>5, <4>7, LockTaken
    <3>3. CASE i.op = "MOVE" /\ i.double
      <4>1. t \in File(~TRUE) /\ i.double = TRUE
        BY <1>2, <3>1, <3>3 DEF Fit
      <4>2. t \in Registers /\ t # None
        BY <4>1, NamesAre DEF File
      <4>3. Writer(k, t) /\ IsMove(k)
        BY <1>2, <3>1, <3>3, <4>2 DEF Writer, WritesRegister, IsMove
      <4>4. Other(t) = k
        BY <1>2, <3>3, <4>2, <4>3 DEF Right, Alone
      <4>5. waitOn' = [waitOn EXCEPT ![TRUE][t] = k] /\ k \in Stations \cup {Nobody}
        BY <1>3, <1>16, <3>1, <3>3, <4>1
      <4>6. /\ Other(t)' = k
            /\ \A s \in Registers : s # t => Other(s)' = Other(s)
            /\ \A s \in Registers : Lock(s)' = Lock(s)
        BY <4>1, <4>5, OtherPut
      <4> QED
        BY <4>3, <4>4, <4>6 DEF TakesLock
    <3>4. CASE ~locks
      <4>1. \A s \in Registers : Lock(s)' = Lock(s) /\ Other(s)' = Other(s)
        BY <1>3, <3>4, SameLocks
      <4>2. \A r \in Registers : Writer(k, r) => IsMove(k)
        <5>1. i.op \notin Arithmetic \cup {"LI", "L", "S", "NOOP"} /\ i.op \in OpCodes
          BY <1>2, <3>4, InsAre DEF Fit, Accesses
        <5>2. i.op \in Branches => i.target = None
          BY <1>2 DEF Fit
        <5> QED
          BY <5>1, <5>2 DEF Writer, WritesRegister, IsMove, OpCodes
      <4> QED
        BY <4>1, <4>2 DEF TakesLock
    <3> QED
      BY <3>2, <3>3, <3>4
  <2>4. /\ station'[k].s1 = o.x /\ station'[k].s2 = o.y
        /\ station'[k].waiting = o.waiting /\ station'[k].value = o.value
    BY <1>8, <1>9, <1>16, <2>1
  <2>5. ~Hold(k) /\ i.op # "S"
    BY DEF Hold, Accesses
  <2> QED
    BY <1>13, <2>2, <2>3, <2>4, <2>5, StartsRight
<1>17. CASE ~starts
  <2>1. station'[k] = u /\ waitOn' = waitOn
    BY <1>3, <1>8, <1>17
  <2>2. Fresh(k)'
    BY <1>3, <2>1 DEF Fresh
  <2>3. Data(k)'
    <3>1. Data(k) /\ (Fresh(k)' <=> Fresh(k))
      BY <1>11, <2>2 DEF Right
    <3>2. o.waiting => o.value = Due(k)
      BY <1>2, <3>1 DEF Data
    <3> QED
      BY <1>5, <1>13, <2>1, <3>1, <3>2, OwnData
  <2>4. ~Ready(k)
    <3>1. ASSUME Ready(k) PROVE FALSE
      <4>1. o.vj /\ o.vk /\ ~Behind(k)
        BY <3>1 DEF Ready, Behind
      <4>2. locks /\ ~(i.target # None /\ Lockable(k, i.double, i.target))
        BY <1>5, <1>15, <1>17, <4>1
      <4> QED
        BY <1>1, <4>1, <4>2, LocksTarget
    <3> QED
      BY <3>1
  <2>6. Operand(k)'
    <3>1. ASSUME NEW r \in Names, NEW b \in BOOLEAN, NEW x \in Word \cup {Blank},
                 Needs(k, r, b, x)'
          PROVE  Gets(k, r, b, x)'
      <4>1. \/ r = i.source1 /\ b = u.vj /\ x = o.x
            \/ r = i.source2 /\ b = u.vk /\ x = o.y
        BY <1>2, <1>5, <2>1, <3>1 DEF Needs, Accesses
      <4>2. CASE r = i.source1 /\ b = u.vj /\ x = o.x
        <5>1. /\ Gets(k, r, o.vj, x) /\ (o.vj => b) /\ (r # None => r \in Registers)
              /\ b /\ ~o.vj /\ r # None => Lock(r) = Nobody
          BY <1>5, <1>10, <1>12, <4>2
        <5> QED
          BY <1>2, <1>11, <1>13, <2>1, <2>2, <2>4, <5>1, OperandsKeep
      <4>3. CASE r = i.source2 /\ b = u.vk /\ x = o.y
        <5>1. /\ Gets(k, r, o.vk, x) /\ (o.vk => b) /\ (r # None => r \in Registers)
              /\ b /\ ~o.vk /\ r # None => Lock(r) = Nobody
          BY <1>5, <1>10, <1>12, <4>3
        <5> QED
          BY <1>2, <1>11, <1>13, <2>1, <2>2, <2>4, <5>1, OperandsKeep
      <4> QED
        BY <4>1, <4>2, <4>3
    <3> QED
      BY <3>1 DEF Operand
  <2> QED
    BY <1>11, <1>13, <2>1, <2>2, <2>3, <2>6, GoesOnLocks, RightGoesOn
<1> QED
  BY <1>16, <1>17

-----------------------------------------------------------------------------
(* A station leaves its instruction.                                       *)

GoesAway(k) ==
  /\ Executes(k) /\ station'[k] = Idle
  /\ \A j \in Stations : j # k => station'[j] = station[j]

LEMMA GoesAwayIs ==
  ASSUME Types, NEW k \in Stations, GoesAway(k)
  PROVE  /\ \A j \in Stations : j # k =>
              /\ station'[j] = station[j]
              /\ IsMove(j)' <=> IsMove(j)
              /\ Behind(j)' <=> Behind(j)
              /\ Due(j)' = Due(j)
              /\ BranchAt(j)' <=> BranchAt(j)
              /\ Fresh(j)' <=> Fresh(j)
              /\ Hold(j)' <=> Hold(j)
              /\ Ready(j)' <=> Ready(j)
         /\ \A j \in Stations : \A r \in Registers :
              /\ Writer(j, r)' <=> Writer(j, r) /\ j # k
              /\ Targets(j, r)' <=> Targets(j, r) /\ j # k
         /\ \A j \in Stations : \A c \in Word :
              /\ StoreAt(j, c)' <=> StoreAt(j, c) /\ j # k
              /\ AccessAt(j, c)' <=> AccessAt(j, c) /\ j # k
         /\ ~station'[k].busy /\ ~BranchAt(k)'
         /\ turn # WritesBack /\ turn' # WritesBack /\ triggerend' = FALSE
         /\ \A j \in Stations : station[j].busy => (Passed(j)' <=> Passed(j) \/ j = k)
<1>1. /\ station'[k] = Idle /\ ~station'[k].busy
      /\ \A j \in Stations : j # k => station'[j] = station[j]
      /\ seqMem' = seqMem
  BY IdleIs, SameMem DEF GoesAway
<1>2. /\ turn # WritesBack /\ turn' # WritesBack /\ triggerend' = FALSE
      /\ \A j \in Stations : station[j].busy => (Passed(j)' <=> Passed(j) \/ j = k)
  BY PassedMoves DEF GoesAway
<1>3. \A j \in Stations : j # k =>
        /\ IsMove(j)' <=> IsMove(j)
        /\ Behind(j)' <=> Behind(j)
        /\ BranchAt(j)' <=> BranchAt(j)
        /\ Fresh(j)' <=> Fresh(j)
        /\ Hold(j)' <=> Hold(j)
        /\ Ready(j)' <=> Ready(j)
        /\ Cell(station[j])' = Cell(station[j])
  BY <1>1 DEF IsMove, Behind, BranchAt, Fresh, NotStarted, Hold, Ready, Cell
<1>4. \A j \in Stations : j # k => Due(j)' = Due(j)
  BY <1>1, <1>3 DEF Due
<1>5. \A j \in Stations : \A r \in Registers :
        /\ Writer(j, r)' <=> Writer(j, r) /\ j # k
        /\ Targets(j, r)' <=> Targets(j, r) /\ j # k
  BY <1>1 DEF Writer, Targets
<1>6. \A j \in Stations : \A c \in Word :
        /\ StoreAt(j, c)' <=> StoreAt(j, c) /\ j # k
        /\ AccessAt(j, c)' <=> AccessAt(j, c) /\ j # k
  BY <1>1, <1>3 DEF StoreAt, AccessAt
<1>7. ~BranchAt(k)'
  BY <1>1 DEF BranchAt
<1> QED
  BY <1>1, <1>2, <1>3, <1>4, <1>5, <1>6, <1>7

LEMMA GoesAwayKeeps ==
  ASSUME Types, Right, NEW k \in Stations, GoesAway(k)
  PROVE  /\ Holding' /\ Ending'
         /\ ~BranchAt(k) /\ UNCHANGED <<programCounter, bStallIF, bStallDueToBranch>>
              => Stalling'
         /\ mem' = mem /\ station[k].ins.op # "S" => Mems'
<1>1. /\ \A j \in Stations : j # k =>
           /\ station'[j] = station[j]
           /\ BranchAt(j)' <=> BranchAt(j)
           /\ Hold(j)' <=> Hold(j)
      /\ \A j \in Stations : \A c \in Word :
           /\ StoreAt(j, c)' <=> StoreAt(j, c) /\ j # k
           /\ AccessAt(j, c)' <=> AccessAt(j, c) /\ j # k
      /\ ~station'[k].busy /\ ~BranchAt(k)'
      /\ turn # WritesBack /\ turn' # WritesBack /\ triggerend' = FALSE
      /\ \A j \in Stations : station[j].busy => (Passed(j)' <=> Passed(j) \/ j = k)
  BY GoesAwayIs
<1>2. /\ stallDueToRSid' = stallDueToRSid /\ vprogram' = vprogram
      /\ seqCounter' = seqCounter /\ seqMem' = seqMem
  BY DEF GoesAway, Executes, ahead
<1>3. Holding'
  BY <1>1 DEF Right, Holding
<1>4. Ending'
  BY <1>1 DEF Ending
<1>5. ASSUME ~BranchAt(k), UNCHANGED <<programCounter, bStallIF, bStallDueToBranch>>
      PROVE  Stalling'
  <2>1. NextLine' = NextLine
    BY <1>5 DEF NextLine
  <2>2. \A j \in Stations : BranchAt(j)' <=> BranchAt(j)
    BY <1>1, <1>5
  <2>3. \A j \in Stations : BranchAt(j) => station'[j] = station[j]
    BY <1>1, <1>5
  <2>4. Stalling
    BY DEF Right
  <2> QED
    BY <1>2, <1>5, <2>1, <2>2, <2>3, <2>4 DEF Stalling
<1>6. ASSUME mem' = mem, station[k].ins.op # "S" PROVE Mems'
  <2>1. \A c \in Word : ~StoreAt(k, c)
    BY <1>6 DEF StoreAt
  <2>2. Mems
    BY DEF Right
  <2> QED
    BY <1>1, <1>2, <1>6, <2>1, <2>2 DEF Mems
<1> QED
  BY <1>3, <1>4, <1>5, <1>6

\* What the others need, when the lock of no other register is changed, nor its value.
LEMMA GoesAwayGets ==
  ASSUME Types, NEW k \in Stations, GoesAway(k),
         NEW j \in Stations, j # k, station[j].busy, NEW r \in Names, NEW v \in BOOLEAN, NEW x,
         Gets(j, r, v, x),
         r \in Registers => /\ ~Writer(k, r) /\ (Pending(r)' <=> Pending(r))
                            /\ Value(r)' = Value(r)
                            /\ \/ Lock(r)' = Lock(r)
                               \/ ~Pending(r) /\ Lock(r) = k
  PROVE  Gets(j, r, v, x)'
<1>1. /\ turn # WritesBack /\ turn' # WritesBack
      /\ \A w \in Stations : station[w].busy => (Passed(w)' <=> Passed(w) \/ w = k)
  BY GoesAwayIs
<1>2. CASE r = None
  BY <1>2 DEF Gets
<1>3. CASE r # None
  <2>1. r \in Registers
    BY <1>3 DEF Names
  <2>2. /\ \A w \in Stations : w # k =>
             /\ Writer(w, r)' <=> Writer(w, r)
             /\ IsMove(w)' <=> IsMove(w)
             /\ Due(w)' = Due(w)
             /\ Fresh(w)' <=> Fresh(w)
             /\ Hold(w)' <=> Hold(w)
             /\ Ready(w)' <=> Ready(w)
        /\ ~Writer(k, r)' /\ ~Writer(k, r)
    BY <2>1, GoesAwayIs
  <2>4. \A w \in Stations : Writer(w, r) => station[w].busy
    BY DEF Writer
  <2>5. CASE v
    BY <1>1, <1>3, <2>1, <2>2, <2>4, <2>5 DEF Gets
  <2>6. CASE ~v
    BY <1>1, <1>3, <2>1, <2>2, <2>6 DEF Gets
  <2> QED
    BY <2>5, <2>6
<1> QED
  BY <1>2, <1>3

\* The result goes to the write back.
LEMMA SendRight ==
  ASSUME Types, Right, NEW k \in Stations, GoesAway(k), station[k].left = 0,
         ~wbobject.busy, NEW t \in Registers, Writer(k, t), k[1] # "stores",
         wbobject'.busy, wbobject'.target = t, wbobject'.val = Due(k),
         UNCHANGED <<programCounter, mem, waitOn, bStallIF, bStallDueToBranch>>
  PROVE  Right'
<1>1. /\ \A j \in Stations : j # k =>
           /\ station'[j] = station[j]
           /\ IsMove(j)' <=> IsMove(j)
           /\ Behind(j)' <=> Behind(j)
           /\ Due(j)' = Due(j)
           /\ Fresh(j)' <=> Fresh(j)
      /\ \A j \in Stations : \A r \in Registers :
           /\ Writer(j, r)' <=> Writer(j, r) /\ j # k
           /\ Targets(j, r)' <=> Targets(j, r) /\ j # k
      /\ ~station'[k].busy
      /\ turn # WritesBack /\ turn' # WritesBack
  BY GoesAwayIs
<1>2. \A r \in Registers : Lock(r)' = Lock(r) /\ Other(r)' = Other(r)
  BY SameLocks
<1>3. /\ registers' = registers /\ seqMem' = seqMem /\ seqRegisters' = seqRegisters
  BY DEF GoesAway, Executes, ahead
<1>4. /\ \A r \in Registers : ~Pending(r) /\ (Pending(r)' <=> r = t)
      /\ \A r \in Registers : r # t => Value(r)' = Value(r)
      /\ Value(t)' = Due(k)
  BY <1>3 DEF Pending, Value
<1>5. /\ ~Fresh(k) /\ (IsMove(k) \/ Lock(t) = k) /\ k # Nobody
      /\ \A j \in Stations : j # Nobody
  BY DoneIs, StationIs DEF GoesAway
<1>6. /\ \A r \in Registers : Writer(k, r) => r = t
      /\ \A r \in Registers : Targets(k, r) => r = t
      /\ Targets(k, t) /\ station[k].ins.op # "S" /\ station[k].ins.op \notin Branches
  <2>1. turn = k
    BY DEF GoesAway, Executes
  <2>2. Fit(station[k].ins)
    BY <2>1, UnitIs
  <2> QED
    BY <2>2, NamesAre DEF Writer, WritesRegister, Targets, Fit
<1>7. \A r \in Registers : Locks(r) /\ Regs(r)
  BY DEF Right
<1>8. Alone(k, t) /\ \A r \in Registers : \A j \in Stations : Alone(j, r)
  BY DEF Right
<1>9. IsMove(k) => Lock(t) = Nobody
  BY <1>8 DEF Alone
<1>10. ASSUME NEW r \in Registers PROVE Locks(r)'
  <2>1. Lock(r) # Nobody => Lock(r) \in Stations
    BY LockIs
  <2>2. CASE r # t
    BY <1>1, <1>2, <1>4, <1>6, <1>7, <2>1, <2>2 DEF Locks
  <2>3. CASE r = t
    <3>1. Lock(t)' = Lock(t) /\ Pending(t)'
      BY <1>2, <1>4
    <3>2. Locks(t)
      BY <1>7
    <3>3. \A j \in Stations : Writer(j, t)' /\ ~IsMove(j)' /\ Lock(t)' # j =>
            Behind(j)' /\ Fresh(j)'
      BY <1>1, <3>1, <3>2 DEF Locks
    <3>4. \A i, j \in Stations : Writer(i, t)' /\ Writer(j, t)' => i = j
      BY <1>1, <1>5, <1>9, <3>2 DEF Locks
    <3>5. \A j \in Stations : Writer(j, t)' =>
            Lock(t)' # j /\ Lock(t)' # Nobody /\ ~IsMove(j)'
      BY <1>1, <1>5, <3>1, <3>2 DEF Locks
    <3>6. Lock(t)' = Nobody \/ Lock(t)'[1] # "stores"
      BY <1>5, <1>9, <3>1
    <3> QED
      BY <2>3, <3>1, <3>3, <3>4, <3>5, <3>6 DEF Locks
  <2> QED
    BY <2>2, <2>3
<1>11. ASSUME NEW r \in Registers, NEW j \in Stations PROVE Alone(j, r)'
  <2>1. CASE r = t
    <3>1. Writer(j, t)' => ~IsMove(j)'
      BY <1>1, <1>6, <1>8 DEF Alone
    <3> QED
      BY <2>1, <3>1 DEF Alone
  <2>2. CASE r # t
    BY <1>1, <1>2, <1>4, <1>8, <2>2 DEF Alone
  <2> QED
    BY <2>1, <2>2
<1>12. ASSUME NEW r \in Registers PROVE Regs(r)'
  <2>1. Regs(r)
    BY <1>7
  <2>2. CASE r # t
    BY <1>1, <1>2, <1>3, <1>4, <1>6, <2>1, <2>2 DEF Regs
  <2>3. CASE r = t
    <3>1. (\A j \in Stations : ~Writer(j, t)') => Due(k) = seqRegisters[t]
      BY <1>1, <2>1, <2>3 DEF Regs
    <3>2. \A j \in Stations : Writer(j, t) /\ j # k => Due(j) = seqRegisters[t]
      <4>1. \A j \in Stations : j # k => Lock(t) # j
        BY <1>5, <1>9
      <4> QED
        BY <2>1, <2>3, <4>1 DEF Regs
    <3> QED
      BY <1>1, <1>3, <1>4, <2>3, <3>1, <3>2 DEF Regs
  <2> QED
    BY <2>2, <2>3
<1>13. ASSUME NEW j \in Stations PROVE Data(j)'
  <2>1. CASE j = k
    BY <1>1, <2>1 DEF Data
  <2>2. CASE j # k
    <3>1. Data(j) /\ station'[j] = station[j] /\ Due(j)' = Due(j) /\ (Fresh(j)' <=> Fresh(j))
      BY <1>1, <2>2 DEF Right
    <3>2. PICK s : s = station[j].ins.target
      OBVIOUS
    <3>3. station[j].busy /\ station[j].ins.op = "S" => s \in Registers
      <4>1. station[j].busy => Fit(station[j].ins)
        BY DEF Types, Shape, Shaped
      <4> QED
        BY <3>2, <4>1, NamesAre DEF Fit, File
    <3>4. s \in Registers => Lock(s)' = Lock(s) /\ (Lock(s) = j => ~Pending(s)')
      BY <1>2, <1>4, <1>5, <1>9, <2>2
    <3>5. Cell(station[j])' = Cell(station[j])
      BY <3>1 DEF Cell
    <3>6. s = station'[j].ins.target
      BY <3>1, <3>2
    <3> QED
      BY <1>3, <3>1, <3>2, <3>3, <3>4, <3>5, <3>6 DEF Data
  <2> QED
    BY <2>1, <2>2
<1>14. ASSUME NEW j \in Stations PROVE Operand(j)'
  <2>1. CASE j = k
    BY <1>1, <2>1 DEF Operand
  <2>2. CASE j # k
    <3>1. Operand(j) /\ station'[j] = station[j] /\ (Fresh(j)' <=> Fresh(j))
      BY <1>1, <2>2 DEF Right
    <3>2. ASSUME NEW r \in Names, NEW v \in BOOLEAN, NEW x, station[j].busy,
                 Gets(j, r, v, x)
          PROVE  Gets(j, r, v, x)'
      <4>1. CASE r # t
        <5>1. r \in Registers => /\ ~Writer(k, r) /\ (Pending(r)' <=> Pending(r))
                                 /\ Value(r)' = Value(r) /\ Lock(r)' = Lock(r)
          BY <1>2, <1>4, <1>6, <4>1
        <5> QED
          BY <2>2, <3>2, <5>1, GoesAwayGets
      <4>2. CASE r = t
        <5>1. t # None
          BY NamesAre
        <5>2. ~v
          BY <1>5, <2>2, <3>2, <4>2, <5>1 DEF Gets
        <5>3. PICK w \in Stations :
                /\ w # j /\ Lock(t) = w /\ Writer(w, t) /\ ~IsMove(w) /\ Due(w) = x
                /\ ~Pending(t)
                /\ \A i \in Stations : Writer(i, t) => i \in {j, w}
          BY <2>2, <3>2, <4>2, <5>1, <5>2 DEF Gets
        <5>4. w = k
          BY <2>2, <5>3
        <5>5. Value(t)' = x /\ Lock(t)' # Nobody
          BY <1>2, <1>4, <1>5, <5>3, <5>4
        <5>6. \A i \in Stations : Writer(i, t)' => i = j
          BY <1>1, <5>3, <5>4
        <5> QED
          BY <4>2, <5>1, <5>2, <5>5, <5>6 DEF Gets
      <4> QED
        BY <4>1, <4>2
    <3>3. \A r \in Names, v \in BOOLEAN, x \in Word \cup {Blank} :
            Needs(j, r, v, x)' <=> Needs(j, r, v, x)
      BY <1>3, <3>1, NeedsKept
    <3> QED
      BY <3>1, <3>2, <3>3 DEF Operand
  <2> QED
    BY <2>1, <2>2
<1>15. Holding' /\ Stalling' /\ Ending' /\ Mems'
  BY <1>6, GoesAwayKeeps DEF BranchAt
<1> QED
  BY <1>10, <1>11, <1>12, <1>13, <1>14, <1>15 DEF Right

\* Only what locks change: station k has no register to write.
LEMMA SilentRight ==
  ASSUME Types, Right, NEW k \in Stations, GoesAway(k), wbobject' = wbobject,
         \A r \in Registers : ~Writer(k, r),
         \A r \in Registers : /\ Other(r)' = Other(r)
                              /\ \/ Lock(r)' = Lock(r)
                                 \/ Lock(r) = k /\ ~Pending(r) /\ Lock(r)' = Nobody,
         \A r \in Registers : Targets(k, r) /\ Lock(r) = k => Lock(r)' = Nobody
  PROVE  /\ \A r \in Registers : Locks(r)' /\ Regs(r)'
         /\ \A r \in Registers : \A j \in Stations : Alone(j, r)'
         /\ \A j \in Stations : Data(j)' /\ Operand(j)'
<1>1. /\ \A j \in Stations : j # k =>
           /\ station'[j] = station[j]
           /\ IsMove(j)' <=> IsMove(j)
           /\ Behind(j)' <=> Behind(j)
           /\ Due(j)' = Due(j)
           /\ Fresh(j)' <=> Fresh(j)
      /\ \A j \in Stations : \A r \in Registers :
           /\ Writer(j, r)' <=> Writer(j, r) /\ j # k
           /\ Targets(j, r)' <=> Targets(j, r) /\ j # k
      /\ ~station'[k].busy
  BY GoesAwayIs
<1>2. \A j \in Stations : \A r \in Registers : Writer(j, r)' <=> Writer(j, r)
  BY <1>1
<1>3. /\ registers' = registers /\ seqMem' = seqMem /\ seqRegisters' = seqRegisters
  BY DEF GoesAway, Executes, ahead
<1>4. \A r \in Registers : (Pending(r)' <=> Pending(r)) /\ Value(r)' = Value(r)
  BY <1>3 DEF Pending, Value
<1>5. \A j \in Stations : j # Nobody
  BY StationIs
<1>6. \A r \in Registers : Locks(r) /\ Regs(r)
  BY DEF Right
<1>7. \A r \in Registers : \A j \in Stations : Alone(j, r)
  BY DEF Right
<1>8. ASSUME NEW r \in Registers PROVE Locks(r)'
  <2>1. Lock(r) # Nobody => Lock(r) \in Stations
    BY LockIs
  <2>2. CASE Lock(r)' = Lock(r)
    <3>1. Lock(r) # Nobody /\ ~Pending(r) => Lock(r) # k
      <4>1. Lock(r) = k /\ ~Pending(r) => Targets(k, r)
        BY <1>5, <1>6 DEF Locks
      <4>2. Lock(r) = k => ~Targets(k, r)
        BY <1>5, <2>2
      <4> QED
        BY <4>1, <4>2
    <3>2. Locks(r)
      BY <1>6
    <3>3. \A j \in Stations : Writer(j, r) => j # k
      OBVIOUS
    <3>4. /\ \A j \in Stations :
               Writer(j, r)' /\ ~IsMove(j)' /\ Lock(r)' # j => Behind(j)' /\ Fresh(j)'
          /\ \A i, j \in Stations :
               Writer(i, r)' /\ Writer(j, r)' /\ i # j => Lock(r)' \in {i, j} /\ ~IsMove(i)'
          /\ \A j \in Stations :
               Pending(r)' /\ Writer(j, r)' => Lock(r)' # j /\ Lock(r)' # Nobody /\ ~IsMove(j)'
      BY <1>1, <1>2, <1>4, <2>2, <3>2, <3>3 DEF Locks
    <3>5. Lock(r)' # Nobody /\ ~Pending(r)' => Targets(Lock(r), r)' /\ ~IsMove(Lock(r))'
      <4>1. PICK w : w = Lock(r)
        OBVIOUS
      <4>2. w # Nobody /\ ~Pending(r) => /\ w \in Stations /\ w # k
                                         /\ Targets(w, r) /\ ~IsMove(w)
        BY <2>1, <3>1, <3>2, <4>1 DEF Locks
      <4> QED
        BY <1>1, <1>4, <2>2, <4>1, <4>2
    <3>6. Pending(r)' => Lock(r)' = Nobody \/ Lock(r)'[1] # "stores"
      BY <1>4, <2>2, <3>2 DEF Locks
    <3> QED
      BY <3>4, <3>5, <3>6 DEF Locks
  <2>3. CASE Lock(r) = k /\ ~Pending(r) /\ Lock(r)' = Nobody
    <3>1. \A i, j \in Stations : Writer(i, r) /\ Writer(j, r) => i = j
      BY <1>6, <2>3 DEF Locks
    <3>2. \A j \in Stations : Writer(j, r) /\ ~IsMove(j) => j # k /\ Behind(j) /\ Fresh(j)
      BY <1>6, <2>3 DEF Locks
    <3>3. \A j \in Stations : Writer(j, r)' /\ ~IsMove(j)' => Behind(j)' /\ Fresh(j)'
      BY <1>1, <3>2
    <3>4. \A i, j \in Stations : Writer(i, r)' /\ Writer(j, r)' => i = j
      BY <1>2, <3>1
    <3>5. ~Pending(r)' /\ Lock(r)' = Nobody
      BY <1>4, <2>3
    <3> QED
      BY <3>3, <3>4, <3>5 DEF Locks
  <2> QED
    BY <2>2, <2>3
<1>9. ASSUME NEW r \in Registers PROVE Regs(r)'
  <2>1. \A j \in Stations : Writer(j, r) => j # k
    OBVIOUS
  <2>2. \A j \in Stations : Writer(j, r) => (Lock(r) = j <=> Lock(r)' = j)
    BY <1>5, <2>1
  <2>3. Regs(r)
    BY <1>6
  <2> QED
    BY <1>1, <1>2, <1>3, <1>4, <2>1, <2>2, <2>3 DEF Regs
<1>10. ASSUME NEW r \in Registers, NEW j \in Stations PROVE Alone(j, r)'
  <2>1. Writer(j, r) => j # k
    OBVIOUS
  <2>2. Alone(j, r)
    BY <1>7
  <2>3. Lock(r) = Nobody => Lock(r)' = Nobody
    BY <1>5
  <2>4. Other(r)' = Other(r)
    OBVIOUS
  <2> QED
    BY <1>1, <1>2, <1>4, <2>1, <2>2, <2>3, <2>4 DEF Alone
<1>11. ASSUME NEW j \in Stations PROVE Data(j)'
  <2>1. CASE j = k
    BY <1>1, <2>1 DEF Data
  <2>2. CASE j # k
    <3>1. Data(j) /\ station'[j] = station[j] /\ Due(j)' = Due(j) /\ (Fresh(j)' <=> Fresh(j))
      BY <1>1, <2>2 DEF Right
    <3>2. PICK s : s = station[j].ins.target
      OBVIOUS
    <3>3. station[j].busy /\ station[j].ins.op = "S" => s \in Registers
      <4>1. station[j].busy => Fit(station[j].ins)
        BY DEF Types, Shape, Shaped
      <4> QED
        BY <3>2, <4>1, NamesAre DEF Fit, File
    <3>4. s \in Registers => /\ Pending(s)' <=> Pending(s)
                             /\ Lock(s) = j => Lock(s)' = j
      BY <1>4, <1>5, <2>2
    <3>5. Cell(station[j])' = Cell(station[j])
      BY <3>1 DEF Cell
    <3>6. s = station'[j].ins.target
      BY <3>1, <3>2
    <3> QED
      BY <1>3, <3>1, <3>2, <3>3, <3>4, <3>5, <3>6 DEF Data
  <2> QED
    BY <2>1, <2>2
<1>12. ASSUME NEW j \in Stations PROVE Operand(j)'
  <2>1. CASE j = k
    BY <1>1, <2>1 DEF Operand
  <2>2. CASE j # k
    <3>1. Operand(j) /\ station'[j] = station[j] /\ (Fresh(j)' <=> Fresh(j))
      BY <1>1, <2>2 DEF Right
    <3>2. \A r \in Names, v \in BOOLEAN, x \in Word \cup {Blank} :
            /\ Needs(j, r, v, x)' <=> Needs(j, r, v, x)
            /\ station[j].busy /\ Gets(j, r, v, x) => Gets(j, r, v, x)'
      BY <1>3, <1>4, <2>2, <3>1, NeedsKept, GoesAwayGets
    <3> QED
      BY <3>1, <3>2 DEF Operand
  <2> QED
    BY <2>1, <2>2
<1> QED
  BY <1>8, <1>9, <1>10, <1>11, <1>12

\* A store makes its result.
LEMMA StoreRight ==
  ASSUME Types, Right, NEW k \in Stations, Executes(k), Store(k) PROVE Right'
<1> DEFINE u == station[k]
<1>1. turn = k
  BY DEF Executes
<1>2. /\ u \in Unit /\ u.busy /\ Fit(u.ins) /\ k[1] = KindOf(u.ins) /\ u.s1 \in Word
      /\ u.ins.double \in BOOLEAN
  BY <1>1, UnitIs, InsAre
<1>3. u.ins.op = "S" /\ u.left = 0 /\ Accesses(u.ins)
  BY <1>2 DEF Store, KindOf, Accesses
<1>4. PICK t : t = u.ins.target
  OBVIOUS
<1>5. t \in File(u.ins.double) /\ t \in Registers /\ t # None
  BY <1>2, <1>3, <1>4, NamesAre DEF Fit, File
<1>6. /\ mem' = [mem EXCEPT ![u.s1] = Reg(t)]
      /\ waitOn' = [waitOn EXCEPT ![u.ins.double][t] = Nobody]
      /\ station' = [station EXCEPT ![k] = Idle]
      /\ UNCHANGED <<programCounter, wbobject, bStallIF, bStallDueToBranch>>
  BY <1>4 DEF Store
<1>7. GoesAway(k)
  BY <1>6, TypesAre DEF GoesAway
<1>8. u.s1 = Cell(u) /\ registers[t] = seqMem[Cell(u)] /\ ~Pending(t) /\ Lock(t) = k
  BY <1>3, <1>4, DoneIs
<1>9. /\ Lock(t)' = Nobody
      /\ \A s \in Registers : s # t => Lock(s)' = Lock(s)
      /\ \A s \in Registers : Other(s)' = Other(s)
  <2>1. Nobody \in Stations \cup {Nobody}
    OBVIOUS
  <2> QED
    BY <1>2, <1>5, <1>6, <2>1, LockPut
<1>10. /\ \A r \in Registers : ~Writer(k, r)
       /\ \A r \in Registers : Targets(k, r) => r = t
  BY <1>3, <1>4 DEF Writer, WritesRegister, Targets
<1>11. /\ \A r \in Registers : Locks(r)' /\ Regs(r)'
       /\ \A r \in Registers : \A j \in Stations : Alone(j, r)'
       /\ \A j \in Stations : Data(j)' /\ Operand(j)'
  <2>1. \A r \in Registers : /\ Other(r)' = Other(r)
                              /\ \/ Lock(r)' = Lock(r)
                                 \/ Lock(r) = k /\ ~Pending(r) /\ Lock(r)' = Nobody
    BY <1>8, <1>9
  <2>2. \A r \in Registers : Targets(k, r) /\ Lock(r) = k => Lock(r)' = Nobody
    BY <1>9, <1>10
  <2> QED
    BY <1>6, <1>7, <1>10, <2>1, <2>2, SilentRight
<1>12. Holding' /\ Ending' /\ Stalling'
  <2>1. ~BranchAt(k)
    BY <1>3 DEF BranchAt, Branches
  <2> QED
    BY <1>6, <1>7, <2>1, GoesAwayKeeps
<1>13. Mems'
  <2>1. /\ \A j \in Stations : \A c \in Word :
             /\ StoreAt(j, c)' <=> StoreAt(j, c) /\ j # k
             /\ AccessAt(j, c)' <=> AccessAt(j, c) /\ j # k
        /\ seqMem' = seqMem
    BY <1>7, GoesAwayIs, SameMem DEF GoesAway
  <2>2. mem \in [Word -> Word \cup {Blank}]
    BY TypesAre DEF Cells
  <2>3. \A c \in Word : mem'[c] = IF c = u.s1 THEN seqMem[c] ELSE mem[c]
    BY <1>2, <1>5, <1>6, <1>8, <2>2 DEF Reg
  <2>4. \A c \in Word : StoreAt(k, c) => c = u.s1
    BY <1>8 DEF StoreAt
  <2>5. Mems
    BY DEF Right
  <2> QED
    BY <2>1, <2>3, <2>4, <2>5 DEF Mems
<1> QED
  BY <1>11, <1>12, <1>13 DEF Right

\* A branch goes where the sequential processor has gone.
LEMMA ResolvesRight ==
  ASSUME Types, Right, NEW k \in Stations, Executes(k), station[k].left = 0,
         station[k].ins.op \in Branches, NEW taken,
         ~station[k].ins.double =>
           taken = Holds(station[k].ins, station[k].s1, station[k].s2),
         Resolves(k, taken)
  PROVE  Right'
<1> DEFINE u == station[k]
<1>1. turn = k
  BY DEF Executes
<1>2. /\ u \in Unit /\ u.busy /\ Fit(u.ins) /\ ~Accesses(u.ins) /\ BranchAt(k)
  BY <1>1, UnitIs DEF Accesses, Branches, BranchAt
<1>3. u.ins.target = None /\ u.ins.n \in 0 .. Size
  BY <1>2 DEF Fit
<1>4. /\ station' = [station EXCEPT ![k] = Idle]
      /\ bStallIF' = (bStallIF /\ ~bStallDueToBranch) /\ bStallDueToBranch' = FALSE
      /\ programCounter' = (IF taken THEN u.ins.n ELSE programCounter)
      /\ mem' = mem /\ waitOn' = waitOn /\ wbobject' = wbobject
  BY DEF Resolves
<1>5. GoesAway(k)
  BY <1>4, TypesAre DEF GoesAway
<1>6. u.s1 = u.x /\ u.s2 = u.y
  BY <1>2, DoneIs
<1>7. /\ bStallDueToBranch /\ ~u.ins.double /\ programCounter \in 1 .. Size
      /\ stallDueToRSid = {}
      /\ seqCounter = IF Holds(u.ins, u.x, u.y) THEN u.ins.n ELSE programCounter
      /\ \A j \in Stations : BranchAt(j) => j = k
  BY <1>2 DEF Right, Stalling
<1>8. Stalling'
  <2>1. programCounter' = seqCounter /\ programCounter' \in 0 .. Size
    BY <1>3, <1>4, <1>6, <1>7
  <2>2. seqCounter' = seqCounter /\ stallDueToRSid' = {} /\ vprogram' = vprogram
    BY <1>7 DEF Executes, ahead
  <2>3. \A j \in Stations : ~BranchAt(j)'
    BY <1>5, <1>7, GoesAwayIs
  <2>4. ~bStallIF' /\ ~bStallDueToBranch'
    BY <1>4, <1>7
  <2>5. NextLine' = programCounter'
    BY <2>1, <2>4, WordsAre DEF NextLine
  <2> QED
    BY <2>1, <2>2, <2>3, <2>4, <2>5 DEF Stalling
<1>9. Holding' /\ Ending' /\ Mems'
  <2>1. u.ins.op # "S"
    BY DEF Branches
  <2> QED
    BY <1>4, <1>5, <2>1, GoesAwayKeeps
<1>10. \A r \in Registers : ~Writer(k, r) /\ ~Targets(k, r)
  BY <1>3, NamesAre DEF Writer, WritesRegister, Targets
<1>11. \A r \in Registers : Lock(r)' = Lock(r) /\ Other(r)' = Other(r)
  BY <1>4, SameLocks
<1>12. /\ \A r \in Registers : Locks(r)' /\ Regs(r)'
       /\ \A r \in Registers : \A j \in Stations : Alone(j, r)'
       /\ \A j \in Stations : Data(j)' /\ Operand(j)'
  BY <1>4, <1>5, <1>10, <1>11, SilentRight
<1> QED
  BY <1>8, <1>9, <1>12 DEF Right

\* A result goes to the write back, or waits for it.
LEMMA WritesRight ==
  ASSUME Types, Right, NEW k \in Stations, Executes(k), ~station[k].hold,
         station[k].left = 0, NEW double, NEW value, value = Due(k),
         station[k].ins.op \in Arithmetic \cup {"LI", "L", "MOVE"},
         SendToWriteBack(k, double, value),
         UNCHANGED <<programCounter, mem, waitOn, bStallIF, bStallDueToBranch>>
  PROVE  Right'
<1> DEFINE u == station[k]
           w == IF u.waiting THEN u.value ELSE value
           v == [u EXCEPT !.waiting = TRUE, !.value = w]
<1>1. turn = k
  BY DEF Executes
<1>2. /\ u \in Unit /\ u.busy /\ Fit(u.ins) /\ k[1] = KindOf(u.ins) /\ u.hold = FALSE
      /\ u.ins.op # "S"
  BY <1>1, UnitIs, UnitsAre DEF Arithmetic
<1>3. ~Fresh(k) /\ w = Due(k)
  BY DoneIs
<1>4. PICK t : t = u.ins.target
  OBVIOUS
<1>5. t \in Registers /\ Writer(k, t) /\ k[1] # "stores"
  <2>1. t \in Registers /\ t # None
    BY <1>2, <1>4, NamesAre DEF Fit, File
  <2> QED
    BY <1>2, <1>4, <2>1 DEF Writer, WritesRegister, KindOf
<1>6. CASE wbobject.busy
  <2>1. /\ station' = [station EXCEPT ![k].waiting = TRUE, ![k].value = w]
        /\ wbobject' = wbobject
    BY <1>6 DEF SendToWriteBack
  <2>2. /\ v.busy /\ v.ins = u.ins /\ v.left = u.left /\ v.hold = u.hold
        /\ v.s1 = u.s1 /\ v.s2 = u.s2 /\ v.value = w
        /\ v.x = u.x /\ v.y = u.y /\ v.behind = u.behind
    <3>1. v = [u EXCEPT !.waiting = TRUE, !.value = w]
      OBVIOUS
    <3> HIDE DEF v, w
    <3> QED
      BY <1>2, <3>1 DEF Unit
  <2>3. station'[k] = v /\ \A j \in Stations : j # k => station'[j] = station[j]
    BY <2>1, TypesAre
  <2> HIDE DEF v, w
  <2>4. GoesOn(k)
    BY <1>2, <2>1, <2>2, <2>3 DEF GoesOn
  <2>5. ~Fresh(k)'
    BY <1>3, <2>2, <2>3 DEF Fresh, NotStarted
  <2> QED
    BY <1>3, <2>2, <2>3, <2>4, <2>5, WorksRight
<1>7. CASE ~wbobject.busy
  <2>1. /\ wbobject' = [busy |-> TRUE, isDouble |-> double, target |-> t, val |-> w]
        /\ station' = [station EXCEPT ![k] = Idle]
    BY <1>4, <1>7 DEF SendToWriteBack
  <2> HIDE DEF w
  <2>2. wbobject'.busy /\ wbobject'.target = t /\ wbobject'.val = Due(k)
    BY <1>3, <2>1
  <2>3. GoesAway(k)
    BY <2>1, TypesAre DEF GoesAway
  <2> QED
    BY <1>5, <1>7, <2>2, <2>3, SendRight
<1> QED
  BY <1>6, <1>7

\* What the stations compute is what the sequential processor has computed.
LEMMA ResultsAreDue ==
  ASSUME Types, Right, NEW k \in Stations, Executes(k), station[k].left = 0
  PROVE  /\ station[k].ins.op \in Arithmetic => Applied(k) = Due(k)
         /\ station[k].ins.op = "LI" => station[k].ins.n % W = Due(k)
         /\ station[k].ins.op = "MOVE" => \A v \in SameBits(station[k].s1) : v = Due(k)
         /\ station[k].ins.op = "L" => Loaded(mem[station[k].s1]) = Due(k)
<1> DEFINE u == station[k]
<1>1. turn = k
  BY DEF Executes
<1>2. u \in Unit /\ u.busy /\ Fit(u.ins) /\ u.s1 \in Word
  BY <1>1, UnitIs
<1>3. /\ ~Accesses(u.ins) => u.s1 = u.x /\ u.s2 = u.y
      /\ Accesses(u.ins) => u.s1 = Cell(u)
  BY DoneIs
<1>4. ASSUME u.ins.op \in Arithmetic PROVE Applied(k) = Due(k)
  BY <1>3, <1>4 DEF Applied, Due, Accesses, Arithmetic
<1>5. ASSUME u.ins.op = "LI" PROVE u.ins.n % W = Due(k)
  BY <1>5 DEF Due, Arithmetic
<1>6. ASSUME u.ins.op = "MOVE" PROVE \A v \in SameBits(u.s1) : v = Due(k)
  <2>1. u.ins.target \in Registers /\ u.ins.target # None
    BY <1>2, <1>6, NamesAre DEF Fit, File
  <2>2. Writer(k, u.ins.target) /\ IsMove(k)
    BY <1>2, <1>6, <2>1 DEF Writer, WritesRegister, IsMove
  <2>3. Alone(k, u.ins.target)
    BY <2>1 DEF Right
  <2>4. u.x = 0
    BY <2>2, <2>3 DEF Alone
  <2>5. u.s1 = 0 /\ Due(k) = 0
    BY <1>3, <1>6, <2>4 DEF Due, Accesses, Arithmetic
  <2> QED
    BY <2>5 DEF SameBits
<1>7. ASSUME u.ins.op = "L" PROVE Loaded(mem[u.s1]) = Due(k)
  <2>1. u.s1 = Cell(u) /\ Accesses(u.ins)
    BY <1>3, <1>7 DEF Accesses
  <2>2. AccessAt(k, u.s1) /\ ~StoreAt(k, u.s1)
    BY <1>2, <1>7, <2>1 DEF AccessAt, StoreAt
  <2>3. mem[u.s1] = seqMem[u.s1]
    BY <1>2, <2>2 DEF Right, Mems
  <2> QED
    BY <1>7, <2>1, <2>3 DEF Due, Arithmetic
<1> QED
  BY <1>4, <1>5, <1>6, <1>7

LEMMA ExecuteRight ==
  ASSUME Types, Right, NEW k \in Stations, LSExecute(k) \/ IntegerAddExecute(k)
           \/ IntegerMulExecute(k) \/ IntegerDivExecute(k) \/ FloatAddExecute(k)
           \/ FloatMulExecute(k) \/ FloatDivExecute(k)
  PROVE  Right'
<1> DEFINE u == station[k]
           i == u.ins
<1>1. Executes(k) /\ turn = k /\ ~u.hold
  BY DEF LSExecute, IntegerAddExecute, IntegerMulExecute, IntegerDivExecute,
         FloatAddExecute, FloatMulExecute, FloatDivExecute, Executes
<1>2. /\ u.busy /\ Fit(i) /\ k[1] = KindOf(i) /\ i.op \in OpCodes
      /\ i.double \in BOOLEAN
  BY <1>1, UnitIs, InsAre
<1>3. /\ k[1] = "intadds" => ~i.double /\ i.op \notin {"L", "S", "MUL", "DIV"}
      /\ k[1] = "intmuls" => i.op = "MUL"
      /\ k[1] = "intdivs" => i.op = "DIV"
      /\ k[1] = "fpadds" => i.double /\ i.op \notin {"L", "S", "MUL", "DIV"}
      /\ k[1] = "fpmuls" => i.op = "MUL"
      /\ k[1] = "fpdivs" => i.op = "DIV"
      /\ k[1] = "loads" => i.op = "L"
  BY <1>2 DEF KindOf
<1>4. i.op \in Branches => ~i.double
  BY <1>2 DEF Right, Stalling, BranchAt
<1>5. ASSUME Counts(k) PROVE Right'
  BY <1>1, <1>5, CountsRight
<1>6. ASSUME NEW locks \in BOOLEAN, Operands(k, locks), i.op \notin {"L", "S"},
             locks <=> i.op \in Arithmetic \cup {"LI"} \/ (i.op = "MOVE" /\ i.double)
      PROVE  Right'
  BY <1>1, <1>6, OperandsRight DEF Accesses
<1>7. ASSUME NEW double, NEW value, Writes(k, double, value), Done(k), value = Due(k),
             i.op \in Arithmetic \cup {"LI", "L", "MOVE"}
      PROVE  Right'
  BY <1>1, <1>7, WritesRight DEF Writes, Done
<1>8. /\ Done(k) /\ i.op \in Arithmetic => Applied(k) = Due(k)
      /\ Done(k) /\ i.op = "LI" => i.n % W = Due(k)
      /\ Done(k) /\ i.op = "MOVE" => \A v \in SameBits(u.s1) : v = Due(k)
      /\ Done(k) /\ i.op = "L" => Loaded(mem[u.s1]) = Due(k)
  BY <1>1, ResultsAreDue DEF Done
<1>9. ASSUME NEW taken, Done(k), Resolves(k, taken), i.op \in Branches,
             ~i.double => taken = Holds(i, u.s1, u.s2)
      PROVE  Right'
  BY <1>1, <1>9, ResolvesRight DEF Done
<1> HIDE DEF u, i
<1>11. CASE LSExecute(k)
  <2>1. k[1] \in {"loads", "stores"} /\ (Counts(k) \/ Addressed(k) \/ Load(k) \/ Store(k))
    BY <1>11 DEF LSExecute
  <2>2. CASE Addressed(k)
    BY <1>1, <2>1, <2>2, AddressedRight DEF u
  <2>3. CASE Load(k)
    <3>1. i.op = "L" /\ Done(k)
      BY <1>3, <2>3 DEF Load, Done
    <3>2. Writes(k, i.double, Loaded(mem[u.s1]))
      BY <2>3 DEF Load, Writes, u, i
    <3> QED
      BY <1>7, <1>8, <3>1, <3>2
  <2>4. CASE Store(k)
    BY <1>1, <2>4, StoreRight
  <2> QED
    BY <1>5, <2>1, <2>2, <2>3, <2>4
<1>12. CASE IntegerAddExecute(k)
  <2>1. /\ k[1] = "intadds"
        /\ \/ Operands(k, i.op \in {"ADD", "SUB", "LI"}) \/ Counts(k)
           \/ Done(k) /\ i.op \in {"ADD", "SUB"} /\ Writes(k, FALSE, Applied(k))
           \/ Done(k) /\ i.op = "LI" /\ Writes(k, FALSE, i.n % W)
           \/ Done(k) /\ i.op = "MOVE" /\ \E v \in SameBits(u.s1) : Writes(k, TRUE, v)
           \/ Done(k) /\ i.op \in Branches /\ Resolves(k, Holds(i, u.s1, u.s2))
    BY <1>12 DEF IntegerAddExecute, u, i
  <2>2. CASE Operands(k, i.op \in {"ADD", "SUB", "LI"})
    <3> DEFINE locks == i.op \in {"ADD", "SUB", "LI"}
    <3>1. locks \in BOOLEAN /\ i.op \notin {"L", "S"}
      BY <1>3, <2>1
    <3>2. locks <=> i.op \in Arithmetic \cup {"LI"} \/ (i.op = "MOVE" /\ i.double)
      BY <1>3, <2>1 DEF Arithmetic
    <3> HIDE DEF locks
    <3>3. Operands(k, locks)
      BY <2>2 DEF locks
    <3> QED
      BY <1>6, <3>1, <3>2, <3>3
  <2>3. CASE Done(k) /\ i.op \in {"ADD", "SUB"} /\ Writes(k, FALSE, Applied(k))
    BY <1>7, <1>8, <2>3 DEF Arithmetic
  <2>4. CASE Done(k) /\ i.op = "LI" /\ Writes(k, FALSE, i.n % W)
    BY <1>7, <1>8, <2>4
  <2>5. CASE Done(k) /\ i.op = "MOVE" /\ \E v \in SameBits(u.s1) : Writes(k, TRUE, v)
    BY <1>7, <1>8, <2>5
  <2>6. CASE Done(k) /\ i.op \in Branches /\ Resolves(k, Holds(i, u.s1, u.s2))
    BY <1>9, <2>6
  <2> QED
    BY <1>5, <2>1, <2>2, <2>3, <2>4, <2>5, <2>6
<1>13. CASE IntegerMulExecute(k) \/ IntegerDivExecute(k) \/ FloatMulExecute(k)
            \/ FloatDivExecute(k)
  <2>1. /\ i.op \in {"MUL", "DIV"}
        /\ \/ Operands(k, TRUE) \/ Counts(k)
           \/ Done(k) /\ \E double \in BOOLEAN : Writes(k, double, Applied(k))
    BY <1>3, <1>13 DEF IntegerMulExecute, IntegerDivExecute, FloatMulExecute, FloatDivExecute
  <2> QED
    BY <1>5, <1>6, <1>7, <1>8, <2>1 DEF Arithmetic
<1>14. CASE FloatAddExecute(k)
  <2>1. /\ k[1] = "fpadds"
        /\ \/ Operands(k, i.op \in {"ADD", "SUB", "MOVE", "BLTZ", "BGTZ"}) \/ Counts(k)
           \/ Done(k) /\ i.op \in {"ADD", "SUB"} /\ Writes(k, TRUE, Applied(k))
           \/ Done(k) /\ i.op = "MOVE" /\ \E v \in SameBits(u.s1) : Writes(k, FALSE, v)
           \/ Done(k) /\ i.op \in Branches /\ Resolves(k, FALSE)
    BY <1>14 DEF FloatAddExecute, u, i
  <2>2. CASE Operands(k, i.op \in {"ADD", "SUB", "MOVE", "BLTZ", "BGTZ"})
    <3> DEFINE locks == i.op \in {"ADD", "SUB", "MOVE", "BLTZ", "BGTZ"}
    <3>1. locks \in BOOLEAN /\ i.op \notin {"L", "S"} /\ i.op # "LI"
      BY <1>2, <1>3, <2>1 DEF Fit
    <3>2. locks <=> i.op \in Arithmetic \cup {"LI"} \/ (i.op = "MOVE" /\ i.double)
      BY <1>3, <1>4, <2>1, <3>1 DEF Arithmetic, Branches
    <3> HIDE DEF locks
    <3>3. Operands(k, locks)
      BY <2>2 DEF locks
    <3> QED
      BY <1>6, <3>1, <3>2, <3>3
  <2>3. CASE Done(k) /\ i.op \in {"ADD", "SUB"} /\ Writes(k, TRUE, Applied(k))
    BY <1>7, <1>8, <2>3 DEF Arithmetic
  <2>4. CASE Done(k) /\ i.op = "MOVE" /\ \E v \in SameBits(u.s1) : Writes(k, FALSE, v)
    BY <1>7, <1>8, <2>4
  <2>5. CASE Done(k) /\ i.op \in Branches /\ Resolves(k, FALSE)
    BY <1>3, <1>4, <2>1, <2>5
  <2> QED
    BY <1>5, <2>1, <2>2, <2>3, <2>4, <2>5
<1> QED
  BY <1>11, <1>12, <1>13, <1>14

-----------------------------------------------------------------------------
(* Write back.                                                             *)

LEMMA WrittenIs ==
  ASSUME Types, WriteBackRun
  PROVE  /\ ~wbobject'.busy
         /\ \A r \in Registers :
              /\ ~Pending(r)' /\ Value(r)' = Value(r) /\ Other(r)' = Other(r)
              /\ Lock(r)' = IF Pending(r) THEN Nobody ELSE Lock(r)
              /\ ~Pending(r) => registers'[r] = registers[r]
<1>1. CASE ~wbobject.busy
  <2>1. registers' = registers /\ waitOn' = waitOn /\ wbobject' = wbobject
    BY <1>1 DEF WriteBackRun
  <2>2. \A r \in Registers : Lock(r)' = Lock(r) /\ Other(r)' = Other(r)
    BY <2>1, SameLocks
  <2> QED
    BY <1>1, <2>1, <2>2 DEF Pending, Value
<1>2. CASE wbobject.busy
  <2>1. PICK t : t = wbobject.target
    OBVIOUS
  <2>2. t \in File(wbobject.isDouble) /\ wbobject.isDouble \in BOOLEAN
    BY <1>2, <2>1, TypesAre DEF Types, Turns
  <2>3. t \in Registers
    BY <2>2, NamesAre DEF File
  <2>4. /\ registers' = [registers EXCEPT ![t] = wbobject.val]
        /\ waitOn' = [waitOn EXCEPT ![wbobject.isDouble][t] = Nobody]
        /\ wbobject' = NothingToWrite
    BY <1>2, <2>1 DEF WriteBackRun
  <2>5. ~wbobject'.busy
    BY <2>4 DEF NothingToWrite
  <2>6. /\ Lock(t)' = Nobody
        /\ \A s \in Registers : s # t => Lock(s)' = Lock(s)
        /\ \A s \in Registers : Other(s)' = Other(s)
    <3>1. Nobody \in Stations \cup {Nobody}
      OBVIOUS
    <3> QED
      BY <2>2, <2>4, <3>1, LockPut
  <2>7. registers \in [Registers -> Word]
    BY TypesAre
  <2>8. \A s \in Registers : registers'[s] = IF s = t THEN wbobject.val ELSE registers[s]
    BY <2>3, <2>4, <2>7
  <2>9. \A s \in Registers : Pending(s) <=> s = t
    BY <1>2, <2>1 DEF Pending
  <2>10. \A s \in Registers : ~Pending(s)' /\ Value(s)' = Value(s)
    BY <2>5, <2>8, <2>9 DEF Pending, Value
  <2> QED
    BY <2>5, <2>6, <2>8, <2>9, <2>10
<1> QED
  BY <1>1, <1>2

LEMMA WriteBackRight ==
  ASSUME Types, Right, WriteBackRun PROVE Right'
<1>1. /\ turn = WritesBack /\ triggerend' = TRUE /\ turn' = FirstTurn
      /\ vprogram' = vprogram /\ programCounter' = programCounter /\ mem' = mem
      /\ station' = station /\ bStallIF' = bStallIF
      /\ bStallDueToBranch' = bStallDueToBranch /\ stallDueToRSid' = stallDueToRSid
      /\ seqCounter' = seqCounter /\ seqRegisters' = seqRegisters /\ seqMem' = seqMem
  BY DEF WriteBackRun, stalls, ahead
<1>2. /\ ~wbobject'.busy
      /\ \A r \in Registers :
           /\ ~Pending(r)' /\ Value(r)' = Value(r) /\ Other(r)' = Other(r)
           /\ Lock(r)' = IF Pending(r) THEN Nobody ELSE Lock(r)
           /\ ~Pending(r) => registers'[r] = registers[r]
  BY WrittenIs
<1>3. /\ turn' # WritesBack
      /\ \A j \in Stations : ~Passed(j) /\ (station[j].busy => ~Passed(j)')
  <2>1. \A j \in Stations : ~Passed(j)
    BY <1>1, StationIs DEF Passed, WritesBack, Issues
  <2>2. CASE Busy = {}
    <3>1. turn' = Issues /\ \A j \in Stations : ~station[j].busy
      BY <1>1, <2>2, FirstTurnIs DEF Busy
    <3> QED
      BY <2>1, <3>1 DEF WritesBack, Issues
  <2>3. CASE Busy # {}
    <3>1. /\ turn' \in Stations /\ turn' # Issues /\ turn' # WritesBack
          /\ \A j \in Busy : j # turn' => Before(turn', j)
      BY <1>1, <2>3, FirstTurnIs, StationIs DEF Busy
    <3>2. \A j \in Busy : ~Before(j, turn')
      BY <3>1, BeforeIs DEF Busy
    <3>3. \A j \in Stations : station[j].busy => ~Passed(j)'
      BY <3>1, <3>2 DEF Passed, Busy
    <3> QED
      BY <2>1, <3>1, <3>3
  <2> QED
    BY <2>2, <2>3
<1>4. \A j \in Stations :
        /\ IsMove(j)' <=> IsMove(j)
        /\ Behind(j)' <=> Behind(j)
        /\ BranchAt(j)' <=> BranchAt(j)
        /\ Fresh(j)' <=> Fresh(j)
        /\ Hold(j)' <=> Hold(j)
        /\ Ready(j)' <=> Ready(j)
        /\ Cell(station[j])' = Cell(station[j])
        /\ Due(j)' = Due(j)
  BY <1>1 DEF IsMove, Behind, BranchAt, Fresh, NotStarted, Hold, Ready, Cell, Due
<1>5. /\ \A j \in Stations : \A r \in Registers :
           (Writer(j, r)' <=> Writer(j, r)) /\ (Targets(j, r)' <=> Targets(j, r))
      /\ \A j \in Stations : \A c \in Word :
           (StoreAt(j, c)' <=> StoreAt(j, c)) /\ (AccessAt(j, c)' <=> AccessAt(j, c))
  BY <1>1 DEF Writer, Targets, StoreAt, AccessAt, Cell
<1>6. Holding'
  BY <1>1, <1>3, <1>4 DEF Right, Holding
<1>7. Stalling'
  <2>1. NextLine' = NextLine /\ Stalling
    BY <1>1 DEF NextLine, Right
  <2> QED
    BY <1>1, <1>4, <2>1 DEF Stalling
<1>8. Ending'
  <2>1. ASSUME turn' = Issues PROVE AllDone'
    <3>1. \A j \in Stations : ~station[j].busy
      BY <1>1, <2>1, FirstTurnIs DEF Busy
    <3>2. ~bStallIF
      BY <1>1, <3>1 DEF Right, Ending
    <3> QED
      BY <1>1, <1>2, <3>1, <3>2 DEF AllDone
  <2> QED
    BY <1>3, <2>1 DEF Ending
<1>9. Mems'
  BY <1>1, <1>5 DEF Right, Mems
<1>10. ASSUME NEW r \in Registers PROVE Locks(r)' /\ Regs(r)'
  <2>1. Locks(r) /\ Regs(r) /\ (Lock(r) # Nobody => Lock(r) \in Stations)
        /\ \A j \in Stations : j # Nobody
    BY LockIs, StationIs DEF Right
  <2>2. CASE Pending(r)
    <3>1. Lock(r)' = Nobody /\ ~Pending(r)'
      BY <1>2, <2>2
    <3>2. /\ \A j \in Stations : Writer(j, r) => Lock(r) # j
          /\ \A i, j \in Stations : Writer(i, r) /\ Writer(j, r) => i = j
      BY <2>1, <2>2 DEF Locks
    <3>3. \A j \in Stations : Writer(j, r)' /\ ~IsMove(j)' => Behind(j)' /\ Fresh(j)'
      BY <1>4, <1>5, <2>1, <3>2 DEF Locks
    <3>4. Locks(r)'
      BY <1>5, <3>1, <3>2, <3>3 DEF Locks
    <3>5. Regs(r)'
      BY <1>1, <1>2, <1>4, <1>5, <2>1, <3>2 DEF Regs
    <3> QED
      BY <3>4, <3>5
  <2>3. CASE ~Pending(r)
    <3>1. Lock(r)' = Lock(r) /\ ~Pending(r)'
      BY <1>2, <2>3
    <3>2. Locks(r)'
      BY <1>4, <1>5, <2>1, <2>3, <3>1 DEF Locks
    <3>3. Regs(r)'
      BY <1>1, <1>2, <1>4, <1>5, <2>1, <3>1 DEF Regs
    <3> QED
      BY <3>2, <3>3
  <2> QED
    BY <2>2, <2>3
<1>11. ASSUME NEW r \in Registers, NEW j \in Stations PROVE Alone(j, r)'
  <2>1. Alone(j, r)
    BY DEF Right
  <2>2. Lock(r) = Nobody => Lock(r)' = Nobody
    BY <1>2
  <2>3. ~Pending(r)' /\ Other(r)' = Other(r)
    BY <1>2
  <2> QED
    BY <1>1, <1>4, <1>5, <2>1, <2>2, <2>3 DEF Alone
<1>12. ASSUME NEW j \in Stations PROVE Data(j)'
  <2>1. Data(j)
    BY DEF Right
  <2>2. PICK s : s = station[j].ins.target
    OBVIOUS
  <2>3. station[j].busy /\ station[j].ins.op = "S" => s \in Registers
    <3>1. station[j].busy => Fit(station[j].ins)
      BY DEF Types, Shape, Shaped
    <3> QED
      BY <2>2, <3>1, NamesAre DEF Fit, File
  <2>4. s \in Registers => /\ ~Pending(s)'
                           /\ ~Pending(s) => Lock(s)' = Lock(s) /\ registers'[s] = registers[s]
    BY <1>2
  <2>5. s = station'[j].ins.target
    BY <1>1, <2>2
  <2> QED
    BY <1>1, <1>4, <2>1, <2>2, <2>3, <2>4, <2>5 DEF Data
<1>13. ASSUME NEW j \in Stations PROVE Operand(j)'
  <2>1. Operand(j)
    BY DEF Right
  <2>2. ASSUME NEW r \in Names, NEW v \in BOOLEAN, NEW x, station[j].busy, Gets(j, r, v, x)
        PROVE  Gets(j, r, v, x)'
    <3>1. CASE r = None
      BY <2>2, <3>1 DEF Gets
    <3>2. CASE r # None
      <4>1. r \in Registers
        BY <3>2 DEF Names
      <4>2. /\ ~Pending(r)' /\ Value(r)' = Value(r)
            /\ ~Pending(r) => Lock(r)' = Lock(r)
        BY <1>2, <4>1
      <4>3. \A w \in Stations : Writer(w, r)' <=> Writer(w, r)
        BY <1>5, <4>1
      <4>4. \A w \in Stations : Writer(w, r) => station[w].busy
        BY DEF Writer
      <4>5. CASE v
        BY <1>3, <1>4, <2>2, <3>2, <4>2, <4>3, <4>4, <4>5 DEF Gets
      <4>6. CASE ~v
        BY <1>3, <1>4, <2>2, <3>2, <4>2, <4>3, <4>6 DEF Gets
      <4> QED
        BY <4>5, <4>6
    <3> QED
      BY <3>1, <3>2
  <2>3. \A r \in Names, v \in BOOLEAN, x \in Word \cup {Blank} :
          Needs(j, r, v, x)' <=> Needs(j, r, v, x)
    BY <1>1, NeedsKept
  <2> QED
    BY <1>1, <1>4, <2>1, <2>2, <2>3 DEF Operand
<1> QED
  BY <1>6, <1>7, <1>8, <1>9, <1>10, <1>11, <1>12, <1>13 DEF Right

-----------------------------------------------------------------------------
(* Issue.                                                                  *)

\* Whoever has found its operand free has started by now, or is the last writer.
LEMMA AtIssue ==
  ASSUME Types, Right, turn = Issues, turn' = WritesBack
  PROVE  /\ \A j \in Stations : ~Passed(j)'
         /\ \A j \in Stations : station[j].busy => ~Hold(j)
         /\ \A j \in Stations, r \in Registers : \A x :
              Gets(j, r, TRUE, x) => /\ Value(r) = x
                                     /\ \A w \in Stations : Writer(w, r) => w = j
<1>1. \A j \in Stations : Passed(j) /\ ~Passed(j)'
  BY StationIs DEF Passed, WritesBack, Issues
<1>2. \A r \in Registers : r # None
  BY NamesAre
<1> QED
  BY <1>1, <1>2 DEF Right, Holding, Gets

LEMMA IssueKeeps ==
  ASSUME Types, Right, turn = Issues, turn' = WritesBack,
         UNCHANGED <<registers, mem, wbobject, station, waitOn, seqRegisters, seqMem>>
  PROVE  /\ Holding' /\ Mems'
         /\ \A r \in Registers : Locks(r)' /\ Regs(r)'
         /\ \A r \in Registers : \A j \in Stations : Alone(j, r)'
         /\ \A j \in Stations : Data(j)' /\ Operand(j)'
<1>1. /\ registers' = registers /\ mem' = mem /\ wbobject' = wbobject
      /\ station' = station /\ waitOn' = waitOn /\ seqRegisters' = seqRegisters
      /\ seqMem' = seqMem
  OBVIOUS
<1>2. /\ \A j \in Stations : ~Passed(j)'
      /\ \A j \in Stations : station[j].busy => ~Hold(j)
      /\ \A j \in Stations, r \in Registers : \A x :
           Gets(j, r, TRUE, x) => /\ Value(r) = x
                                  /\ \A w \in Stations : Writer(w, r) => w = j
  BY AtIssue
<1>3. \A r \in Registers :
        /\ (Pending(r)' <=> Pending(r)) /\ Value(r)' = Value(r)
        /\ Other(r)' = Other(r) /\ Lock(r)' = Lock(r)
  BY <1>1, SameLocks DEF Pending, Value
<1>4. \A j \in Stations :
        /\ IsMove(j)' <=> IsMove(j)
        /\ Behind(j)' <=> Behind(j)
        /\ Fresh(j)' <=> Fresh(j)
        /\ Hold(j)' <=> Hold(j)
        /\ Cell(station[j])' = Cell(station[j])
        /\ Due(j)' = Due(j)
  BY <1>1 DEF IsMove, Behind, Fresh, NotStarted, Hold, Cell, Due
<1>5. /\ \A j \in Stations : \A r \in Registers :
           (Writer(j, r)' <=> Writer(j, r)) /\ (Targets(j, r)' <=> Targets(j, r))
      /\ \A j \in Stations : \A c \in Word :
           (StoreAt(j, c)' <=> StoreAt(j, c)) /\ (AccessAt(j, c)' <=> AccessAt(j, c))
  BY <1>1 DEF Writer, Targets, StoreAt, AccessAt, Cell
<1>6. Holding'
  BY <1>1, <1>2, <1>4 DEF Right, Holding
<1>7. Mems'
  BY <1>1, <1>5 DEF Right, Mems
<1>8. ASSUME NEW r \in Registers PROVE Locks(r)'
  <2>1. Locks(r) /\ (Lock(r) # Nobody => Lock(r) \in Stations)
    BY LockIs DEF Right
  <2> QED
    BY <1>3, <1>4, <1>5, <2>1 DEF Locks
<1>9. ASSUME NEW r \in Registers PROVE Regs(r)'
  <2>1. Regs(r)
    BY DEF Right
  <2> QED
    BY <1>1, <1>3, <1>4, <1>5, <2>1 DEF Regs
<1>10. ASSUME NEW r \in Registers, NEW j \in Stations PROVE Alone(j, r)'
  <2>1. Alone(j, r)
    BY DEF Right
  <2> QED
    BY <1>1, <1>3, <1>4, <1>5, <2>1 DEF Alone
<1>11. ASSUME NEW j \in Stations PROVE Data(j)'
  <2>1. Data(j)
    BY DEF Right
  <2>2. PICK s : s = station[j].ins.target
    OBVIOUS
  <2>3. station[j].busy /\ station[j].ins.op = "S" => s \in Registers
    <3>1. station[j].busy => Fit(station[j].ins)
      BY DEF Types, Shape, Shaped
    <3> QED
      BY <2>2, <3>1, NamesAre DEF Fit, File
  <2>4. s \in Registers => (Pending(s)' <=> Pending(s)) /\ Lock(s)' = Lock(s)
    BY <1>3
  <2>5. s = station'[j].ins.target
    BY <1>1, <2>2
  <2> QED
    BY <1>1, <1>4, <2>1, <2>2, <2>3, <2>4, <2>5 DEF Data
<1>12. ASSUME NEW j \in Stations PROVE Operand(j)'
  <2>1. Operand(j)
    BY DEF Right
  <2>2. ASSUME NEW r \in Names, NEW v \in BOOLEAN, NEW x, station[j].busy, Gets(j, r, v, x)
        PROVE  Gets(j, r, v, x)'
    <3>1. CASE r = None
      BY <2>2, <3>1 DEF Gets
    <3>2. CASE r # None
      <4>1. r \in Registers
        BY <3>2 DEF Names
      <4>2. /\ (Pending(r)' <=> Pending(r)) /\ Value(r)' = Value(r) /\ Lock(r)' = Lock(r)
        BY <1>3, <4>1
      <4>3. \A w \in Stations : Writer(w, r)' <=> Writer(w, r)
        BY <1>5, <4>1
      <4>5. CASE v
        <5>1. Value(r) = x /\ \A w \in Stations : Writer(w, r) => w = j
          BY <1>2, <2>2, <4>1, <4>5
        <5> QED
          BY <3>2, <4>2, <4>3, <4>5, <5>1 DEF Gets
      <4>6. CASE ~v
        BY <1>4, <2>2, <3>2, <4>2, <4>3, <4>6 DEF Gets
      <4> QED
        BY <4>5, <4>6
    <3> QED
      BY <3>1, <3>2
  <2>3. \A r \in Names, v \in BOOLEAN, x \in Word \cup {Blank} :
          Needs(j, r, v, x)' <=> Needs(j, r, v, x)
    BY <1>1, NeedsKept
  <2> QED
    BY <1>1, <1>4, <2>1, <2>2, <2>3 DEF Operand
<1> QED
  BY <1>6, <1>7, <1>8, <1>9, <1>10, <1>11, <1>12

\* No instruction is issued before a branch is decided.
LEMMA WaitsForBranch ==
  ASSUME Types, Right, Issue, bStallDueToBranch PROVE Right'
<1>1. /\ turn = Issues /\ turn' = WritesBack /\ vprogram' = vprogram
      /\ registers' = registers /\ mem' = mem /\ wbobject' = wbobject
      /\ UNCHANGED <<programCounter, station, waitOn, stalls, triggerend, ahead, spoiled>>
  BY DEF Issue
<1>2. /\ UNCHANGED <<registers, mem, wbobject, station, waitOn, seqRegisters, seqMem>>
      /\ bStallIF' = bStallIF /\ bStallDueToBranch' = bStallDueToBranch
      /\ stallDueToRSid' = stallDueToRSid /\ seqCounter' = seqCounter
      /\ programCounter' = programCounter /\ triggerend' = triggerend /\ station' = station
  BY <1>1 DEF stalls, ahead
<1>3. PICK k \in Stations : BranchAt(k)
  BY DEF Right, Stalling
<1>4. station[k].busy
  BY <1>3 DEF BranchAt
<1>5. ~triggerend
  BY <1>1, <1>4 DEF Right, Ending, AllDone
<1>6. Ending'
  BY <1>1, <1>2, <1>4, <1>5 DEF Ending, WritesBack, Issues
<1>7. Stalling'
  <2>1. NextLine' = NextLine /\ Stalling
    BY <1>2 DEF NextLine, Right
  <2>2. \A j \in Stations : BranchAt(j)' <=> BranchAt(j)
    BY <1>2 DEF BranchAt
  <2> QED
    BY <1>1, <1>2, <2>1, <2>2 DEF Stalling
<1>8. /\ Holding' /\ Mems'
      /\ \A r \in Registers : Locks(r)' /\ Regs(r)'
      /\ \A r \in Registers : \A j \in Stations : Alone(j, r)'
      /\ \A j \in Stations : Data(j)' /\ Operand(j)'
  BY <1>1, <1>2, IssueKeeps
<1> QED
  BY <1>6, <1>7, <1>8 DEF Right

\* Where the issue stands.
LEMMA StandsAt ==
  ASSUME Types, Right, ~bStallDueToBranch, bStallIF => programCounter # 0, NEW i, i = IR,
         programCounter' = NextCounter
  PROVE  /\ programCounter \in 0 .. Size + 1 /\ Size \in Nat \ {0}
         /\ OnProgram => /\ seqCounter \in Lines /\ i = decode(vprogram[seqCounter])
                         /\ Line = vprogram[seqCounter]
                         /\ programCounter' = seqCounter + 1
         /\ bStallIF => /\ i.op # "NOOP" /\ stallDueToRSid = {KindOf(i)}
                        /\ programCounter = seqCounter + 1
         /\ ~bStallIF => stallDueToRSid = {}
         /\ ~OnProgram => /\ seqCounter = Size /\ programCounter' = Size + 1
                          /\ i = NoInstruction
<1>1. /\ programCounter \in 0 .. Size + 1 /\ Size \in Nat \ {0}
      /\ bStallIF => programCounter <= Size
  BY TypesAre, WordsAre DEF Types, Turns
<1>2. /\ NextLine = seqCounter
      /\ bStallIF => /\ decode(vprogram[programCounter - 1]).op # "NOOP"
                     /\ stallDueToRSid = {KindOf(decode(vprogram[programCounter - 1]))}
      /\ ~bStallIF => stallDueToRSid = {}
  BY DEF Right, Stalling
<1>3. /\ Fetches => /\ programCounter \in Lines /\ Line = vprogram[programCounter]
                    /\ IR = decode(vprogram[programCounter])
      /\ bStallIF => /\ programCounter - 1 \in Lines
                     /\ Line = vprogram[programCounter - 1]
                     /\ IR = decode(vprogram[programCounter - 1])
      /\ ~OnProgram => IR = NoInstruction
  BY IRIs
<1>4. CASE bStallIF
  <2>1. seqCounter = programCounter - 1 /\ programCounter' = programCounter
    BY <1>2, <1>4 DEF NextLine, NextCounter
  <2> QED
    BY <1>1, <1>2, <1>3, <1>4, <2>1 DEF OnProgram
<1>5. CASE ~bStallIF /\ Fetches
  <2>1. programCounter < Size
    BY <1>5 DEF Fetches
  <2>2. seqCounter = programCounter /\ programCounter' = programCounter + 1
    BY <1>1, <1>2, <1>5, <2>1 DEF NextLine, NextCounter
  <2> QED
    BY <1>1, <1>2, <1>3, <1>5, <2>2 DEF OnProgram
<1>6. CASE ~OnProgram
  <2>1. ~bStallIF /\ ~(programCounter < Size)
    BY <1>6 DEF OnProgram, Fetches
  <2>2. seqCounter = Size /\ programCounter' = Size + 1
    BY <1>1, <1>2, <2>1 DEF NextLine, NextCounter
  <2> QED
    BY <1>1, <1>2, <1>3, <1>6, <2>1, <2>2
<1> QED
  BY <1>4, <1>5, <1>6 DEF OnProgram

\* An instruction that is not taken: it stalls, or there is none.
LEMMA StallsRight ==
  ASSUME Types, Right, turn = Issues, turn' = WritesBack, ~bStallDueToBranch,
         bStallIF => programCounter # 0, NEW i, i = IR, StallsOn(i),
         programCounter' = NextCounter, triggerend' = (triggerend /\ ~Fetches),
         UNCHANGED <<vprogram, registers, mem, wbobject>>, Follows(i), ~spoiled'
  PROVE  Right'
<1>1. /\ Fit(i) /\ bStallIF' /\ stallDueToRSid' = stallDueToRSid \cup {KindOf(i)}
      /\ station' = station /\ waitOn' = waitOn /\ bStallDueToBranch' = bStallDueToBranch
  BY DEF StallsOn, Stalls
<1>2. i.op # "NOOP" /\ i # NoInstruction
  BY <1>1 DEF Fit, NoInstruction
<1>3. OnProgram
  BY <1>2, StandsAt
<1>4. /\ seqCounter \in Lines /\ i = decode(vprogram[seqCounter])
      /\ programCounter' = seqCounter + 1
      /\ bStallIF => stallDueToRSid = {KindOf(i)}
      /\ ~bStallIF => stallDueToRSid = {}
  BY <1>3, StandsAt
<1>5. ~Leaves(i)
  BY <1>1 DEF Leaves
<1>6. UNCHANGED ahead /\ ~StopsInStall
  BY <1>5 DEF Follows
<1>7. /\ vprogram' = vprogram /\ seqCounter' = seqCounter
      /\ UNCHANGED <<registers, mem, wbobject, station, waitOn, seqRegisters, seqMem>>
  BY <1>1, <1>6 DEF ahead
<1>8. \A j \in Stations : ~BranchAt(j)'
  BY <1>1 DEF Right, Stalling, BranchAt
<1>9. Stalling'
  <2>1. programCounter' - 1 = seqCounter
    BY <1>4 DEF Lines
  <2>2. NextLine' = seqCounter'
    BY <1>1, <1>7, <2>1 DEF NextLine
  <2>3. /\ decode(vprogram'[programCounter' - 1]) = i
        /\ stallDueToRSid' = {KindOf(i)}
    BY <1>1, <1>4, <1>7, <2>1
  <2>4. ~bStallDueToBranch'
    BY <1>1
  <2> QED
    BY <1>1, <1>2, <1>8, <2>2, <2>3, <2>4 DEF Stalling
<1>10. Ending'
  <2>1. ~triggerend'
    BY <1>3 DEF Right, Ending, AllDone, OnProgram
  <2>2. \E k \in Stations : station'[k].busy
    BY <1>1, <1>6 DEF StopsInStall
  <2> QED
    BY <2>1, <2>2 DEF Ending
<1>11. /\ Holding' /\ Mems'
       /\ \A r \in Registers : Locks(r)' /\ Regs(r)'
       /\ \A r \in Registers : \A j \in Stations : Alone(j, r)'
       /\ \A j \in Stations : Data(j)' /\ Operand(j)'
  BY <1>7, IssueKeeps
<1> QED
  BY <1>9, <1>10, <1>11 DEF Right

LEMMA NothingRight ==
  ASSUME Types, Right, turn = Issues, turn' = WritesBack, ~bStallDueToBranch,
         bStallIF => programCounter # 0, NEW i, i = IR, Nothing(i),
         programCounter' = NextCounter, triggerend' = (triggerend /\ ~Fetches),
         UNCHANGED <<vprogram, registers, mem, wbobject>>, Follows(i), ~spoiled'
  PROVE  Right'
<1>1. /\ station' = station /\ waitOn' = waitOn /\ bStallIF' = bStallIF
      /\ bStallDueToBranch' = bStallDueToBranch /\ stallDueToRSid' = stallDueToRSid
      /\ vprogram' = vprogram /\ wbobject' = wbobject
      /\ i = NoInstruction \/ Dropped(i)
  BY DEF Nothing, stalls
<1>2. /\ programCounter \in 0 .. Size + 1 /\ Size \in Nat \ {0}
      /\ OnProgram => /\ seqCounter \in Lines /\ i = decode(vprogram[seqCounter])
                      /\ programCounter' = seqCounter + 1
      /\ bStallIF => /\ i.op # "NOOP" /\ stallDueToRSid = {KindOf(i)}
                     /\ programCounter = seqCounter + 1
      /\ ~bStallIF => stallDueToRSid = {}
      /\ ~OnProgram => /\ seqCounter = Size /\ programCounter' = Size + 1
                       /\ i = NoInstruction
  BY StandsAt
<1>3. NoInstruction.op = "NOOP"
  BY DEF NoInstruction
<1>4. \A j \in Stations : ~BranchAt(j)'
  BY <1>1 DEF Right, Stalling, BranchAt
<1>5. CASE i = NoInstruction /\ OnProgram
  <2>1. ~bStallIF /\ Fetches
    BY <1>2, <1>3, <1>5 DEF OnProgram
  <2>2. Sequential!Execute
    BY <1>1, <1>5, <2>1 DEF Follows, Leaves
  <2>3. PICK l : l = vprogram[seqCounter]
    OBVIOUS
  <2>4. l.op = "NOOP"
    <3>1. seqCounter \in Lines /\ i = decode(l) /\ Line = l
      BY <1>2, <1>5, <2>3, StandsAt
    <3>2. ~MisreadsBase(l)
      BY <1>1, <1>5, <2>1, <3>1 DEF Follows, Leaves
    <3> QED
      BY <1>3, <1>5, <2>3, <3>1, <3>2, TypesAre, DecodesIs
  <2>5. /\ seqCounter' = IF Holds(l, Val(l.a), Val(l.b)) THEN l.n ELSE seqCounter + 1
        /\ l.op \notin Arithmetic \cup {"LI", "MOVE", "L"} => seqRegisters' = seqRegisters
        /\ l.op # "S" => seqMem' = seqMem
    BY <2>2, <2>3, SeqDoes
  <2>6. seqCounter' = seqCounter + 1 /\ seqRegisters' = seqRegisters /\ seqMem' = seqMem
    BY <2>4, <2>5 DEF Holds, Arithmetic
  <2>7. /\ Holding' /\ Mems'
        /\ \A r \in Registers : Locks(r)' /\ Regs(r)'
        /\ \A r \in Registers : \A j \in Stations : Alone(j, r)'
        /\ \A j \in Stations : Data(j)' /\ Operand(j)'
    BY <1>1, <2>6, IssueKeeps
  <2>8. Ending'
    BY <1>1, <2>1 DEF Ending, WritesBack, Issues
  <2>9. Stalling'
    <3>1. programCounter' = seqCounter' /\ ~(programCounter' > Size)
      BY <1>2, <1>5, <2>6 DEF Lines
    <3>2. NextLine' = seqCounter'
      BY <1>1, <1>2, <1>5, <2>1, <2>6, <3>1 DEF NextLine, Lines
    <3> QED
      BY <1>1, <1>2, <1>4, <2>1, <3>2 DEF Stalling
  <2> QED
    BY <2>7, <2>8, <2>9 DEF Right
<1>6. CASE Dropped(i)
  <2>1. i.op = "DIV" /\ OnProgram
    BY <1>2, <1>3, <1>6 DEF Dropped
  <2>2. Mishandles(i)
    BY <1>6 DEF Mishandles
  <2>3. ~Leaves(i)
    BY <2>2 DEF Follows
  <2>4. bStallIF
    BY <1>1, <2>1, <2>3 DEF Leaves
  <2>5. UNCHANGED ahead /\ ~StopsInStall
    BY <2>3 DEF Follows
  <2>6. /\ seqCounter' = seqCounter
        /\ UNCHANGED <<registers, mem, wbobject, station, waitOn, seqRegisters, seqMem>>
    BY <1>1, <2>5 DEF ahead
  <2>7. /\ Holding' /\ Mems'
        /\ \A r \in Registers : Locks(r)' /\ Regs(r)'
        /\ \A r \in Registers : \A j \in Stations : Alone(j, r)'
        /\ \A j \in Stations : Data(j)' /\ Operand(j)'
    BY <2>6, IssueKeeps
  <2>8. Ending'
    <3>1. ~triggerend'
      BY <2>4 DEF Right, Ending, AllDone
    <3>2. \E k \in Stations : station'[k].busy
      BY <1>1, <2>4, <2>5 DEF StopsInStall
    <3> QED
      BY <3>1, <3>2 DEF Ending
  <2>9. Stalling'
    <3>1. programCounter' - 1 = seqCounter /\ bStallIF'
      BY <1>1, <1>2, <2>1, <2>4 DEF Lines
    <3>2. NextLine' = seqCounter'
      BY <2>6, <3>1 DEF NextLine
    <3>3. /\ decode(vprogram'[programCounter' - 1]) = i /\ i.op # "NOOP"
          /\ stallDueToRSid' = {KindOf(i)} /\ ~bStallDueToBranch'
      BY <1>1, <1>2, <2>1, <2>4, <3>1
    <3> QED
      BY <1>4, <3>1, <3>2, <3>3 DEF Stalling
  <2> QED
    BY <2>7, <2>8, <2>9 DEF Right
<1>7. CASE i = NoInstruction /\ ~OnProgram
  <2>1. UNCHANGED ahead
    BY <1>7 DEF Follows, Leaves
  <2>2. ~bStallIF /\ ~Fetches
    BY <1>7 DEF OnProgram
  <2>3. /\ seqCounter' = seqCounter
        /\ UNCHANGED <<registers, mem, wbobject, station, waitOn, seqRegisters, seqMem>>
    BY <1>1, <2>1 DEF ahead
  <2>4. /\ Holding' /\ Mems'
        /\ \A r \in Registers : Locks(r)' /\ Regs(r)'
        /\ \A r \in Registers : \A j \in Stations : Alone(j, r)'
        /\ \A j \in Stations : Data(j)' /\ Operand(j)'
    BY <2>3, IssueKeeps
  <2>5. Ending'
    BY <1>1, <1>2, <1>7, <2>2, <2>3 DEF Right, Ending, AllDone, WritesBack, Issues
  <2>6. Stalling'
    <3>1. programCounter' = Size + 1 /\ seqCounter' = Size /\ programCounter' > Size
      BY <1>2, <1>7, <2>3
    <3>2. NextLine' = seqCounter'
      BY <1>2, <3>1 DEF NextLine
    <3> QED
      BY <1>1, <1>2, <1>4, <2>2, <3>2 DEF Stalling
  <2> QED
    BY <2>4, <2>5, <2>6 DEF Right
<1> QED
  BY <1>1, <1>5, <1>6, <1>7

\* What the sequential processor makes of the instruction as it is decoded.
LEMMA SeqIssue ==
  ASSUME Types, Sequential!Execute, NEW i, i = decode(vprogram[seqCounter]), Fit(i),
         ~MisreadsBase(vprogram[seqCounter])
  PROVE  /\ seqCounter' = IF Holds(i, Val(i.source1), Val(i.source2)) THEN i.n
                                                                     ELSE seqCounter + 1
         /\ \A r \in Registers : ~WritesRegister(i, r) => seqRegisters'[r] = seqRegisters[r]
         /\ i.op \in Arithmetic =>
              /\ i.op = "DIV" => Divides(Val(i.source1), Val(i.source2))
              /\ seqRegisters'[i.target] = Compute(i.op, Val(i.source1), Val(i.source2))
         /\ i.op = "LI" => seqRegisters'[i.target] = i.n % W
         /\ i.op = "MOVE" => seqRegisters'[i.target] = Val(i.source1)
         /\ i.op = "L" =>
              seqRegisters'[i.target] = Loaded(seqMem[Sum(i.n, Val(i.source1))])
         /\ i.op = "S" =>
              seqMem' = [seqMem EXCEPT ![Sum(i.n, Val(i.source1))] = Val(i.target)]
         /\ i.op # "S" => seqMem' = seqMem
<1>1. PICK l : l = vprogram[seqCounter]
  OBVIOUS
<1>2. /\ seqCounter \in Lines /\ l.op \in OpCodes
      /\ seqCounter' = IF Holds(l, Val(l.a), Val(l.b)) THEN l.n ELSE seqCounter + 1
      /\ l.op \in Arithmetic =>
           /\ l.op = "DIV" => Divides(Val(l.a), Val(l.b))
           /\ seqRegisters' = [seqRegisters EXCEPT ![l.t] = Compute(l.op, Val(l.a), Val(l.b))]
      /\ l.op = "LI" => seqRegisters' = [seqRegisters EXCEPT ![l.t] = l.n % W]
      /\ l.op = "MOVE" => seqRegisters' = [seqRegisters EXCEPT ![l.t] = Val(l.a)]
      /\ l.op = "L" => seqRegisters' = [seqRegisters EXCEPT
                         ![l.t] = Loaded(seqMem[Sum(l.n, Val(l.b))])]
      /\ l.op \notin Arithmetic \cup {"LI", "MOVE", "L"} => seqRegisters' = seqRegisters
      /\ l.op = "S" => seqMem' = [seqMem EXCEPT ![Sum(l.n, Val(l.b))] = Val(l.a)]
      /\ l.op # "S" => seqMem' = seqMem
  BY <1>1, SeqDoes
<1>3. /\ i.op = l.op
      /\ l.op \in Arithmetic => i = Decoded(l, l.t, l.a, l.b)
      /\ l.op = "LI" => i = Decoded(l, l.t, None, None)
      /\ l.op = "L" => i = Decoded(l, l.t, l.b, None)
      /\ l.op = "S" => i = Decoded(l, l.a, l.b, None)
      /\ l.op \in {"BEQ", "BNEQ"} => i = Decoded(l, None, l.a, l.b)
      /\ l.op \in {"BGTZ", "BLTZ"} => i = Decoded(l, None, l.a, None)
      /\ l.op = "MOVE" => i = Decoded(l, l.t, l.a, None)
  BY <1>1, <1>2, TypesAre, DecodesIs
<1>4. \A t, a, b : /\ Decoded(l, t, a, b).n = l.n /\ Decoded(l, t, a, b).target = t
                   /\ Decoded(l, t, a, b).source1 = a /\ Decoded(l, t, a, b).source2 = b
  BY DEF Decoded
<1>5. seqRegisters \in [Registers -> Word]
  BY TypesAre
<1>6. i.op # "NOOP" /\ (i.target # None => i.target \in Registers)
  BY TargetIs DEF Fit
<1>7. /\ i.op \in Arithmetic \cup {"LI", "L", "MOVE"} => i.target # None
      /\ \A r \in Registers : r # None
  BY NamesAre DEF Fit, File
<1>8. CASE l.op \in Arithmetic
  <2>1. /\ i.target = l.t /\ i.source1 = l.a /\ i.source2 = l.b
        /\ l.op \notin Branches \cup {"S", "LI", "L", "MOVE"}
    BY <1>3, <1>4, <1>8 DEF Arithmetic, Branches
  <2>2. l.t \in Registers
    BY <1>3, <1>6, <1>7, <1>8, <2>1
  <2> QED
    BY <1>2, <1>3, <1>5, <1>7, <1>8, <2>1, <2>2 DEF WritesRegister, Holds, Branches
<1>9. CASE l.op \in {"LI", "L", "MOVE"}
  <2>1. i.target = l.t /\ l.op \notin Arithmetic \cup Branches
    BY <1>3, <1>4, <1>9 DEF Arithmetic, Branches
  <2>2. l.t \in Registers
    BY <1>3, <1>6, <1>7, <1>9, <2>1
  <2>3. /\ l.op = "LI" => i.n = l.n
        /\ l.op = "L" => i.n = l.n /\ i.source1 = l.b
        /\ l.op = "MOVE" => i.source1 = l.a
    BY <1>3, <1>4
  <2> QED
    BY <1>2, <1>3, <1>5, <1>7, <1>9, <2>1, <2>2, <2>3
       DEF WritesRegister, Holds, Branches
<1>10. CASE l.op = "S"
  <2>1. i.target = l.a /\ i.source1 = l.b /\ i.n = l.n
    BY <1>3, <1>4, <1>10
  <2> QED
    BY <1>2, <1>3, <1>10, <2>1 DEF Arithmetic, Holds
<1>11. CASE l.op \in Branches
  <2>1. i.source1 = l.a /\ i.n = l.n /\ (l.op \in {"BEQ", "BNEQ"} => i.source2 = l.b)
    BY <1>3, <1>4, <1>11 DEF Branches
  <2>2. l.op \notin Arithmetic \cup {"LI", "MOVE", "L", "S"}
    BY <1>11 DEF Arithmetic, Branches
  <2>3. Holds(l, Val(l.a), Val(l.b)) <=> Holds(i, Val(i.source1), Val(i.source2))
    BY <1>3, <2>1 DEF Holds
  <2> QED
    BY <1>2, <1>3, <2>1, <2>2, <2>3
<1> QED
  BY <1>2, <1>3, <1>6, <1>8, <1>9, <1>10, <1>11 DEF OpCodes

\* Station k takes instruction i, which the processor does not mishandle.
Taken(k, i) ==
  /\ turn = Issues /\ turn' = WritesBack
  /\ UNCHANGED <<vprogram, registers, mem, wbobject>>
  /\ Fit(i) /\ ~station[k].busy
  /\ station'[k] = Assigned(i) /\ \A j \in Stations : j # k => station'[j] = station[j]
  /\ waitOn' = IF i.target # None /\ FreeRegister(i.double, i.target)
                 THEN [waitOn EXCEPT ![i.double][i.target] = k] ELSE waitOn
  /\ ~WrittenNext(i) /\ ~Mishandles(i) /\ ~spoiled /\ ~bStallDueToBranch
  /\ Sequential!Execute /\ seqCounter \in Lines /\ i = decode(vprogram[seqCounter])
  /\ ~MisreadsBase(vprogram[seqCounter])
  /\ programCounter' = seqCounter + 1 /\ ~triggerend'
  /\ bStallDueToBranch' = Branching(i) /\ (bStallIF' => Branching(i))
  /\ stallDueToRSid' = {}

LEMMA TakesIt ==
  ASSUME Types, Right, turn = Issues, turn' = WritesBack, ~bStallDueToBranch,
         bStallIF => programCounter # 0, NEW i, i = IR, EntersIts(i) \/ Misses(i),
         programCounter' = NextCounter, triggerend' = (triggerend /\ ~Fetches),
         UNCHANGED <<vprogram, registers, mem, wbobject>>, Follows(i), ~spoiled'
  PROVE  \E k \in Stations : Taken(k, i)
<1>1. Fit(i) /\ i.op # "NOOP" /\ i # NoInstruction
  BY DEF EntersIts, Misses, Fit, NoInstruction
<1>2. /\ OnProgram /\ seqCounter \in Lines /\ i = decode(vprogram[seqCounter])
      /\ Line = vprogram[seqCounter]
      /\ programCounter' = seqCounter + 1
      /\ bStallIF => stallDueToRSid = {KindOf(i)}
      /\ ~bStallIF => stallDueToRSid = {}
  BY <1>1, StandsAt
<1>3. ~triggerend'
  BY <1>2 DEF Right, Ending, AllDone, OnProgram
<1>4. ASSUME NEW k \in Stations, ~station[k].busy, station'[k] = Assigned(i),
             \A j \in Stations : j # k => station'[j] = station[j],
             waitOn' = IF i.target # None /\ FreeRegister(i.double, i.target)
                         THEN [waitOn EXCEPT ![i.double][i.target] = k] ELSE waitOn,
             ~WrittenNext(i), bStallDueToBranch' = Branching(i),
             bStallIF' => Branching(i), stallDueToRSid' = {}
      PROVE  Taken(k, i)
  <2>1. Leaves(i)
    BY <1>2, <1>4 DEF Leaves
  <2>2. ~Mishandles(i) /\ ~MisreadsBase(Line) /\ ~spoiled /\ Sequential!Execute
    BY <2>1 DEF Follows
  <2> QED
    BY <1>1, <1>2, <1>3, <1>4, <2>2 DEF Taken
<1>5. CASE EntersIts(i)
  <2> DEFINE k == FirstOf(Unused(KindOf(i)))
  <2>1. k \in Stations /\ ~station[k].busy
    BY <1>5, FirstUnused DEF EntersIts, HasRoom
  <2>2. /\ station' = [station EXCEPT ![k] = Assigned(i)]
        /\ waitOn' = IF i.target # None /\ FreeRegister(i.double, i.target)
                       THEN [waitOn EXCEPT ![i.double][i.target] = k] ELSE waitOn
        /\ bStallDueToBranch' = Branching(i)
        /\ bStallIF' = ((bStallIF \/ Branching(i)) /\ KindOf(i) \notin stallDueToRSid)
        /\ stallDueToRSid' = stallDueToRSid \ {KindOf(i)}
        /\ ~WrittenNext(i)
    BY <1>5 DEF EntersIts, Enters, HasRoom
  <2> HIDE DEF k
  <2>3. station'[k] = Assigned(i) /\ \A j \in Stations : j # k => station'[j] = station[j]
    BY <2>1, <2>2, TypesAre
  <2>4. (bStallIF' => Branching(i)) /\ stallDueToRSid' = {}
    BY <1>2, <2>2
  <2> QED
    BY <1>4, <2>1, <2>2, <2>3, <2>4
<1>6. CASE Misses(i)
  <2> DEFINE k == FirstOf(Unused("stores"))
             l == <<"loads", k[2]>>
  <2>1. k \in Stations /\ ~station[k].busy /\ k[1] = "stores"
    BY <1>6, FirstUnused DEF Misses, MissesItsLock, HasRoom
  <2>2. ~TwiceOrInstead(i)
    BY <1>2 DEF Follows
  <2>3. /\ i.op = "S" /\ ~FreeRegister(i.double, i.target) /\ ~WrittenNext(i)
        /\ ~bStallIF /\ NoOfFunctionalUnits["loads"] # NoOfFunctionalUnits["stores"]
        /\ ~station[l].busy
    BY <1>6, <2>2 DEF Misses, MissesItsLock, HasRoom, TwiceOrInstead
  <2>4. /\ station' = [station EXCEPT ![k] = Assigned(i), ![l] = Idle]
        /\ waitOn' = waitOn /\ bStallDueToBranch' = bStallDueToBranch
        /\ bStallIF' = bStallIF /\ stallDueToRSid' = stallDueToRSid
    BY <1>6, <2>3 DEF Misses, IssueStore
  <2>5. l # k
    BY <2>1
  <2> HIDE DEF k
  <2>6. l \in Stations => station[l] = Idle
    BY <2>3 DEF Types, Shape, Shaped
  <2> HIDE DEF l
  <2>7. station'[k] = Assigned(i) /\ \A j \in Stations : j # k => station'[j] = station[j]
    BY <2>1, <2>4, <2>5, <2>6, TypesAre
  <2>8. ~Branching(i) /\ Branching(i) \in BOOLEAN /\ bStallDueToBranch \in BOOLEAN
    BY <2>3, TypesAre DEF Branching, Branches
  <2>9. /\ bStallDueToBranch' = Branching(i) /\ (bStallIF' => Branching(i))
        /\ stallDueToRSid' = {}
    BY <1>2, <2>3, <2>4, <2>8
  <2>10. waitOn' = IF i.target # None /\ FreeRegister(i.double, i.target)
                     THEN [waitOn EXCEPT ![i.double][i.target] = k] ELSE waitOn
    BY <2>3, <2>4
  <2> QED
    BY <1>4, <2>1, <2>3, <2>7, <2>9, <2>10
<1> QED
  BY <1>5, <1>6

\* What the processor does not overtake.
LEMMA OrderlyIs ==
  ASSUME Types, Right, NEW k \in Stations, NEW i, Taken(k, i)
  PROVE  /\ \A r \in Registers : \A j \in Stations :
              r \in {i.source1, i.source2, i.target} /\ Writer(j, r)
                => Lock(r) = j /\ ~IsMove(j) /\ ~(i.op = "MOVE" /\ r = i.target)
         /\ \A j \in Stations :
              station[j].busy /\ Fresh(j) /\ i.target # None
                /\ i.target \in {station[j].ins.source1, station[j].ins.source2}
              => ~Accesses(station[j].ins) /\ Ready(j)
         /\ \A j \in Stations :
              station[j].busy /\ station[j].ins.op = "S"
                /\ WritesRegister(i, station[j].ins.target)
              => ~Fresh(j) /\ i.op # "MOVE"
         /\ \A j \in Stations :
              station[j].busy /\ Accesses(station[j].ins) /\ Accesses(i)
                /\ "S" \in {i.op, station[j].ins.op}
              => Cell(station[j]) # Cell(Assigned(i))
         /\ i.op = "MOVE" => /\ Val(i.source1) = 0
                             /\ i.double => FreeRegister(TRUE, i.target)
         /\ i.op \in Branches => ~i.double
<1>1. /\ ~Overtakes(i) /\ ~MovesAnother(i) /\ ~(i.op \in Branches /\ i.double) /\ Fit(i)
  BY DEF Taken, Mishandles
<1>2. \A j \in Stations : station[j].busy => j \in Busy /\ station[j] \in InFlight
  BY DEF Busy, InFlight
<1>3. ASSUME NEW r \in Registers, NEW j \in Stations,
             r \in {i.source1, i.source2, i.target}, Writer(j, r)
      PROVE  Lock(r) = j /\ ~IsMove(j) /\ ~(i.op = "MOVE" /\ r = i.target)
  <2>1. /\ station[j].busy /\ station[j].ins.target = r /\ WritesRegister(station[j].ins, r)
        /\ j # Nobody
    BY <1>3, StationIs DEF Writer, WritesRegister
  <2>2. /\ ~((station[j].behind \/ station[j].ins.op = "MOVE")
              /\ waitOn[station[j].ins.target \in Floats][station[j].ins.target] # j)
        /\ ~(i.op = "MOVE" /\ station[j].ins.target = i.target)
    BY <1>1, <1>2, <1>3, <2>1 DEF Overtakes, OvertakesWriter
  <2>3. ~((Behind(j) \/ IsMove(j)) /\ Lock(r) # j) /\ ~(i.op = "MOVE" /\ r = i.target)
    BY <2>1, <2>2 DEF Behind, IsMove, Lock
  <2>4. Locks(r) /\ Alone(j, r)
    BY DEF Right
  <2>5. ~IsMove(j)
    BY <1>3, <2>1, <2>3, <2>4 DEF Alone
  <2> QED
    BY <1>3, <2>3, <2>4, <2>5 DEF Locks
<1>4. ASSUME NEW j \in Stations, station[j].busy, Fresh(j), i.target # None,
             i.target \in {station[j].ins.source1, station[j].ins.source2}
      PROVE  ~Accesses(station[j].ins) /\ Ready(j)
  BY <1>1, <1>2, <1>4 DEF Overtakes, OvertakesReader, Fresh, Ready
<1>5. ASSUME NEW j \in Stations, station[j].busy, station[j].ins.op = "S",
             WritesRegister(i, station[j].ins.target)
      PROVE  ~Fresh(j) /\ i.op # "MOVE"
  BY <1>1, <1>2, <1>5 DEF Overtakes, OvertakesReader, Fresh
<1>6. ASSUME NEW j \in Stations, station[j].busy, Accesses(station[j].ins), Accesses(i),
             "S" \in {i.op, station[j].ins.op}
      PROVE  Cell(station[j]) # Cell(Assigned(i))
  BY <1>1, <1>2, <1>6 DEF Overtakes, OvertakesAccess
<1>7. i.op = "MOVE" => /\ Val(i.source1) = 0
                       /\ i.double => FreeRegister(TRUE, i.target)
  <2>1. i.op = "MOVE" => i.source1 # None
    BY <1>1, NamesAre DEF Fit, File
  <2> QED
    BY <1>1, <2>1 DEF MovesAnother, Val
<1> QED
  BY <1>1, <1>3, <1>4, <1>5, <1>6, <1>7

LEMMA TakenUnits ==
  ASSUME Types, NEW k \in Stations, NEW i, Taken(k, i)
  PROVE  /\ \A j \in Stations : j # k =>
              /\ station'[j] = station[j]
              /\ IsMove(j)' <=> IsMove(j)
              /\ Behind(j)' <=> Behind(j)
              /\ BranchAt(j)' <=> BranchAt(j)
              /\ Fresh(j)' <=> Fresh(j)
              /\ Hold(j)' <=> Hold(j)
              /\ Ready(j)' <=> Ready(j)
              /\ Cell(station[j])' = Cell(station[j])
         /\ station'[k].busy /\ station'[k].ins = i /\ ~station'[k].waiting
         /\ station'[k].x = Val(i.source1) /\ station'[k].y = Val(i.source2)
         /\ station'[k].vj = FreeRegister(i.double, i.source1)
         /\ station'[k].vk = FreeRegister(i.double, i.source2)
         /\ Hold(k)' /\ Fresh(k)' /\ (IsMove(k)' <=> i.op = "MOVE")
         /\ Behind(k)' <=> i.target # None /\ waitOn[i.double][i.target] \in Busy
         /\ BranchAt(k)' <=> i.op \in Branches
         /\ Cell(station[k])' = Cell(Assigned(i))
         /\ Cell(Assigned(i)) = Sum(i.n, Val(i.source1)) /\ Cell(Assigned(i)) \in Word
         /\ \A j \in Stations : \A r \in Registers :
              /\ Writer(j, r)' <=> IF j = k THEN WritesRegister(i, r) ELSE Writer(j, r)
              /\ Targets(j, r)' <=> IF j = k THEN i.target = r ELSE Targets(j, r)
         /\ \A j \in Stations : \A c \in Word :
              /\ StoreAt(j, c)' <=> IF j = k THEN i.op = "S" /\ c = Cell(Assigned(i))
                                             ELSE StoreAt(j, c)
              /\ AccessAt(j, c)' <=> IF j = k THEN Accesses(i) /\ c = Cell(Assigned(i))
                                              ELSE AccessAt(j, c)
         /\ \A r \in Registers :
              /\ Pending(r)' <=> Pending(r)
              /\ Value(r)' = Value(r)
              /\ i.target = r => ~Pending(r)
<1>1. /\ Fit(i) /\ ~spoiled /\ ~WrittenNext(i) /\ station'[k] = Assigned(i)
      /\ registers' = registers /\ wbobject' = wbobject
      /\ \A j \in Stations : j # k => station'[j] = station[j]
  BY DEF Taken
<1>2. PICK u : u = Assigned(i)
  OBVIOUS
<1>3. i \in Instruction /\ i.source1 \in Names /\ i.source2 \in Names /\ i.n \in Int
  BY <1>1, InsAre DEF Fit
<1>4. /\ u \in Unit /\ u.busy /\ u.ins = i /\ u.hold /\ u.left = Cost(i)
      /\ u.vj = FreeRegister(i.double, i.source1)
      /\ u.vk = FreeRegister(i.double, i.source2)
      /\ ~u.waiting /\ u.x = SeqReg(i.source1) /\ u.y = SeqReg(i.source2)
      /\ u.behind = (i.target # None /\ waitOn[i.double][i.target] \in Busy)
  BY <1>2, <1>3, AssignedIs
<1>5. u.x = Val(i.source1) /\ u.y = Val(i.source2)
  BY <1>1, <1>4 DEF SeqReg, Val
<1>6. u.x \in Word
  BY <1>4, UnitsAre
<1>7. Cell(u) = Sum(i.n, Val(i.source1)) /\ Cell(u) \in Word
  BY <1>3, <1>4, <1>5, <1>6, WordIsInt, SumIs DEF Cell
<1>8. \A j \in Stations : j # k =>
        /\ station'[j] = station[j]
        /\ IsMove(j)' <=> IsMove(j)
        /\ Behind(j)' <=> Behind(j)
        /\ BranchAt(j)' <=> BranchAt(j)
        /\ Fresh(j)' <=> Fresh(j)
        /\ Hold(j)' <=> Hold(j)
        /\ Ready(j)' <=> Ready(j)
        /\ Cell(station[j])' = Cell(station[j])
  BY <1>1 DEF IsMove, Behind, BranchAt, Fresh, NotStarted, Hold, Ready, Cell
<1>9. station'[k] = u
  BY <1>1, <1>2
<1>10. Cell(station[k])' = Cell(u)
  BY <1>9 DEF Cell
<1>11. /\ Hold(k)' /\ Fresh(k)' /\ (IsMove(k)' <=> i.op = "MOVE")
       /\ Behind(k)' <=> i.target # None /\ waitOn[i.double][i.target] \in Busy
       /\ BranchAt(k)' <=> i.op \in Branches
  BY <1>4, <1>9 DEF Hold, Fresh, NotStarted, IsMove, Behind, BranchAt
<1>12. \A j \in Stations : \A r \in Registers :
         /\ Writer(j, r)' <=> IF j = k THEN WritesRegister(i, r) ELSE Writer(j, r)
         /\ Targets(j, r)' <=> IF j = k THEN i.target = r ELSE Targets(j, r)
  BY <1>1, <1>4, <1>9 DEF Writer, Targets
<1>13. \A j \in Stations : \A c \in Word :
         /\ StoreAt(j, c)' <=> IF j = k THEN i.op = "S" /\ c = Cell(u) ELSE StoreAt(j, c)
         /\ AccessAt(j, c)' <=> IF j = k THEN Accesses(i) /\ c = Cell(u) ELSE AccessAt(j, c)
  BY <1>4, <1>8, <1>9, <1>10 DEF StoreAt, AccessAt
<1>14. \A r \in Registers :
         /\ Pending(r)' <=> Pending(r)
         /\ Value(r)' = Value(r)
         /\ i.target = r => ~Pending(r)
  BY <1>1, NamesAre DEF Pending, Value, WrittenNext
<1> QED
  BY <1>2, <1>4, <1>5, <1>7, <1>8, <1>9, <1>10, <1>11, <1>12, <1>13, <1>14

\* It takes the lock of its target if it is free; MOVE takes the one of the other file.
LEMMA TakenLocks ==
  ASSUME Types, NEW k \in Stations, NEW i, Taken(k, i)
  PROVE  \A r \in Registers :
           /\ Lock(r)' = IF i.op # "MOVE" /\ i.target = r /\ Lock(r) = Nobody THEN k
                         ELSE Lock(r)
           /\ Other(r)' = IF i.op = "MOVE" /\ i.target = r /\ Other(r) = Nobody THEN k
                          ELSE Other(r)
           /\ i.target = r => waitOn[i.double][r] = IF i.op = "MOVE" THEN Other(r) ELSE Lock(r)
<1>1. /\ Fit(i) /\ i.double \in BOOLEAN /\ i.op \in OpCodes /\ i.op # "NOOP"
      /\ waitOn' = IF i.target # None /\ FreeRegister(i.double, i.target)
                     THEN [waitOn EXCEPT ![i.double][i.target] = k] ELSE waitOn
  BY InsAre DEF Taken, Fit
<1>2. k \in Stations \cup {Nobody} /\ \A r \in Registers : r # None
  BY NamesAre
<1>3. CASE i.target = None
  <2>1. waitOn' = waitOn
    BY <1>1, <1>3
  <2> QED
    BY <1>2, <1>3, <2>1, SameLocks
<1>4. CASE i.target # None /\ i.op # "MOVE"
  <2>1. i.target \in File(i.double)
    BY <1>1, <1>4 DEF Fit, OpCodes
  <2>2. /\ waitOn[i.double][i.target] = Lock(i.target) /\ i.target \in Registers
        /\ FreeRegister(i.double, i.target) <=> Lock(i.target) = Nobody
    BY <1>1, <2>1, FreeIs
  <2>3. CASE Lock(i.target) = Nobody
    <3>1. waitOn' = [waitOn EXCEPT ![i.double][i.target] = k]
      BY <1>1, <1>4, <2>2, <2>3
    <3>2. /\ Lock(i.target)' = k
          /\ \A s \in Registers : s # i.target => Lock(s)' = Lock(s)
          /\ \A s \in Registers : Other(s)' = Other(s)
      BY <1>1, <1>2, <2>1, <3>1, LockPut
    <3> QED
      BY <1>4, <2>2, <2>3, <3>2
  <2>4. CASE Lock(i.target) # Nobody
    <3>1. waitOn' = waitOn
      BY <1>1, <2>2, <2>4
    <3> QED
      BY <1>4, <2>2, <2>4, <3>1, SameLocks
  <2> QED
    BY <2>3, <2>4
<1>5. CASE i.target # None /\ i.op = "MOVE"
  <2>1. i.target \in File(~i.double) /\ (~i.double) \in BOOLEAN
    BY <1>1, <1>5 DEF Fit
  <2>2. /\ waitOn[~(~i.double)][i.target] = Other(i.target) /\ i.target \in Registers
    BY <2>1, FreeIs
  <2>3. (~(~i.double)) = i.double
    BY <1>1
  <2>4. /\ waitOn[i.double][i.target] = Other(i.target)
        /\ FreeRegister(i.double, i.target) <=> Other(i.target) = Nobody
    BY <2>2, <2>3 DEF FreeRegister
  <2>5. CASE Other(i.target) = Nobody
    <3>1. waitOn' = [waitOn EXCEPT ![i.double][i.target] = k]
      BY <1>1, <1>5, <2>4, <2>5
    <3>2. /\ Other(i.target)' = k
          /\ \A s \in Registers : s # i.target => Other(s)' = Other(s)
          /\ \A s \in Registers : Lock(s)' = Lock(s)
      BY <1>1, <1>2, <2>1, <3>1, OtherPut
    <3> QED
      BY <1>5, <2>2, <2>4, <2>5, <3>2
  <2>6. CASE Other(i.target) # Nobody
    <3>1. waitOn' = waitOn
      BY <1>1, <2>4, <2>6
    <3> QED
      BY <1>5, <2>2, <2>4, <2>6, <3>1, SameLocks
  <2> QED
    BY <2>5, <2>6
<1> QED
  BY <1>3, <1>4, <1>5

\* What the sequential processor does, seen from the stations.
LEMMA TakenSeq ==
  ASSUME Types, Right, NEW k \in Stations, NEW i, Taken(k, i)
  PROVE  /\ seqCounter' = IF Holds(i, Val(i.source1), Val(i.source2)) THEN i.n
                                                                     ELSE seqCounter + 1
         /\ \A r \in Registers :
              IF WritesRegister(i, r) THEN seqRegisters'[r] = Due(k)'
                                      ELSE seqRegisters'[r] = seqRegisters[r]
         /\ i.op = "DIV" => Divides(Val(i.source1), Val(i.source2))
         /\ i.op = "S" => seqMem' = [seqMem EXCEPT ![Cell(Assigned(i))] = Val(i.target)]
         /\ i.op # "S" => seqMem' = seqMem
         /\ \A j \in Stations : j # k /\ station[j].busy => Due(j)' = Due(j)
         /\ \A j \in Stations : j # k /\ station[j].busy /\ station[j].ins.op = "S"
              => seqMem'[Cell(station[j])] = seqMem[Cell(station[j])]
<1>1. /\ station'[k].ins = i
      /\ station'[k].x = Val(i.source1) /\ station'[k].y = Val(i.source2)
      /\ Cell(station[k])' = Cell(Assigned(i))
      /\ Cell(Assigned(i)) = Sum(i.n, Val(i.source1)) /\ Cell(Assigned(i)) \in Word
      /\ \A j \in Stations : j # k => /\ station'[j] = station[j]
                                      /\ Cell(station[j])' = Cell(station[j])
  BY TakenUnits
<1>2. /\ Fit(i) /\ Sequential!Execute /\ i = decode(vprogram[seqCounter])
      /\ ~MisreadsBase(vprogram[seqCounter])
  BY DEF Taken
<1>3. /\ seqCounter' = IF Holds(i, Val(i.source1), Val(i.source2)) THEN i.n
                                                                  ELSE seqCounter + 1
      /\ \A r \in Registers : ~WritesRegister(i, r) => seqRegisters'[r] = seqRegisters[r]
      /\ i.op \in Arithmetic =>
           /\ i.op = "DIV" => Divides(Val(i.source1), Val(i.source2))
           /\ seqRegisters'[i.target] = Compute(i.op, Val(i.source1), Val(i.source2))
      /\ i.op = "LI" => seqRegisters'[i.target] = i.n % W
      /\ i.op = "MOVE" => seqRegisters'[i.target] = Val(i.source1)
      /\ i.op = "L" =>
           seqRegisters'[i.target] = Loaded(seqMem[Sum(i.n, Val(i.source1))])
      /\ i.op = "S" =>
           seqMem' = [seqMem EXCEPT ![Sum(i.n, Val(i.source1))] = Val(i.target)]
      /\ i.op # "S" => seqMem' = seqMem
  BY <1>2, SeqIssue
<1>4. ASSUME NEW r \in Registers, WritesRegister(i, r) PROVE seqRegisters'[r] = Due(k)'
  <2>1. i.target = r /\ r # None /\ i.op # "S" /\ i.op \in OpCodes
    BY <1>2, <1>4, InsAre DEF WritesRegister, Fit
  <2>2. i.op \in Arithmetic \cup {"LI", "L", "MOVE"}
    BY <1>2, <2>1 DEF Fit, OpCodes
  <2>3. Due(k)' = IF i.op \in Arithmetic THEN Compute(i.op, Val(i.source1), Val(i.source2))
                  ELSE IF i.op = "LI" THEN i.n % W
                  ELSE IF i.op = "L" THEN Loaded(seqMem'[Cell(Assigned(i))]) ELSE 0
    BY <1>1 DEF Due
  <2>4. i.op = "MOVE" => Val(i.source1) = 0
    BY OrderlyIs
  <2> QED
    BY <1>1, <1>3, <2>1, <2>2, <2>3, <2>4 DEF Arithmetic
<1>5. ASSUME NEW j \in Stations, j # k, station[j].busy, Accesses(station[j].ins)
      PROVE  seqMem'[Cell(station[j])] = seqMem[Cell(station[j])]
  <2>1. i.op = "S" => Cell(station[j]) # Cell(Assigned(i))
    BY <1>5, OrderlyIs DEF Accesses
  <2>2. seqMem \in Cells
    BY TypesAre
  <2>3. Cell(station[j]) \in Word
    BY TypesAre, UnitsAre, InsAre, WordIsInt, SumIs DEF Cell
  <2> QED
    BY <1>1, <1>3, <2>1, <2>2, <2>3 DEF Cells
<1>6. ASSUME NEW j \in Stations, j # k, station[j].busy PROVE Due(j)' = Due(j)
  <2>1. station[j].ins.op = "L" => seqMem'[Cell(station[j])] = seqMem[Cell(station[j])]
    BY <1>5, <1>6 DEF Accesses
  <2> QED
    BY <1>1, <1>6, <2>1 DEF Due
<1>7. i.op = "DIV" => Divides(Val(i.source1), Val(i.source2))
  BY <1>3 DEF Arithmetic
<1>8. \A j \in Stations : j # k /\ station[j].busy /\ station[j].ins.op = "S"
        => seqMem'[Cell(station[j])] = seqMem[Cell(station[j])]
  BY <1>5 DEF Accesses
<1> QED
  BY <1>1, <1>3, <1>4, <1>6, <1>7, <1>8

LEMMA TakenKeeps ==
  ASSUME Types, Right, NEW k \in Stations, NEW i, Taken(k, i)
  PROVE  Holding' /\ Stalling' /\ Ending' /\ Mems'
<1>1. /\ turn = Issues /\ turn' = WritesBack /\ mem' = mem /\ vprogram' = vprogram
      /\ Fit(i) /\ ~bStallDueToBranch /\ seqCounter \in Lines /\ ~station[k].busy
      /\ programCounter' = seqCounter + 1 /\ ~triggerend'
      /\ bStallDueToBranch' = Branching(i) /\ (bStallIF' => Branching(i))
      /\ stallDueToRSid' = {}
  BY DEF Taken
<1>2. /\ \A j \in Stations : j # k =>
           /\ station'[j] = station[j]
           /\ BranchAt(j)' <=> BranchAt(j)
           /\ Hold(j)' <=> Hold(j)
      /\ station'[k].busy /\ station'[k].ins = i
      /\ station'[k].x = Val(i.source1) /\ station'[k].y = Val(i.source2)
      /\ BranchAt(k)' <=> i.op \in Branches
      /\ Cell(Assigned(i)) \in Word
      /\ \A j \in Stations : \A c \in Word :
           /\ StoreAt(j, c)' <=> IF j = k THEN i.op = "S" /\ c = Cell(Assigned(i))
                                          ELSE StoreAt(j, c)
           /\ AccessAt(j, c)' <=> IF j = k THEN Accesses(i) /\ c = Cell(Assigned(i))
                                           ELSE AccessAt(j, c)
  BY TakenUnits
<1>3. /\ seqCounter' = IF Holds(i, Val(i.source1), Val(i.source2)) THEN i.n
                                                                  ELSE seqCounter + 1
      /\ i.op = "S" => seqMem' = [seqMem EXCEPT ![Cell(Assigned(i))] = Val(i.target)]
      /\ i.op # "S" => seqMem' = seqMem
  BY TakenSeq
<1>4. Branching(i) <=> i.op \in Branches
  BY OrderlyIs DEF Branching
<1>5. Holding'
  BY <1>1, <1>2, AtIssue DEF Holding
<1>6. Ending'
  BY <1>1, <1>2 DEF Ending, WritesBack, Issues
<1>7. Stalling'
  <2>1. \A j \in Stations : BranchAt(j)' <=> j = k /\ i.op \in Branches
    BY <1>1, <1>2 DEF Right, Stalling
  <2>2. programCounter' \in 1 .. Size /\ Size \in Nat
    BY <1>1, WordsAre DEF Lines
  <2>3. i.op \notin Branches => /\ ~bStallIF' /\ seqCounter' = programCounter'
                                /\ NextLine' = seqCounter'
    <3>1. i.op \notin Branches => ~Holds(i, Val(i.source1), Val(i.source2))
      BY DEF Holds, Branches
    <3>2. i.op \notin Branches => ~bStallIF' /\ seqCounter' = programCounter'
      BY <1>1, <1>3, <1>4, <3>1
    <3> QED
      BY <2>2, <3>2 DEF NextLine
  <2>4. i.op \in Branches => ~i.double
    BY OrderlyIs
  <2> QED
    BY <1>1, <1>2, <1>3, <1>4, <2>1, <2>2, <2>3, <2>4 DEF Stalling
<1>8. Mems'
  <2>1. ASSUME NEW c \in Word, ~(\E j \in Stations : StoreAt(j, c)')
        PROVE  mem'[c] = seqMem'[c]
    <3>1. \A j \in Stations : ~StoreAt(j, c)
      BY <1>1, <1>2, <2>1 DEF StoreAt
    <3>2. mem[c] = seqMem[c]
      BY <3>1 DEF Right, Mems
    <3>3. seqMem \in Cells /\ ~(i.op = "S" /\ c = Cell(Assigned(i)))
      BY <1>2, <2>1, TypesAre
    <3> QED
      BY <1>1, <1>3, <3>2, <3>3 DEF Cells
  <2>2. ASSUME NEW a \in Stations, NEW j \in Stations, NEW c \in Word, a # j,
               StoreAt(a, c)', AccessAt(j, c)'
        PROVE  FALSE
    <3>1. \A b \in Stations : AccessAt(b, c) =>
            station[b].busy /\ Accesses(station[b].ins) /\ Cell(station[b]) = c
      BY DEF AccessAt
    <3>2. \A b \in Stations : StoreAt(b, c) => AccessAt(b, c) /\ station[b].ins.op = "S"
      BY DEF StoreAt, AccessAt, Accesses
    <3>6. \A b \in Stations :
            station[b].busy /\ Accesses(station[b].ins) /\ Accesses(i)
              /\ "S" \in {i.op, station[b].ins.op}
            => Cell(station[b]) # Cell(Assigned(i))
      BY OrderlyIs
    <3>3. CASE a = k
      <4>1. i.op = "S" /\ c = Cell(Assigned(i)) /\ AccessAt(j, c)
        BY <1>2, <2>2, <3>3
      <4> QED
        BY <3>1, <3>6, <4>1 DEF Accesses
    <3>4. CASE j = k
      <4>1. Accesses(i) /\ c = Cell(Assigned(i)) /\ StoreAt(a, c)
        BY <1>2, <2>2, <3>4
      <4> QED
        BY <3>1, <3>2, <3>6, <4>1
    <3>5. CASE a # k /\ j # k
      BY <1>2, <2>2, <3>5 DEF Right, Mems
    <3> QED
      BY <3>3, <3>4, <3>5
  <2> QED
    BY <2>1, <2>2 DEF Mems
<1> QED
  BY <1>5, <1>6, <1>7, <1>8

LEMMA TakenLocksRight ==
  ASSUME Types, Right, NEW k \in Stations, NEW i, Taken(k, i), NEW r \in Registers
  PROVE  Locks(r)'
<1>1. /\ \A j \in Stations : j # k =>
           /\ IsMove(j)' <=> IsMove(j)
           /\ Behind(j)' <=> Behind(j)
           /\ Fresh(j)' <=> Fresh(j)
      /\ Fresh(k)' /\ (IsMove(k)' <=> i.op = "MOVE")
      /\ Behind(k)' <=> i.target # None /\ waitOn[i.double][i.target] \in Busy
      /\ \A j \in Stations :
           /\ Writer(j, r)' <=> IF j = k THEN WritesRegister(i, r) ELSE Writer(j, r)
           /\ Targets(j, r)' <=> IF j = k THEN i.target = r ELSE Targets(j, r)
      /\ Pending(r)' <=> Pending(r)
      /\ i.target = r => ~Pending(r)
  BY TakenUnits
<1>2. /\ Lock(r)' = IF i.op # "MOVE" /\ i.target = r /\ Lock(r) = Nobody THEN k
                    ELSE Lock(r)
      /\ i.target = r => waitOn[i.double][r] = IF i.op = "MOVE" THEN Other(r) ELSE Lock(r)
  BY TakenLocks
<1>3. Locks(r) /\ (Lock(r) # Nobody => Lock(r) \in Stations) /\ r # None
  BY LockIs, NamesAre DEF Right
<1>4. ~station[k].busy /\ k # Nobody /\ \A j \in Stations : j # Nobody
  BY StationIs DEF Taken
<1>5. ~Writer(k, r) /\ ~Targets(k, r)
  BY <1>4 DEF Writer, Targets
<1>6. \A j \in Stations : Writer(j, r) => Targets(j, r)
  BY DEF Writer, Targets, WritesRegister
<1>7. CASE i.target # r
  <2>1. ~WritesRegister(i, r) /\ Lock(r)' = Lock(r) /\ Lock(r) \in Stations \cup {Nobody}
    BY <1>2, <1>3, <1>7 DEF WritesRegister
  <2>2. \A j \in Stations : (Writer(j, r)' <=> Writer(j, r)) /\ (Targets(j, r)' <=> Targets(j, r))
    BY <1>1, <1>5, <1>7, <2>1
  <2>3. Lock(r) # k \/ (Pending(r) /\ Lock(r) = k)
    BY <1>3, <1>4, <1>5 DEF Locks
  <2> QED
    BY <1>1, <1>3, <1>4, <1>5, <1>6, <2>1, <2>2, <2>3 DEF Locks
<1>8. CASE i.target = r /\ i.op = "MOVE"
  <2>1. \A j \in Stations : ~Targets(j, r)
    <3> SUFFICES ASSUME NEW j \in Stations, Targets(j, r) PROVE FALSE
      OBVIOUS
    <3>1. station[j].busy /\ station[j].ins.target = r
      BY DEF Targets
    <3>2. WritesRegister(i, r)
      BY <1>3, <1>8 DEF WritesRegister
    <3>3. station[j].ins.op # "S"
      BY <1>8, <3>1, <3>2, OrderlyIs
    <3>4. Writer(j, r)
      BY <1>3, <3>1, <3>3 DEF Writer, WritesRegister
    <3> QED
      BY <1>8, <3>4, OrderlyIs
  <2>2. Lock(r) = Nobody /\ ~Pending(r)
    BY <1>1, <1>3, <1>8, <2>1 DEF Locks
  <2>3. Lock(r)' = Nobody
    BY <1>2, <1>8, <2>2
  <2> QED
    BY <1>1, <1>6, <1>8, <2>1, <2>2, <2>3 DEF Locks
<1>9. CASE i.target = r /\ i.op # "MOVE"
  <2>1. \A j \in Stations : Writer(j, r) => Lock(r) = j /\ ~IsMove(j) /\ j # k
    BY <1>5, <1>9, OrderlyIs
  <2>2. ~Pending(r)
    BY <1>1, <1>9
  <2>3. CASE Lock(r) = Nobody
    <3>1. Lock(r)' = k /\ \A j \in Stations : ~Writer(j, r)
      BY <1>2, <1>4, <1>9, <2>1, <2>3
    <3> QED
      BY <1>1, <1>4, <1>9, <2>2, <3>1 DEF Locks
  <2>4. CASE Lock(r) # Nobody
    <3>1. Lock(r)' = Lock(r) /\ Lock(r) \in Stations
      BY <1>2, <1>3, <2>4
    <3>2. Targets(Lock(r), r) /\ ~IsMove(Lock(r)) /\ Lock(r) # k
      BY <1>3, <1>5, <2>2, <2>4 DEF Locks
    <3>3. Lock(r) \in Busy
      BY <3>1, <3>2 DEF Targets, Busy
    <3>4. Behind(k)'
      BY <1>1, <1>2, <1>3, <1>9, <3>3
    <3> QED
      BY <1>1, <1>9, <2>1, <2>2, <3>1, <3>2, <3>4 DEF Locks
  <2> QED
    BY <2>3, <2>4
<1> QED
  BY <1>7, <1>8, <1>9

LEMMA TakenAlone ==
  ASSUME Types, Right, NEW k \in Stations, NEW i, Taken(k, i), NEW r \in Registers,
         NEW j \in Stations
  PROVE  Alone(j, r)'
<1>1. /\ j # k => /\ station'[j] = station[j]
                  /\ IsMove(j)' <=> IsMove(j)
                  /\ Behind(j)' <=> Behind(j)
      /\ station'[k].ins = i /\ station'[k].x = Val(i.source1)
      /\ IsMove(k)' <=> i.op = "MOVE"
      /\ Behind(k)' <=> i.target # None /\ waitOn[i.double][i.target] \in Busy
      /\ \A a \in Stations :
           /\ Writer(a, r)' <=> IF a = k THEN WritesRegister(i, r) ELSE Writer(a, r)
           /\ Targets(a, r)' <=> IF a = k THEN i.target = r ELSE Targets(a, r)
      /\ Pending(r)' <=> Pending(r)
      /\ i.target = r => ~Pending(r)
  BY TakenUnits
<1>2. /\ Lock(r)' = IF i.op # "MOVE" /\ i.target = r /\ Lock(r) = Nobody THEN k
                    ELSE Lock(r)
      /\ Other(r)' = IF i.op = "MOVE" /\ i.target = r /\ Other(r) = Nobody THEN k
                     ELSE Other(r)
      /\ i.target = r => waitOn[i.double][r] = IF i.op = "MOVE" THEN Other(r) ELSE Lock(r)
  BY TakenLocks
<1>3. Alone(j, r) /\ Locks(r) /\ (Lock(r) # Nobody => Lock(r) \in Stations) /\ r # None
  BY LockIs, NamesAre DEF Right
<1>4. CASE j # k
  <2> SUFFICES ASSUME Writer(j, r), IsMove(j) PROVE Alone(j, r)'
    BY <1>1, <1>4 DEF Alone
  <2>1. i.target # r
    BY OrderlyIs
  <2> QED
    BY <1>1, <1>2, <1>3, <1>4, <2>1 DEF Alone
<1>5. CASE j = k
  <2> SUFFICES ASSUME WritesRegister(i, r), i.op = "MOVE" PROVE Alone(k, r)'
    BY <1>1, <1>5 DEF Alone
  <2>1. i.target = r
    BY DEF WritesRegister
  <2>2. \A a \in Stations : ~Targets(a, r)
    <3> SUFFICES ASSUME NEW a \in Stations, Targets(a, r) PROVE FALSE
      OBVIOUS
    <3>1. station[a].busy /\ station[a].ins.target = r
      BY DEF Targets
    <3>2. station[a].ins.op # "S"
      BY <2>1, <3>1, OrderlyIs
    <3>3. Writer(a, r)
      BY <1>3, <3>1, <3>2 DEF Writer, WritesRegister
    <3> QED
      BY <2>1, <3>3, OrderlyIs
  <2>3. Lock(r) = Nobody /\ ~Pending(r)
    BY <1>1, <1>3, <2>1, <2>2 DEF Locks
  <2>4. /\ Val(i.source1) = 0
        /\ i.double => FreeRegister(TRUE, i.target)
    BY OrderlyIs
  <2>5. i.double => Other(r) = Nobody
    <3>1. i.double \in BOOLEAN
      BY InsAre DEF Taken, Fit
    <3> QED
      BY <1>2, <2>1, <2>4, <3>1 DEF FreeRegister
  <2>6. i.double => ~Behind(k)'
    <3>1. Nobody \notin Busy
      BY StationIs DEF Busy
    <3> QED
      BY <1>1, <1>2, <2>1, <2>5, <3>1
  <2> QED
    BY <1>1, <1>2, <2>1, <2>2, <2>3, <2>4, <2>5, <2>6 DEF Alone
<1> QED
  BY <1>4, <1>5

LEMMA TakenRegs ==
  ASSUME Types, Right, NEW k \in Stations, NEW i, Taken(k, i), NEW r \in Registers
  PROVE  Regs(r)'
<1>1. /\ \A j \in Stations :
           Writer(j, r)' <=> IF j = k THEN WritesRegister(i, r) ELSE Writer(j, r)
      /\ Value(r)' = Value(r)
  BY TakenUnits
<1>2. Lock(r)' = IF i.op # "MOVE" /\ i.target = r /\ Lock(r) = Nobody THEN k ELSE Lock(r)
  BY TakenLocks
<1>3. /\ IF WritesRegister(i, r) THEN seqRegisters'[r] = Due(k)'
                                 ELSE seqRegisters'[r] = seqRegisters[r]
      /\ \A j \in Stations : j # k /\ station[j].busy => Due(j)' = Due(j)
  BY TakenSeq
<1>4. Regs(r) /\ ~station[k].busy /\ \A j \in Stations : j # Nobody
  BY StationIs DEF Taken, Right
<1>5. ~Writer(k, r) /\ \A j \in Stations : Writer(j, r) => station[j].busy
  BY <1>4 DEF Writer
<1>6. CASE WritesRegister(i, r)
  <2>1. \A j \in Stations : Writer(j, r) => Lock(r) = j
    BY <1>6, OrderlyIs DEF WritesRegister
  <2> QED
    BY <1>1, <1>2, <1>3, <1>4, <1>5, <1>6, <2>1 DEF Regs
<1>7. CASE ~WritesRegister(i, r)
  <2>1. \A j \in Stations : Writer(j, r)' <=> Writer(j, r)
    BY <1>1, <1>5, <1>7
  <2> QED
    BY <1>2, <1>3, <1>4, <1>5, <1>7, <2>1, <1>1 DEF Regs
<1> QED
  BY <1>6, <1>7

LEMMA TakenData ==
  ASSUME Types, Right, NEW k \in Stations, NEW i, Taken(k, i), NEW j \in Stations
  PROVE  Data(j)'
<1>1. /\ j # k => /\ station'[j] = station[j]
                  /\ Fresh(j)' <=> Fresh(j)
                  /\ Cell(station[j])' = Cell(station[j])
      /\ station'[k].busy /\ station'[k].ins = i /\ ~station'[k].waiting
      /\ station'[k].x = Val(i.source1) /\ station'[k].y = Val(i.source2)
      /\ Fresh(k)'
      /\ \A r \in Registers : Pending(r)' <=> Pending(r)
  BY TakenUnits
<1>2. /\ i.op = "DIV" => Divides(Val(i.source1), Val(i.source2))
      /\ j # k /\ station[j].busy => Due(j)' = Due(j)
      /\ j # k /\ station[j].busy /\ station[j].ins.op = "S"
           => seqMem'[Cell(station[j])] = seqMem[Cell(station[j])]
  BY TakenSeq
<1>3. \A r \in Registers : Lock(r) # Nobody => Lock(r)' = Lock(r)
  BY TakenLocks
<1>4. registers' = registers /\ j # Nobody
  BY StationIs DEF Taken
<1>5. CASE j = k
  BY <1>1, <1>2, <1>5 DEF Data
<1>6. CASE j # k
  <2>1. Data(j) /\ station'[j] = station[j]
    BY <1>1, <1>6 DEF Right
  <2>2. PICK s : s = station[j].ins.target
    OBVIOUS
  <2>3. station[j].busy /\ station[j].ins.op = "S" => s \in Registers
    <3>1. station[j].busy => Fit(station[j].ins)
      BY DEF Types, Shape, Shaped
    <3> QED
      BY <2>2, <3>1, NamesAre DEF Fit, File
  <2>4. s \in Registers => /\ Pending(s)' <=> Pending(s)
                           /\ Lock(s) = j => Lock(s)' = j
    BY <1>1, <1>3, <1>4
  <2>5. s = station'[j].ins.target
    BY <2>1, <2>2
  <2> QED
    BY <1>1, <1>2, <1>4, <1>6, <2>1, <2>2, <2>3, <2>4, <2>5 DEF Data
<1> QED
  BY <1>5, <1>6

\* An instruction before it gets what it needs: the new one writes no register that
\* is needed, unless the other one is ready.
LEMMA TakenGets ==
  ASSUME Types, Right, NEW k \in Stations, NEW i, Taken(k, i), NEW j \in Stations, j # k,
         station[j].busy, NEW r \in Names, NEW v \in BOOLEAN, NEW x, Gets(j, r, v, x),
         WritesRegister(i, r) => v /\ Ready(j)
  PROVE  Gets(j, r, v, x)'
<1>1. CASE r = None
  BY <1>1 DEF Gets
<1>2. CASE r # None
  <2>1. r \in Registers
    BY <1>2 DEF Names
  <2>2. /\ \A w \in Stations : w # k => (IsMove(w)' <=> IsMove(w))
        /\ Ready(j)' <=> Ready(j)
        /\ Hold(j)' <=> Hold(j)
        /\ Hold(k)' /\ Fresh(k)'
        /\ \A w \in Stations :
             Writer(w, r)' <=> IF w = k THEN WritesRegister(i, r) ELSE Writer(w, r)
        /\ Pending(r)' <=> Pending(r)
        /\ Value(r)' = Value(r)
    BY <2>1, TakenUnits
  <2>3. Lock(r) # Nobody => Lock(r)' = Lock(r)
    BY <2>1, TakenLocks
  <2>4. \A w \in Stations : w # k /\ station[w].busy => Due(w)' = Due(w)
    BY TakenSeq
  <2>5. /\ ~Passed(j)' /\ ~Hold(j) /\ turn' = WritesBack
        /\ Gets(j, r, TRUE, x) => /\ Value(r) = x
                                  /\ \A w \in Stations : Writer(w, r) => w = j
    BY <2>1, AtIssue DEF Taken
  <2>6. ~station[k].busy /\ \A w \in Stations : w # Nobody
    BY StationIs DEF Taken
  <2>7. \A w \in Stations : Writer(w, r) => station[w].busy /\ w # k
    BY <2>6 DEF Writer
  <2>8. CASE v
    <3>1. Value(r) = x /\ \A w \in Stations : Writer(w, r) => w = j
      BY <2>5, <2>8
    <3>2. \A w \in Stations : Writer(w, r)' /\ w # j => w = k /\ Ready(j)
      BY <2>2, <2>7, <3>1
    <3> QED
      BY <1>2, <2>2, <2>5, <2>8, <3>1, <3>2 DEF Gets
  <2>9. CASE ~v
    <3>1. \A w \in Stations : Writer(w, r)' <=> Writer(w, r)
      BY <2>2, <2>7, <2>9
    <3>2. CASE Value(r) = x /\ \A w \in Stations : Writer(w, r) => w = j
      BY <1>2, <2>2, <2>5, <2>9, <3>1, <3>2 DEF Gets
    <3>3. ASSUME NEW w \in Stations, w # j, Lock(r) = w, Writer(w, r), ~IsMove(w), Due(w) = x,
                 ~Pending(r), \A a \in Stations : Writer(a, r) => a \in {j, w}
          PROVE  Gets(j, r, v, x)'
      <4>1. Lock(r)' = w /\ ~IsMove(w)' /\ Due(w)' = x /\ ~Pending(r)'
        BY <2>2, <2>3, <2>4, <2>6, <2>7, <3>3
      <4> QED
        BY <1>2, <2>9, <3>1, <3>3, <4>1 DEF Gets
    <3> QED
      BY <1>2, <2>9, <3>2, <3>3 DEF Gets
  <2> QED
    BY <2>8, <2>9
<1> QED
  BY <1>1, <1>2

\* The new one gets what it needs: there is no writer, or one that has the lock.
LEMMA TakenOwn ==
  ASSUME Types, Right, NEW k \in Stations, NEW i, Taken(k, i), NEW r \in Names,
         r \in {i.source1, i.source2, i.target}, NEW v \in BOOLEAN,
         v /\ r # None => Lock(r) = Nobody, NEW x, x = Val(r)
  PROVE  Gets(k, r, v, x)'
<1>1. CASE r = None
  BY <1>1 DEF Gets, Val
<1>2. CASE r # None
  <2>1. r \in Registers
    BY <1>2 DEF Names
  <2>2. /\ \A w \in Stations : w # k => (IsMove(w)' <=> IsMove(w))
        /\ \A w \in Stations :
             Writer(w, r)' <=> IF w = k THEN WritesRegister(i, r) ELSE Writer(w, r)
        /\ Pending(r)' <=> Pending(r)
        /\ Value(r)' = Value(r)
    BY <2>1, TakenUnits
  <2>3. Lock(r) # Nobody => Lock(r)' = Lock(r)
    BY <2>1, TakenLocks
  <2>4. \A w \in Stations : w # k /\ station[w].busy => Due(w)' = Due(w)
    BY TakenSeq
  <2>5. turn' = WritesBack /\ ~station[k].busy /\ \A w \in Stations : w # Nobody
    BY StationIs DEF Taken
  <2>6. \A w \in Stations : Writer(w, r) => station[w].busy /\ w # k
    BY <2>5 DEF Writer
  <2>7. \A w \in Stations : Writer(w, r) => Lock(r) = w /\ ~IsMove(w)
    BY <2>1, OrderlyIs
  <2>8. Regs(r) /\ Locks(r)
    BY <2>1 DEF Right
  <2>9. x = seqRegisters[r]
    BY <1>2 DEF Val
  <2>11. CASE \A w \in Stations : ~Writer(w, r)
    <3>1. Value(r)' = x /\ \A w \in Stations : Writer(w, r)' => w = k
      BY <2>2, <2>8, <2>9, <2>11 DEF Regs
    <3> QED
      BY <1>2, <2>5, <3>1 DEF Gets
  <2>12. ASSUME NEW w \in Stations, Writer(w, r) PROVE Gets(k, r, v, x)'
    <3>1. Lock(r) = w /\ w # k /\ ~IsMove(w) /\ w # Nobody /\ ~v
      BY <1>2, <2>5, <2>6, <2>7, <2>12
    <3>2. \A a \in Stations : Writer(a, r) => a = w
      BY <2>7, <3>1
    <3>3. Due(w) = x /\ ~Pending(r)
      BY <2>8, <2>9, <2>12, <3>1, <3>2 DEF Regs, Locks
    <3>4. /\ Lock(r)' = w /\ ~IsMove(w)' /\ Due(w)' = x /\ ~Pending(r)' /\ Writer(w, r)'
          /\ \A a \in Stations : Writer(a, r)' => a \in {k, w}
      BY <2>2, <2>3, <2>4, <2>6, <2>12, <3>1, <3>2, <3>3
    <3> QED
      BY <1>2, <3>1, <3>4 DEF Gets
  <2> QED
    BY <2>11, <2>12
<1> QED
  BY <1>1, <1>2

LEMMA TakenOperand ==
  ASSUME Types, Right, NEW k \in Stations, NEW i, Taken(k, i), NEW j \in Stations
  PROVE  Operand(j)'
<1>1. /\ j # k => /\ station'[j] = station[j]
                  /\ Fresh(j)' <=> Fresh(j)
                  /\ Cell(station[j])' = Cell(station[j])
      /\ station'[k].ins = i
      /\ station'[k].x = Val(i.source1) /\ station'[k].y = Val(i.source2)
      /\ station'[k].vj = FreeRegister(i.double, i.source1)
      /\ station'[k].vk = FreeRegister(i.double, i.source2)
      /\ Cell(station[k])' = Cell(Assigned(i)) /\ Cell(Assigned(i)) \in Word
  BY TakenUnits
<1>2. /\ i.op = "S" => seqMem' = [seqMem EXCEPT ![Cell(Assigned(i))] = Val(i.target)]
      /\ j # k /\ station[j].busy /\ station[j].ins.op = "S"
           => seqMem'[Cell(station[j])] = seqMem[Cell(station[j])]
  BY TakenSeq
<1>3. Fit(i) /\ i \in Instruction
  BY DEF Taken, Fit
<1>4. CASE j # k
  <2> SUFFICES ASSUME station[j].busy, Fresh(j), NEW r \in Names, NEW v \in BOOLEAN,
                      NEW x \in Word \cup {Blank}, Needs(j, r, v, x)'
               PROVE  Gets(j, r, v, x)'
    BY <1>1, <1>4 DEF Operand
  <2>1. Needs(j, r, v, x)
    BY <1>1, <1>2, <1>4 DEF Needs
  <2>2. Gets(j, r, v, x)
    BY <2>1 DEF Right, Operand
  <2>3. WritesRegister(i, r) => v /\ Ready(j)
    <3> SUFFICES ASSUME WritesRegister(i, r) PROVE v /\ Ready(j)
      OBVIOUS
    <3>1. i.target = r /\ i.target # None
      BY DEF WritesRegister
    <3>2. ~(station[j].ins.op = "S" /\ r = station[j].ins.target)
      <4>1. \A m \in Stations :
              station[m].busy /\ station[m].ins.op = "S"
                /\ WritesRegister(i, station[m].ins.target) => ~Fresh(m)
        BY OrderlyIs
      <4> QED BY <4>1
    <3>3. r \in {station[j].ins.source1, station[j].ins.source2}
      BY <2>1, <3>2 DEF Needs
    <3>4. ~Accesses(station[j].ins) /\ Ready(j)
      BY <3>1, <3>3, OrderlyIs
    <3> QED
      BY <2>1, <3>2, <3>4 DEF Needs, Ready
  <2> QED
    BY <1>4, <2>2, <2>3, TakenGets
<1>5. CASE j = k
  <2> SUFFICES ASSUME NEW r \in Names, NEW v \in BOOLEAN, NEW x, Needs(k, r, v, x)'
               PROVE  Gets(k, r, v, x)'
    BY <1>5 DEF Operand
  <2>1. \/ /\ r = i.source1 /\ x = Val(i.source1)
           /\ v = (FreeRegister(i.double, i.source1) /\ ~Accesses(i))
        \/ /\ r = i.source2 /\ x = Val(i.source2)
           /\ v = (FreeRegister(i.double, i.source2) /\ ~Accesses(i))
        \/ i.op = "S" /\ r = i.target /\ v = FALSE /\ x = seqMem'[Cell(Assigned(i))]
    BY <1>1 DEF Needs
  <2>2. r \in {i.source1, i.source2, i.target} /\ x = Val(r)
    <3>1. i.op = "S" => seqMem'[Cell(Assigned(i))] = Val(i.target)
      BY <1>1, <1>2, TypesAre DEF Cells
    <3> QED
      BY <2>1, <3>1
  <2>3. v /\ r # None => Lock(r) = Nobody
    BY <1>3, <2>1, SourceIs
  <2> QED
    BY <2>2, <2>3, TakenOwn
<1> QED
  BY <1>4, <1>5

LEMMA TakenRight ==
  ASSUME Types, Right, NEW k \in Stations, NEW i, Taken(k, i) PROVE Right'
<1>1. Holding' /\ Stalling' /\ Ending' /\ Mems'
  BY TakenKeeps
<1>2. \A r \in Registers : Locks(r)' /\ Regs(r)'
  BY TakenLocksRight, TakenRegs
<1>3. \A r \in Registers : \A j \in Stations : Alone(j, r)'
  BY TakenAlone
<1>4. \A j \in Stations : Data(j)' /\ Operand(j)'
  BY TakenData, TakenOperand
<1> QED
  BY <1>1, <1>2, <1>3, <1>4 DEF Right

LEMMA IssueRight ==
  ASSUME Types, Right, Issue, ~spoiled' PROVE Right'
<1>1. /\ turn = Issues /\ turn' = WritesBack /\ (bStallIF => programCounter # 0)
      /\ UNCHANGED <<vprogram, registers, mem, wbobject>>
  BY DEF Issue
<1>2. CASE bStallDueToBranch
  BY <1>2, WaitsForBranch
<1>3. CASE ~bStallDueToBranch
  <2>1. PICK i : i = IR
    OBVIOUS
  <2>2. /\ programCounter' = NextCounter /\ triggerend' = (triggerend /\ ~Fetches)
        /\ LoadReservationStation(i) /\ Follows(i)
    BY <1>3, <2>1 DEF Issue
  <2>3. i = NoInstruction \/ Fit(i)
    BY <1>1, <2>1, IRIs
  <2>4. CASE EntersIts(i) \/ Misses(i)
    <3>1. PICK k \in Stations : Taken(k, i)
      BY <1>1, <1>3, <2>1, <2>2, <2>4, TakesIt
    <3> QED
      BY <3>1, TakenRight
  <2>5. CASE StallsOn(i)
    BY <1>1, <1>3, <2>1, <2>2, <2>5, StallsRight
  <2>6. CASE Nothing(i)
    BY <1>1, <1>3, <2>1, <2>2, <2>6, NothingRight
  <2> QED
    BY <2>2, <2>3, <2>4, <2>5, <2>6, IssueIs
<1> QED
  BY <1>2, <1>3

-----------------------------------------------------------------------------
(* The theorem.                                                            *)

LEMMA RightInit == Init => Right
<1> SUFFICES ASSUME Init PROVE Right
  OBVIOUS
<1>1. /\ programCounter = 0 /\ registers = [r \in Registers |-> 0]
      /\ waitOn = [double \in BOOLEAN |-> [r \in Names |-> Nobody]]
      /\ station = [k \in Stations |-> Idle] /\ wbobject = NothingToWrite
      /\ bStallIF = FALSE /\ bStallDueToBranch = FALSE /\ stallDueToRSid = {}
      /\ triggerend = FALSE /\ turn = WritesBack
      /\ seqCounter = 0 /\ seqRegisters = registers /\ seqMem = mem
  BY DEF Init
<1>2. \A k \in Stations : ~station[k].busy
  BY <1>1, IdleIs
<1>3. ~wbobject.busy
  BY <1>1 DEF NothingToWrite
<1>4. \A k \in Stations : /\ ~BranchAt(k)
                          /\ \A r : ~Writer(k, r) /\ ~Targets(k, r)
                          /\ \A c : ~StoreAt(k, c)
  BY <1>2 DEF BranchAt, Writer, Targets, StoreAt
<1>5. \A r \in Registers : /\ Lock(r) = Nobody /\ ~Pending(r)
                           /\ Value(r) = seqRegisters[r]
  <2>1. \A r \in Registers : r \in Names /\ (r \in Floats) \in BOOLEAN
    BY NamesAre
  <2> QED
    BY <1>1, <1>3, <2>1 DEF Lock, Pending, Value
<1>6. Holding
  BY <1>2 DEF Holding
<1>7. Stalling
  <2>1. NextLine = seqCounter
    <3>1. ~bStallIF /\ ~(programCounter > Size) /\ programCounter = 0 /\ seqCounter = 0
      BY <1>1, WordsAre
    <3>2. NextLine = programCounter - 0
      BY <3>1, Zenon DEF NextLine
    <3> QED
      BY <3>1, <3>2
  <2> QED
    BY <1>1, <1>4, <2>1 DEF Stalling
<1>8. Ending
  BY <1>1 DEF Ending, WritesBack, Issues
<1>9. Mems
  BY <1>1, <1>4 DEF Mems
<1>10. \A r \in Registers : Locks(r) /\ Regs(r)
  BY <1>4, <1>5 DEF Locks, Regs
<1>11. \A r \in Registers : \A k \in Stations : Alone(k, r)
  BY <1>4 DEF Alone
<1>12. \A k \in Stations : Data(k) /\ Operand(k)
  BY <1>2 DEF Data, Operand
<1> QED
  BY <1>6, <1>7, <1>8, <1>9, <1>10, <1>11, <1>12 DEF Right

LEMMA RightStutters == ASSUME Right, UNCHANGED vars PROVE Right'
<1>1. /\ vprogram' = vprogram /\ programCounter' = programCounter
      /\ registers' = registers /\ mem' = mem /\ waitOn' = waitOn /\ station' = station
      /\ wbobject' = wbobject /\ bStallIF' = bStallIF
      /\ bStallDueToBranch' = bStallDueToBranch /\ stallDueToRSid' = stallDueToRSid
      /\ triggerend' = triggerend /\ turn' = turn /\ seqCounter' = seqCounter
      /\ seqRegisters' = seqRegisters /\ seqMem' = seqMem
  BY DEF vars, machine, stalls, ahead
<1>2. \A r : Lock(r)' = Lock(r) /\ Other(r)' = Other(r)
  BY <1>1 DEF Lock, Other
<1>3. \A r : (Pending(r)' <=> Pending(r)) /\ Value(r)' = Value(r)
  BY <1>1 DEF Pending, Value
<1>4. \A k : /\ IsMove(k)' <=> IsMove(k)
             /\ Behind(k)' <=> Behind(k)
             /\ Fresh(k)' <=> Fresh(k)
             /\ Hold(k)' <=> Hold(k)
             /\ Ready(k)' <=> Ready(k)
             /\ Passed(k)' <=> Passed(k)
             /\ BranchAt(k)' <=> BranchAt(k)
             /\ Due(k)' = Due(k)
             /\ Cell(station[k])' = Cell(station[k])
  BY <1>1 DEF IsMove, Behind, Fresh, NotStarted, Hold, Ready, Passed, BranchAt, Due, Cell
<1>5. \A k, r : (Writer(k, r)' <=> Writer(k, r)) /\ (Targets(k, r)' <=> Targets(k, r))
  BY <1>1 DEF Writer, Targets
<1>6. \A k, c : (StoreAt(k, c)' <=> StoreAt(k, c)) /\ (AccessAt(k, c)' <=> AccessAt(k, c))
  BY <1>1, <1>4 DEF StoreAt, AccessAt
<1>7. Holding' /\ Stalling' /\ Ending' /\ Mems'
  <2>1. NextLine' = NextLine
    BY <1>1 DEF NextLine
  <2> QED
    BY <1>1, <1>4, <1>6, <2>1 DEF Right, Holding, Stalling, Ending, AllDone, Mems
<1>8. ASSUME NEW r \in Registers PROVE Locks(r)' /\ Regs(r)'
  <2>1. Locks(r) /\ Regs(r)
    BY DEF Right
  <2>2. Locks(r)'
    BY <1>2, <1>3, <1>4, <1>5, <2>1 DEF Locks
  <2> QED
    BY <1>1, <1>2, <1>3, <1>4, <1>5, <2>1, <2>2 DEF Regs
<1>9. ASSUME NEW r \in Registers, NEW k \in Stations PROVE Alone(k, r)'
  <2>1. Alone(k, r)
    BY DEF Right
  <2> QED
    BY <1>1, <1>2, <1>3, <1>4, <1>5, <2>1 DEF Alone
<1>10. ASSUME NEW k \in Stations PROVE Data(k)' /\ Operand(k)'
  <2>1. Data(k) /\ Operand(k)
    BY DEF Right
  <2>2. Data(k)'
    BY <1>1, <1>2, <1>3, <1>4, <2>1 DEF Data
  <2>3. \A r, v, x : /\ Needs(k, r, v, x)' <=> Needs(k, r, v, x)
                     /\ Gets(k, r, v, x)' <=> Gets(k, r, v, x)
    BY <1>1, <1>2, <1>3, <1>4, <1>5 DEF Needs, Gets
  <2>4. Operand(k)'
    BY <1>1, <1>4, <2>1, <2>3 DEF Operand
  <2> QED
    BY <2>2, <2>4
<1> QED
  BY <1>7, <1>8, <1>9, <1>10 DEF Right

\* A processor that has mishandled an instruction stays as it is: it is about no
\* other one any more.
LEMMA RightStep ==
  ASSUME Types, spoiled \/ Right, [Next]_vars PROVE spoiled' \/ Right'
<1>1. CASE WriteBackRun
  <2>1. spoiled' = spoiled
    BY <1>1 DEF WriteBackRun
  <2> QED
    BY <1>1, <2>1, WriteBackRight
<1>2. CASE Execute
  <2>1. PICK k \in Stations :
          \/ Held(k) \/ LSExecute(k) \/ IntegerAddExecute(k) \/ IntegerMulExecute(k)
          \/ IntegerDivExecute(k) \/ FloatAddExecute(k) \/ FloatMulExecute(k)
          \/ FloatDivExecute(k)
    BY <1>2 DEF Execute
  <2>2. Executes(k)
    BY <2>1 DEF Held, LSExecute, IntegerAddExecute, IntegerMulExecute, IntegerDivExecute,
                FloatAddExecute, FloatMulExecute, FloatDivExecute
  <2>3. spoiled' = spoiled
    BY <2>2 DEF Executes
  <2>4. CASE Held(k)
    BY <2>3, <2>4, HeldRight
  <2>5. CASE LSExecute(k) \/ IntegerAddExecute(k) \/ IntegerMulExecute(k)
               \/ IntegerDivExecute(k) \/ FloatAddExecute(k) \/ FloatMulExecute(k)
               \/ FloatDivExecute(k)
    BY <2>3, <2>5, ExecuteRight
  <2> QED
    BY <2>1, <2>4, <2>5
<1>3. CASE Issue
  <2>1. spoiled => spoiled'
    BY <1>3 DEF Issue, Follows
  <2> QED
    BY <1>3, <2>1, IssueRight
<1>4. CASE UNCHANGED vars
  <2>1. spoiled' = spoiled
    BY <1>4 DEF vars
  <2> QED
    BY <1>4, <2>1, RightStutters
<1> QED
  BY <1>1, <1>2, <1>3, <1>4 DEF Next

LEMMA RightRuns ==
  ASSUME Types, Right
  PROVE  RegistersAgree /\ MemoriesAgree /\ LinesAgree /\ (Ended => Finished)
<1>1. \A u : u \in InFlight <=> \E k \in Stations : station[k].busy /\ u = station[k]
  BY DEF InFlight, Busy
<1>2. RegistersAgree
  <2> SUFFICES ASSUME NEW r \in Registers, ~Pending(r),
                      \A k \in Stations : ~Writer(k, r)
               PROVE  registers[r] = seqRegisters[r]
    BY <1>1 DEF RegistersAgree, Pending, Writer
  <2> QED
    BY DEF Right, Regs, Value
<1>3. MemoriesAgree
  <2> SUFFICES ASSUME \A k \in Stations : ~(station[k].busy /\ station[k].ins.op = "S")
               PROVE  mem = seqMem
    BY <1>1 DEF MemoriesAgree
  <2>1. \A c \in Word : mem[c] = seqMem[c]
    BY DEF Right, Mems, StoreAt
  <2>2. mem \in Cells /\ seqMem \in Cells
    BY TypesAre
  <2> QED
    BY <2>1, <2>2 DEF Cells
<1>4. LinesAgree
  BY DEF Right, Stalling, LinesAgree
<1>5. Ended => Finished
  BY <1>1 DEF Right, Ending, AllDone, Ended, Finished
<1> QED
  BY <1>2, <1>3, <1>4, <1>5

\* The out-of-order processor computes what the sequential one computes, whatever
\* the program, the registers, the stations and the cycles of an operation, as long
\* as it does not mishandle an instruction.
THEOREM TomasuloIsRight == Spec => []RunsTheProgram
<1>1. Init => Inv
  BY TypesInit, RightInit DEF Inv
<1>2. Inv /\ [Next]_vars => Inv'
  <2> SUFFICES ASSUME Inv, [Next]_vars PROVE Inv'
    OBVIOUS
  <2>1. Types /\ Types' /\ (spoiled' \/ Right')
    BY TypesStep, RightStep DEF Inv
  <2> QED
    BY <2>1 DEF Inv
<1>3. Inv => RunsTheProgram
  BY RightRuns DEF Inv, RunsTheProgram
<1> QED
  BY <1>1, <1>2, <1>3, PTL DEF Spec

-----------------------------------------------------------------------------
(* Programs that the processor never mishandles.                           *)

\* A program without stores and moves, that only jumps ahead and by registers of
\* integers, and that writes no register an earlier line writes or reads: what a
\* compiler calls single assignment.  (A load that writes the register of its own
\* address would wait for itself; of the others, the address must be read right.)
EarlierLines(l) == {m \in Lines : m < l}
SingleAssignment(p) ==
  \A l \in Lines :
    LET i == p[l]
    IN  /\ i.op \notin {"S", "MOVE"}
        /\ i.op \in Branches => i.a \notin Floats /\ i.n > l
        /\ i.op = "L" => i.t # i.b
        /\ ~MisreadsBase(i)
        /\ i.t # None => \A m \in EarlierLines(l) : i.t \notin {p[m].t, p[m].a, p[m].b}

\* The sequential processor dies with the division it stands at.
SequentialStops ==
  /\ seqCounter \in Lines
  /\ LET i == vprogram[seqCounter]
     IN  i.op = "DIV" /\ ~Divides(seqRegisters[i.a], seqRegisters[i.b])

\* What works, waits or is to be written comes from an earlier line.
Issued(r) == \E m \in EarlierLines(seqCounter) : vprogram[m].t = r
FromEarlier(k) ==
  /\ ~station[k].behind
  /\ \E m \in EarlierLines(seqCounter) : station[k].ins = decode(vprogram[m])
Orderly ==
  /\ \A k \in Stations : station[k].busy => FromEarlier(k)
  /\ wbobject.busy => Issued(wbobject.target)
  /\ \A double \in BOOLEAN, r \in Registers :
       waitOn[double][r] # Nobody => Issued(r)
NeverMishandles ==
  SingleAssignment(vprogram) => IF spoiled THEN SequentialStops ELSE Orderly

\* What a line of such a program becomes.
LEMMA SingleDecodes ==
  ASSUME NEW p \in Programs, SingleAssignment(p), NEW l \in Lines,
         NEW d, d = decode(p[l])
  PROVE  /\ d.op = p[l].op /\ d.op \notin {"S", "MOVE"} /\ d.target = p[l].t
         /\ {d.source1, d.source2} \subseteq {p[l].a, p[l].b, None}
         /\ d.op = "DIV" => d.source1 = p[l].a /\ d.source2 = p[l].b
         /\ d.op = "L" => d.source1 = p[l].b /\ d.target # d.source1
         /\ d.op \in Branches => ~d.double /\ d.n = p[l].n /\ d.n > l
         /\ d.target # None => \A m \in EarlierLines(l) :
              d.target \notin {p[m].t, p[m].a, p[m].b}
<1> DEFINE i == p[l]
<1>1. PICK line : line = p[l]
  OBVIOUS
<1>2. /\ line.op \notin {"S", "MOVE"}
      /\ line.op \in Branches => line.a \notin Floats /\ line.n > l
      /\ line.op = "L" => line.t # line.b
      /\ ~MisreadsBase(line)
      /\ line.t # None => \A m \in EarlierLines(l) : line.t \notin {p[m].t, p[m].a, p[m].b}
  BY <1>1 DEF SingleAssignment
<1>3. line.op \in OpCodes /\ WellFormed(line)
  BY <1>1, LinesAre
<1>4. /\ line.op \in Arithmetic => d = Decoded(line, line.t, line.a, line.b)
      /\ line.op = "LI" => d = Decoded(line, line.t, None, None)
      /\ line.op = "L" => d = Decoded(line, line.t, line.b, None)
      /\ line.op \in {"BEQ", "BNEQ"} => d = Decoded(line, None, line.a, line.b)
      /\ line.op \in {"BGTZ", "BLTZ"} => d = Decoded(line, None, line.a, None)
      /\ line.op = "NOOP" => d = NoInstruction
      /\ d.op = line.op
  BY <1>1, <1>2, DecodesIs
<1>5. \A t, a, b : /\ Decoded(line, t, a, b).op = line.op
                   /\ Decoded(line, t, a, b).n = line.n
                   /\ Decoded(line, t, a, b).double = isDouble(line)
                   /\ Decoded(line, t, a, b).target = t
                   /\ Decoded(line, t, a, b).source1 = a
                   /\ Decoded(line, t, a, b).source2 = b
  BY DEF Decoded
<1>6. /\ NoInstruction.target = None /\ NoInstruction.source1 = None
      /\ NoInstruction.source2 = None
  BY DEF NoInstruction
<1>7. /\ line.op \notin Arithmetic \cup {"LI", "L", "MOVE"} => line.t = None
  BY <1>3 DEF WellFormed
<1>8. /\ d.target = line.t
      /\ {d.source1, d.source2} \subseteq {line.a, line.b, None}
      /\ d.op = "DIV" => d.source1 = line.a /\ d.source2 = line.b
      /\ d.op = "L" => d.source1 = line.b /\ d.target # d.source1
  <2>1. CASE line.op \in Arithmetic
    BY <1>4, <1>5, <2>1 DEF Arithmetic
  <2>2. CASE line.op = "LI" BY <1>4, <1>5, <2>2
  <2>3. CASE line.op = "L" BY <1>2, <1>4, <1>5, <2>3
  <2>4. CASE line.op \in Branches
    BY <1>4, <1>5, <1>7, <2>4 DEF Branches, Arithmetic
  <2>5. CASE line.op = "NOOP"
    BY <1>4, <1>6, <1>7, <2>5 DEF Arithmetic
  <2> QED
    BY <1>2, <1>3, <2>1, <2>2, <2>3, <2>4, <2>5 DEF OpCodes
<1>9. line.op \in Branches => ~d.double /\ d.n = line.n
  <2>1. line.op \in Branches => isDouble(line) = FALSE
    BY <1>2 DEF isDouble, Branches, Arithmetic
  <2>2. ASSUME line.op \in Branches
        PROVE  d.double = isDouble(line) /\ d.n = line.n
    <3>1. \E t, a, b : d = Decoded(line, t, a, b)
      BY <1>4, <2>2 DEF Branches
    <3> QED
      BY <1>5, <3>1
  <2> QED
    BY <2>1, <2>2
<1> QED
  BY <1>1, <1>2, <1>4, <1>8, <1>9

\* A step of a station brings no new instruction, and locks and writes no register
\* but the target of its own.
LEMMA ExecuteKeeps ==
  ASSUME Types, NEW k \in Stations,
         \/ Held(k) \/ LSExecute(k) \/ IntegerAddExecute(k) \/ IntegerMulExecute(k)
         \/ IntegerDivExecute(k) \/ FloatAddExecute(k) \/ FloatMulExecute(k)
         \/ FloatDivExecute(k)
  PROVE  /\ Executes(k) /\ station[k].busy
         /\ \A j \in Stations : station'[j].busy =>
              /\ station[j].busy /\ station'[j].ins = station[j].ins
              /\ station'[j].behind = station[j].behind
         /\ wbobject'.busy => \/ wbobject' = wbobject
                              \/ wbobject'.target = station[k].ins.target
         /\ \A double \in BOOLEAN, r \in Registers : waitOn'[double][r] # Nobody =>
              waitOn[double][r] # Nobody \/ r = station[k].ins.target
<1> DEFINE u == station[k]
           i == u.ins
           Stays == \/ station'[k] = Idle
                    \/ station'[k].ins = i /\ station'[k].behind = u.behind
           Others == \A j \in Stations : j # k => station'[j] = station[j]
           Target == wbobject'.busy => wbobject' = wbobject \/ wbobject'.target = i.target
           Locked == \A double \in BOOLEAN, r \in Registers : waitOn'[double][r] # Nobody =>
                       waitOn[double][r] # Nobody \/ r = i.target
<1>1. Executes(k) /\ turn = k
  BY DEF Held, LSExecute, IntegerAddExecute, IntegerMulExecute, IntegerDivExecute,
         FloatAddExecute, FloatMulExecute, FloatDivExecute, Executes
<1>2. /\ u \in Unit /\ u.busy /\ Fit(i) /\ i \in Instruction /\ k[1] = KindOf(i)
  BY <1>1, UnitIs
<1>3. station \in [Stations -> Unit]
  BY TypesAre
<1>4. waitOn' = waitOn => Locked
  OBVIOUS
<1>5. wbobject' = wbobject => Target
  OBVIOUS
<1>6. /\ \A who, t : t \in Names /\ waitOn' = [waitOn EXCEPT ![i.double][t] = who]
             /\ (who = Nobody \/ t = i.target) => Locked
  <2>1. waitOn \in [BOOLEAN -> [Names -> Stations \cup {Nobody}]]
    BY TypesAre
  <2> HIDE DEF u, i
  <2> QED
    BY <2>1, NamesAre
<1>7. i.target \in Names
  BY <1>2, InsAre
<1> SUFFICES Stays /\ Others /\ Target /\ Locked
  <2>1. ~Idle.busy BY IdleIs
  <2> QED
    BY <1>1, <1>2, <2>1
<1>8. ASSUME NEW v, station' = [station EXCEPT ![k] = v] PROVE station'[k] = v /\ Others
  BY <1>3, <1>8
<1>9. CASE Held(k)
  <2> DEFINE v == [u EXCEPT !.hold = FALSE]
  <2>1. v = [u EXCEPT !.hold = FALSE]
    OBVIOUS
  <2>2. station' = [station EXCEPT ![k] = v] /\ waitOn' = waitOn /\ wbobject' = wbobject
    BY <1>3, <1>9 DEF Held
  <2> HIDE DEF v
  <2>3. v.ins = i /\ v.behind = u.behind
    BY <1>2, <2>1 DEF Unit
  <2>4. station'[k] = v /\ Others
    BY <1>8, <2>2
  <2> QED
    BY <1>4, <1>5, <2>2, <2>3, <2>4
<1>10. ASSUME Counts(k) PROVE Stays /\ Others /\ Target /\ Locked
  <2> DEFINE v == [u EXCEPT !.left = @ - 1]
  <2>1. v = [u EXCEPT !.left = @ - 1]
    OBVIOUS
  <2>2. station' = [station EXCEPT ![k] = v] /\ waitOn' = waitOn /\ wbobject' = wbobject
    BY <1>3, <1>10 DEF Counts
  <2> HIDE DEF v
  <2>3. v.ins = i /\ v.behind = u.behind
    BY <1>2, <2>1 DEF Unit
  <2>4. station'[k] = v /\ Others
    BY <1>8, <2>2
  <2> QED
    BY <1>4, <1>5, <2>2, <2>3, <2>4
<1>11. ASSUME Addressed(k) PROVE Stays /\ Others /\ Target /\ Locked
  <2>1. wbobject' = wbobject
    BY <1>11 DEF Addressed
  <2>2. CASE station' = station /\ waitOn' = waitOn
    BY <1>4, <1>5, <2>1, <2>2
  <2>3. CASE ~(station' = station /\ waitOn' = waitOn)
    <3> DEFINE v == [u EXCEPT !.left = @ - 1, !.s1 = Sum(i.n, Reg(i.source1))]
    <3>1. v = [u EXCEPT !.left = @ - 1, !.s1 = Sum(i.n, Reg(i.source1))]
      OBVIOUS
    <3>2. /\ waitOn' = [waitOn EXCEPT ![i.double][i.target] = k]
          /\ station' = [station EXCEPT ![k].left = @ - 1,
                                        ![k].s1 = Sum(i.n, Reg(i.source1))]
      BY <1>11, <2>3 DEF Addressed
    <3>3. station' = [station EXCEPT ![k] = v]
      BY <1>3, <3>2
    <3> HIDE DEF v
    <3>4. v.ins = i /\ v.behind = u.behind
      BY <1>2, <3>1 DEF Unit
    <3>5. station'[k] = v /\ Others
      BY <1>8, <3>3
    <3>6. Locked BY <1>6, <1>7, <3>2
    <3> QED
      BY <1>5, <2>1, <3>4, <3>5, <3>6
  <2> QED
    BY <2>2, <2>3
<1>12. ASSUME NEW double, NEW value, Writes(k, double, value)
       PROVE  Stays /\ Others /\ Target /\ Locked
  <2>1. waitOn' = waitOn /\ SendToWriteBack(k, double, value)
    BY <1>12 DEF Writes
  <2>2. CASE wbobject.busy
    <3> DEFINE w == IF u.waiting THEN u.value ELSE value
               v == [u EXCEPT !.waiting = TRUE, !.value = w]
    <3>1. v = [u EXCEPT !.waiting = TRUE, !.value = w]
      OBVIOUS
    <3>2. station' = [station EXCEPT ![k] = v] /\ wbobject' = wbobject
      BY <1>3, <2>1, <2>2 DEF SendToWriteBack
    <3> HIDE DEF v, w
    <3>3. v.ins = i /\ v.behind = u.behind
      BY <1>2, <3>1 DEF Unit
    <3>4. station'[k] = v /\ Others
      BY <1>8, <3>2
    <3> QED
      BY <1>4, <1>5, <2>1, <3>2, <3>3, <3>4
  <2>3. CASE ~wbobject.busy
    <3>1. wbobject'.target = i.target /\ station' = [station EXCEPT ![k] = Idle]
      BY <2>1, <2>3 DEF SendToWriteBack
    <3>2. station'[k] = Idle /\ Others
      BY <1>8, <3>1
    <3> QED
      BY <1>4, <2>1, <3>1, <3>2
  <2> QED
    BY <2>2, <2>3
<1>13. ASSUME Store(k) PROVE Stays /\ Others /\ Target /\ Locked
  <2>1. /\ waitOn' = [waitOn EXCEPT ![i.double][i.target] = Nobody]
        /\ station' = [station EXCEPT ![k] = Idle] /\ wbobject' = wbobject
    BY <1>13 DEF Store
  <2>2. station'[k] = Idle /\ Others
    BY <1>8, <2>1
  <2> QED
    BY <1>5, <1>6, <1>7, <2>1, <2>2
<1>14. ASSUME NEW locks, Operands(k, locks) PROVE Stays /\ Others /\ Target /\ Locked
  <2> DEFINE x == [u EXCEPT !.vj = @ \/ FreeRegister(i.double, i.source1),
                            !.vk = @ \/ FreeRegister(i.double, i.source2)]
             starts == /\ x.vj /\ x.vk
                       /\ locks => i.target # None /\ Lockable(k, i.double, i.target)
             y == [x EXCEPT !.left = @ - 1, !.s1 = Reg(i.source1), !.s2 = Reg(i.source2)]
             v == IF starts THEN y ELSE x
  <2>1. x = [u EXCEPT !.vj = @ \/ FreeRegister(i.double, i.source1),
                      !.vk = @ \/ FreeRegister(i.double, i.source2)]
    OBVIOUS
  <2>2. /\ station' = [station EXCEPT ![k] = v] /\ wbobject' = wbobject
        /\ waitOn' = IF starts /\ locks THEN [waitOn EXCEPT ![i.double][i.target] = k]
                                        ELSE waitOn
    BY <1>14 DEF Operands
  <2>3. x \in Unit /\ x.ins = i /\ x.behind = u.behind
    <3>1. FreeRegister(i.double, i.source1) \in BOOLEAN
          /\ FreeRegister(i.double, i.source2) \in BOOLEAN
      BY DEF FreeRegister
    <3> HIDE DEF x
    <3> QED
      BY <1>2, <2>1, <3>1 DEF Unit
  <2> HIDE DEF x
  <2>4. y.ins = i /\ y.behind = u.behind
    <3>1. y = [x EXCEPT !.left = @ - 1, !.s1 = Reg(i.source1), !.s2 = Reg(i.source2)]
      OBVIOUS
    <3> HIDE DEF y
    <3> QED
      BY <2>3, <3>1 DEF Unit
  <2> HIDE DEF y
  <2>5. v.ins = i /\ v.behind = u.behind
    BY <2>3, <2>4
  <2>6. Locked
    <3> HIDE DEF starts
    <3>1. waitOn' = waitOn \/ waitOn' = [waitOn EXCEPT ![i.double][i.target] = k]
      BY <2>2
    <3> QED
      BY <1>4, <1>6, <1>7, <3>1
  <2> HIDE DEF v, starts
  <2>7. station'[k] = v /\ Others
    BY <1>8, <2>2
  <2> QED
    BY <1>5, <2>2, <2>5, <2>6, <2>7
<1>15. ASSUME NEW taken, Resolves(k, taken) PROVE Stays /\ Others /\ Target /\ Locked
  <2>1. /\ waitOn' = waitOn /\ station' = [station EXCEPT ![k] = Idle]
        /\ wbobject' = wbobject
    BY <1>15 DEF Resolves
  <2>2. station'[k] = Idle /\ Others
    BY <1>8, <2>1
  <2> QED
    BY <1>4, <1>5, <2>1, <2>2
<1>16. CASE LSExecute(k)
  <2>1. Load(k) => Writes(k, i.double, Loaded(mem[u.s1]))
    BY DEF Load, Writes
  <2>2. Counts(k) \/ Addressed(k) \/ Load(k) \/ Store(k)
    BY <1>16 DEF LSExecute
  <2> HIDE DEF Stays, Others, Target, Locked, u, i
  <2> QED
    BY <1>10, <1>11, <1>12, <1>13, <2>1, <2>2
<1>17. CASE \/ IntegerAddExecute(k) \/ IntegerMulExecute(k) \/ IntegerDivExecute(k)
            \/ FloatAddExecute(k) \/ FloatMulExecute(k) \/ FloatDivExecute(k)
  <2>1. \/ Counts(k)
        \/ \E locks : Operands(k, locks)
        \/ \E double, value : Writes(k, double, value)
        \/ \E taken : Resolves(k, taken)
    <3>1. CASE IntegerAddExecute(k) BY <3>1 DEF IntegerAddExecute
    <3>2. CASE FloatAddExecute(k) BY <3>2 DEF FloatAddExecute
    <3>3. CASE IntegerMulExecute(k) BY <3>3 DEF IntegerMulExecute
    <3>4. CASE FloatMulExecute(k) BY <3>4 DEF FloatMulExecute
    <3>5. CASE IntegerDivExecute(k) BY <3>5 DEF IntegerDivExecute
    <3>6. CASE FloatDivExecute(k) BY <3>6 DEF FloatDivExecute
    <3> QED
      BY <1>17, <3>1, <3>2, <3>3, <3>4, <3>5, <3>6
  <2> HIDE DEF Stays, Others, Target, Locked
  <2> QED
    BY <1>10, <1>12, <1>14, <1>15, <2>1
<1> QED
  BY <1>9, <1>16, <1>17

LEMMA ExecuteOrderly ==
  ASSUME Types, SingleAssignment(vprogram), Orderly, Execute
  PROVE  Orderly'
<1>1. PICK k \in Stations :
        \/ Held(k) \/ LSExecute(k) \/ IntegerAddExecute(k) \/ IntegerMulExecute(k)
        \/ IntegerDivExecute(k) \/ FloatAddExecute(k) \/ FloatMulExecute(k)
        \/ FloatDivExecute(k)
  BY DEF Execute
<1>2. /\ Executes(k) /\ station[k].busy
      /\ \A j \in Stations : station'[j].busy =>
           /\ station[j].busy /\ station'[j].ins = station[j].ins
           /\ station'[j].behind = station[j].behind
      /\ wbobject'.busy => \/ wbobject' = wbobject
                           \/ wbobject'.target = station[k].ins.target
      /\ \A double \in BOOLEAN, r \in Registers : waitOn'[double][r] # Nobody =>
           waitOn[double][r] # Nobody \/ r = station[k].ins.target
  BY <1>1, ExecuteKeeps
<1>3. vprogram' = vprogram /\ seqCounter' = seqCounter
  BY <1>2 DEF Executes, ahead
<1>4. vprogram \in Programs
  BY TypesAre
<1>5. Issued(station[k].ins.target)
  <2>1. PICK m \in EarlierLines(seqCounter) : station[k].ins = decode(vprogram[m])
    BY <1>2 DEF Orderly, FromEarlier
  <2>2. station[k].ins.target = vprogram[m].t
    BY <1>4, <2>1, SingleDecodes DEF EarlierLines
  <2> QED
    BY <2>1, <2>2 DEF Issued
<1>6. \A r : Issued(r)' <=> Issued(r)
  BY <1>3 DEF Issued
<1>7. \A j \in Stations : station'[j].busy => FromEarlier(j)'
  BY <1>2, <1>3 DEF Orderly, FromEarlier
<1>8. wbobject'.busy => Issued(wbobject'.target)
  BY <1>2, <1>5 DEF Orderly
<1>9. \A double \in BOOLEAN, r \in Registers : waitOn'[double][r] # Nobody => Issued(r)
  BY <1>2, <1>5 DEF Orderly
<1> QED
  BY <1>6, <1>7, <1>8, <1>9 DEF Orderly

LEMMA WriteBackOrderly ==
  ASSUME Types, Orderly, WriteBackRun PROVE Orderly'
<1>1. vprogram' = vprogram /\ seqCounter' = seqCounter /\ station' = station
  BY DEF WriteBackRun, ahead
<1>2. ~wbobject'.busy
  BY WrittenIs
<1>3. \A double \in BOOLEAN, r \in Registers :
        waitOn'[double][r] # Nobody => waitOn[double][r] # Nobody
  <2>1. CASE ~wbobject.busy
    BY <2>1 DEF WriteBackRun
  <2>2. CASE wbobject.busy
    <3>1. waitOn' = [waitOn EXCEPT ![wbobject.isDouble][wbobject.target] = Nobody]
      BY <2>2 DEF WriteBackRun
    <3>2. waitOn \in [BOOLEAN -> [Names -> Stations \cup {Nobody}]]
      BY TypesAre
    <3> QED
      BY <3>1, <3>2, NamesAre
  <2> QED
    BY <2>1, <2>2
<1>4. \A r : Issued(r)' <=> Issued(r)
  BY <1>1 DEF Issued
<1>5. \A j \in Stations : FromEarlier(j)' <=> FromEarlier(j)
  BY <1>1 DEF FromEarlier
<1> QED
  BY <1>1, <1>2, <1>3, <1>4, <1>5 DEF Orderly

\* The line at which such a program stands writes nothing that is in use.
LEMMA NothingInTheWay ==
  ASSUME Types, SingleAssignment(vprogram), Orderly, seqCounter \in Lines,
         NEW i, i = decode(vprogram[seqCounter])
  PROVE  /\ ~WrittenNext(i) /\ i.op \notin {"S", "MOVE"}
         /\ i.target \in Registers => \A double \in BOOLEAN : FreeRegister(double, i.target)
         /\ ~Dropped(i) /\ ~TwiceOrInstead(i)
         /\ Mishandles(i) => SequentialStops
<1>0. vprogram \in Programs
  BY TypesAre
<1>1. /\ i.op = vprogram[seqCounter].op /\ i.op \notin {"S", "MOVE"}
      /\ i.op = "DIV" =>
           i.source1 = vprogram[seqCounter].a /\ i.source2 = vprogram[seqCounter].b
      /\ i.op = "L" => i.target # i.source1
      /\ i.op \in Branches => ~i.double
      /\ i.target # None => \A m \in EarlierLines(seqCounter) :
           i.target \notin {vprogram[m].t, vprogram[m].a, vprogram[m].b}
  BY <1>0, SingleDecodes
<1>2. i.target # None => ~Issued(i.target)
  BY <1>1 DEF Issued
<1>3. ~WrittenNext(i)
  BY <1>2 DEF WrittenNext, Orderly
<1>4. i.target \in Registers => \A double \in BOOLEAN : FreeRegister(double, i.target)
  <2>1. i.target \in Registers => i.target # None
    BY NamesAre
  <2> QED
    BY <1>2, <2>1 DEF FreeRegister, Orderly
<1>5. ~Dropped(i) /\ ~TwiceOrInstead(i)
  BY <1>1, <1>3 DEF Dropped, TwiceOrInstead
<1>6. ASSUME NEW k \in Stations, station[k].busy
      PROVE  /\ ~station[k].behind /\ station[k].ins.op \notin {"S", "MOVE"}
             /\ i.target # None =>
                  i.target \notin {station[k].ins.source1, station[k].ins.source2}
  <2>1. PICK m \in EarlierLines(seqCounter) : station[k].ins = decode(vprogram[m])
    BY <1>6 DEF Orderly, FromEarlier
  <2>2. ~station[k].behind
    BY <1>6 DEF Orderly, FromEarlier
  <2>3. /\ station[k].ins.op \notin {"S", "MOVE"}
        /\ {station[k].ins.source1, station[k].ins.source2}
             \subseteq {vprogram[m].a, vprogram[m].b, None}
    BY <1>0, <2>1, SingleDecodes DEF EarlierLines
  <2> QED
    BY <1>1, <2>1, <2>2, <2>3
<1>7. ~OvertakesReader(i)
  BY <1>6 DEF OvertakesReader, InFlight, Busy
<1>8. ~OvertakesWriter(i)
  BY <1>1, <1>6 DEF OvertakesWriter, Busy
<1>9. ~OvertakesAccess(i)
  BY <1>1, <1>6 DEF OvertakesAccess, InFlight, Busy
<1>10. ~MovesAnother(i) /\ ~WaitsForItself(i)
  BY <1>1 DEF MovesAnother, WaitsForItself, Accesses
<1>11. SequentialDies(i) => SequentialStops
  BY <1>1 DEF SequentialDies, SequentialStops
<1>12. Mishandles(i) => SequentialDies(i)
  BY <1>1, <1>5, <1>7, <1>8, <1>9, <1>10 DEF Mishandles, Overtakes
<1> QED
  BY <1>1, <1>3, <1>4, <1>5, <1>11, <1>12

\* An issue stalls behind a station at work.
LEMMA StallsBehind ==
  ASSUME Types, Right, SingleAssignment(vprogram), Orderly, turn = Issues,
         ~bStallDueToBranch, bStallIF => programCounter # 0, NEW i, i = IR,
         programCounter' = NextCounter, LoadReservationStation(i), StopsInStall
  PROVE  FALSE
<1>1. bStallIF' /\ \A k \in Stations : ~station'[k].busy
  BY DEF StopsInStall
<1>2. i \in Instruction /\ (i = NoInstruction \/ Fit(i))
  BY IRIs
<1>3. /\ OnProgram => seqCounter \in Lines /\ i = decode(vprogram[seqCounter])
      /\ bStallIF => i.op # "NOOP"
      /\ ~OnProgram => i = NoInstruction
  BY StandsAt
<1>4. NoInstruction.op = "NOOP"
  BY DEF NoInstruction
<1>5. Fit(i) => seqCounter \in Lines /\ i = decode(vprogram[seqCounter])
  BY <1>3, <1>4 DEF Fit
<1>6. CASE EntersIts(i)
  <2> DEFINE k == FirstOf(Unused(KindOf(i)))
  <2>1. k \in Stations
    BY <1>6, FirstUnused DEF EntersIts, HasRoom
  <2>2. station' = [station EXCEPT ![k] = Assigned(i)]
    BY <1>6 DEF EntersIts, Enters
  <2> HIDE DEF k
  <2>3. station'[k] = Assigned(i)
    BY <2>1, <2>2, TypesAre
  <2>4. Assigned(i).busy
    BY <1>2, AssignedIs
  <2> QED
    BY <1>1, <2>1, <2>3, <2>4
<1>7. CASE Misses(i)
  BY <1>5, <1>7, NothingInTheWay DEF Misses
<1>8. CASE Nothing(i)
  <2>1. CASE i = NoInstruction
    BY <1>1, <1>3, <1>4, <1>8, <2>1 DEF Nothing, stalls
  <2>2. CASE Dropped(i)
    <3>1. Fit(i)
      BY <1>2, <1>4, <2>2 DEF Dropped
    <3> QED
      BY <1>5, <2>2, <3>1, NothingInTheWay
  <2> QED
    BY <1>8, <2>1, <2>2 DEF Nothing
<1>9. CASE StallsOn(i) /\ ~EntersIts(i)
  <2>1. Fit(i) /\ station' = station
    BY <1>9 DEF StallsOn, Stalls
  <2>2. ~WrittenNext(i)
        /\ (i.target \in Registers => FreeRegister(i.double, i.target))
    <3>1. i.double \in BOOLEAN
      BY <1>2, InsAre
    <3> QED
      BY <1>5, <2>1, <3>1, NothingInTheWay
  <2>3. i.op = "L" => i.target \in Registers
    BY <2>1, NamesAre DEF Fit, File
  <2>4. Unused(KindOf(i)) = {}
    BY <1>9, <2>2, <2>3 DEF StallsOn, HasRoom
  <2> DEFINE k == <<KindOf(i), 1>>
  <2>5. k \in Stations
    <3>1. KindOf(i) \in Kinds
      BY KindIs
    <3>2. 1 \in 1 .. NoOfFunctionalUnits[KindOf(i)]
      BY <3>1, SimTomasuloAssumption
    <3> QED
      BY <3>1, <3>2 DEF Stations
  <2>6. station[k].busy
    <3>1. k[1] = KindOf(i)
      OBVIOUS
    <3> HIDE DEF k
    <3> QED
      BY <2>4, <2>5, <3>1 DEF Unused
  <2> QED
    BY <1>1, <2>1, <2>5, <2>6
<1> QED
  BY <1>2, <1>6, <1>7, <1>8, <1>9, IssueIs

\* Only ahead.
LEMMA GoesAhead ==
  ASSUME Types, SingleAssignment(vprogram), Sequential!Execute
  PROVE  /\ seqCounter \in Lines /\ seqCounter < seqCounter'
         /\ EarlierLines(seqCounter) \subseteq EarlierLines(seqCounter')
         /\ seqCounter \in EarlierLines(seqCounter')
<1>1. PICK i : i = vprogram[seqCounter]
  OBVIOUS
<1>2. /\ seqCounter \in Lines
      /\ seqCounter' = IF Holds(i, Val(i.a), Val(i.b)) THEN i.n ELSE seqCounter + 1
  BY <1>1, SeqDoes
<1>3. i.op \in Branches => i.n > seqCounter
  BY <1>1, <1>2 DEF SingleAssignment
<1>4. Holds(i, Val(i.a), Val(i.b)) => i.op \in Branches
  BY DEF Holds, Branches
<1>5. i.n \in Int /\ Size \in Nat
  BY <1>1, <1>2, LinesAre, TypesAre, WordsAre
<1>6. seqCounter < seqCounter' /\ seqCounter' \in Int /\ seqCounter \in Int
  BY <1>2, <1>3, <1>4, <1>5 DEF Lines
<1>7. \A m \in Lines : m \in Int
  BY <1>5 DEF Lines
<1>8. seqCounter \in Lines
  BY <1>2
<1>9. EarlierLines(seqCounter) \subseteq EarlierLines(seqCounter')
  BY <1>6, <1>7 DEF EarlierLines
<1>10. seqCounter \in EarlierLines(seqCounter')
  BY <1>6, <1>8 DEF EarlierLines
<1> QED
  BY <1>6, <1>8, <1>9, <1>10

\* A line that is taken is an earlier one from then on.
LEMMA TakenOrderly ==
  ASSUME Types, Right, SingleAssignment(vprogram), Orderly, NEW k \in Stations, NEW i,
         Taken(k, i)
  PROVE  Orderly'
<1>1. /\ vprogram' = vprogram /\ wbobject' = wbobject /\ Fit(i)
      /\ station'[k] = Assigned(i) /\ \A j \in Stations : j # k => station'[j] = station[j]
      /\ waitOn' = IF i.target # None /\ FreeRegister(i.double, i.target)
                     THEN [waitOn EXCEPT ![i.double][i.target] = k] ELSE waitOn
      /\ Sequential!Execute /\ seqCounter \in Lines /\ i = decode(vprogram[seqCounter])
  BY DEF Taken
<1>2. /\ seqCounter \in EarlierLines(seqCounter')
      /\ EarlierLines(seqCounter) \subseteq EarlierLines(seqCounter')
  BY <1>1, GoesAhead
<1>3. /\ \A r : Issued(r) => Issued(r)'
      /\ \A j \in Stations : j # k /\ FromEarlier(j) => FromEarlier(j)'
  BY <1>1, <1>2 DEF Issued, FromEarlier
<1>4. i \in Instruction /\ vprogram \in Programs
  BY <1>1, TypesAre, DecodesFit
<1>5. i.target = vprogram[seqCounter].t
  BY <1>1, <1>4, SingleDecodes
<1>6. Issued(i.target)'
  BY <1>1, <1>2, <1>5 DEF Issued
<1>7. FromEarlier(k)'
  <2>1. /\ Assigned(i).ins = i
        /\ Assigned(i).behind = (i.target # None /\ waitOn[i.double][i.target] \in Busy)
    BY <1>4, AssignedIs
  <2>2. i.double \in BOOLEAN /\ i.target \in Names
    BY <1>4, InsAre
  <2>3. i.target # None => waitOn[i.double][i.target] = Nobody
    <3>1. i.target # None => i.target \in Registers
      BY <2>2 DEF Names
    <3> QED
      BY <1>1, <2>2, <3>1, NothingInTheWay DEF FreeRegister
  <2>4. Nobody \notin Busy
    BY StationIs DEF Busy
  <2> QED
    BY <1>1, <1>2, <2>1, <2>3, <2>4 DEF FromEarlier
<1>8. \A double \in BOOLEAN, r \in Registers :
        waitOn'[double][r] # Nobody => waitOn[double][r] # Nobody \/ r = i.target
  <2>1. waitOn \in [BOOLEAN -> [Names -> Stations \cup {Nobody}]]
    BY TypesAre
  <2> QED
    BY <1>1, <2>1, NamesAre
<1> QED
  BY <1>1, <1>3, <1>6, <1>7, <1>8 DEF Orderly

LEMMA ExecuteIs ==
  ASSUME Types, Execute PROVE \E k \in Stations : Executes(k)
BY DEF Execute, Held, LSExecute, IntegerAddExecute, IntegerMulExecute, IntegerDivExecute,
       FloatAddExecute, FloatMulExecute, FloatDivExecute

LEMMA ProgramKept ==
  ASSUME [Next]_vars, Types PROVE vprogram' = vprogram
<1>1. CASE Execute BY <1>1, ExecuteIs DEF Executes
<1>2. CASE WriteBackRun BY <1>2 DEF WriteBackRun
<1>3. CASE Issue BY <1>3 DEF Issue
<1>4. CASE UNCHANGED vars BY <1>4 DEF vars, machine
<1> QED BY <1>1, <1>2, <1>3, <1>4 DEF Next

\* After its first fault the sequential processor is left where it was.
LEMMA SpoiledStays ==
  ASSUME [Next]_vars, Types, spoiled PROVE spoiled' /\ UNCHANGED ahead
<1>1. CASE Execute BY <1>1, ExecuteIs DEF Executes
<1>2. CASE WriteBackRun BY <1>2 DEF WriteBackRun
<1>3. CASE Issue BY <1>3 DEF Issue, Follows
<1>4. CASE UNCHANGED vars BY <1>4 DEF vars
<1> QED BY <1>1, <1>2, <1>3, <1>4 DEF Next

LEMMA TheOther ==
  ASSUME NEW x, NEW a, NEW b \in BOOLEAN, a = FALSE, x = TRUE, x = (a \/ b) PROVE b
OBVIOUS

\* An issue leaves everything as it was, takes the line it stands at, or leaves the
\* sequential processor at the division it dies with.
LEMMA IssueOrderly ==
  ASSUME Types, Right, ~spoiled, SingleAssignment(vprogram), Orderly, Issue
  PROVE  IF spoiled' THEN SequentialStops' ELSE Orderly'
<1>1. /\ turn = Issues /\ turn' = WritesBack /\ (bStallIF => programCounter # 0)
      /\ UNCHANGED <<vprogram, registers, mem, wbobject>>
  BY DEF Issue
<1>2. ASSUME station' = station, waitOn' = waitOn, seqCounter' = seqCounter PROVE Orderly'
  <2>1. \A r : Issued(r)' <=> Issued(r)
    BY <1>1, <1>2 DEF Issued
  <2>2. \A j \in Stations : FromEarlier(j)' <=> FromEarlier(j)
    BY <1>1, <1>2 DEF FromEarlier
  <2> QED
    BY <1>1, <1>2, <2>1, <2>2 DEF Orderly
<1>3. CASE bStallDueToBranch
  <2>1. UNCHANGED <<station, waitOn, ahead, spoiled>>
    BY <1>3 DEF Issue
  <2> QED
    BY <1>2, <2>1 DEF ahead
<1>4. CASE ~bStallDueToBranch
  <2>0. spoiled \in BOOLEAN /\ spoiled' \in BOOLEAN
    BY TypesStep, TypesAre DEF Next, Types, TypeOK
  <2>1. PICK i : i = IR
    OBVIOUS
  <2>2. /\ programCounter' = NextCounter /\ triggerend' = (triggerend /\ ~Fetches)
        /\ LoadReservationStation(i) /\ Follows(i)
    BY <1>4, <2>1 DEF Issue
  <2>3. /\ i = NoInstruction \/ Fit(i)
        /\ OnProgram => /\ seqCounter \in Lines /\ i = decode(vprogram[seqCounter])
                        /\ Line = vprogram[seqCounter]
        /\ ~OnProgram => i = NoInstruction
    BY <1>1, <1>4, <2>1, <2>2, IRIs, StandsAt
  <2>4. ~StopsInStall
    BY <1>1, <1>4, <2>1, <2>2, StallsBehind
  <2>5. OnProgram => ~TwiceOrInstead(i) /\ (Mishandles(i) => SequentialStops)
    BY <2>3, NothingInTheWay
  <2>8. OnProgram => ~MisreadsBase(Line)
    BY <2>3 DEF SingleAssignment
  <2>6. CASE spoiled'
    <3> DEFINE wrong == \/ StopsInStall
                        \/ OnProgram /\ TwiceOrInstead(i)
                        \/ Leaves(i) /\ (Mishandles(i) \/ MisreadsBase(Line))
    <3>1. Leaves(i) /\ Mishandles(i) /\ UNCHANGED ahead
      <4>1. IF spoiled \/ wrong \/ ~Leaves(i)
              THEN UNCHANGED ahead /\ spoiled' = (spoiled \/ wrong)
              ELSE spoiled' = spoiled
        BY <2>2 DEF Follows
      <4>2. wrong <=> Leaves(i) /\ Mishandles(i)
        BY <2>4, <2>5, <2>8 DEF Leaves
      <4>3. wrong /\ UNCHANGED ahead
        <5>0. spoiled = FALSE /\ spoiled' = TRUE
          BY <2>0, <2>6, TypesAre
        <5>1. CASE spoiled \/ wrong \/ ~Leaves(i)
          <6>1. spoiled' = (spoiled \/ wrong)
            BY <4>1, <5>1
          <6>2. UNCHANGED ahead
            BY <4>1, <5>1
          <6>3. wrong \in BOOLEAN
            OBVIOUS
          <6> HIDE DEF wrong
          <6>4. wrong
            BY <5>0, <6>1, <6>3, TheOther
          <6> QED
            BY <6>2, <6>4
        <5>2. CASE ~(spoiled \/ wrong \/ ~Leaves(i))
          <6>1. spoiled' = spoiled
            BY <4>1, <5>2
          <6> QED
            BY <2>6, <6>1
        <5> QED
          BY <5>1, <5>2
      <4> QED
        BY <2>6, <4>2, <4>3
    <3>2. SequentialStops
      BY <2>5, <3>1 DEF Leaves
    <3> QED
      BY <1>1, <2>6, <3>1, <3>2 DEF SequentialStops, ahead
  <2>7. CASE ~spoiled'
    <3>1. CASE EntersIts(i) \/ Misses(i)
      <4>1. PICK k \in Stations : Taken(k, i)
        BY <1>1, <1>4, <2>1, <2>2, <2>7, <3>1, TakesIt
      <4> QED
        BY <2>7, <4>1, TakenOrderly
    <3>2. CASE StallsOn(i)
      <4>1. station' = station /\ waitOn' = waitOn /\ bStallIF' /\ ~bStallDueToBranch'
        BY <1>4, <3>2 DEF StallsOn, Stalls
      <4>2. ~Leaves(i)
        BY <4>1 DEF Leaves
      <4>3. seqCounter' = seqCounter
        BY <2>2, <4>2 DEF Follows, ahead
      <4> QED
        BY <1>2, <2>7, <4>1, <4>3
    <3>3. CASE Nothing(i)
      <4>1. station' = station /\ waitOn' = waitOn
        BY <3>3 DEF Nothing
      <4>2. seqCounter' = seqCounter \/ Sequential!Execute
        BY <2>2 DEF Follows, ahead
      <4>3. \A r : Issued(r) => Issued(r)'
        BY <1>1, <4>2, GoesAhead DEF Issued
      <4>4. \A j \in Stations : FromEarlier(j) => FromEarlier(j)'
        BY <1>1, <4>1, <4>2, GoesAhead DEF FromEarlier
      <4> QED
        BY <1>1, <2>7, <4>1, <4>3, <4>4 DEF Orderly
    <3> QED
      BY <2>2, <2>3, <3>1, <3>2, <3>3, IssueIs
  <2> QED
    BY <2>6, <2>7
<1> QED
  BY <1>3, <1>4

\* A program of this kind is right, to its end: the out-of-order processor leaves in
\* registers, memory and counter what the sequential one does, unless that one dies
\* with a division.  Nothing is assumed of what the processor mishandles.
THEOREM SingleAssignmentIsRight ==
  Spec => [](SingleAssignment(vprogram) =>
               \/ SequentialStops
               \/ RegistersAgree /\ MemoriesAgree /\ LinesAgree /\ (Ended => Finished))
<1>1. Init => Inv /\ NeverMishandles
  <2> SUFFICES ASSUME Init PROVE Inv /\ Orderly /\ spoiled = FALSE
    BY DEF NeverMishandles
  <2>1. Inv
    BY TypesInit, RightInit DEF Inv
  <2>2. /\ \A k \in Stations : ~station[k].busy
        /\ ~wbobject.busy
        /\ \A double \in BOOLEAN, r \in Registers : waitOn[double][r] = Nobody
    BY IdleIs, NamesAre DEF Init, NothingToWrite
  <2>3. spoiled = FALSE
    BY DEF Init
  <2> QED
    BY <2>1, <2>2, <2>3 DEF Orderly
<1>2. Inv /\ NeverMishandles /\ [Next]_vars => Inv' /\ NeverMishandles'
  <2> SUFFICES ASSUME Inv, NeverMishandles, [Next]_vars PROVE Inv' /\ NeverMishandles'
    OBVIOUS
  <2>0. Types
    BY DEF Inv
  <2>1. Inv'
    <3>1. Types' /\ (spoiled' \/ Right')
      BY TypesStep, RightStep DEF Inv
    <3> QED
      BY <3>1 DEF Inv
  <2>2. vprogram' = vprogram
    BY <2>0, ProgramKept
  <2>3. ASSUME SingleAssignment(vprogram), spoiled PROVE spoiled' /\ SequentialStops'
    <3>1. spoiled' /\ UNCHANGED ahead
      BY <2>0, <2>3, SpoiledStays
    <3> QED
      BY <2>2, <2>3, <3>1 DEF NeverMishandles, SequentialStops, ahead
  <2>4. ASSUME SingleAssignment(vprogram), ~spoiled
        PROVE  IF spoiled' THEN SequentialStops' ELSE Orderly'
    <3>1. Types /\ Right /\ Orderly
      BY <2>4 DEF Inv, NeverMishandles
    <3>2. CASE WriteBackRun
      <4>1. spoiled' = spoiled BY <3>2 DEF WriteBackRun
      <4> QED BY <2>4, <3>1, <3>2, <4>1, WriteBackOrderly
    <3>3. CASE Execute
      <4>1. spoiled' = spoiled BY <3>1, <3>3, ExecuteIs DEF Executes
      <4> QED BY <2>4, <3>1, <3>3, <4>1, ExecuteOrderly
    <3>4. CASE Issue
      BY <2>4, <3>1, <3>4, IssueOrderly
    <3>5. CASE UNCHANGED vars
      <4>1. /\ spoiled' = spoiled /\ station' = station /\ waitOn' = waitOn
            /\ wbobject' = wbobject /\ seqCounter' = seqCounter
        BY <3>5 DEF vars, ahead
      <4>2. \A r : Issued(r)' <=> Issued(r)
        BY <2>2, <4>1 DEF Issued
      <4>3. \A j \in Stations : FromEarlier(j)' <=> FromEarlier(j)
        BY <2>2, <4>1 DEF FromEarlier
      <4> QED
        BY <2>4, <3>1, <4>1, <4>2, <4>3 DEF Orderly
    <3> QED
      BY <3>2, <3>3, <3>4, <3>5 DEF Next
  <2>5. spoiled \in BOOLEAN /\ spoiled' \in BOOLEAN
    BY <2>1, TypesAre DEF Inv, Types, TypeOK
  <2>6. NeverMishandles'
    BY <2>2, <2>3, <2>4 DEF NeverMishandles
  <2> QED
    BY <2>1, <2>6
<1>3. Inv /\ NeverMishandles => (SingleAssignment(vprogram) =>
         \/ SequentialStops
         \/ RegistersAgree /\ MemoriesAgree /\ LinesAgree /\ (Ended => Finished))
  BY RightRuns DEF Inv, NeverMishandles
<1> QED
  BY <1>1, <1>2, <1>3, PTL DEF Spec
=============================================================================
