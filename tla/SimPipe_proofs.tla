---------------------------- MODULE SimPipe_proofs ----------------------------
(***************************************************************************)
(* Proofs about SimPipe: the types, that the pipeline computes what the    *)
(* sequential processor computes, and that it never stands still.          *)
(***************************************************************************)
EXTENDS SimPipe, SequenceTheorems, TLAPS

(* The constants.                                                          *)

LEMMA WordsAre ==
  /\ W \in Nat \ {0} /\ Size \in Nat \ {0} /\ Blank \notin Word
  /\ 0 \in Word /\ Word \subseteq Nat /\ Blank \notin Nat
  /\ \A n \in Int : n % W \in Word
<1>1. W \in Nat \ {0} /\ Size \in Nat \ {0} /\ Blank \notin Int
  BY SimIsaAssumption
<1>2. \A n \in Int : n % W \in 0 .. W - 1
  BY <1>1
<1> QED
  BY <1>1, <1>2 DEF Word

LEMMA WordIsInt ==
  ASSUME NEW v \in Word PROVE v \in Int
BY SimIsaAssumption DEF Word

LEMMA LinesAre ==
  ASSUME NEW p \in Programs, NEW l \in Lines
  PROVE  /\ p[l].op \in OpCodes /\ p[l].n \in Int
         /\ p[l].t \in Names /\ p[l].a \in Names /\ p[l].b \in Names
         /\ WellFormed(p[l])
<1>1. p \in [Lines -> Instructions] /\ WellFormed(p[l])
  BY SimIsaAssumption
<1> QED
  BY <1>1 DEF Instructions

LEMMA ComputeIs ==
  ASSUME NEW op, NEW x \in Word, NEW y \in Word, op = "DIV" => Divides(x, y),
         op \in Arithmetic
  PROVE  Compute(op, x, y) \in Word
<1>1. x \in Int /\ y \in Int
  BY WordsAre DEF Word
<1>2. Sum(x, y) \in Word /\ Difference(x, y) \in Word
  <2>1. x + y \in Int /\ x - y \in Int
    BY <1>1
  <2> QED
    BY <2>1, WordsAre DEF Sum, Difference
<1>3. Product(x, y) \in Word
  <2>1. x * y \in Int
    BY <1>1
  <2> QED
    BY <2>1, WordsAre DEF Product
<1>4. ASSUME op = "DIV" PROVE Quotient(x, y) \in Word
  <2> DEFINE a == Magnitude(Signed(x))
             b == Magnitude(Signed(y))
  <2>1. y # 0
    BY <1>4 DEF Divides
  <2>2. /\ Signed(x) \in Int /\ Signed(y) \in Int /\ Signed(y) # 0
    BY <1>1, <2>1, WordsAre DEF Signed, Word
  <2>3. a \in Nat /\ b \in Nat \ {0}
    BY <2>2 DEF Magnitude
  <2> HIDE DEF a, b
  <2>4. a \div b \in Int
    BY <2>3
  <2>5. 0 - (a \div b) \in Int
    BY <2>4
  <2>6. (IF (Signed(x) < 0) = (Signed(y) < 0) THEN a \div b ELSE 0 - (a \div b)) \in Int
    BY <2>4, <2>5
  <2>7. Quotient(x, y) = (IF (Signed(x) < 0) = (Signed(y) < 0) THEN a \div b
                                                   ELSE 0 - (a \div b)) % W
    BY DEF Quotient, a, b
  <2> QED
    BY <2>6, <2>7, WordsAre
<1> QED
  BY <1>2, <1>3, <1>4 DEF Compute, Arithmetic

-----------------------------------------------------------------------------
(* The types.                                                              *)

\* An empty text gets no further than the write back.
Types == TypeOK /\ decodeExecuteBuffered.a \in Word /\ executeMemBuffered.a \in Word

LEMMA TypesAre ==
  ASSUME Types
  PROVE  /\ vprogram \in Programs /\ programCounter \in 0 .. Size + 1
         /\ registers \in [Registers -> Word] /\ mem \in Cells
         /\ IR \in Lines \cup {Empty} /\ IRBuffered \in Lines \cup {Empty}
         /\ decodeExecuteBuffered \in [at : Lines \cup {Empty}, a : Word, b : Word]
         /\ executeMemBuffered \in [at : Lines \cup {Empty}, a : Word, b : Word]
         /\ MemWBBuffered \in Latch
         /\ iexecuteCycle \in Nat
BY DEF Types, TypeOK, Latch

LEMMA TargetIs ==
  ASSUME NEW latch \in Latch, Types
  PROVE  Target(latch) \in Names
BY TypesAre, LinesAre DEF Target, Latch, Names, Empty

LEMMA RegistersAre ==
  ASSUME Types
  PROVE  /\ WrittenBack \in [Registers -> Word]
         /\ SeenRegisters \in [Registers -> Word]
         /\ \A r \in Names : Seen(r) \in Word
<1> USE TypesAre, WordsAre
<1>1. WrittenBack \in [Registers -> Word]
  <2>1. CASE Target(MemWBBuffered) = None \/ MemWBBuffered.a = Blank
    BY <2>1 DEF WrittenBack
  <2>2. CASE Target(MemWBBuffered) # None /\ MemWBBuffered.a # Blank
    <3>1. Target(MemWBBuffered) \in Registers /\ MemWBBuffered.a \in Word
      BY <2>2, TargetIs DEF Names, Latch
    <3> QED
      BY <2>2, <3>1 DEF WrittenBack
  <2> QED
    BY <2>1, <2>2
<1>2. SeenRegisters \in [Registers -> Word]
  BY <1>1 DEF SeenRegisters
<1>3. \A r \in Names : Seen(r) \in Word
  BY <1>2 DEF Seen, Names
<1> QED
  BY <1>1, <1>2, <1>3

LEMMA DecodedIs ==
  ASSUME Types
  PROVE  Decoded \in [at : Lines \cup {Empty}, a : Word, b : Word]
<1> USE TypesAre, WordsAre
<1>1. CASE ~Decoding \/ Hazard(Line)
  BY <1>1 DEF Decoded, Bubble
<1>2. CASE Decoding /\ ~Hazard(Line)
  <2>1. Line.a \in Names /\ Line.b \in Names
    BY <1>2, LinesAre DEF Line, Decoding
  <2>2. Seen(Line.a) \in Word /\ Seen(Line.b) \in Word
    BY <2>1, RegistersAre
  <2> QED
    BY <1>2, <2>2 DEF Decoded
<1> QED
  BY <1>1, <1>2

LEMMA CyclesLeftIs ==
  ASSUME Types
  PROVE  CyclesLeft \in Nat
<1> USE TypesAre
<1>1. CASE ~Executing
  BY <1>1 DEF CyclesLeft
<1>2. CASE Executing
  <2>1. Cycles[InExecute.op] \in Nat \ {0}
    BY <1>2, LinesAre, SimPipeAssumption DEF Executing, InExecute
  <2>2. Frozen => iexecuteCycle \in Nat \ {0}
    BY DEF Frozen
  <2> QED
    BY <1>2, <2>1, <2>2 DEF CyclesLeft
<1> QED
  BY <1>1, <1>2

\* What the execute stage makes of instruction i and its operands.
Result(i, x, y) ==
  CASE i.op \in Arithmetic -> Compute(i.op, x, y)
    [] i.op = "LI" -> i.n % W
    [] i.op \in {"L", "S"} -> Sum(i.n, y)
    [] i.op = "MOVE" -> x
    [] OTHER -> 0

LEMMA ResultIs ==
  ASSUME NEW i, i.n \in Int, NEW x \in Word, NEW y \in Word,
         i.op = "DIV" => Divides(x, y)
  PROVE  Result(i, x, y) \in Word
<1> USE WordsAre
<1>1. i.op \in Arithmetic => Compute(i.op, x, y) \in Word
  BY ComputeIs
<1>2. Sum(i.n, y) \in Word
  <2>1. i.n + y \in Int
    OBVIOUS
  <2> QED
    BY <2>1 DEF Sum
<1>3. i.n % W \in Word
  OBVIOUS
<1> QED
  BY <1>1, <1>2, <1>3 DEF Result, Arithmetic

LEMMA ExecutedIs ==
  ASSUME Types, CanExecute
  PROVE  /\ Executed \in [at : Lines \cup {Empty}, a : Word, b : Word]
         /\ Executed.at = IF CyclesLeft = 0 THEN decodeExecuteBuffered.at ELSE Empty
         /\ Executed.at # Empty =>
              /\ InExecute.op = "DIV" =>
                   Divides(decodeExecuteBuffered.a, decodeExecuteBuffered.b)
              /\ Executed.a = Result(InExecute, decodeExecuteBuffered.a,
                                     decodeExecuteBuffered.b)
<1> USE TypesAre, WordsAre
<1>1. CyclesLeft \in Nat
  BY CyclesLeftIs
<1>2. CASE ~Executing \/ CyclesLeft > 0
  BY <1>1, <1>2 DEF Executed, Bubble, Executing
<1>3. CASE Executing /\ CyclesLeft = 0
  <2>1. InExecute.op = "DIV" =>
          Divides(decodeExecuteBuffered.a, decodeExecuteBuffered.b)
    BY <1>3 DEF CanExecute
  <2>2. InExecute.n \in Int
    BY <1>3, LinesAre DEF InExecute, Executing
  <2>3. Result(InExecute, decodeExecuteBuffered.a, decodeExecuteBuffered.b) \in Word
    BY <2>1, <2>2, ResultIs
  <2>4. ALUOutput = Result(InExecute, decodeExecuteBuffered.a, decodeExecuteBuffered.b)
    BY DEF ALUOutput, Result
  <2>5. Executed = [at |-> decodeExecuteBuffered.at, a |-> ALUOutput, b |-> 0]
    BY <1>3 DEF Executed
  <2> QED
    BY <1>3, <2>1, <2>3, <2>4, <2>5
<1> QED
  BY <1>1, <1>2, <1>3

LEMMA MemoryIs ==
  ASSUME Types
  PROVE  MemoryDone \in Latch /\ MemoryAfter \in Cells
<1> USE TypesAre, WordsAre
<1>1. MemoryDone \in Latch
  <2>1. mem[executeMemBuffered.a] \in Word \cup {Blank}
    BY DEF Cells
  <2> QED
    BY <2>1 DEF MemoryDone, Latch
<1>2. MemoryAfter \in Cells
  <2>1. CASE executeMemBuffered.at # Empty /\ InMemory.op \in {"S", "SUB"}
    <3>1. InMemory.a \in Names /\ InMemory.t \in Names /\ WellFormed(InMemory)
      BY <2>1, LinesAre DEF InMemory
    <3>2. Stored(InMemory) \in Registers
      BY <2>1, <3>1 DEF Stored, WellFormed, Names, Arithmetic
    <3>3. SeenRegisters[Stored(InMemory)] \in Word
      BY <3>2, RegistersAre
    <3> QED
      BY <2>1, <3>3 DEF MemoryAfter, Cells
  <2>2. CASE ~(executeMemBuffered.at # Empty /\ InMemory.op \in {"S", "SUB"})
    BY <2>2 DEF MemoryAfter
  <2> QED
    BY <2>1, <2>2
<1> QED
  BY <1>1, <1>2

LEMMA FetchIs ==
  ASSUME Types
  PROVE  /\ NextCounter \in 0 .. Size + 1 /\ Fetched \in Lines \cup {Empty}
         /\ Branched => Line.n \in 0 .. Size
<1> USE TypesAre, WordsAre
<1>1. NextCounter \in 0 .. Size + 1
  BY DEF NextCounter, Fetches, AtEnd
<1>2. Fetched \in Lines \cup {Empty}
  BY DEF Fetched, Fetches, AtEnd, Lines, Empty
<1>3. Branched => Line.n \in 0 .. Size
  <2>1. Branched => IRBuffered \in Lines /\ Line.op \in Branches
    BY DEF Branched, Decoding, Holds, Branches
  <2> QED
    BY <2>1, LinesAre DEF Line, WellFormed
<1> QED
  BY <1>1, <1>2, <1>3

LEMMA TypesInit == Init => Types
<1> SUFFICES ASSUME Init PROVE Types
  OBVIOUS
<1> USE WordsAre
<1>1. vprogram \in Programs /\ mem \in Cells
  BY SimIsaAssumption DEF Init
<1>2. Bubble \in Latch /\ Bubble.a \in Word
  BY DEF Bubble, Latch
<1>3. /\ {decodeExecuteBuffered, executeMemBuffered, MemWBBuffered} \subseteq Latch
      /\ decodeExecuteBuffered.a \in Word /\ executeMemBuffered.a \in Word
  BY <1>2 DEF Init
<1>4. registers \in [Registers -> Word] /\ programCounter \in 0 .. Size + 1
  BY DEF Init
<1> QED
  BY <1>1, <1>3, <1>4 DEF Init, Types, TypeOK

LEMMA TypesStep == Types /\ [Cycle]_vars => Types'
<1> SUFFICES ASSUME Types, [Cycle]_vars PROVE Types'
  OBVIOUS
<1> USE TypesAre, WordsAre
<1>1. CASE Cycle
  <2> DEFINE Wide == [at : Lines \cup {Empty}, a : Word, b : Word]
  <2>1. /\ Decoded \in Wide /\ Executed \in Wide /\ decodeExecuteBuffered \in Wide
        /\ MemoryDone \in Latch /\ MemoryAfter \in Cells
        /\ WrittenBack \in [Registers -> Word] /\ CyclesLeft \in Nat
    BY <1>1, DecodedIs, ExecutedIs, MemoryIs, RegistersAre, CyclesLeftIs DEF Cycle
  <2>2. decodeExecuteBuffered' \in Wide /\ executeMemBuffered' \in Wide
    BY <1>1, <2>1 DEF Cycle
  <2>3. /\ {decodeExecuteBuffered', executeMemBuffered', MemWBBuffered'} \subseteq Latch
        /\ decodeExecuteBuffered'.a \in Word /\ executeMemBuffered'.a \in Word
    BY <1>1, <2>1, <2>2 DEF Cycle, Latch
  <2>4. programCounter' \in 0 .. Size + 1
    <3>1. programCounter' = IF Branched THEN Line.n ELSE NextCounter
      BY <1>1 DEF Cycle
    <3>2. 0 .. Size \subseteq 0 .. Size + 1
      OBVIOUS
    <3> QED
      BY <3>1, <3>2, FetchIs
  <2>5. IR' \in Lines \cup {Empty} /\ IRBuffered' \in Lines \cup {Empty}
    BY <1>1, FetchIs DEF Cycle
  <2>6. bStallIF' \in BOOLEAN /\ endProgram' \in BOOLEAN
    BY <1>1 DEF Cycle, Hazard, Types, TypeOK
  <2> QED
    BY <1>1, <2>1, <2>3, <2>4, <2>5, <2>6 DEF Cycle, Types, TypeOK
<1>2. CASE UNCHANGED vars
  BY <1>2 DEF vars, machine, latches, Types, TypeOK
<1> QED
  BY <1>1, <1>2

\* The variables have their types, for every program.
THEOREM TypeCorrect == Spec => []TypeOK
<1>1. Types => TypeOK
  BY DEF Types
<1>2. Spec => []Types
  BY TypesInit, TypesStep, PTL DEF Spec
<1> QED
  BY <1>1, <1>2, PTL

-----------------------------------------------------------------------------
(* The pipeline and the sequential processor.                              *)

\* What register r is worth, and the line that the sequential processor goes to
\* from line l of program p, with the registers w.
Val(w, r) == IF r = None THEN 0 ELSE w[r]
After(p, w, l) ==
  LET i == p[l]
  IN  IF Holds(i, Val(w, i.a), Val(w, i.b)) THEN i.n ELSE l + 1

\* The line behind those that execute, and the one after those in the memory
\* stage.  While an execute is frozen a line may have been fetched and wait.
Coming ==
  IF IRBuffered # Empty THEN IRBuffered
  ELSE IF Frozen /\ IR # Empty THEN IR
  ELSE IF programCounter > Size THEN Size ELSE programCounter
Behind == IF Executing THEN decodeExecuteBuffered.at ELSE Coming

(* The inductive invariant, in parts.                                      *)

\* The program is one the pipeline is right for, and every cell has a number.
Right == Careful(vprogram) /\ mem \in [Word -> Word] /\ MemWBBuffered.a \in Word

\* Where the fetch is, seen from the line to decode: it is one line ahead when
\* nothing stands still; else two, and has that line in IR, unless a branch has
\* been decided behind a frozen execute and waits with it.
Following == IF IRBuffered + 1 < Size THEN IRBuffered + 1 ELSE Empty
Fetching ==
  /\ bStallIF => Decoding /\ Checked(Line) # << >>
  /\ Frozen => Executing
  /\ ~Decoding /\ ~Frozen => (programCounter > Size => IR = Empty)
  /\ ~Decoding /\ Frozen => programCounter = IF IR = Empty THEN Size + 1 ELSE IR + 1
  /\ Decoding =>
       IF ~bStallIF /\ ~Frozen THEN programCounter = IRBuffered + 1
       ELSE IF ~bStallIF /\ Branched THEN programCounter = Line.n /\ IR = Empty
       ELSE programCounter = IRBuffered + 2 /\ IR = Following

\* The lines in the pipeline are a path of the sequential processor.
Path ==
  /\ MemWBBuffered.at # Empty => Oldest \in Successors(vprogram, MemWBBuffered.at)
  /\ executeMemBuffered.at # Empty =>
       Behind = After(vprogram, WrittenBack, executeMemBuffered.at)
  /\ Executing => Coming = After(vprogram, WrittenBack, decodeExecuteBuffered.at)

\* An instruction that executes has the operands the sequential processor would
\* give it now, and nothing before it is going to write them; one that has
\* executed has the sequential result.
Spared(latch, i) == Target(latch) = None \/ Target(latch) \notin {i.a, i.b}
Operands ==
  /\ Executing =>
       /\ decodeExecuteBuffered.a = Val(WrittenBack, InExecute.a)
       /\ decodeExecuteBuffered.b = Val(WrittenBack, InExecute.b)
       /\ Spared(executeMemBuffered, InExecute)
  /\ executeMemBuffered.at # Empty =>
       /\ InMemory.op = "DIV" => Divides(Val(WrittenBack, InMemory.a),
                                         Val(WrittenBack, InMemory.b))
       /\ executeMemBuffered.a = Result(InMemory, Val(WrittenBack, InMemory.a),
                                                  Val(WrittenBack, InMemory.b))
       /\ Spared(MemWBBuffered, InMemory)

PipeInv == Types /\ Right /\ Fetching /\ Path /\ Operands

LEMMA EmptyIs == Empty \notin Nat /\ Empty \notin Lines /\ Empty \in Int
BY DEF Empty, Lines

LEMMA CountersAre ==
  ASSUME Types
  PROVE  /\ Size \in Nat \ {0} /\ Empty \notin Nat
         /\ \A l : l \in Lines <=> l \in Nat /\ l < Size
         /\ programCounter \in Nat /\ programCounter <= Size + 1
         /\ IR # Empty => IR \in Nat /\ IR < Size
         /\ Decoding => IRBuffered \in Nat /\ IRBuffered < Size
<1>1. Size \in Nat \ {0}
  BY WordsAre
<1>2. \A l : l \in Lines <=> l \in Nat /\ l < Size
  BY <1>1 DEF Lines
<1>3. programCounter \in Nat /\ programCounter <= Size + 1
  BY <1>1, TypesAre
<1>4. /\ IR # Empty => IR \in Lines
      /\ Decoding => IRBuffered \in Lines
  BY TypesAre DEF Decoding
<1> QED
  BY <1>1, <1>2, <1>3, <1>4, EmptyIs

LEMMA LineIs ==
  ASSUME Types, Decoding
  PROVE  /\ IRBuffered \in Lines /\ WellFormed(Line) /\ Line.op \in OpCodes
         /\ Line.a \in Names /\ Line.b \in Names /\ Line.t \in Names
BY TypesAre, LinesAre DEF Decoding, Line

LEMMA OldestIs ==
  ASSUME Types, Fetching
  PROVE  Oldest = IF executeMemBuffered.at # Empty THEN executeMemBuffered.at
                                                   ELSE Behind
BY DEF Fetching, Oldest, Behind, Coming, Executing

\* A decoder looks for its operands, all but the second of a branch.
LEMMA CheckedAre ==
  ASSUME NEW i, WellFormed(i)
  PROVE  /\ Checked(i) \in Seq({i.a, i.b})
         /\ \A k \in DOMAIN Checked(i) : Checked(i)[k] \in {i.a, i.b} \ {None}
         /\ \A r \in {i.a, i.b} \ {None} : r = i.a \/ i.op \notin Branches =>
              \E k \in DOMAIN Checked(i) : Checked(i)[k] = r
<1>1. CASE i.op \in Branches
  <2>1. i.a # None
    BY <1>1 DEF WellFormed
  <2>2. Checked(i) = <<i.a>>
    BY <1>1 DEF Checked
  <2> QED
    BY <1>1, <2>1, <2>2
<1>2. CASE i.op \notin Branches
  <2>1. Checked(i) = Asked(i.a) \o Asked(i.b)
    BY <1>2 DEF Checked
  <2>2. CASE i.a = None /\ i.b = None
    <3>1. Checked(i) = << >>
      BY <2>1, <2>2 DEF Asked
    <3> QED
      BY <2>2, <3>1
  <2>3. CASE i.a # None /\ i.b = None
    <3>1. Checked(i) = <<i.a>>
      BY <2>1, <2>3 DEF Asked
    <3> QED
      BY <2>3, <3>1
  <2>4. CASE i.a = None /\ i.b # None
    <3>1. Checked(i) = <<i.b>>
      BY <2>1, <2>4 DEF Asked
    <3> QED
      BY <2>4, <3>1
  <2>5. CASE i.a # None /\ i.b # None
    <3> DEFINE x == <<i.a>>
               y == <<i.b>>
    <3>1. /\ x \in Seq({i.a, i.b}) /\ y \in Seq({i.a, i.b})
          /\ Len(x) = 1 /\ Len(y) = 1 /\ x[1] = i.a /\ y[1] = i.b
      OBVIOUS
    <3>2. Checked(i) = x \o y
      BY <2>1, <2>5 DEF Asked
    <3> HIDE DEF x, y
    <3>3. /\ Checked(i) \in Seq({i.a, i.b}) /\ Len(Checked(i)) = 2
          /\ Checked(i)[1] = i.a /\ Checked(i)[2] = i.b
      <4>1. /\ x \o y \in Seq({i.a, i.b}) /\ Len(x \o y) = Len(x) + Len(y)
            /\ \A n \in 1 .. Len(x) + Len(y) :
                 (x \o y)[n] = IF n <= Len(x) THEN x[n] ELSE y[n - Len(x)]
        BY <3>1, ConcatProperties
      <4>2. Len(x \o y) = 2 /\ (x \o y)[1] = x[1] /\ (x \o y)[2] = y[1]
        BY <3>1, <4>1
      <4> QED
        BY <3>1, <3>2, <4>1, <4>2
    <3>4. DOMAIN Checked(i) = 1 .. 2
      BY <3>3, LenProperties
    <3> QED
      BY <2>5, <3>3, <3>4
  <2> QED
    BY <2>2, <2>3, <2>4, <2>5
<1> QED
  BY <1>1, <1>2

\* The line after l is a successor of l.
LEMMA AfterIs ==
  ASSUME NEW p, NEW w, NEW l
  PROVE  After(p, w, l) \in Successors(p, l)
BY DEF After, Successors, Holds, Branches

\* Nothing in the pipeline writes the second operand of a branch to decode.
LEMMA BranchIsSpared ==
  ASSUME Types, Right, Path, Decoding, Line.op \in Branches, Line.b # None
  PROVE  /\ Target(decodeExecuteBuffered) # Line.b
         /\ Target(executeMemBuffered) # Line.b
         /\ Target(MemWBBuffered) # Line.b
<1> USE TypesAre
<1> DEFINE b1 == Before(vprogram, {IRBuffered})
           b2 == Before(vprogram, b1)
           b3 == Before(vprogram, b2)
<1>1. IRBuffered \in Lines
  BY LineIs
<1>2. \A k \in b1 \cup b2 \cup b3 : vprogram[k].t # Line.b
  BY <1>1 DEF Right, Careful, BranchesWell, Line
<1>3. Coming = IRBuffered
  BY DEF Coming, Decoding
<1>4. Executing => decodeExecuteBuffered.at \in b1
  BY <1>3, AfterIs DEF Path, Before, Executing
<1>5. executeMemBuffered.at # Empty => executeMemBuffered.at \in b1 \cup b2
  <2> HIDE DEF b1
  <2>1. Behind \in b1 \cup {IRBuffered}
    BY <1>3, <1>4 DEF Behind
  <2>2. executeMemBuffered.at # Empty =>
          /\ executeMemBuffered.at \in Lines
          /\ Behind \in Successors(vprogram, executeMemBuffered.at)
    BY AfterIs DEF Path
  <2> QED
    BY <2>1, <2>2 DEF b1, Before
<1>6. MemWBBuffered.at # Empty => MemWBBuffered.at \in b1 \cup b2 \cup b3
  <2>1. MemWBBuffered.at # Empty =>
          /\ MemWBBuffered.at \in Lines
          /\ Oldest \in Successors(vprogram, MemWBBuffered.at)
    BY DEF Path, Latch
  <2> HIDE DEF b1, b2
  <2>2. Oldest \in {IRBuffered} \cup b1 \cup b2
    BY <1>3, <1>4, <1>5 DEF Oldest, Executing, Decoding
  <2> QED
    BY <2>1, <2>2 DEF b1, b2, Before
<1> QED
  BY <1>2, <1>4, <1>5, <1>6, SimIsaAssumption DEF Target, Executing

\* A line that the decoder lets go has its operands: nothing in the pipeline is
\* going to write them, and what it sees is what has been written.
Ready ==
  Decoding /\ ~Hazard(Line) =>
    /\ Spared(decodeExecuteBuffered, Line) /\ Spared(executeMemBuffered, Line)
    /\ Seen(Line.a) = Val(WrittenBack, Line.a)
    /\ Seen(Line.b) = Val(WrittenBack, Line.b)

LEMMA ReadyIs == Types /\ Right /\ Path => Ready
<1> SUFFICES ASSUME Types, Right, Path, Decoding, ~Hazard(Line)
             PROVE  /\ Spared(decodeExecuteBuffered, Line)
                    /\ Spared(executeMemBuffered, Line)
                    /\ Seen(Line.a) = Val(WrittenBack, Line.a)
                    /\ Seen(Line.b) = Val(WrittenBack, Line.b)
  BY DEF Ready
<1> USE TypesAre, LineIs
<1>1. \A k \in DOMAIN Checked(Line) : ~Busy(Checked(Line)[k])
  BY DEF Hazard
<1>2. ASSUME NEW latch, NEW r \in Registers, Target(latch) = r
      PROVE  Writes(latch, r)
  BY <1>2, SimPipeAssumption, SimIsaAssumption DEF Writes
<1>3. ASSUME NEW r \in {Line.a, Line.b} \ {None}
      PROVE  /\ Target(decodeExecuteBuffered) # r /\ Target(executeMemBuffered) # r
             /\ \/ SeenRegisters = WrittenBack
                \/ Target(MemWBBuffered) # r
  <2>1. r \in Registers
    BY <1>3 DEF Names
  <2>2. CASE r = Line.a \/ Line.op \notin Branches
    <3>1. PICK k \in DOMAIN Checked(Line) : Checked(Line)[k] = r
      BY <1>3, <2>2, CheckedAre
    <3>2. Target(decodeExecuteBuffered) # r /\ Target(executeMemBuffered) # r
      BY <1>1, <1>2, <2>1, <3>1 DEF Busy
    <3>3. k \in LookedAt(Line)
      <4>1. DOMAIN Checked(Line) = 1 .. Len(Checked(Line)) /\ Len(Checked(Line)) \in Nat
        BY CheckedAre, LenProperties
      <4> QED
        BY <1>1, <3>1, <4>1 DEF LookedAt
    <3>4. Target(MemWBBuffered) = r => SeenRegisters = WrittenBack
      BY <1>2, <2>1, <3>1, <3>3 DEF SeenRegisters
    <3> QED
      BY <3>2, <3>4
  <2>3. CASE r = Line.b /\ Line.op \in Branches
    BY <1>3, <2>3, BranchIsSpared
  <2> QED
    BY <1>3, <2>2, <2>3
<1>4. ASSUME NEW r \in {Line.a, Line.b} PROVE Seen(r) = Val(WrittenBack, r)
  <2>1. CASE r = None
    BY <2>1 DEF Seen, Val
  <2>2. CASE r # None /\ SeenRegisters = WrittenBack
    BY <2>2 DEF Seen, Val
  <2>3. CASE r # None /\ Target(MemWBBuffered) # r
    <3>1. r \in Registers
      BY <1>4, <2>3 DEF Names
    <3>2. WrittenBack[r] = registers[r]
      BY <2>3, <3>1 DEF WrittenBack
    <3> QED
      BY <2>3, <3>2 DEF Seen, SeenRegisters, Val
  <2> QED
    BY <1>3, <2>1, <2>2, <2>3
<1>5. Spared(decodeExecuteBuffered, Line) /\ Spared(executeMemBuffered, Line)
  BY <1>3 DEF Spared
<1> QED
  BY <1>4, <1>5

LEMMA ReadyNext == Types' /\ Right' /\ Path' => Ready'
BY ReadyIs, PTL

-----------------------------------------------------------------------------
(* What a cycle does.                                                      *)

\* The latches.
LEMMA LatchesMove ==
  ASSUME Types, Right, Cycle
  PROVE  /\ vprogram' = vprogram /\ registers' = WrittenBack
         /\ mem' = MemoryAfter /\ MemWBBuffered' = MemoryDone
         /\ executeMemBuffered' = Executed
         /\ decodeExecuteBuffered' =
              IF CyclesLeft = 0 THEN Decoded ELSE decodeExecuteBuffered
         /\ MemoryDone.at = executeMemBuffered.at /\ MemoryDone.a \in Word
         /\ MemoryDone \in Latch
<1> USE TypesAre, WordsAre
<1>1. /\ vprogram' = vprogram /\ registers' = WrittenBack
      /\ mem' = MemoryAfter /\ MemWBBuffered' = MemoryDone
      /\ executeMemBuffered' = Executed
      /\ decodeExecuteBuffered' =
           IF CyclesLeft = 0 THEN Decoded ELSE decodeExecuteBuffered
  BY DEF Cycle
<1>2. mem[executeMemBuffered.a] \in Word
  BY DEF Right
<1>3. MemoryDone.at = executeMemBuffered.at /\ MemoryDone.a \in Word
  BY <1>2 DEF MemoryDone
<1> QED
  BY <1>1, <1>3, MemoryIs

\* The fetch.
LEMMA FetchMoves ==
  ASSUME Types, Cycle
  PROVE  /\ programCounter' = IF Branched THEN Line.n ELSE NextCounter
         /\ IR' = IF Flushes THEN Empty ELSE Fetched
         /\ bStallIF' = IF Decoding /\ Checked(Line) # << >> THEN Hazard(Line)
                                                             ELSE bStallIF
         /\ bStallIF' \in BOOLEAN
         /\ iexecuteCycle' = CyclesLeft /\ CyclesLeft \in Nat
         /\ Frozen' = (CyclesLeft # 0)
         /\ IRBuffered' = IF ~bStallIF' /\ CyclesLeft = 0 THEN IR' ELSE IRBuffered
<1>1. /\ programCounter' = IF Branched THEN Line.n ELSE NextCounter
      /\ IR' = IF Flushes THEN Empty ELSE Fetched
      /\ bStallIF' = IF Decoding /\ Checked(Line) # << >> THEN Hazard(Line)
                                                          ELSE bStallIF
      /\ iexecuteCycle' = CyclesLeft
      /\ IRBuffered' = IF ~bStallIF' /\ CyclesLeft = 0 THEN IR' ELSE IRBuffered
  BY DEF Cycle
<1>2. CyclesLeft \in Nat
  BY CyclesLeftIs
<1>3. Frozen' = (CyclesLeft # 0)
  BY <1>1, <1>2 DEF Frozen
<1>4. bStallIF' \in BOOLEAN
  BY <1>1 DEF Hazard, Types, TypeOK
<1> QED
  BY <1>1, <1>2, <1>3, <1>4

\* The registers: the instruction in the memory stage writes its target.
LEMMA RegistersMove ==
  ASSUME Types, Right, Cycle
  PROVE  /\ Target(MemWBBuffered)' = Target(executeMemBuffered)
         /\ Target(executeMemBuffered) \in Names
         /\ WrittenBack' \in [Registers -> Word]
         /\ WrittenBack' = IF Target(executeMemBuffered) = None THEN WrittenBack
                           ELSE [WrittenBack EXCEPT
                                   ![Target(executeMemBuffered)] = MemoryDone.a]
<1> USE TypesAre, WordsAre
<1>1. Target(MemWBBuffered)' = Target(executeMemBuffered)
  BY LatchesMove DEF Target
<1>2. executeMemBuffered \in Latch
  BY DEF Latch
<1>3. Target(executeMemBuffered) \in Names
  BY <1>2, TargetIs
<1>4. MemWBBuffered'.a = MemoryDone.a /\ MemoryDone.a # Blank
  BY LatchesMove
<1>5. WrittenBack' = IF Target(MemWBBuffered)' = None \/ MemWBBuffered'.a = Blank
                     THEN registers'
                     ELSE [registers' EXCEPT ![Target(MemWBBuffered)'] = MemWBBuffered'.a]
  BY DEF WrittenBack
<1>6. WrittenBack' = IF Target(executeMemBuffered) = None THEN WrittenBack
                     ELSE [WrittenBack EXCEPT
                             ![Target(executeMemBuffered)] = MemoryDone.a]
  BY <1>1, <1>4, <1>5, LatchesMove
<1>7. WrittenBack' \in [Registers -> Word]
  BY <1>6, LatchesMove, RegistersAre
<1> QED
  BY <1>1, <1>3, <1>6, <1>7

\* The operands of an instruction it spares stay what they are.
LEMMA ValStays ==
  ASSUME Types, Right, Cycle, NEW i, i.a \in Names, i.b \in Names,
         Spared(executeMemBuffered, i)
  PROVE  /\ Val(WrittenBack', i.a) = Val(WrittenBack, i.a)
         /\ Val(WrittenBack', i.b) = Val(WrittenBack, i.b)
BY RegistersMove, RegistersAre DEF Val, Names, Spared

LEMMA AfterStays ==
  ASSUME Types, Right, Cycle, NEW l \in Lines, Spared(executeMemBuffered, vprogram[l])
  PROVE  After(vprogram', WrittenBack', l) = After(vprogram, WrittenBack, l)
<1>1. vprogram[l].a \in Names /\ vprogram[l].b \in Names
  BY LinesAre, TypesAre
<1>2. vprogram' = vprogram
  BY LatchesMove
<1> QED
  BY <1>1, <1>2, ValStays DEF After

\* As long as the decoder lets no line go, the same line comes next.
LEMMA ComingStays ==
  ASSUME Types, Right, Fetching, Cycle, CyclesLeft # 0 \/ Decoded.at = Empty
  PROVE  Coming' = Coming
<1> USE CountersAre
<1>1. CASE Decoding
  <2>1. CASE CyclesLeft # 0
    <3>1. IRBuffered' = IRBuffered
      BY <2>1, FetchMoves
    <3> QED
      BY <1>1, <3>1 DEF Coming, Decoding
  <2>2. CASE CyclesLeft = 0
    <3>1. Hazard(Line)
      BY <1>1, <2>2 DEF Decoded, Decoding
    <3>2. Checked(Line) # << >>
      <4>1. PICK k \in DOMAIN Checked(Line) : TRUE
        BY <3>1 DEF Hazard
      <4> QED
        BY <4>1
    <3>3. IRBuffered' = IRBuffered
      BY <1>1, <3>1, <3>2, FetchMoves
    <3> QED
      BY <1>1, <3>3 DEF Coming, Decoding
  <2> QED
    BY <2>1, <2>2
<1>2. CASE ~Decoding
  <2>1. ~bStallIF /\ ~bStallIF' /\ IRBuffered = Empty /\ ~Branched /\ ~Flushes
    BY <1>2, FetchMoves DEF Fetching, Decoding, Branched, Flushes
  <2>2. programCounter' = NextCounter /\ IR' = Fetched
    BY <2>1, FetchMoves
  <2>3. IRBuffered' = IF CyclesLeft = 0 THEN IR' ELSE Empty
    BY <2>1, FetchMoves
  <2>4. Coming' = IF IR' # Empty THEN IR'
                  ELSE IF programCounter' > Size THEN Size ELSE programCounter'
    BY <2>3, FetchMoves DEF Coming
  <2>5. CASE Frozen
    <3>1. NextCounter = programCounter
      BY <2>5 DEF NextCounter, Fetches
    <3>2. programCounter = IF IR = Empty THEN Size + 1 ELSE IR + 1
      BY <1>2, <2>5 DEF Fetching
    <3>3. Fetched = IR
      BY <2>5, <3>2 DEF Fetched, Fetches, AtEnd
    <3> QED
      BY <2>1, <2>2, <2>4, <2>5, <3>1, <3>2, <3>3 DEF Coming
  <2>6. CASE ~Frozen
    <3>1. CASE programCounter < Size
      <4>1. Fetched = programCounter /\ programCounter \in Nat
        BY <2>1, <2>6, <3>1 DEF Fetched, Fetches
      <4> QED
        BY <2>1, <2>2, <2>4, <2>6, <3>1, <4>1 DEF Coming
    <3>2. CASE programCounter = Size
      <4>1. Fetched = Empty /\ NextCounter = Size + 1
        BY <2>1, <2>6, <3>2 DEF Fetched, Fetches, AtEnd, NextCounter
      <4> QED
        BY <2>1, <2>2, <2>4, <2>6, <3>2, <4>1 DEF Coming
    <3>3. CASE programCounter > Size
      <4>1. IR = Empty
        BY <1>2, <2>6, <3>3 DEF Fetching
      <4>2. Fetched = Empty /\ NextCounter = programCounter
        BY <3>3, <4>1 DEF Fetched, Fetches, AtEnd, NextCounter
      <4> QED
        BY <2>1, <2>2, <2>4, <2>6, <3>3, <4>1, <4>2 DEF Coming
    <3> QED
      BY <3>1, <3>2, <3>3
  <2> QED
    BY <2>5, <2>6
<1> QED
  BY <1>1, <1>2

\* The fetch, when the line to decode is not a taken branch, and when it is.
LEMMA NotBranched ==
  ASSUME Types, Fetching, Cycle, Decoding, ~Branched
  PROVE  programCounter' = IRBuffered + 2 /\ IR' = Following
<1> USE CountersAre
<1>1. programCounter' = NextCounter /\ IR' = Fetched
  BY FetchMoves DEF Flushes
<1>2. IRBuffered \in Nat /\ IRBuffered < Size
  OBVIOUS
<1>3. CASE ~bStallIF /\ ~Frozen
  <2>1. programCounter = IRBuffered + 1
    BY <1>3 DEF Fetching
  <2>2. NextCounter = IRBuffered + 2
    BY <1>2, <1>3, <2>1 DEF NextCounter, Fetches, AtEnd
  <2>3. CASE programCounter < Size
    BY <1>1, <1>3, <2>1, <2>2, <2>3 DEF Fetched, Fetches, Following
  <2>4. CASE programCounter = Size
    BY <1>1, <1>3, <2>1, <2>2, <2>4 DEF Fetched, Fetches, AtEnd, Following
  <2> QED
    BY <1>2, <2>1, <2>3, <2>4
<1>4. CASE bStallIF \/ Frozen
  <2>1. programCounter = IRBuffered + 2 /\ IR = Following
    BY <1>4 DEF Fetching
  <2>2. NextCounter = IRBuffered + 2
    BY <1>4, <2>1 DEF NextCounter, Fetches
  <2>3. CASE programCounter = Size
    <3>1. ~Fetches /\ AtEnd
      BY <2>3 DEF Fetches, AtEnd
    <3>2. Fetched = programCounter - 1
      BY <1>4, <3>1 DEF Fetched
    <3>3. IRBuffered + 1 < Size /\ programCounter - 1 = IRBuffered + 1
      BY <1>2, <2>1, <2>3
    <3> QED
      BY <1>1, <2>2, <3>2, <3>3 DEF Following
  <2>4. CASE programCounter # Size
    <3>1. Fetched = IR
      BY <1>4, <2>4 DEF Fetched, Fetches, AtEnd
    <3> QED
      BY <1>1, <2>1, <2>2, <3>1
  <2> QED
    BY <2>3, <2>4
<1> QED
  BY <1>3, <1>4

LEMMA WhenBranched ==
  ASSUME Types, Right, Fetching, Cycle, Branched
  PROVE  /\ programCounter' = Line.n /\ IR' = Empty /\ Line.n \in Lines
<1> USE CountersAre
<1>1. Decoding /\ Line.op \in Branches /\ ~Hazard(Line)
  BY DEF Branched, Holds, Branches
<1>2. IRBuffered \in Nat /\ IRBuffered < Size /\ IRBuffered \in Lines
  BY <1>1
<1>3. Line.n \in Lines /\ Line.n # IRBuffered + 2
  BY <1>1, <1>2 DEF Right, Careful, BranchesWell, Line
<1>4. CASE ~bStallIF /\ Frozen
  <2>1. programCounter = Line.n /\ IR = Empty
    BY <1>1, <1>4 DEF Fetching
  <2>2. Fetched = Empty
    BY <1>3, <1>4, <2>1 DEF Fetched, Fetches, AtEnd
  <2> QED
    BY <1>3, <2>2, FetchMoves
<1>5. CASE bStallIF \/ ~Frozen
  <2>1. NextCounter = IRBuffered + 2
    <3>1. CASE bStallIF
      <4>1. programCounter = IRBuffered + 2
        BY <1>1, <3>1 DEF Fetching
      <4> QED
        BY <3>1, <4>1 DEF NextCounter, Fetches
    <3>2. CASE ~bStallIF /\ ~Frozen
      <4>1. programCounter = IRBuffered + 1
        BY <1>1, <3>2 DEF Fetching
      <4> QED
        BY <1>2, <3>2, <4>1 DEF NextCounter, Fetches, AtEnd
    <3> QED
      BY <1>5, <3>1, <3>2
  <2>2. Flushes
    BY <1>3, <2>1 DEF Flushes
  <2> QED
    BY <1>3, <2>2, FetchMoves
<1> QED
  BY <1>4, <1>5

\* When it lets a line go, what comes next is where that line leads.
LEMMA ComingMoves ==
  ASSUME Types, Right, Fetching, Ready, Cycle, CyclesLeft = 0, Decoding, ~Hazard(Line)
  PROVE  Coming' = After(vprogram, WrittenBack, IRBuffered)
<1> USE CountersAre
<1>1. ~bStallIF' /\ IRBuffered' = IR'
  <2>1. ~bStallIF'
    BY FetchMoves DEF Fetching
  <2> QED
    BY <2>1, FetchMoves
<1>2. ~Frozen'
  BY FetchMoves
<1>3. Coming' = IF IR' # Empty THEN IR'
                ELSE IF programCounter' > Size THEN Size ELSE programCounter'
  BY <1>1, <1>2 DEF Coming
<1>4. Branched <=> Holds(Line, Val(WrittenBack, Line.a), Val(WrittenBack, Line.b))
  BY DEF Ready, Branched
<1>5. CASE Branched
  <2>1. programCounter' = Line.n /\ IR' = Empty /\ Line.n \in Lines
    BY <1>5, WhenBranched
  <2>2. Coming' = Line.n
    BY <1>3, <2>1
  <2> QED
    BY <1>4, <1>5, <2>2 DEF After, Line
<1>6. CASE ~Branched
  <2>1. programCounter' = IRBuffered + 2 /\ IR' = Following
    BY <1>6, NotBranched
  <2>2. IRBuffered \in Nat /\ IRBuffered < Size
    OBVIOUS
  <2>3. Coming' = IRBuffered + 1
    <3>1. CASE IRBuffered + 1 < Size
      <4>1. IR' = IRBuffered + 1 /\ IR' # Empty
        BY <2>1, <2>2, <3>1 DEF Following
      <4> QED
        BY <1>3, <4>1
    <3>2. CASE IRBuffered + 1 = Size
      <4>1. IR' = Empty /\ programCounter' = Size + 1
        BY <2>1, <2>2, <3>2 DEF Following
      <4> QED
        BY <1>3, <3>2, <4>1
    <3> QED
      BY <2>2, <3>1, <3>2
  <2> QED
    BY <1>4, <1>6, <2>3 DEF After, Line
<1> QED
  BY <1>5, <1>6

\* What is behind the instructions that execute, and what is the oldest before
\* the write back, after a cycle.
LEMMA BehindMoves ==
  ASSUME Types, Right, Fetching, Cycle
  PROVE  /\ Behind' = IF CyclesLeft = 0 THEN Coming ELSE Behind
         /\ Oldest' = Behind
         /\ Frozen' => Executing'
<1> USE TypesAre
<1>1. /\ decodeExecuteBuffered' =
           IF CyclesLeft = 0 THEN Decoded ELSE decodeExecuteBuffered
      /\ executeMemBuffered'.at = IF CyclesLeft = 0 THEN decodeExecuteBuffered.at ELSE Empty
      /\ CyclesLeft \in Nat /\ Frozen' = (CyclesLeft # 0)
  <2>1. CanExecute
    BY DEF Cycle
  <2> QED
    BY <2>1, LatchesMove, ExecutedIs, FetchMoves
<1>2. ~Executing => CyclesLeft = 0
  BY DEF CyclesLeft
<1>3. Behind' = IF decodeExecuteBuffered'.at # Empty THEN decodeExecuteBuffered'.at
                ELSE Coming'
  BY DEF Behind, Executing
<1>4. Executing' = (decodeExecuteBuffered'.at # Empty)
  BY DEF Executing
<1>5. Frozen' => Executing'
  BY <1>1, <1>2, <1>4 DEF Executing
<1>6. Oldest' = IF executeMemBuffered'.at # Empty THEN executeMemBuffered'.at
                ELSE Behind'
  <2>1. Oldest' = IF executeMemBuffered'.at # Empty THEN executeMemBuffered'.at
                  ELSE IF decodeExecuteBuffered'.at # Empty THEN decodeExecuteBuffered'.at
                  ELSE IF IRBuffered' # Empty THEN IRBuffered'
                  ELSE IF programCounter' > Size THEN Size ELSE programCounter'
    BY DEF Oldest
  <2>2. Coming' = IF IRBuffered' # Empty THEN IRBuffered'
                  ELSE IF Frozen' /\ IR' # Empty THEN IR'
                  ELSE IF programCounter' > Size THEN Size ELSE programCounter'
    BY DEF Coming
  <2> QED
    BY <1>3, <1>4, <1>5, <2>1, <2>2
<1>7. CASE CyclesLeft # 0
  <2>1. Behind = decodeExecuteBuffered.at /\ Behind # Empty
    BY <1>2, <1>7 DEF Behind, Executing
  <2>2. Behind' = decodeExecuteBuffered.at
    BY <1>1, <1>3, <1>7, <2>1
  <2> QED
    BY <1>1, <1>5, <1>6, <1>7, <2>1, <2>2
<1>8. CASE CyclesLeft = 0
  <2>1. Behind' = Coming
    <3>1. CASE Decoded.at = Empty
      BY <1>1, <1>3, <1>8, <3>1, ComingStays
    <3>2. CASE Decoded.at # Empty
      <4>1. Decoding /\ Decoded.at = IRBuffered
        BY <3>2 DEF Decoded, Bubble
      <4> QED
        BY <1>1, <1>3, <1>8, <3>2, <4>1 DEF Coming, Decoding
    <3> QED
      BY <3>1, <3>2
  <2>2. Oldest' = Behind
    BY <1>1, <1>6, <1>8, <2>1 DEF Behind, Executing
  <2> QED
    BY <1>5, <1>8, <2>1, <2>2
<1> QED
  BY <1>7, <1>8

\* The parts of the invariant, one after the other.
LEMMA RightStep ==
  ASSUME Types, Right, Cycle
  PROVE  Right'
<1> USE TypesAre, WordsAre
<1>1. Careful(vprogram')
  <2>1. Careful(vprogram) /\ vprogram' = vprogram
    BY LatchesMove DEF Right
  <2> QED
    BY <2>1
<1>2. mem' \in [Word -> Word]
  <2>1. mem \in [Word -> Word] /\ mem' = MemoryAfter
    BY LatchesMove DEF Right
  <2>2. CASE executeMemBuffered.at # Empty /\ InMemory.op \in {"S", "SUB"}
    <3>1. InMemory.a \in Names /\ InMemory.t \in Names /\ WellFormed(InMemory)
      BY <2>2, LinesAre DEF InMemory
    <3>2. Stored(InMemory) \in Registers
      BY <2>2, <3>1 DEF Stored, WellFormed, Names, Arithmetic
    <3>3. SeenRegisters[Stored(InMemory)] \in Word
      BY <3>2, RegistersAre
    <3> QED
      BY <2>1, <2>2, <3>3 DEF MemoryAfter
  <2>3. CASE ~(executeMemBuffered.at # Empty /\ InMemory.op \in {"S", "SUB"})
    BY <2>1, <2>3 DEF MemoryAfter
  <2> QED
    BY <2>2, <2>3
<1>3. MemWBBuffered'.a \in Word
  BY LatchesMove
<1> QED
  BY <1>1, <1>2, <1>3 DEF Right

LEMMA PathStep ==
  ASSUME PipeInv, Cycle
  PROVE  Path'
<1>1. Types /\ Right /\ Fetching /\ Path /\ Operands /\ Ready
  BY ReadyIs DEF PipeInv
<1> USE TypesAre
<1>2. CanExecute
  BY DEF Cycle
<1>3. vprogram' = vprogram /\ Frozen' = (CyclesLeft # 0)
  BY <1>1, LatchesMove, FetchMoves
<1>4. MemWBBuffered'.at = executeMemBuffered.at
  BY <1>1, LatchesMove
<1>5. executeMemBuffered'.at = IF CyclesLeft = 0 THEN decodeExecuteBuffered.at ELSE Empty
  BY <1>1, <1>2, LatchesMove, ExecutedIs
<1>6. decodeExecuteBuffered' = IF CyclesLeft = 0 THEN Decoded ELSE decodeExecuteBuffered
  BY <1>1, LatchesMove
<1>7. /\ Behind' = IF CyclesLeft = 0 THEN Coming ELSE Behind
      /\ Oldest' = Behind
  BY <1>1, BehindMoves
<1>8. Executing => After(vprogram', WrittenBack', decodeExecuteBuffered.at)
                     = After(vprogram, WrittenBack, decodeExecuteBuffered.at)
  BY <1>1, AfterStays DEF Operands, InExecute, Executing
<1>9. ASSUME MemWBBuffered'.at # Empty
      PROVE  Oldest' \in Successors(vprogram', MemWBBuffered'.at)
  <2>1. Behind = After(vprogram, WrittenBack, executeMemBuffered.at)
    BY <1>1, <1>4, <1>9 DEF Path
  <2> QED
    BY <1>3, <1>4, <1>7, <2>1, AfterIs
<1>10. ASSUME executeMemBuffered'.at # Empty
       PROVE  Behind' = After(vprogram', WrittenBack', executeMemBuffered'.at)
  <2>1. CyclesLeft = 0 /\ Executing /\ executeMemBuffered'.at = decodeExecuteBuffered.at
    BY <1>5, <1>10 DEF Executing
  <2> QED
    BY <1>1, <1>7, <1>8, <2>1 DEF Path
<1>11. ASSUME Executing'
       PROVE  Coming' = After(vprogram', WrittenBack', decodeExecuteBuffered'.at)
  <2>1. decodeExecuteBuffered'.at # Empty
    BY <1>11 DEF Executing
  <2>2. CASE CyclesLeft # 0
    <3>1. Executing /\ decodeExecuteBuffered' = decodeExecuteBuffered
      BY <1>6, <2>1, <2>2 DEF Executing
    <3>2. Coming' = Coming
      BY <1>1, <2>2, ComingStays
    <3> QED
      BY <1>1, <1>8, <3>1, <3>2 DEF Path
  <2>3. CASE CyclesLeft = 0
    <3>1. Decoding /\ ~Hazard(Line) /\ decodeExecuteBuffered'.at = IRBuffered
      BY <1>6, <2>1, <2>3 DEF Decoded, Bubble
    <3>2. Coming' = After(vprogram, WrittenBack, IRBuffered)
      BY <1>1, <2>3, <3>1, ComingMoves
    <3>3. IRBuffered \in Lines /\ Spared(executeMemBuffered, vprogram[IRBuffered])
      BY <1>1, <3>1, LineIs DEF Ready, Line
    <3> QED
      BY <1>1, <3>1, <3>2, <3>3, AfterStays
  <2> QED
    BY <2>2, <2>3
<1> QED
  BY <1>9, <1>10, <1>11 DEF Path

LEMMA OperandsStep ==
  ASSUME PipeInv, Cycle
  PROVE  Operands'
<1>1. Types /\ Right /\ Fetching /\ Path /\ Operands /\ Ready
  BY ReadyIs DEF PipeInv
<1> USE TypesAre
<1>2. CanExecute
  BY DEF Cycle
<1>3. /\ vprogram' = vprogram /\ executeMemBuffered' = Executed
      /\ decodeExecuteBuffered' = IF CyclesLeft = 0 THEN Decoded
                                                    ELSE decodeExecuteBuffered
  BY <1>1, LatchesMove
<1>4. /\ Executed.at = IF CyclesLeft = 0 THEN decodeExecuteBuffered.at ELSE Empty
      /\ Executed.at # Empty =>
           /\ InExecute.op = "DIV" =>
                Divides(decodeExecuteBuffered.a, decodeExecuteBuffered.b)
           /\ Executed.a = Result(InExecute, decodeExecuteBuffered.a,
                                  decodeExecuteBuffered.b)
  BY <1>1, <1>2, ExecutedIs
<1>5. Target(MemWBBuffered)' = Target(executeMemBuffered)
  BY <1>1, RegistersMove
<1>6. Target(executeMemBuffered)' = IF Executed.at = Empty THEN None
                                    ELSE vprogram[Executed.at].t
  BY <1>3 DEF Target
<1>7. Executing =>
        /\ Val(WrittenBack', InExecute.a) = Val(WrittenBack, InExecute.a)
        /\ Val(WrittenBack', InExecute.b) = Val(WrittenBack, InExecute.b)
  <2>1. Executing => InExecute.a \in Names /\ InExecute.b \in Names
    BY LinesAre, <1>1 DEF InExecute, Executing
  <2> QED
    BY <1>1, <2>1, ValStays DEF Operands
<1>8. ASSUME Executing'
      PROVE  /\ decodeExecuteBuffered'.a = Val(WrittenBack', InExecute'.a)
             /\ decodeExecuteBuffered'.b = Val(WrittenBack', InExecute'.b)
             /\ Spared(executeMemBuffered, InExecute)'
  <2>1. decodeExecuteBuffered'.at # Empty
    BY <1>8 DEF Executing
  <2>2. InExecute' = vprogram[decodeExecuteBuffered'.at]
    BY <1>3 DEF InExecute
  <2>3. CASE CyclesLeft # 0
    <3>1. Executing /\ decodeExecuteBuffered' = decodeExecuteBuffered
          /\ InExecute' = InExecute
      BY <1>3, <2>1, <2>2, <2>3 DEF Executing, InExecute
    <3>2. Target(executeMemBuffered)' = None
      BY <1>4, <1>6, <2>3
    <3> QED
      BY <1>1, <1>7, <3>1, <3>2 DEF Operands, Spared
  <2>4. CASE CyclesLeft = 0
    <3>1. /\ Decoding /\ ~Hazard(Line) /\ InExecute' = Line
          /\ decodeExecuteBuffered'.a = Seen(Line.a)
          /\ decodeExecuteBuffered'.b = Seen(Line.b)
      BY <1>3, <2>1, <2>2, <2>4 DEF Decoded, Bubble, Line
    <3>2. /\ Spared(decodeExecuteBuffered, Line) /\ Spared(executeMemBuffered, Line)
          /\ Seen(Line.a) = Val(WrittenBack, Line.a)
          /\ Seen(Line.b) = Val(WrittenBack, Line.b)
      BY <1>1, <3>1 DEF Ready
    <3>3. /\ Val(WrittenBack', Line.a) = Val(WrittenBack, Line.a)
          /\ Val(WrittenBack', Line.b) = Val(WrittenBack, Line.b)
      BY <1>1, <3>1, <3>2, LineIs, ValStays
    <3>4. Target(executeMemBuffered)' = Target(decodeExecuteBuffered)
      BY <1>4, <1>6, <2>4 DEF Target
    <3> QED
      BY <3>1, <3>2, <3>3, <3>4 DEF Spared
  <2> QED
    BY <2>3, <2>4
<1>9. ASSUME executeMemBuffered'.at # Empty
      PROVE  /\ InMemory'.op = "DIV" => Divides(Val(WrittenBack', InMemory'.a),
                                                Val(WrittenBack', InMemory'.b))
             /\ executeMemBuffered'.a = Result(InMemory', Val(WrittenBack', InMemory'.a),
                                                         Val(WrittenBack', InMemory'.b))
             /\ Spared(MemWBBuffered, InMemory)'
  <2>1. /\ Executed.at # Empty /\ Executing /\ Executed.at = decodeExecuteBuffered.at
    BY <1>3, <1>4, <1>9 DEF Executing
  <2>2. InMemory' = InExecute
    BY <1>3, <2>1 DEF InMemory, InExecute
  <2>3. /\ decodeExecuteBuffered.a = Val(WrittenBack, InExecute.a)
        /\ decodeExecuteBuffered.b = Val(WrittenBack, InExecute.b)
        /\ Spared(executeMemBuffered, InExecute)
    BY <1>1, <2>1 DEF Operands
  <2>4. Spared(MemWBBuffered, InMemory)'
    BY <1>5, <2>2, <2>3 DEF Spared
  <2> QED
    BY <1>3, <1>4, <1>7, <2>1, <2>2, <2>3, <2>4
<1> QED
  BY <1>8, <1>9 DEF Operands

\* Without a line to decode the fetch is one ahead of the line it has fetched.
LEMMA FetchAlone ==
  ASSUME Types, Fetching, Cycle, ~Decoding
  PROVE  /\ ~bStallIF' /\ programCounter' = NextCounter /\ IR' = Fetched
         /\ NextCounter = IF Fetched = Empty THEN Size + 1 ELSE Fetched + 1
<1> USE CountersAre
<1>1. ~bStallIF /\ ~bStallIF' /\ ~Branched /\ ~Flushes
  BY FetchMoves DEF Fetching, Branched, Flushes
<1>2. programCounter' = NextCounter /\ IR' = Fetched
  BY <1>1, FetchMoves
<1>3. CASE Frozen
  <2>1. NextCounter = programCounter
    BY <1>3 DEF NextCounter, Fetches
  <2>2. programCounter = IF IR = Empty THEN Size + 1 ELSE IR + 1
    BY <1>3 DEF Fetching
  <2>3. Fetched = IR
    BY <1>3, <2>2 DEF Fetched, Fetches, AtEnd
  <2> QED
    BY <1>1, <1>2, <2>1, <2>2, <2>3
<1>4. CASE ~Frozen
  <2>1. CASE programCounter < Size
    <3>1. Fetched = programCounter /\ NextCounter = programCounter + 1
      BY <1>1, <1>4, <2>1 DEF Fetched, Fetches, NextCounter
    <3> QED
      BY <1>1, <1>2, <3>1
  <2>2. CASE programCounter = Size
    <3>1. Fetched = Empty /\ NextCounter = Size + 1
      BY <1>1, <1>4, <2>2 DEF Fetched, Fetches, AtEnd, NextCounter
    <3> QED
      BY <1>1, <1>2, <3>1
  <2>3. CASE programCounter > Size
    <3>1. IR = Empty
      BY <1>4, <2>3 DEF Fetching
    <3>2. Fetched = Empty /\ NextCounter = programCounter
      BY <2>3, <3>1 DEF Fetched, Fetches, AtEnd, NextCounter
    <3> QED
      BY <1>1, <1>2, <2>3, <3>2
  <2> QED
    BY <2>1, <2>2, <2>3
<1> QED
  BY <1>3, <1>4

\* Behind a frozen execute a branch is decided again, and in the same way.
LEMMA BranchedAgain ==
  ASSUME Types, Right, Ready, Ready', Cycle, Decoding, ~Hazard(Line),
         IRBuffered' = IRBuffered, CyclesLeft # 0
  PROVE  Branched' <=> Branched
<1> USE TypesAre
<1>1. vprogram' = vprogram /\ decodeExecuteBuffered' = decodeExecuteBuffered
  BY LatchesMove
<1>2. executeMemBuffered'.at = Empty
  <2>1. CanExecute
    BY DEF Cycle
  <2> QED
    BY <2>1, LatchesMove, ExecutedIs
<1>3. Decoding' /\ Line' = Line
  BY <1>1 DEF Decoding, Line
<1>4. ~Hazard(Line)'
  <2>1. ASSUME NEW k \in DOMAIN Checked(Line) PROVE ~Busy(Checked(Line)[k])'
    <3>1. ~Writes(decodeExecuteBuffered, Checked(Line)[k])
      BY DEF Hazard, Busy
    <3>2. Target(decodeExecuteBuffered)' = Target(decodeExecuteBuffered)
      BY <1>1 DEF Target
    <3>3. Target(executeMemBuffered)' = None
      BY <1>2 DEF Target
    <3>4. Checked(Line)' = Checked(Line)
      BY <1>3
    <3> QED
      BY <3>1, <3>2, <3>3, <3>4 DEF Busy, Writes
  <2> QED
    BY <1>3, <2>1 DEF Hazard
<1>5. /\ Val(WrittenBack', Line.a) = Val(WrittenBack, Line.a)
      /\ Val(WrittenBack', Line.b) = Val(WrittenBack, Line.b)
  BY LineIs, ValStays DEF Ready
<1>6. Branched <=> Holds(Line, Val(WrittenBack, Line.a), Val(WrittenBack, Line.b))
  BY DEF Branched, Ready
<1>7. Branched' <=> Holds(Line', Val(WrittenBack', Line'.a), Val(WrittenBack', Line'.b))
  BY <1>3, <1>4 DEF Branched, Ready
<1> QED
  BY <1>3, <1>5, <1>6, <1>7

LEMMA FetchingStep ==
  ASSUME Types, Right, Fetching, Ready, Ready', Cycle
  PROVE  Fetching'
<1> USE CountersAre
<1>1. /\ bStallIF' = IF Decoding /\ Checked(Line) # << >> THEN Hazard(Line)
                                                          ELSE bStallIF
      /\ bStallIF' \in BOOLEAN
      /\ Frozen' = (CyclesLeft # 0)
      /\ IRBuffered' = IF ~bStallIF' /\ CyclesLeft = 0 THEN IR' ELSE IRBuffered
      /\ vprogram' = vprogram
  BY FetchMoves, LatchesMove
<1>2. bStallIF => Decoding /\ Checked(Line) # << >>
  BY DEF Fetching
<1>3. Hazard(Line) => Checked(Line) # << >>
  <2>1. Checked(Line) = << >> => DOMAIN Checked(Line) = {}
    OBVIOUS
  <2> QED
    BY <2>1 DEF Hazard
<1>4. Decoding' = (IRBuffered' # Empty)
  BY DEF Decoding
<1>5. bStallIF' => /\ Decoding /\ Hazard(Line) /\ Checked(Line) # << >>
                   /\ IRBuffered' = IRBuffered
  BY <1>1, <1>2
<1>6. Decoding /\ ~bStallIF' => ~Hazard(Line)
  BY <1>1, <1>2, <1>3
<1>7. IRBuffered' = IRBuffered => /\ Line' = Line /\ Checked(Line)' = Checked(Line)
                                  /\ Following' = Following
  BY <1>1 DEF Line, Following
<1>8. bStallIF' => Decoding' /\ Checked(Line)' # << >>
  BY <1>4, <1>5, <1>7 DEF Decoding
<1>9. Frozen' => Executing'
  BY BehindMoves
<1>10. ~Decoding' /\ ~Frozen' => (programCounter' > Size => IR' = Empty)
  BY <1>1, <1>4, <1>8
<1>11. ASSUME ~Decoding', Frozen'
       PROVE  programCounter' = IF IR' = Empty THEN Size + 1 ELSE IR' + 1
  <2>1. ~Decoding
    BY <1>1, <1>4, <1>11 DEF Decoding
  <2> QED
    BY <2>1, FetchAlone
<1>12. ASSUME Decoding', ~bStallIF', ~Frozen'
       PROVE  programCounter' = IRBuffered' + 1
  <2>1. IRBuffered' = IR' /\ IR' # Empty
    BY <1>1, <1>4, <1>12
  <2>2. CASE ~Decoding
    BY <2>1, <2>2, FetchAlone
  <2>3. CASE Decoding /\ Branched
    BY <2>1, <2>3, WhenBranched
  <2>4. CASE Decoding /\ ~Branched
    <3>1. programCounter' = IRBuffered + 2 /\ IR' = Following
      BY <2>4, NotBranched
    <3>2. IR' = IRBuffered + 1
      BY <2>1, <3>1 DEF Following
    <3>3. IRBuffered \in Nat
      BY <2>4
    <3> QED
      BY <2>1, <3>1, <3>2, <3>3
  <2> QED
    BY <2>2, <2>3, <2>4
<1>13. ASSUME Decoding', ~bStallIF', Frozen'
       PROVE  IF Branched' THEN programCounter' = Line'.n /\ IR' = Empty
              ELSE programCounter' = IRBuffered' + 2 /\ IR' = Following'
  <2>1. IRBuffered' = IRBuffered /\ CyclesLeft # 0
    BY <1>1, <1>13
  <2>2. Decoding /\ ~Hazard(Line)
    BY <1>4, <1>6, <1>13, <2>1 DEF Decoding
  <2>3. Branched' <=> Branched
    BY <2>1, <2>2, BranchedAgain
  <2>4. CASE Branched
    <3>1. programCounter' = Line.n /\ IR' = Empty
      BY <2>4, WhenBranched
    <3> QED
      BY <1>7, <2>1, <2>3, <2>4, <3>1
  <2>5. CASE ~Branched
    <3>1. programCounter' = IRBuffered + 2 /\ IR' = Following
      BY <2>2, <2>5, NotBranched
    <3> QED
      BY <1>7, <2>1, <2>3, <2>5, <3>1
  <2> QED
    BY <2>4, <2>5
<1>14. ASSUME bStallIF'
       PROVE  programCounter' = IRBuffered' + 2 /\ IR' = Following'
  <2>1. Decoding /\ ~Branched /\ IRBuffered' = IRBuffered
    BY <1>5, <1>14 DEF Branched
  <2>2. programCounter' = IRBuffered + 2 /\ IR' = Following
    BY <2>1, NotBranched
  <2> QED
    BY <1>7, <2>1, <2>2
<1>15. Decoding' =>
         IF ~bStallIF' /\ ~Frozen' THEN programCounter' = IRBuffered' + 1
         ELSE IF ~bStallIF' /\ Branched' THEN programCounter' = Line'.n /\ IR' = Empty
         ELSE programCounter' = IRBuffered' + 2 /\ IR' = Following'
  BY <1>12, <1>13, <1>14
<1> QED
  BY <1>8, <1>9, <1>10, <1>11, <1>15 DEF Fetching

\* What the programs and the memories must be: every branch is one this pipeline
\* is right for, nothing is subtracted, and every cell has a number.
AllCareful == (\A p \in Programs : Careful(p)) /\ Contents \subseteq [Word -> Word]

LEMMA PipeInit == AllCareful /\ Init => PipeInv
<1> SUFFICES ASSUME AllCareful, Init PROVE PipeInv
  OBVIOUS
<1>1. Types
  BY TypesInit
<1>2. Right
  BY WordsAre DEF AllCareful, Init, Right, Bubble
<1>3. ~Decoding /\ ~Frozen /\ ~Executing /\ ~bStallIF /\ programCounter = 0
      /\ executeMemBuffered.at = Empty /\ MemWBBuffered.at = Empty
  BY DEF Init, Decoding, Frozen, Executing, Bubble
<1>4. Fetching
  BY <1>3, WordsAre DEF Fetching
<1>5. Path /\ Operands
  BY <1>3 DEF Path, Operands
<1> QED
  BY <1>1, <1>2, <1>4, <1>5 DEF PipeInv

LEMMA PipeStep == PipeInv /\ [Cycle]_vars => PipeInv'
<1> SUFFICES ASSUME PipeInv, [Cycle]_vars PROVE PipeInv'
  OBVIOUS
<1>1. CASE Cycle
  <2>1. Types /\ Right /\ Fetching /\ Ready
    BY ReadyIs DEF PipeInv
  <2>2. Types'
    BY <1>1, <2>1, TypesStep
  <2>3. Right'
    BY <1>1, <2>1, RightStep
  <2>4. Path' /\ Operands'
    BY <1>1, PathStep, OperandsStep
  <2>5. Fetching'
    BY <1>1, <2>1, <2>2, <2>3, <2>4, ReadyNext, FetchingStep
  <2> QED
    BY <2>2, <2>3, <2>4, <2>5 DEF PipeInv
<1>2. CASE UNCHANGED vars
  <2>1. Types'
    BY <1>2, TypesStep DEF PipeInv
  <2> USE <1>2 DEF vars, machine, latches
  <2>2. Right'
    BY DEF PipeInv, Right
  <2>3. /\ Target(executeMemBuffered)' = Target(executeMemBuffered)
        /\ Target(decodeExecuteBuffered)' = Target(decodeExecuteBuffered)
        /\ Target(MemWBBuffered)' = Target(MemWBBuffered)
        /\ InExecute' = InExecute /\ InMemory' = InMemory /\ Line' = Line
    BY DEF Target, InExecute, InMemory, Line
  <2>4. /\ WrittenBack' = WrittenBack /\ Executing' = Executing /\ Decoding' = Decoding
        /\ Frozen' = Frozen
    BY <2>3 DEF WrittenBack, Executing, Decoding, Frozen
  <2>5. Operands'
    BY <2>3, <2>4 DEF PipeInv, Operands, Spared
  <2>6. Coming' = Coming /\ Oldest' = Oldest /\ Following' = Following
    BY <2>4 DEF Coming, Oldest, Following
  <2>7. Behind' = Behind
    BY <2>4, <2>6 DEF Behind
  <2>8. Path'
    BY <2>4, <2>6, <2>7 DEF PipeInv, Path
  <2>9. Branched' = Branched
    <3>1. Hazard(Line)' = Hazard(Line)
      BY <2>3 DEF Hazard, Busy, Writes
    <3>2. SeenRegisters' = SeenRegisters
      BY <2>3, <2>4 DEF SeenRegisters, LookedAt, Busy, Writes
    <3>3. Seen(Line.a)' = Seen(Line.a) /\ Seen(Line.b)' = Seen(Line.b)
      BY <2>3, <3>2 DEF Seen
    <3> QED
      BY <2>3, <2>4, <3>1, <3>3 DEF Branched
  <2>10. Fetching'
    BY <2>3, <2>4, <2>6, <2>9 DEF PipeInv, Fetching
  <2> QED
    BY <2>1, <2>2, <2>5, <2>8, <2>10 DEF PipeInv
<1> QED
  BY <1>1, <1>2

LEMMA SeqInit == Init => Sequential!Init
<1> SUFFICES ASSUME Init PROVE Sequential!Init
  OBVIOUS
<1>1. WrittenBack = registers
  BY DEF Init, WrittenBack, Target, Bubble
<1>2. Oldest = 0
  BY WordsAre DEF Init, Oldest, Bubble
<1> QED
  BY <1>1, <1>2 DEF Init, Sequential!Init

\* A cycle in which nothing leaves the memory stage changes nothing the
\* sequential processor has.
LEMMA SeqStutters ==
  ASSUME PipeInv, Cycle, executeMemBuffered.at = Empty
  PROVE  UNCHANGED Sequential!vars
<1>1. Types /\ Right /\ Fetching
  BY DEF PipeInv
<1>2. Oldest' = Oldest
  BY <1>1, BehindMoves, OldestIs
<1>3. WrittenBack' = WrittenBack
  BY <1>1, RegistersMove DEF Target
<1>4. mem' = mem /\ vprogram' = vprogram
  BY <1>1, LatchesMove DEF MemoryAfter
<1> QED
  BY <1>2, <1>3, <1>4 DEF Sequential!vars

\* What an instruction that leaves the memory stage does.
LEMMA LeavesMemory ==
  ASSUME PipeInv, Cycle, executeMemBuffered.at # Empty
  PROVE  LET i == InMemory
             x == Val(WrittenBack, i.a)
             y == Val(WrittenBack, i.b)
         IN  /\ i.op \in OpCodes \ {"SUB"} /\ WellFormed(i) /\ i.t \in Names
             /\ i.op = "DIV" => Divides(x, y)
             /\ WrittenBack' =
                  IF i.t = None THEN WrittenBack
                  ELSE [WrittenBack EXCEPT
                          ![i.t] = IF i.op = "L" THEN mem[Sum(i.n, y)]
                                                 ELSE Result(i, x, y)]
             /\ mem' = IF i.op = "S" THEN [mem EXCEPT ![Sum(i.n, y)] = x] ELSE mem
             /\ Loaded(mem[Sum(i.n, y)]) = mem[Sum(i.n, y)]
<1> DEFINE i == InMemory
           x == Val(WrittenBack, i.a)
           y == Val(WrittenBack, i.b)
<1>1. Types /\ Right /\ Fetching /\ Operands
  BY DEF PipeInv
<1>2. executeMemBuffered.at \in Lines
  BY <1>1, TypesAre
<1>3. /\ i.op \in OpCodes /\ WellFormed(i) /\ i.n \in Int
      /\ i.t \in Names /\ i.a \in Names /\ i.b \in Names
  BY <1>1, <1>2, TypesAre, LinesAre DEF InMemory
<1>4. i.op # "SUB"
  BY <1>1, <1>2 DEF Right, Careful, InMemory
<1>5. /\ i.op = "DIV" => Divides(x, y)
      /\ executeMemBuffered.a = Result(i, x, y)
      /\ Spared(MemWBBuffered, i)
  BY <1>1 DEF Operands
<1>6. i.op \in {"L", "S"} => Result(i, x, y) = Sum(i.n, y)
  BY DEF Result, Arithmetic
<1>7. MemoryDone.a = IF i.op = "L" THEN mem[Sum(i.n, y)] ELSE Result(i, x, y)
  BY <1>5, <1>6 DEF MemoryDone
<1>8. WrittenBack' = IF i.t = None THEN WrittenBack
                     ELSE [WrittenBack EXCEPT ![i.t] = MemoryDone.a]
  BY <1>1, RegistersMove DEF Target, InMemory
<1>9. i.op = "S" => SeenRegisters[i.a] = x
  <2>1. i.op = "S" => i.a \in Registers /\ i.a # None
    BY <1>3 DEF WellFormed, Names
  <2>2. i.op = "S" /\ Target(MemWBBuffered) # i.a => WrittenBack[i.a] = registers[i.a]
    BY <2>1, <1>1, TypesAre DEF WrittenBack
  <2>3. i.op = "S" => Target(MemWBBuffered) # i.a
    BY <1>5, <2>1 DEF Spared
  <2> QED
    BY <2>1, <2>2, <2>3 DEF SeenRegisters, Val
<1>10. mem' = IF i.op = "S" THEN [mem EXCEPT ![Sum(i.n, y)] = x] ELSE mem
  <2>1. mem' = MemoryAfter
    BY <1>1, LatchesMove
  <2> QED
    BY <1>4, <1>5, <1>6, <1>9, <2>1 DEF MemoryAfter, Stored
<1>11. Loaded(mem[Sum(i.n, y)]) = mem[Sum(i.n, y)]
  <2>1. y \in Word
    BY <1>1, <1>3, RegistersAre, WordsAre DEF Val, Names
  <2>2. i.n + y \in Int
    <3> HIDE DEF y, i
    <3>1. y \in Int
      BY <2>1, WordIsInt
    <3> QED
      BY <1>3, <3>1
  <2>3. Sum(i.n, y) \in Word
    BY <2>2, WordsAre DEF Sum
  <2>4. mem[Sum(i.n, y)] \in Word
    BY <1>1, <2>3 DEF Right
  <2> QED
    BY <2>4, WordsAre DEF Loaded
<1> QED
  BY <1>3, <1>4, <1>5, <1>7, <1>8, <1>10, <1>11

\* Both processors have the same instructions.
LEMMA SameIsa ==
  /\ Sequential!Arithmetic = Arithmetic /\ Sequential!Branches = Branches
  /\ \A x, y : Sequential!Divides(x, y) = Divides(x, y)
  /\ \A x, y : Sequential!Sum(x, y) = Sum(x, y)
  /\ \A op, x, y : Sequential!Compute(op, x, y) = Compute(op, x, y)
  /\ \A i, x, y : Sequential!Holds(i, x, y) = Holds(i, x, y)
  /\ \A v : Sequential!Loaded(v) = Loaded(v)
<1>1. /\ Sequential!Arithmetic = Arithmetic /\ Sequential!Branches = Branches
  BY DEF Sequential!Arithmetic, Sequential!Branches, Arithmetic, Branches
<1>2. \A v : Sequential!Signed(v) = Signed(v)
  BY DEF Sequential!Signed, Signed
<1>3. \A v : Sequential!Magnitude(v) = Magnitude(v)
  BY DEF Sequential!Magnitude, Magnitude
<1>4. /\ \A x, y : Sequential!Divides(x, y) = Divides(x, y)
      /\ \A x, y : Sequential!Sum(x, y) = Sum(x, y)
      /\ \A x, y : Sequential!Difference(x, y) = Difference(x, y)
      /\ \A x, y : Sequential!Product(x, y) = Product(x, y)
  BY DEF Sequential!Divides, Divides, Sequential!Sum, Sum,
         Sequential!Difference, Difference, Sequential!Product, Product
<1>5. \A x, y : Sequential!Quotient(x, y) = Quotient(x, y)
  BY <1>2, <1>3 DEF Sequential!Quotient, Quotient
<1>6. \A op, x, y : Sequential!Compute(op, x, y) = Compute(op, x, y)
  BY <1>4, <1>5 DEF Sequential!Compute, Compute
<1>7. \A i, x, y : Sequential!Holds(i, x, y) = Holds(i, x, y)
  BY <1>2 DEF Sequential!Holds, Holds
<1>8. \A v : Sequential!Loaded(v) = Loaded(v)
  BY DEF Sequential!Loaded, Loaded
<1> QED
  BY <1>1, <1>4, <1>6, <1>7, <1>8

\* The instruction that leaves the memory stage is the next one of the sequential
\* processor, and has the effect it has there.
LEMMA SeqExecutes ==
  ASSUME PipeInv, Cycle, executeMemBuffered.at # Empty
  PROVE  Sequential!Execute
<1> DEFINE i == InMemory
           x == Val(WrittenBack, i.a)
           y == Val(WrittenBack, i.b)
<1>1. Types /\ Right /\ Fetching /\ Path
  BY DEF PipeInv
<1>2. Oldest = executeMemBuffered.at /\ Oldest \in Lines /\ i = vprogram[Oldest]
  BY <1>1, OldestIs, TypesAre DEF InMemory
<1>3. Oldest # Size
  BY <1>2, WordsAre DEF Lines
<1>4. vprogram' = vprogram
  BY <1>1, LatchesMove
<1>5. Oldest' = IF Holds(i, x, y) THEN i.n ELSE Oldest + 1
  <2>1. Oldest' = After(vprogram, WrittenBack, Oldest)
    BY <1>1, <1>2, BehindMoves DEF Path
  <2> QED
    BY <1>2, <2>1 DEF After
<1>6. Sequential!Reg(i.a) = x /\ Sequential!Reg(i.b) = y
  BY DEF Sequential!Reg, Val
<1>7. /\ i.op \in OpCodes \ {"SUB"} /\ WellFormed(i) /\ i.t \in Names
      /\ i.op = "DIV" => Divides(x, y)
      /\ WrittenBack' =
           IF i.t = None THEN WrittenBack
           ELSE [WrittenBack EXCEPT
                   ![i.t] = IF i.op = "L" THEN mem[Sum(i.n, y)] ELSE Result(i, x, y)]
      /\ mem' = IF i.op = "S" THEN [mem EXCEPT ![Sum(i.n, y)] = x] ELSE mem
      /\ Loaded(mem[Sum(i.n, y)]) = mem[Sum(i.n, y)]
  BY LeavesMemory
<1>8. \/ Sequential!Computed(i) \/ Sequential!LoadImmediate(i) \/ Sequential!Move(i)
      \/ Sequential!Load(i) \/ Sequential!Store(i) \/ Sequential!NoEffect(i)
  <2> HIDE DEF i, x, y
  <2>1. CASE i.op \in Arithmetic
    <3>1. /\ Result(i, x, y) = Compute(i.op, x, y)
          /\ i.t # None /\ i.op \notin {"L", "S"}
      BY <2>1, <1>7 DEF Result, WellFormed, Arithmetic
    <3>2. Sequential!Computed(i)
      BY <1>6, <1>7, <2>1, <3>1, SameIsa
          DEF Sequential!Computed, Sequential!Put
    <3> QED
      BY <3>2
  <2>2. CASE i.op = "LI"
    <3>1. Result(i, x, y) = i.n % W /\ i.t # None
      BY <2>2, <1>7 DEF Result, WellFormed, Arithmetic
    <3>2. Sequential!LoadImmediate(i)
      BY <1>7, <2>2, <3>1 DEF Sequential!LoadImmediate, Sequential!Put
    <3> QED
      BY <3>2
  <2>3. CASE i.op = "MOVE"
    <3>1. Result(i, x, y) = x /\ i.t # None
      BY <2>3, <1>7 DEF Result, WellFormed, Arithmetic
    <3>2. Sequential!Move(i)
      BY <1>6, <1>7, <2>3, <3>1 DEF Sequential!Move, Sequential!Put
    <3> QED
      BY <3>2
  <2>4. CASE i.op = "L"
    <3>1. i.t # None
      BY <2>4, <1>7 DEF WellFormed
    <3>2. Sequential!Load(i)
      BY <1>6, <1>7, <2>4, <3>1, SameIsa
          DEF Sequential!Load, Sequential!Put
    <3> QED
      BY <3>2
  <2>5. CASE i.op = "S"
    <3>1. i.t = None
      BY <2>5, <1>7 DEF WellFormed, Arithmetic
    <3>2. Sequential!Store(i)
      BY <1>6, <1>7, <2>5, <3>1, SameIsa
          DEF Sequential!Store
    <3> QED
      BY <3>2
  <2>6. CASE i.op \in Branches \cup {"NOOP"}
    <3>1. i.t = None /\ i.op # "S"
      BY <2>6, <1>7 DEF WellFormed, Arithmetic, Branches
    <3>2. Sequential!NoEffect(i)
      BY <1>7, <2>6, <3>1, SameIsa
          DEF Sequential!NoEffect
    <3> QED
      BY <3>2
  <2> QED
    BY <1>7, <2>1, <2>2, <2>3, <2>4, <2>5, <2>6 DEF OpCodes
<1> QED
  BY <1>2, <1>3, <1>4, <1>5, <1>6, <1>8, SameIsa DEF Sequential!Execute

LEMMA SeqStep == PipeInv /\ [Cycle]_vars => [Sequential!Execute]_(Sequential!vars)
<1> SUFFICES ASSUME PipeInv, [Cycle]_vars
             PROVE  [Sequential!Execute]_(Sequential!vars)
  OBVIOUS
<1>1. CASE Cycle /\ executeMemBuffered.at = Empty
  BY <1>1, SeqStutters
<1>2. CASE Cycle /\ executeMemBuffered.at # Empty
  BY <1>2, SeqExecutes
<1>3. CASE UNCHANGED vars
  <2> USE <1>3 DEF vars, machine, latches
  <2>1. WrittenBack' = WrittenBack
    BY DEF WrittenBack, Target
  <2>2. Oldest' = Oldest
    BY DEF Oldest
  <2> QED
    BY <2>1, <2>2 DEF Sequential!vars
<1> QED
  BY <1>1, <1>2, <1>3

\* For careful programs the pipeline implements the sequential processor: through
\* every stall, freeze and flush, each instruction that leaves the memory stage is
\* the next one of the program and has its effect on the registers and the memory.
THEOREM PipelineIsRight ==
  ASSUME AllCareful
  PROVE  Spec => RunsTheProgram
<1>1. Init => PipeInv
  BY PipeInit
<1>2. Spec => []PipeInv
  BY <1>1, PipeStep, PTL DEF Spec
<1>3. Spec => Sequential!Init /\ [][Sequential!Execute]_(Sequential!vars)
  BY <1>2, SeqInit, SeqStep, PTL DEF Spec
<1> QED
  BY <1>3 DEF RunsTheProgram, Sequential!Spec
-----------------------------------------------------------------------------
(* Standing still.                                                         *)

\* The cycles until an instruction reaches the memory stage, or the end.
Waits ==
  IF executeMemBuffered.at # Empty \/ endProgram THEN 0
  ELSE IF Executing THEN (IF Frozen THEN iexecuteCycle ELSE Cycles[InExecute.op])
  ELSE IF Decoding THEN Cycles[Line.op] + 1
  ELSE IF Fetched # Empty THEN Cycles[vprogram[Fetched].op] + 2
  ELSE 1

\* Only a line that asks for a register stalls, and only an instruction that
\* executes freezes the stages before it, for less than its cycles.
Standing ==
  /\ bStallIF => Decoding /\ Checked(Line) # << >>
  /\ Frozen => Executing /\ iexecuteCycle < Cycles[InExecute.op]

LEMMA CostsAre ==
  ASSUME Types
  PROVE  /\ Executing => InExecute.op \in OpCodes /\ Cycles[InExecute.op] \in Nat \ {0}
         /\ Decoding => Line.op \in OpCodes /\ Cycles[Line.op] \in Nat \ {0}
         /\ Fetched # Empty => /\ vprogram[Fetched].op \in OpCodes
                               /\ Cycles[vprogram[Fetched].op] \in Nat \ {0}
         /\ Frozen => iexecuteCycle \in Nat \ {0}
<1> USE TypesAre
<1>1. \A l \in Lines : /\ vprogram[l].op \in OpCodes
                       /\ Cycles[vprogram[l].op] \in Nat \ {0}
  BY LinesAre, SimPipeAssumption
<1>2. Executing => decodeExecuteBuffered.at \in Lines
  BY DEF Executing
<1>3. Decoding => IRBuffered \in Lines
  BY DEF Decoding
<1>4. Fetched # Empty => Fetched \in Lines
  BY FetchIs
<1>5. Frozen => iexecuteCycle \in Nat \ {0}
  BY DEF Frozen
<1> QED
  BY <1>1, <1>2, <1>3, <1>4, <1>5 DEF InExecute, Line

LEMMA StandingStep == Types /\ Standing /\ [Cycle]_vars => Standing'
<1> SUFFICES ASSUME Types, Standing, [Cycle]_vars PROVE Standing'
  OBVIOUS
<1>1. CASE Cycle
  <2>1. /\ vprogram' = vprogram /\ iexecuteCycle' = CyclesLeft
        /\ decodeExecuteBuffered' =
             IF CyclesLeft = 0 THEN Decoded ELSE decodeExecuteBuffered
    BY <1>1 DEF Cycle
  <2>2. bStallIF' => Decoding' /\ Checked(Line)' # << >>
    <3> SUFFICES ASSUME bStallIF' PROVE Decoding' /\ Checked(Line)' # << >>
      OBVIOUS
    <3>1. Decoding /\ Checked(Line) # << >>
      BY <1>1, FetchMoves DEF Standing
    <3>2. IRBuffered' = IRBuffered
      BY <1>1, FetchMoves
    <3>3. Decoding' = Decoding /\ Line' = Line
      BY <2>1, <3>2 DEF Decoding, Line
    <3> QED
      BY <3>1, <3>3 DEF Checked, Asked
  <2>3. Frozen' => Executing' /\ iexecuteCycle' < Cycles[InExecute.op]'
    <3> SUFFICES ASSUME CyclesLeft # 0
                 PROVE  Executing' /\ iexecuteCycle' < Cycles[InExecute.op]'
      BY <1>1, FetchMoves
    <3>1. Executing
      BY DEF CyclesLeft
    <3>2. Executing' /\ InExecute' = InExecute
      BY <2>1, <3>1 DEF Executing, InExecute
    <3>3. CyclesLeft < Cycles[InExecute.op]
      BY <3>1, CostsAre DEF CyclesLeft, Standing
    <3> QED
      BY <2>1, <3>2, <3>3
  <2> QED
    BY <2>2, <2>3 DEF Standing
<1>2. CASE UNCHANGED vars
  BY <1>2 DEF vars, machine, latches, Standing, Frozen, Executing, Decoding, Line,
              InExecute, Checked, Asked
<1> QED
  BY <1>1, <1>2

LEMMA StandingInvariant == Spec => [](Types /\ Standing)
<1>1. Init => Standing
  BY DEF Init, Standing, Frozen
<1> QED
  BY <1>1, TypesInit, TypesStep, StandingStep, PTL DEF Spec

\* One cycle nearer.
LEMMA WaitsStep ==
  ASSUME Types, Standing, Cycle, Waits > 0
  PROVE  Waits' = Waits - 1
<1> USE TypesAre
<1>1. executeMemBuffered.at = Empty /\ ~endProgram
  BY DEF Waits
<1>2. /\ vprogram' = vprogram /\ iexecuteCycle' = CyclesLeft
      /\ decodeExecuteBuffered' =
           IF CyclesLeft = 0 THEN Decoded ELSE decodeExecuteBuffered
      /\ executeMemBuffered' = Executed
      /\ endProgram' = (IRBuffered' = Empty /\ decodeExecuteBuffered'.at = Empty
                         /\ executeMemBuffered'.at = Empty /\ MemWBBuffered'.at = Empty)
  BY DEF Cycle
<1>3. CASE Executing
  <2>1. CyclesLeft = Waits - 1 /\ CyclesLeft \in Nat
    BY <1>1, <1>3, CostsAre DEF Waits, CyclesLeft
  <2>2. CASE CyclesLeft = 0
    <3>1. executeMemBuffered'.at # Empty
      BY <1>2, <1>3, <2>2 DEF Executed, Executing
    <3> QED
      BY <2>1, <2>2, <3>1 DEF Waits
  <2>3. CASE CyclesLeft # 0
    <3> DEFINE left == CyclesLeft
    <3>1. left > 0
      <4>1. left \in Nat /\ left # 0
        BY <2>1, <2>3
      <4> HIDE DEF left
      <4> QED
        BY <4>1
    <3>2. executeMemBuffered'.at = Empty
      BY <1>2, <3>1 DEF Executed, Bubble
    <3>3. Executing' /\ ~endProgram'
      BY <1>2, <1>3, <2>3 DEF Executing
    <3>4. Frozen'
      BY <2>3, FetchMoves
    <3> QED
      BY <1>2, <2>1, <3>2, <3>3, <3>4 DEF Waits
  <2> QED
    BY <2>2, <2>3
<1>4. CASE ~Executing
  <2>1. /\ CyclesLeft = 0 /\ ~Frozen /\ ~Frozen'
        /\ executeMemBuffered'.at = Empty /\ decodeExecuteBuffered' = Decoded
    BY <1>2, <1>4 DEF CyclesLeft, Executed, Bubble, Standing, Frozen
  <2>2. CASE Decoding
    <3>1. \A r : ~Busy(r)
      BY <1>1, <1>4 DEF Busy, Writes, Target, Executing
    <3>2. ~Hazard(Line)
      BY <3>1 DEF Hazard
    <3>3. decodeExecuteBuffered'.at = IRBuffered
      BY <2>1, <2>2, <3>2 DEF Decoded
    <3>4. Executing' /\ ~endProgram' /\ InExecute' = Line
      BY <1>2, <2>2, <3>3 DEF Executing, Decoding, InExecute, Line
    <3>5. Waits' = Cycles[Line.op]
      BY <2>1, <3>4 DEF Waits
    <3>6. Waits = Cycles[Line.op] + 1
      BY <1>1, <1>4, <2>2 DEF Waits
    <3> QED
      BY <2>2, <3>5, <3>6, CostsAre
  <2>3. CASE ~Decoding
    <3>1. decodeExecuteBuffered'.at = Empty
      BY <2>1, <2>3 DEF Decoded, Bubble
    <3>2. ~bStallIF' /\ ~Flushes
      BY <2>3, FetchMoves DEF Standing, Flushes, Branched
    <3>3. IRBuffered' = Fetched
      BY <2>1, <3>2, FetchMoves
    <3>4. CASE Fetched # Empty
      <4>1. Decoding' /\ ~Executing' /\ ~endProgram' /\ Line' = vprogram[Fetched]
        BY <1>2, <3>1, <3>3, <3>4 DEF Decoding, Executing, Line
      <4>2. Waits' = Cycles[vprogram[Fetched].op] + 1
        BY <2>1, <4>1 DEF Waits
      <4>3. Waits = Cycles[vprogram[Fetched].op] + 2
        BY <1>1, <1>4, <2>3, <3>4 DEF Waits
      <4> QED
        BY <3>4, <4>2, <4>3, CostsAre
    <3>5. CASE Fetched = Empty
      <4>1. MemWBBuffered'.at = Empty
        BY <1>1 DEF Cycle, MemoryDone
      <4>2. endProgram'
        BY <1>2, <2>1, <3>1, <3>3, <3>5, <4>1
      <4> QED
        BY <1>1, <1>4, <2>3, <3>5, <4>2 DEF Waits
    <3> QED
      BY <3>4, <3>5
  <2> QED
    BY <2>2, <2>3
<1> QED
  BY <1>3, <1>4

\* No stall and no freeze lasts, in any program: each cycle brings the next
\* instruction one cycle nearer to the memory stage, or the program to its end,
\* and neither is ever farther than the cycles of one operation and two.
THEOREM NeverStandsStill ==
  Spec => /\ [](Waits \in Nat /\ \E op \in OpCodes : Waits <= Cycles[op] + 2)
          /\ [][Waits > 0 => Waits' = Waits - 1]_vars
<1>1. ASSUME Types, Standing
      PROVE  Waits \in Nat /\ \E op \in OpCodes : Waits <= Cycles[op] + 2
  <2>1. CASE executeMemBuffered.at # Empty \/ endProgram
    <3>1. "NOOP" \in OpCodes /\ Waits = 0
      BY <2>1 DEF OpCodes, Waits
    <3>2. Cycles["NOOP"] \in Nat
      BY <3>1, SimPipeAssumption
    <3> QED
      BY <3>1, <3>2
  <2>2. CASE ~(executeMemBuffered.at # Empty \/ endProgram)
    <3>1. CASE Executing
      BY <1>1, <2>2, <3>1, CostsAre DEF Waits, Standing
    <3>2. CASE ~Executing /\ Decoding
      BY <1>1, <2>2, <3>2, CostsAre DEF Waits
    <3>3. CASE ~Executing /\ ~Decoding /\ Fetched # Empty
      BY <1>1, <2>2, <3>3, CostsAre DEF Waits
    <3>4. CASE ~Executing /\ ~Decoding /\ Fetched = Empty
      <4>1. "NOOP" \in OpCodes /\ Waits = 1
        BY <2>2, <3>4 DEF OpCodes, Waits
      <4>2. Cycles["NOOP"] \in Nat
        BY <4>1, SimPipeAssumption
      <4> QED
        BY <4>1, <4>2
    <3> QED
      BY <3>1, <3>2, <3>3, <3>4
  <2> QED
    BY <2>1, <2>2
<1>2. Types /\ Standing /\ [Cycle]_vars => [Waits > 0 => Waits' = Waits - 1]_vars
  BY WaitsStep
<1> QED
  BY <1>1, <1>2, StandingInvariant, PTL DEF Spec
=============================================================================
