------------------------------ MODULE SimPipe ------------------------------
(***************************************************************************)
(* The five-stage pipeline of A2 - Instruction Level Parallelism           *)
(* (sim_p.cpp): fetch, decode, execute, memory, write back, without        *)
(* forwarding.  A cycle runs the stages in this order on the latches of    *)
(* the cycle before (..Buffered in the code) and fills the next ones.      *)
(*                                                                         *)
(* Branches are decided in decode, which has a line more of the program    *)
(* fetched behind it; a decoder that finds a register in the hands of an   *)
(* older instruction stalls; an operation of several cycles freezes the    *)
(* stages before it.                                                       *)
(***************************************************************************)
EXTENDS SimIsa, Sequences

CONSTANTS Cycles,     \* opcode_cycles, of the parameter file
          Contained   \* the pairs <<r, t>> with the name r within the name t

ASSUME SimPipeAssumption ==
  /\ Cycles \in [OpCodes -> Nat \ {0}]
  /\ Contained \subseteq Registers \X Registers
  /\ \A r \in Registers : <<r, r>> \in Contained

VARIABLES vprogram, programCounter, registers, mem,
          IR,          \* the line fetched
          IRBuffered,  \* the line to decode
          decodeExecuteBuffered, executeMemBuffered, MemWBBuffered,
          bStallIF,
          iexecuteCycle,  \* cycles left of a frozen execute; 0: bFreeze is false
          endProgram

machine == <<vprogram, programCounter, registers, mem>>
latches == <<IR, IRBuffered, decodeExecuteBuffered, executeMemBuffered, MemWBBuffered>>
vars    == <<machine, latches, bStallIF, iexecuteCycle, endProgram>>

Empty  == -1                               \* no line
Bubble == [at |-> Empty, a |-> 0, b |-> 0] \* no instruction in a latch

\* targetRegister, and WriteBackCycle: a store or a branch has no target, and an
\* empty text is not written.
Target(latch) == IF latch.at = Empty THEN None ELSE vprogram[latch.at].t
WrittenBack ==
  IF Target(MemWBBuffered) = None \/ MemWBBuffered.a = Blank THEN registers
  ELSE [registers EXCEPT ![Target(MemWBBuffered)] = MemWBBuffered.a]

\* An instruction takes effect when it leaves the memory stage: what it writes
\* is then on its way, and the sequential machine stands at the oldest of the
\* instructions before.
Oldest ==
  IF executeMemBuffered.at # Empty THEN executeMemBuffered.at
  ELSE IF decodeExecuteBuffered.at # Empty THEN decodeExecuteBuffered.at
  ELSE IF IRBuffered # Empty THEN IRBuffered
  ELSE IF programCounter > Size THEN Size ELSE programCounter

Sequential == INSTANCE SimSeq WITH programCounter <- Oldest, registers <- WrittenBack

Init ==
  /\ vprogram \in Programs /\ mem \in Contents
  /\ programCounter = 0 /\ registers = [r \in Registers |-> 0]
  /\ IR = Empty /\ IRBuffered = Empty
  /\ decodeExecuteBuffered = Bubble /\ executeMemBuffered = Bubble
  /\ MemWBBuffered = Bubble
  /\ bStallIF = FALSE /\ iexecuteCycle = 0 /\ endProgram = FALSE
-----------------------------------------------------------------------------
(* Decode                                                                  *)

\* The registers the decoder of instruction i looks for in the pipeline, in its
\* order; it does not look for the second one of BEQ and BNEQ.
Asked(r)   == IF r = None THEN << >> ELSE <<r>>
Checked(i) == IF i.op \in Branches THEN <<i.a>> ELSE Asked(i.a) \o Asked(i.b)

\* detecthazard looks for the name of r in the name of the target.
Writes(latch, r) == Target(latch) # None /\ <<r, Target(latch)>> \in Contained
Busy(r) == Writes(decodeExecuteBuffered, r) \/ Writes(executeMemBuffered, r)

LookedAt(i) == {k \in DOMAIN Checked(i) : \A j \in 1 .. k - 1 : ~Busy(Checked(i)[j])}
Hazard(i)   == \E k \in DOMAIN Checked(i) : Busy(Checked(i)[k])

Decoding == IRBuffered # Empty
Line     == vprogram[IRBuffered]

\* A register about to be written back is written back before it is read.
SeenRegisters ==
  IF Decoding /\ \E k \in LookedAt(Line) : Writes(MemWBBuffered, Checked(Line)[k])
    THEN WrittenBack ELSE registers
Seen(r) == IF r = None THEN 0 ELSE SeenRegisters[r]

Decoded ==
  IF ~Decoding \/ Hazard(Line) THEN Bubble
  ELSE [at |-> IRBuffered, a |-> Seen(Line.a), b |-> Seen(Line.b)]

Branched == Decoding /\ ~Hazard(Line) /\ Holds(Line, Seen(Line.a), Seen(Line.b))

\* The program counter after instructionFetch, and the line it has fetched.
Frozen == iexecuteCycle > 0
Fetches == ~bStallIF /\ ~Frozen /\ programCounter < Size
AtEndOrPast == programCounter >= Size
AtEnd == programCounter = Size
NextCounter ==
  IF Fetches \/ (AtEnd /\ ~bStallIF /\ ~Frozen) THEN programCounter + 1
                                                ELSE programCounter
Fetched ==
  IF Fetches THEN programCounter
  ELSE IF AtEnd THEN (IF bStallIF \/ Frozen THEN programCounter - 1 ELSE Empty)
  ELSE IR

\* A branch flushes the line fetched behind it.
FlushesForward == Branched /\ Line.n > NextCounter
Flushes == Branched /\ Line.n # NextCounter
-----------------------------------------------------------------------------
(* Execute, memory                                                         *)

Executing == decodeExecuteBuffered.at # Empty
InExecute == vprogram[decodeExecuteBuffered.at]

\* The cycles that instruction still needs after this one.
CyclesLeftAnew == IF Executing THEN Cycles[InExecute.op] - 1 ELSE 0
CyclesLeft ==
  IF ~Executing THEN 0
  ELSE (IF Frozen THEN iexecuteCycle ELSE Cycles[InExecute.op]) - 1

\* The simulator dies with the division.
CanExecute ==
  (Executing /\ CyclesLeft = 0 /\ InExecute.op = "DIV")
    => Divides(decodeExecuteBuffered.a, decodeExecuteBuffered.b)

ALUOutput ==
  LET i == InExecute
      x == decodeExecuteBuffered.a
      y == decodeExecuteBuffered.b
  IN  CASE i.op \in Arithmetic -> Compute(i.op, x, y)
        [] i.op = "LI" -> i.n % W
        [] i.op \in {"L", "S"} -> Sum(i.n, y)
        [] i.op = "MOVE" -> x
        [] OTHER -> 0
Executed ==
  IF ~Executing \/ CyclesLeft > 0 THEN Bubble
  ELSE [at |-> decodeExecuteBuffered.at, a |-> ALUOutput, b |-> 0]

\* A load of a cell without text gives an empty string, which is not written.
InMemory == vprogram[executeMemBuffered.at]
MemoryDone ==
  IF executeMemBuffered.at # Empty /\ InMemory.op = "L"
    THEN [executeMemBuffered EXCEPT !.a = mem[@]] ELSE executeMemBuffered
\* A store takes the value of its register now.  The stage looks at the first
\* letter of the operation: a SUB stores the old value of its target, at the
\* address that is its result.
Stored(i) == IF i.op = "S" THEN i.a ELSE i.t
MemoryAfter ==
  IF executeMemBuffered.at # Empty /\ InMemory.op \in {"S", "SUB"}
    THEN [mem EXCEPT ![executeMemBuffered.a] = SeenRegisters[Stored(InMemory)]]
    ELSE mem
-----------------------------------------------------------------------------
\* One turn of executeProgram.
Cycle ==
  /\ ~endProgram /\ CanExecute
  /\ programCounter' = IF Branched THEN Line.n ELSE NextCounter
  /\ IR' = IF Flushes THEN Empty ELSE Fetched
  /\ bStallIF' = IF Decoding /\ Checked(Line) # <<>> THEN Hazard(Line) ELSE bStallIF
  /\ iexecuteCycle' = CyclesLeft
  /\ registers' = WrittenBack /\ mem' = MemoryAfter
  /\ IRBuffered' = IF ~bStallIF' /\ CyclesLeft = 0 THEN IR' ELSE IRBuffered
  /\ decodeExecuteBuffered' = IF CyclesLeft = 0 THEN Decoded ELSE decodeExecuteBuffered
  /\ executeMemBuffered' = Executed
  /\ MemWBBuffered' = MemoryDone
  /\ endProgram' = (IRBuffered' = Empty /\ decodeExecuteBuffered'.at = Empty
                     /\ executeMemBuffered'.at = Empty /\ MemWBBuffered'.at = Empty)
  /\ UNCHANGED vprogram

Spec     == Init /\ [][Cycle]_vars
FairSpec == Spec /\ WF_vars(Cycle)
-----------------------------------------------------------------------------
(* Properties                                                              *)

\* The branches this pipeline is right for: a label names an instruction, no
\* branch jumps over one single instruction (Flushes compares the label with the
\* counter and not with the line fetched), and the second register of BEQ and
\* BNEQ is not written by one of the three instructions run before.
Successors(p, l) == {l + 1} \cup (IF p[l].op \in Branches THEN {p[l].n} ELSE {})
Before(p, ls)    == {l \in Lines : Successors(p, l) \cap ls # {}}
BranchesWell(p) ==
  \A l \in Lines : p[l].op \in Branches =>
    /\ p[l].n \in Lines \ {l + 2}
    /\ LET b1 == Before(p, {l})  b2 == Before(p, b1)  b3 == Before(p, b2)
       IN  \A k \in b1 \cup b2 \cup b3 : p[l].b # None => p[k].t # p[l].b

\* The programs it is right for.
Careful(p) == BranchesWell(p) /\ \A l \in Lines : p[l].op # "SUB"

Latch == [at : Lines \cup {Empty}, a : Word \cup {Blank}, b : Word]
TypeOK ==
  /\ vprogram \in Programs /\ programCounter \in 0 .. Size + 1
  /\ registers \in [Registers -> Word] /\ mem \in Cells
  /\ IR \in Lines \cup {Empty} /\ IRBuffered \in Lines \cup {Empty}
  /\ {decodeExecuteBuffered, executeMemBuffered, MemWBBuffered} \subseteq Latch
  /\ bStallIF \in BOOLEAN /\ iexecuteCycle \in Nat /\ endProgram \in BOOLEAN

\* sim_p computes what sim_seq computes, through every stall, freeze and flush:
\* every instruction that leaves the memory stage is the next one of the
\* sequential machine and has the same effect on registers and memory.
RunsTheProgram == Sequential!Spec

\* No stall and no freeze lasts: an instruction reaches the memory stage again
\* and again until the program has ended.
KeepsMoving == []<>(executeMemBuffered.at # Empty \/ endProgram \/ ~CanExecute)
=============================================================================
