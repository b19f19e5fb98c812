---------------------------- MODULE SimTomasulo ----------------------------
(***************************************************************************)
(* The out-of-order processor of A2 - Instruction Level Parallelism        *)
(* (sim_t.cpp, sim_t.h, InstructionDecode.cpp, LoadReservationStation.cpp, *)
(* WriteBack.cpp).  A cycle of executeProgram runs the write back, then    *)
(* execute() of every reservation station in a fixed order, then Issue();  *)
(* an action is one of these steps (turn says which is next), and the      *)
(* stations that are not busy, which do nothing, are passed over.          *)
(*                                                                         *)
(* A register says which station it waits for (waitOnFUid).  A station     *)
(* reads its operands when it starts, not when it is issued, and compares  *)
(* no addresses: what that costs is said by Mishandles below; what the     *)
(* decoder makes of a line's address, by MisreadsBase.                     *)
(***************************************************************************)
EXTENDS SimIsa

CONSTANTS Floats,             \* the floating-point registers
          BaseRead,           \* what is read of an address, of the line's registers
          NoOfFunctionalUnits,
          Cycles              \* opcode_cycles, of the two forms of an operation

Kinds == {"loads", "stores", "intadds", "intmuls", "intdivs",
          "fpadds", "fpmuls", "fpdivs"}
\* The order in which execute() goes through the vectors of stations.
Place == [loads |-> 1, stores |-> 2, intadds |-> 3, intmuls |-> 4, intdivs |-> 5,
          fpadds |-> 6, fpmuls |-> 7, fpdivs |-> 8]

Stations == UNION {{<<kind, n>> : n \in 1 .. NoOfFunctionalUnits[kind]} : kind \in Kinds}
Before(j, k) == Place[j[1]] < Place[k[1]] \/ (j[1] = k[1] /\ j[2] < k[2])
FirstOf(ks)  == CHOOSE k \in ks : \A j \in ks \ {k} : Before(k, j)

\* The operand that tells the .D form of an operation from the other.
isDouble(i) ==
  (IF i.op \in Arithmetic \cup {"L"} THEN i.t ELSE i.a) \in Floats

\* validateRegister: the operands are registers of the form's file; the register
\* of an address is an integer one, and MOVE goes from one file to the other.
ValidRegisters(i) ==
  LET file == IF isDouble(i) THEN Floats ELSE Registers \ Floats
  IN  /\ i.op \in Arithmetic => {i.t, i.a, i.b} \subseteq file
      /\ i.op \in {"BEQ", "BNEQ"} => i.b \in file
      /\ i.op \in {"L", "S"} => i.b \notin Floats
      /\ i.op = "LI" => i.t \notin Floats
      /\ i.op = "MOVE" => i.t \notin file

ASSUME SimTomasuloAssumption ==
  /\ Floats \subseteq Registers
  /\ BaseRead \in [Registers \X (Registers \ Floats) -> (Registers \ Floats) \cup {None}]
  /\ NoOfFunctionalUnits \in [Kinds -> Nat \ {0}]
  /\ NoOfFunctionalUnits["stores"] <= NoOfFunctionalUnits["loads"]
  /\ Cycles \in [OpCodes \X BOOLEAN -> Nat \ {0}]
  /\ \A p \in Programs : \A l \in Lines : ValidRegisters(p[l])

VARIABLES vprogram, programCounter, registers, mem,
          waitOn,    \* waitOn[double][r]: the station register r waits for
          station, wbobject,
          bStallIF, bStallDueToBranch,
          stallDueToRSid, \* the kinds of stations an issue stalls for
          triggerend, turn,
          seqCounter, seqRegisters, seqMem, \* auxiliary: the sequential processor
          spoiled  \* auxiliary: has the processor mishandled the program?

machine == <<vprogram, programCounter, registers, mem>>
stalls  == <<bStallIF, bStallDueToBranch, stallDueToRSid>>
ahead   == <<seqCounter, seqRegisters, seqMem>>
vars    == <<machine, waitOn, station, wbobject, stalls, triggerend, turn, ahead, spoiled>>

Nobody     == <<"nobody", 0>>
WritesBack == <<"writeback", 0>>
Issues     == <<"issue", 0>>

NoInstruction == [op |-> "NOOP", double |-> FALSE, target |-> None,
                  source1 |-> None, source2 |-> None, n |-> 0]
\* resetFU
Idle == [busy |-> FALSE, ins |-> NoInstruction, hold |-> FALSE, left |-> 0,
         vj |-> FALSE, vk |-> FALSE, s1 |-> 0, s2 |-> 0,
         waiting |-> FALSE, value |-> 0, x |-> 0, y |-> 0, behind |-> FALSE]
NothingToWrite == [busy |-> FALSE, isDouble |-> FALSE, target |-> None, val |-> 0]

Init ==
  /\ vprogram \in Programs /\ mem \in Contents
  /\ programCounter = 0 /\ registers = [r \in Registers |-> 0]
  /\ waitOn = [double \in BOOLEAN |-> [r \in Names |-> Nobody]]
  /\ station = [k \in Stations |-> Idle] /\ wbobject = NothingToWrite
  /\ bStallIF = FALSE /\ bStallDueToBranch = FALSE /\ stallDueToRSid = {}
  /\ triggerend = FALSE /\ turn = WritesBack
  /\ seqCounter = 0 /\ seqRegisters = registers /\ seqMem = mem /\ spoiled = FALSE

Sequential ==
  INSTANCE SimSeq WITH programCounter <- seqCounter, registers <- seqRegisters,
                       mem <- seqMem

Busy == {k \in Stations : station[k].busy}
Reg(r) == IF r = None THEN 0 ELSE registers[r]
FreeRegister(double, r) == waitOn[double][r] = Nobody
\* A mutant of Lockable: a station forgets that it has the lock.
NotItsOwn(k, double, r) == waitOn[double][r] = Nobody
Lockable(k, double, r) == waitOn[double][r] \in {Nobody, k}

\* The first busy station from the beginning, or behind station k.
FirstTurn   == IF Busy = {} THEN Issues ELSE FirstOf(Busy)
NextTurn(k) ==
  LET later == {j \in Busy : Before(k, j)}
  IN  IF later = {} THEN Issues ELSE FirstOf(later)
-----------------------------------------------------------------------------
(* Write back                                                              *)

WriteBackRun ==
  /\ turn = WritesBack /\ ~triggerend
  /\ triggerend' = TRUE /\ turn' = FirstTurn
  /\ IF wbobject.busy
     THEN /\ registers' = [registers EXCEPT ![wbobject.target] = wbobject.val]
          /\ waitOn' = [waitOn EXCEPT ![wbobject.isDouble][wbobject.target] = Nobody]
          /\ wbobject' = NothingToWrite
     ELSE UNCHANGED <<registers, waitOn, wbobject>>
  /\ UNCHANGED <<vprogram, programCounter, mem, station, stalls, ahead, spoiled>>

\* sendtowriteback, at the end of station k: there is room for one value.
SendToWriteBack(k, double, value) ==
  LET u == station[k]
      v == IF u.waiting THEN u.value ELSE value
  IN  IF wbobject.busy
      THEN /\ station' = [station EXCEPT ![k].waiting = TRUE, ![k].value = v]
           /\ UNCHANGED wbobject
      ELSE /\ wbobject' = [busy |-> TRUE, isDouble |-> double,
                           target |-> u.ins.target, val |-> v]
           /\ station' = [station EXCEPT ![k] = Idle]
-----------------------------------------------------------------------------
(* Execute                                                                 *)

Cost(i) == Cycles[<<i.op, i.double>>]
\* execCountRemaining == iCount
NotStarted(u) == u.left = Cost(u.ins)

Executes(k) ==
  /\ turn = k /\ turn' = NextTurn(k) /\ triggerend' = FALSE
  /\ UNCHANGED <<vprogram, registers, stallDueToRSid, ahead, spoiled>>

\* The cycle of its issue is not one of its execution.
Held(k) ==
  /\ Executes(k) /\ station[k].hold
  /\ station' = [station EXCEPT ![k].hold = FALSE]
  /\ UNCHANGED <<programCounter, mem, waitOn, wbobject, bStallIF, bStallDueToBranch>>

Counts(k) ==
  /\ station[k].left > 0 /\ ~NotStarted(station[k])
  /\ station' = [station EXCEPT ![k].left = @ - 1]
  /\ UNCHANGED <<programCounter, mem, waitOn, wbobject, bStallIF, bStallDueToBranch>>

\* Loads and stores: the address, and the lock on the register.
Addressed(k) ==
  LET u == station[k]
      i == u.ins
  IN  /\ NotStarted(u)
      /\ IF FreeRegister(FALSE, i.source1) /\ Lockable(k, i.double, i.target)
         THEN /\ waitOn' = [waitOn EXCEPT ![i.double][i.target] = k]
              /\ station' = [station EXCEPT ![k].left = @ - 1,
                                            ![k].s1 = Sum(i.n, Reg(i.source1))]
         ELSE UNCHANGED <<waitOn, station>>
      /\ UNCHANGED <<programCounter, mem, wbobject, bStallIF, bStallDueToBranch>>
Load(k) ==
  /\ station[k].left = 0 /\ k[1] = "loads"
  /\ SendToWriteBack(k, station[k].ins.double, Loaded(mem[station[k].s1]))
  /\ UNCHANGED <<programCounter, mem, waitOn, bStallIF, bStallDueToBranch>>
Store(k) ==
  LET i == station[k].ins
  IN  /\ station[k].left = 0 /\ k[1] = "stores"
      /\ mem' = [mem EXCEPT ![station[k].s1] = Reg(i.target)]
      /\ waitOn' = [waitOn EXCEPT ![i.double][i.target] = Nobody]
      /\ station' = [station EXCEPT ![k] = Idle]
      /\ UNCHANGED <<programCounter, wbobject, bStallIF, bStallDueToBranch>>
LSExecute(k) ==
  /\ Executes(k) /\ ~station[k].hold /\ k[1] \in {"loads", "stores"}
  /\ Counts(k) \/ Addressed(k) \/ Load(k) \/ Store(k)

\* The others: an operand that was free once is read until the station starts,
\* whoever writes it (Vj, Vk); to start, most operations lock their target.
Operands(k, locks) ==
  LET i == station[k].ins
      u == [station[k] EXCEPT !.vj = @ \/ FreeRegister(i.double, i.source1),
                              !.vk = @ \/ FreeRegister(i.double, i.source2)]
      starts == /\ u.vj /\ u.vk
                /\ locks => i.target # None /\ Lockable(k, i.double, i.target)
  IN  /\ NotStarted(u)
      /\ station' = [station EXCEPT ![k] =
           IF starts THEN [u EXCEPT !.left = @ - 1, !.s1 = Reg(i.source1),
                                    !.s2 = Reg(i.source2)] ELSE u]
      /\ waitOn' = IF starts /\ locks THEN [waitOn EXCEPT ![i.double][i.target] = k]
                                      ELSE waitOn
      /\ UNCHANGED <<programCounter, mem, wbobject, bStallIF, bStallDueToBranch>>

Writes(k, double, value) ==
  /\ SendToWriteBack(k, double, value)
  /\ UNCHANGED <<programCounter, mem, waitOn, bStallIF, bStallDueToBranch>>
Done(k) == station[k].left = 0
Applied(k) ==
  LET u == station[k] IN Compute(u.ins.op, u.s1, u.s2)

\* What MOVE makes of an int or a double, by a union: a number of the other kind
\* with the same bits, whole or not.  Only 0 is 0 in both.
SameBits(v) == IF v = 0 THEN {0} ELSE Word

\* A branch lets the issue go on, and goes to its label if taken.
Resolves(k, taken) ==
  /\ station' = [station EXCEPT ![k] = Idle]
  /\ bStallIF' = (bStallIF /\ ~bStallDueToBranch) /\ bStallDueToBranch' = FALSE
  /\ programCounter' = IF taken THEN station[k].ins.n ELSE programCounter
  /\ UNCHANGED <<mem, waitOn, wbobject>>

IntegerAddExecute(k) ==
  LET u == station[k]
      op == u.ins.op
  IN  /\ Executes(k) /\ ~u.hold /\ k[1] = "intadds"
      /\ \/ Operands(k, op \in {"ADD", "SUB", "LI"})
         \/ Counts(k)
         \/ Done(k) /\ op \in {"ADD", "SUB"} /\ Writes(k, FALSE, Applied(k))
         \/ Done(k) /\ op = "LI" /\ Writes(k, FALSE, u.ins.n % W)
         \/ Done(k) /\ op = "MOVE" /\ \E v \in SameBits(u.s1) : Writes(k, TRUE, v)
         \/ Done(k) /\ op \in Branches /\ Resolves(k, Holds(u.ins, u.s1, u.s2))

IntegerMulExecute(k) ==
  /\ Executes(k) /\ ~station[k].hold /\ k[1] = "intmuls"
  /\ \/ Operands(k, TRUE) \/ Counts(k)
     \/ Done(k) /\ Writes(k, FALSE, Applied(k))

\* The simulator dies with the division.
CanDivide(k) == Divides(station[k].s1, station[k].s2)
IntegerDivExecute(k) ==
  /\ Executes(k) /\ ~station[k].hold /\ k[1] = "intdivs"
  /\ \/ Operands(k, TRUE) \/ Counts(k)
     \/ Done(k) /\ CanDivide(k) /\ Writes(k, FALSE, Applied(k))

\* The .D branches with one operand ask for the lock of a target they do not have,
\* and those with two are compared with BEQ and BNEQ, which they are not.
FloatAddExecute(k) ==
  LET u == station[k]
      op == u.ins.op
  IN  /\ Executes(k) /\ ~u.hold /\ k[1] = "fpadds"
      /\ \/ Operands(k, op \in {"ADD", "SUB", "MOVE", "BLTZ", "BGTZ"})
         \/ Counts(k)
         \/ Done(k) /\ op \in {"ADD", "SUB"} /\ Writes(k, TRUE, Applied(k))
         \/ Done(k) /\ op = "MOVE" /\ \E v \in SameBits(u.s1) : Writes(k, FALSE, v)
         \/ Done(k) /\ op \in Branches /\ Resolves(k, FALSE)

FloatMulExecute(k) ==
  /\ Executes(k) /\ ~station[k].hold /\ k[1] = "fpmuls"
  /\ \/ Operands(k, TRUE) \/ Counts(k)
     \/ Done(k) /\ Writes(k, TRUE, Applied(k))

FloatDivExecute(k) ==
  /\ Executes(k) /\ ~station[k].hold /\ k[1] = "fpdivs"
  /\ \/ Operands(k, TRUE) \/ Counts(k)
     \/ Done(k) /\ CanDivide(k) /\ Writes(k, TRUE, Applied(k))

Execute ==
  \E k \in Stations :
    \/ Held(k) \/ LSExecute(k) \/ IntegerAddExecute(k) \/ IntegerMulExecute(k)
    \/ IntegerDivExecute(k) \/ FloatAddExecute(k) \/ FloatMulExecute(k)
    \/ FloatDivExecute(k)
-----------------------------------------------------------------------------
(* Decode                                                                  *)

Decoded(i, target, source1, source2) ==
  [op |-> i.op, double |-> isDouble(i), target |-> target,
   source1 |-> source1, source2 |-> source2, n |-> i.n]

decodeArithmatic(i) == Decoded(i, i.t, i.a, i.b)
\* The register of an address is read over the first one of the line, of which a
\* second digit stays behind: L R12,0(R1) reads R12, and L R12,0(R2) no register.
FirstRegister(i) == IF i.op = "S" THEN i.a ELSE i.t
BaseOf(i) == BaseRead[<<FirstRegister(i), i.b>>]
\* A store has the register it stores for its target.
decodeLoadStore(i) ==
  IF BaseOf(i) = None THEN NoInstruction ELSE Decoded(i, FirstRegister(i), BaseOf(i), None)
decodeLI(i)   == Decoded(i, i.t, None, None)
decodeBEQ(i)  == Decoded(i, None, i.a, i.b)
decodeBNEQ(i) == Decoded(i, None, i.a, i.b)
decodeBGTZ(i) == Decoded(i, None, i.a, None)
decodeBLTZ(i) == Decoded(i, None, i.a, None)
decodeMOVE(i) == Decoded(i, i.t, i.a, None)

decode(i) ==
  CASE i.op \in Arithmetic -> decodeArithmatic(i)
    [] i.op = "LI" -> decodeLI(i)
    [] i.op \in {"L", "S"} -> decodeLoadStore(i)
    [] i.op = "BEQ" -> decodeBEQ(i) [] i.op = "BNEQ" -> decodeBNEQ(i)
    [] i.op = "BGTZ" -> decodeBGTZ(i) [] i.op = "BLTZ" -> decodeBLTZ(i)
    [] i.op = "MOVE" -> decodeMOVE(i) [] OTHER -> NoInstruction
-----------------------------------------------------------------------------
(* Issue                                                                   *)

Fetches == ~bStallIF /\ programCounter < Size
OnProgram == Fetches \/ bStallIF
\* The line fetched, or the one that stalls, or the empty one behind the end.  Of a
\* line that does not decode nothing is issued.
Line == vprogram[IF Fetches THEN programCounter ELSE programCounter - 1]
IR == IF OnProgram THEN decode(Line) ELSE NoInstruction

\* An issue that stalls tries the same line again in the next cycle.
Stalls(kind) ==
  /\ bStallIF' = TRUE /\ stallDueToRSid' = stallDueToRSid \cup {kind}
  /\ UNCHANGED <<station, waitOn, bStallDueToBranch>>

Unused(kind) == {k \in Stations : k[1] = kind /\ ~station[k].busy}
\* A mutant of WrittenNext: as it was before 18-Nov.
WrittenNever(i) == FALSE
\* The write back would take the lock of the target away.
WrittenNext(i) == i.target # None /\ wbobject.busy /\ wbobject.target = i.target
HasRoom(kind, i) == Unused(kind) # {} /\ ~WrittenNext(i)

Branching(i) == i.op \in Branches /\ ~i.double

\* Instruction i in a station.  Auxiliary: its operands in the sequential
\* processor, and whether a station at work has the lock of its target.
SeqReg(r) == IF r = None \/ spoiled THEN 0 ELSE seqRegisters[r]
Assigned(i) ==
  [busy |-> TRUE, ins |-> i, hold |-> TRUE, left |-> Cost(i),
   vj |-> FreeRegister(i.double, i.source1), vk |-> FreeRegister(i.double, i.source2),
   s1 |-> 0, s2 |-> 0, waiting |-> FALSE, value |-> 0,
   x |-> SeqReg(i.source1), y |-> SeqReg(i.source2),
   behind |-> i.target # None /\ waitOn[i.double][i.target] \in Busy]
Enters(kind, i) ==
  LET k == FirstOf(Unused(kind))
  IN  /\ station' = [station EXCEPT ![k] = Assigned(i)]
      /\ waitOn' = IF i.target # None /\ FreeRegister(i.double, i.target)
                     THEN [waitOn EXCEPT ![i.double][i.target] = k] ELSE waitOn
      /\ bStallDueToBranch' = Branching(i)
      /\ bStallIF' = ((bStallIF \/ Branching(i)) /\ kind \notin stallDueToRSid)
      /\ stallDueToRSid' = stallDueToRSid \ {kind}

\* A load stalls until it has the lock of its target.
IssueLoad(i) ==
  /\ i.op = "L"
  /\ IF HasRoom("loads", i) /\ FreeRegister(i.double, i.target)
       THEN Enters("loads", i) ELSE Stalls("loads")

\* A store whose register is locked is left in its station all the same; what is
\* reset is the load station of the same number, and the issue stalls, to try
\* the store again, where there are as many stations for loads as for stores.
MissesItsLock(i) == HasRoom("stores", i) /\ ~FreeRegister(i.double, i.target)
IssueStore(i) ==
  /\ i.op = "S"
  /\ IF MissesItsLock(i)
     THEN LET k == FirstOf(Unused("stores"))
          IN  /\ station' = [station EXCEPT ![k] = Assigned(i),
                                            ![<<"loads", k[2]>>] = Idle]
              /\ IF NoOfFunctionalUnits["loads"] = NoOfFunctionalUnits["stores"]
                 THEN /\ bStallIF' = TRUE
                      /\ stallDueToRSid' = stallDueToRSid \cup {"stores"}
                 ELSE UNCHANGED <<bStallIF, stallDueToRSid>>
              /\ UNCHANGED <<waitOn, bStallDueToBranch>>
     ELSE IF HasRoom("stores", i) THEN Enters("stores", i) ELSE Stalls("stores")

Reserves(kind, i) == IF HasRoom(kind, i) THEN Enters(kind, i) ELSE Stalls(kind)

IssueIntegerAdd(i) == i.op \in {"ADD", "SUB"} /\ ~i.double /\ Reserves("intadds", i)
IssueIntegerOther(i) ==
  i.op \in Branches \cup {"MOVE", "LI"} /\ ~i.double /\ Reserves("intadds", i)
IssueFloatAdd(i) ==
  i.op \in Branches \cup {"ADD", "SUB", "MOVE"} /\ i.double /\ Reserves("fpadds", i)
IssueIntegerMul(i) == i.op = "MUL" /\ ~i.double /\ Reserves("intmuls", i)
IssueFloatMul(i)   == i.op = "MUL" /\ i.double /\ Reserves("fpmuls", i)
IssueIntegerDiv(i) == i.op = "DIV" /\ ~i.double /\ Reserves("intdivs", i)
\* "fdivs" is no kind of stations: instead of a stall the instruction is dropped.
Dropped(i) == i.op = "DIV" /\ i.double /\ Unused("fpdivs") # {} /\ WrittenNext(i)
IssueFloatDiv(i) ==
  /\ i.op = "DIV" /\ i.double
  /\ IF Dropped(i) THEN UNCHANGED <<station, waitOn, stalls>> ELSE Reserves("fpdivs", i)
IssueNothing(i) == i.op = "NOOP" /\ UNCHANGED <<station, waitOn, stalls>>

LoadReservationStation(i) ==
  \/ IssueLoad(i) \/ IssueStore(i) \/ IssueIntegerAdd(i) \/ IssueIntegerOther(i)
  \/ IssueFloatAdd(i) \/ IssueIntegerMul(i) \/ IssueFloatMul(i)
  \/ IssueIntegerDiv(i) \/ IssueFloatDiv(i) \/ IssueNothing(i)
-----------------------------------------------------------------------------
(* What the processor does not keep in order                               *)

InFlight == {station[k] : k \in Busy}
WritesRegister(i, r) == r # None /\ i.target = r /\ i.op # "S"
Accesses(i) == i.op \in {"L", "S"}
Cell(u) == Sum(u.ins.n, u.x)

\* Instruction i, as it is issued, locks a register that an instruction before it
\* reads, and that one still waits for an operand, or for an address, which is
\* not read before the register is free; or it writes what a store has yet to
\* read.
OvertakesReader(i) ==
  \E u \in InFlight :
    \/ /\ i.target # None /\ i.target \in {u.ins.source1, u.ins.source2}
       /\ NotStarted(u) /\ (Accesses(u.ins) \/ ~u.vj \/ ~u.vk \/ u.behind)
    \/ /\ u.ins.op = "S" /\ WritesRegister(i, u.ins.target)
       /\ NotStarted(u) \/ i.op = "MOVE"
\* ... it reads or writes a register that an instruction before it writes
\* without the lock: behind another writer, or MOVE, which locks a register of
\* the other file.
OvertakesWriter(i) ==
  \E k \in Busy : LET j == station[k].ins
                  IN  /\ \E r \in {i.source1, i.source2, i.target} : WritesRegister(j, r)
                      /\ \/ (station[k].behind \/ j.op = "MOVE")
                            /\ waitOn[j.target \in Floats][j.target] # k
                         \/ i.op = "MOVE" /\ j.target = i.target
\* ... a load or a store finds another one of the same cell; one is a store.
OvertakesAccess(i) ==
  \E u \in InFlight : /\ Accesses(i) /\ Accesses(u.ins) /\ "S" \in {i.op, u.ins.op}
                      /\ Cell(u) = Cell(Assigned(i))
Overtakes(i) ==
  OvertakesReader(i) \/ OvertakesWriter(i) \/ OvertakesAccess(i)

\* A store that misses its lock while the load station of its number works, or
\* that is in a station then and stalls all the same.
TwiceOrInstead(i) ==
  /\ i.op = "S" /\ MissesItsLock(i)
  /\ \/ bStallIF \/ NoOfFunctionalUnits["loads"] = NoOfFunctionalUnits["stores"]
     \/ station[<<"loads", FirstOf(Unused("stores"))[2]>>].busy
\* A load or a store locks the register that its own address waits for.
WaitsForItself(i) == Accesses(i) /\ i.target = i.source1
\* MOVE moves the bits of a number; MOVE.D waits for a lock that the one before
\* never gave back.
MovesAnother(i) ==
  i.op = "MOVE" /\ (seqRegisters[i.source1] # 0 \/ (i.double /\ ~FreeRegister(TRUE, i.target)))
\* The register of the address is not the one of the line.
MisreadsBase(line) == line.op \in {"L", "S"} /\ BaseOf(line) # line.b
\* The sequential processor dies here.
SequentialDies(i) ==
  i.op = "DIV" /\ ~Divides(seqRegisters[i.source1], seqRegisters[i.source2])
Mishandles(i) ==
  \/ Overtakes(i) \/ Dropped(i) \/ MovesAnother(i) \/ WaitsForItself(i)
  \/ SequentialDies(i)
  \/ i.op \in Branches /\ i.double
\* The cycle after a stall is the last one if no station works in it.
StopsInStall == bStallIF' /\ \A k \in Stations : ~station'[k].busy
-----------------------------------------------------------------------------
\* The auxiliary variables: the sequential processor takes the line that leaves
\* Issue, as long as the two agree.
Leaves(i) == OnProgram /\ (bStallIF' => Branching(i) /\ bStallDueToBranch')
Follows(i) ==
  LET wrong == \/ StopsInStall
               \/ OnProgram /\ TwiceOrInstead(i)
               \/ Leaves(i) /\ (Mishandles(i) \/ MisreadsBase(Line))
  IN  IF spoiled \/ wrong \/ ~Leaves(i)
      THEN UNCHANGED ahead /\ spoiled' = (spoiled \/ wrong)
      ELSE Sequential!Execute /\ UNCHANGED spoiled

\* A mutant of NextCounter: the counter does not stop behind the end.
NextCounterRuns == IF bStallIF THEN programCounter ELSE programCounter + 1

NextCounter ==
  IF ~bStallIF /\ programCounter <= Size THEN programCounter + 1 ELSE programCounter

\* A branch that is not waited for may send a stall to the line before the first,
\* where the model ends.
Issue ==
  /\ turn = Issues /\ turn' = WritesBack
  /\ bStallIF => programCounter # 0
  /\ IF bStallDueToBranch
     THEN UNCHANGED <<programCounter, station, waitOn, stalls, triggerend, ahead, spoiled>>
     ELSE /\ programCounter' = NextCounter
          /\ triggerend' = (triggerend /\ ~Fetches)
          /\ LoadReservationStation(IR) /\ Follows(IR)
  /\ UNCHANGED <<vprogram, registers, mem, wbobject>>

Next == WriteBackRun \/ Execute \/ Issue
Spec == Init /\ [][Next]_vars
FairSpec == Spec /\ WF_vars(Next)
-----------------------------------------------------------------------------
Instruction ==
  [op : OpCodes, double : BOOLEAN, target : Names, source1 : Names, source2 : Names,
   n : Int]
Unit == [busy : BOOLEAN, ins : Instruction, hold : BOOLEAN, left : Nat,
         vj : BOOLEAN, vk : BOOLEAN, s1 : Word, s2 : Word,
         waiting : BOOLEAN, value : Word, x : Word, y : Word, behind : BOOLEAN]
TypeOK ==
  /\ vprogram \in Programs /\ programCounter \in 0 .. Size + 1
  /\ registers \in [Registers -> Word] /\ mem \in Cells
  /\ waitOn \in [BOOLEAN -> [Names -> Stations \cup {Nobody}]]
  /\ station \in [Stations -> Unit]
  /\ wbobject \in [busy : BOOLEAN, isDouble : BOOLEAN, target : Names, val : Word]
  /\ bStallIF \in BOOLEAN /\ bStallDueToBranch \in BOOLEAN
  /\ stallDueToRSid \in SUBSET Kinds /\ triggerend \in BOOLEAN
  /\ turn \in Stations \cup {WritesBack, Issues}
  /\ seqCounter \in 0 .. Size /\ seqRegisters \in [Registers -> Word] /\ seqMem \in Cells
  /\ spoiled \in BOOLEAN

\* A register is what the sequential processor has in it, unless an instruction
\* is on its way to it; so is the memory, unless a store is.
RegistersAgree ==
  \A r \in Registers :
    \/ wbobject.busy /\ wbobject.target = r
    \/ \E u \in InFlight : WritesRegister(u.ins, r)
    \/ registers[r] = seqRegisters[r]
MemoriesAgree == mem = seqMem \/ \E u \in InFlight : u.ins.op = "S"
\* The line to issue is the one the sequential processor stands at, once the
\* branches before it are decided.
NextLine == programCounter - (IF bStallIF \/ programCounter > Size THEN 1 ELSE 0)
LinesAgree == bStallDueToBranch \/ NextLine = seqCounter

Ended == turn = WritesBack /\ triggerend
Finished == InFlight = {} /\ ~wbobject.busy /\ seqCounter = Size

\* sim_t computes what sim_seq computes, though loads, stores and operations end
\* in any order: unless the processor has mishandled a line (Mishandles,
\* TwiceOrInstead, MisreadsBase, StopsInStall), every branch goes where it should,
\* every result is the right one, the last one written is the last one of the
\* program, and it does not end before.
RunsTheProgram ==
  spoiled \/ /\ RegistersAgree /\ MemoriesAgree /\ LinesAgree
             /\ Ended => Finished

\* No stall lasts and no station keeps its instruction: lines are fetched again
\* and again until the program has ended, or dies with a division.
Dies == \E u \in InFlight : u.ins.op = "DIV" /\ u.left = 0 /\ ~Divides(u.s1, u.s2)
KeepsMoving == []<>(Fetches \/ Ended \/ spoiled \/ Dies)

\* A store makes its result and leaves its station (LoadReservationStation.cpp
\* and LSReservationStation::execute): it does not wait for ever.
StoresAreMade ==
  \A k \in Stations : (k[1] = "stores" /\ station[k].busy) ~> ~station[k].busy
=============================================================================
