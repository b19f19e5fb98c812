------------------------------- MODULE SimSeq -------------------------------
(***************************************************************************)
(* The sequential processor of A2 - Instruction Level Parallelism          *)
(* (sim_seq.cpp): one instruction of the program after the other.  It is   *)
(* what the pipelined processor (SimPipe) has to compute.                  *)
(***************************************************************************)
EXTENDS SimIsa

VARIABLES vprogram, programCounter, registers, mem
vars == <<vprogram, programCounter, registers, mem>>

Reg(r) == IF r = None THEN 0 ELSE registers[r]
Put(r, v) == registers' = [registers EXCEPT ![r] = v] /\ UNCHANGED mem

Init ==
  /\ vprogram \in Programs /\ mem \in Contents
  /\ programCounter = 0 /\ registers = [r \in Registers |-> 0]

Computed(i) ==
  /\ i.op \in Arithmetic /\ (i.op = "DIV" => Divides(Reg(i.a), Reg(i.b)))
  /\ Put(i.t, Compute(i.op, Reg(i.a), Reg(i.b)))
LoadImmediate(i) == i.op = "LI" /\ Put(i.t, i.n % W)
Move(i)          == i.op = "MOVE" /\ Put(i.t, Reg(i.a))
Load(i)          == i.op = "L" /\ Put(i.t, Loaded(mem[Sum(i.n, Reg(i.b))]))
Store(i) ==
  /\ i.op = "S" /\ UNCHANGED registers
  /\ mem' = [mem EXCEPT ![Sum(i.n, Reg(i.b))] = Reg(i.a)]
NoEffect(i) == i.op \in Branches \cup {"NOOP"} /\ UNCHANGED <<registers, mem>>

\* One turn of executeProgram.
Execute ==
  /\ programCounter # Size
  /\ LET i == vprogram[programCounter]
     IN  /\ \/ Computed(i) \/ LoadImmediate(i) \/ Move(i)
            \/ Load(i) \/ Store(i) \/ NoEffect(i)
         /\ programCounter' =
              IF Holds(i, Reg(i.a), Reg(i.b)) THEN i.n ELSE programCounter + 1
  /\ UNCHANGED vprogram

Spec == Init /\ [][Execute]_vars

TypeOK ==
  /\ vprogram \in Programs /\ programCounter \in 0 .. Size
  /\ registers \in [Registers -> Word] /\ mem \in Cells
=============================================================================
