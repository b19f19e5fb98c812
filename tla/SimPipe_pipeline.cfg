\* Every careful program of four lines, in words of two bits.
SPECIFICATION FairSpec
CONSTANTS
  Registers = {"R1", "R14"}
  W = 4
  Size = 4
  Programs <- CarefulPrograms
  Contents <- Full
  Blank = Blank
  None = None
  Cycles <- Costs
  Contained <- Within
INVARIANTS TypeOK
PROPERTIES RunsTheProgram KeepsMoving

\* A program ends, or dies with a division.
CHECK_DEADLOCK FALSE
