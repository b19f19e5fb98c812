\* Programs of four lines, in words of two bits.
SPECIFICATION FairSpec
CONSTANTS
  Registers = {"R1", "R2", "R12", "F1"}
  Floats = {"F1"}
  W = 4
  Size = 4
  Programs <- AllPrograms
  Contents <- Full
  Blank = Blank
  None = None
  Cycles <- Costs
  BaseRead <- Overwritten
  NoOfFunctionalUnits <- Units
INVARIANTS TypeOK RunsTheProgram
PROPERTY KeepsMoving

\* A program ends, or dies with a division.
CHECK_DEADLOCK FALSE
