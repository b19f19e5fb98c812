\* The stores of Source.asm wait for ever.
SPECIFICATION FairSpec
CONSTANTS
  Registers = {"R0", "R1", "R2", "R3", "F0", "F1", "F2"}
  Floats = {"F0", "F1", "F2"}
  W = 4
  Size = 9
  Programs <- SourceAsm
  Contents <- Ones
  Blank = Blank
  None = None
  Cycles <- Costs
  BaseRead <- Exact
  NoOfFunctionalUnits <- Units
PROPERTY StoresAreMade
CHECK_DEADLOCK FALSE
