\* Main and three threads, all of which use one semaphore.
SPECIFICATION FairSpec
CONSTANTS
  Main = Main
  MaxThreads = 3
  Sems = {s}
  InitVal <- ZeroEach
  None = None
INVARIANTS TypeOK ActiveAreCounted 
PROPERTIES EverybodyRuns

\* With one thread left that joins or waits main goes round the table.
CHECK_DEADLOCK FALSE
