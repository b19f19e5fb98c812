\* One writer, two readers, the read ends may close.
SPECIFICATION FairSpec
CONSTANTS
  NoThread = NoThread
  Procs = {p1, p2, p3}
  MayRead = {p1, p2}
  MayWrite = {p3}
  Size = 2
  MaxReq = 3
  MaxBytes = 5
  MaxEnds = 2
  EofBytes = {}
  Closable = {"r"}
PROPERTIES ReadReturns BrokenPipeIsNoticed
\* With every process blocked SOS waits for an interrupt, and exit(1) ends it.
CHECK_DEADLOCK FALSE
