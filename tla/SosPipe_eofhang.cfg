\* The last writer goes while a reader is blocked: does the reader return?
SPECIFICATION FairSpec
CONSTANTS
  NoThread = NoThread
  Procs = {p1, p2, p3}
  MayRead = {p1}
  MayWrite = {p3}
  Size = 2
  MaxReq = 2
  MaxBytes = 3
  MaxEnds = 1
  EofBytes = {}
  Closable = {"w"}
PROPERTIES CloseReleasesReader
\* With every process blocked SOS waits for an interrupt, and exit(1) ends it.
CHECK_DEADLOCK FALSE
