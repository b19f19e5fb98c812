\* Three processes read, write, share and close; a full, an empty and a wrapped buffer.
SPECIFICATION Spec
CONSTANTS
  NoThread = NoThread
  Procs = {p1, p2, p3}
  MayRead = {p1, p2, p3}
  MayWrite = {p1, p2, p3}
  Size = 2
  MaxReq = 3
  MaxBytes = 6
  MaxEnds = 2
  EofBytes = {1}
  Closable = {"r", "w"}
SYMMETRY Symmetry
INVARIANTS TypeOK OneAtEachEnd RingInOrder NoLostWakeup
PROPERTIES ImplementsChannel
\* With every process blocked SOS waits for an interrupt, and exit(1) ends it.
CHECK_DEADLOCK FALSE
