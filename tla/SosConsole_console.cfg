\* One reader and two writers, both directions at once.
SPECIFICATION FairSpec
CONSTANTS
  NoThread = NoThread
  Readers = {r1}
  Writers = {w1, w2}
  InSize = 2
  OutSize = 1
  MaxReq = 2
  MaxTyped = 3
INVARIANTS TypeOK DeviceIsReady CharsAreCounted
PROPERTIES WritesAreWhole KeyIsTaken WritesReturn LineEndsRead

\* When nobody types or writes, SOS waits for an interrupt.
CHECK_DEADLOCK FALSE
