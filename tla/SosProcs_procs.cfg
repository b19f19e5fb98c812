\* Four PCBs in three partitions, pids that run out.
SPECIFICATION FairSpec
CONSTANTS
  NoThread = NoThread
  Procs = {p1, p2, p3, p4}
  First = p1
  init = init
  NoProc = NoProc
  NParts = 3
  MaxPid = 5
INVARIANTS TypeOK MemoryIsExclusive PidsAreUnique PidsAreCounted ZombiesAreCounted RunsOnce
PROPERTIES GetsTheCpu

\* With every process gone or blocked, schedule() runs noop.
CHECK_DEADLOCK FALSE
