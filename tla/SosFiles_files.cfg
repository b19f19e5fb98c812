\* Two processes, one pipe whose ends dup2 copies, every call.
SPECIFICATION Spec
CONSTANTS
  Procs = {p1, p2}
  First = p1
  FTSIZE = 3
  Pipes = {a}
  Null = Null
  Dups = {a}
  MaxCount = 4
SYMMETRY Symmetry
INVARIANTS TypeOK CountsCoverDescriptors
PROPERTIES EndsAreFinal

\* When every process has exited nothing is left to run.
CHECK_DEADLOCK FALSE
