\* Every interleaving of one session of a task: three ants, two of which may
\* be added or removed, share 12 bytes.
SPECIFICATION Spec
CONSTANTS
  Ants = {a1, a2, a3}
  NoAnt = NoAnt
  FileLen = 12
  RECVBUF = 4
  PieceLens = {4}
  MaxOverrun = 0
  Retries = 0
  MaxStarts = 1
  MaxClicks = 2
SYMMETRY AntSymmetry
INVARIANTS
  IndexRight
  MarksAlive
  IndexBounded
PROPERTY
  NothingLost
CHECK_DEADLOCK FALSE
