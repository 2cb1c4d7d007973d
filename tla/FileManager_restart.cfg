\* Two ants, a second start after a stop or a crash, a server that sends too
\* much, an unknown length, failing writes.  Liveness: no symmetry.
SPECIFICATION FairSpec
CONSTANTS
  Ants = {a1, a2}
  NoAnt = NoAnt
  FileLen = 5
  RECVBUF = 4
  PieceLens = {0,2,4}
  MaxOverrun = 1
  Retries = 0
  MaxStarts = 2
  MaxClicks = 0
INVARIANTS
  BytesTrue
  ErrorHasCause
PROPERTIES
  ImplementsDownload
  TaskEnds
CHECK_DEADLOCK FALSE
