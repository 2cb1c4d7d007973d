SPECIFICATION MCSpec
CONSTANTS
  p1 = p1
  p2 = p2
  p3 = p3
  Procs = {p1, p2, p3}
  WithArgs = {p1, p2, p3}
  Killed = {p1, p2}
  Reused = {p1}
  Paces = {"starts", "turns"}
  Plain = {p3}
INVARIANTS OneProgram ListensInTurns
PROPERTIES HandOvers
CHECK_DEADLOCK FALSE
