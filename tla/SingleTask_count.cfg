SPECIFICATION Spec
CONSTANTS
  MaxAnts = 3
  StartAnts = 2
  Pieces = 3
  MaxUps = 0
  MaxDowns = 1
  MaxMirrors = 0
  MaxReports = 0
INVARIANT RunningCounted
CHECK_DEADLOCK FALSE
