SPECIFICATION Spec
CONSTANTS
  Ants = {1, 2}
  Main = "m"
  Mirrors = {"a", "b"}
  Moves <- MCMoves
  Wrong = {"b"}
  Unsupported = {"far"}
  Retries = 1
  SwapAfter = 1
  MaxUses = 4
  MaxPieces = 2
INVARIANTS UrlsRight
PROPERTIES InvalidShunned
CHECK_DEADLOCK FALSE
