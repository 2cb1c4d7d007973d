\* The abstract download on a file of three bytes.
SPECIFICATION Spec
CONSTANTS
  FileLen = 3
  Lens <- MCLens
  Pieces <- MCPieces
INVARIANTS
  Sound
  Whole
