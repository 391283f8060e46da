SPECIFICATION Spec
CONSTANTS
  BoardSize = 3
  WinLength = 3
INVARIANTS
  NoLineMissed
PROPERTIES
  ImplementsTurns
