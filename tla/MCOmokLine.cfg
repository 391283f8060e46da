SPECIFICATION Spec
CONSTANTS
  BoardSize = 4
  WinLength = 2
PROPERTIES
  MoveWinsIffLine
