SPECIFICATION Spec
CHECK_DEADLOCK FALSE
CONSTANTS
  Base = 8
  MaxNickname = 2
  MaxMessage = 8
  MaxTitle = 2
  PageSize = 2
  LastResult = 2
  BoardSize = 3
  Cells = 9
  FirstWin = 5
  Bytes = {0, 2, 3}
  Words <- SomeWords
  Texts <- SomeTexts
  Messages <- SomeMessages
INVARIANTS
  RoundTrip
  Canonical
  WrongLengthRefused
