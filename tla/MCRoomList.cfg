SPECIFICATION LobbySpec
SYMMETRY Symmetry
CHECK_DEADLOCK FALSE
CONSTANTS
  s1 = s1
  s2 = s2
  s3 = s3
  s4 = s4
  n1 = n1
  n2 = n2
  n3 = n3
  n4 = n4
  Sessions = {s1, s2, s3, s4}
  Nicknames = {n1, n2, n3, n4}
  NoSession = NoSession
  NoUser = NoUser
  NoRoom = NoRoom
  MaxRooms = 3
  MaxRoomId = 4
  MaxGameId = 1
  TurnTime = 1
  Cells = 2
  FirstWin = 2
  Walker = s1
  PageSize = 1
  Base = 3
  Texts <- SomeTexts
INVARIANTS
  WalkSound
  ListsAreSent
  AskedAsTyped
