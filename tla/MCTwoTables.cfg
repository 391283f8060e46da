SPECIFICATION SeatedSpec
CHECK_DEADLOCK FALSE
CONSTANTS
  s1 = s1
  s2 = s2
  s3 = s3
  s4 = s4
  n1 = n1
  n2 = n2
  n3 = n3
  n4 = n4
  Sessions = {s1, s2, s3, s4}
  Nicknames = {n1, n2, n3, n4}
  NoSession = NoSession
  NoUser = NoUser
  NoRoom = NoRoom
  MaxRooms = 2
  MaxRoomId = 2
  MaxGameId = 2
  TurnTime = 1
  Cells = 3
  FirstWin = 2
INVARIANTS
  GameEndsOnce
  EndingsSound
PROPERTIES
  TimeoutComesFirst
  GamesEnd
