SPECIFICATION Spec
CONSTANTS
  s1 = s1
  s2 = s2
  s3 = s3
  s4 = s4
  n1 = n1
  n2 = n2
  n3 = n3
  n4 = n4
  Sessions = {s1, s2, s3}
  Nicknames = {n1, n2, n3}
  NoSession = NoSession
  NoUser = NoUser
  NoRoom = NoRoom
  MaxRooms = 2
  MaxRoomId = 2
  MaxGameId = 2
  TurnTime = 2
  Cells = 2
  FirstWin = 2
SYMMETRY Symmetry
INVARIANTS
  NicknamesAgree
  MembersAgree
  RoomsSound
  NoStateMismatch
PROPERTIES
  GameRunsUndisturbed
  TimeIsEarned
  GameStartsReady
