SPECIFICATION FairServerSpec
CONSTANTS
  s1 = s1
  s2 = s2
  n1 = n1
  n2 = n2
  Sessions = {s1, s2}
  Nicknames = {n1, n2}
  NoSession = NoSession
  NoUser = NoUser
  NoRoom = NoRoom
  MaxRooms = 1
  MaxRoomId = 1
  MaxGameId = 2
  TurnTime = 1
  Cells = 2
  FirstWin = 2
  LoginTime = 2
  MaxBatch = 2
  PacketIds = {"LOGIN_REQ", "BAD"}
  SlowClients = {s1}
INVARIANTS
  DeadlinesExact
PROPERTIES
  NoLateLogin
  SilentAreDropped
  GhostsAreBuried
