SPECIFICATION ServerSpec
SYMMETRY Symmetry
CONSTANTS
  s1 = s1
  s2 = s2
  n1 = n1
  n2 = n2
  Sessions = {s1, s2}
  Nicknames = {n1, n2}
  NoSession = NoSession
  NoUser = NoUser
  NoRoom = NoRoom
  MaxRooms = 1
  MaxRoomId = 2
  MaxGameId = 2
  TurnTime = 1
  Cells = 2
  FirstWin = 2
  LoginTime = 1
  MaxBatch = 1
  PacketIds = {"LOGIN_REQ", "ROOM_CREATE_REQ", "ROOM_ENTER_REQ", "ROOM_LEAVE_REQ", "ROOM_READY_REQ", "ROOM_START_REQ", "GAME_MOVE_REQ", "GAME_RESIGN_REQ", "CHAT_REQ", "OTHER", "BAD"}
  SlowClients = {s1, s2}
INVARIANTS
  EverythingEncodes
  ViewsAgree
PROPERTIES
  ImplementsManagers
