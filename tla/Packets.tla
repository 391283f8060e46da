-------------------------------- MODULE Packets --------------------------------
(***************************************************************************)
(* What the codecs of Common/ refuse to encode, on the fields the models   *)
(* keep.  The server checks these before it sends a notification, and the  *)
(* client after it has read one.                                           *)
(***************************************************************************)
EXTENDS GameRules, FiniteSets, Sequences

\* IsValidGameMove
IsValidGameMove_NoDraw(m) ==
  /\ m.room # 0 /\ m.game # 0 /\ m.moves \in 1..Cells
  /\ m.stone \in Players
  /\ \/ m.state = "Playing" /\ m.moves < Cells /\ m.next = Opponent(m.stone)
     \/ m.state = WonBy(m.stone) /\ m.next = "Empty"

IsValidGameMove(m) ==
  /\ m.room # 0 /\ m.game # 0 /\ m.moves \in 1..Cells
  /\ m.stone \in Players
  /\ \/ m.state = "Playing" /\ m.moves < Cells /\ m.next = Opponent(m.stone)
     \/ m.state = WonBy(m.stone) /\ m.next = "Empty"
     \/ m.state = "Draw" /\ m.moves = Cells /\ m.next = "Empty"

\* IsValidGameEnd
IsValidGameEnd(m) ==
  /\ m.room # 0 /\ m.game # 0 /\ m.moves \in 0..Cells
  /\ IF m.reason = "BoardFull"
     THEN m.state = "Draw" /\ m.moves = Cells
     ELSE m.state \in {"BlackWon", "WhiteWon"}

\* IsValidRoomState.  Players are named by their nicknames.
IsValidRoomState(m) ==
  /\ m.room # 0
  /\ Cardinality(m.players) \in 1..2
  /\ m.host \in m.players
  /\ m.host \notin m.ready
  /\ m.phase = "Playing" => Cardinality(m.players) = 2 /\ m.game # 0 /\ m.ready = {}

\* The conditions of the codec of ROOM_LIST_RES.  Rooms come in the order of their ids, so that
\* the last id is where the next page begins.
IsValidRoomList(m, pageSize) ==
  /\ Len(m.rooms) <= pageSize
  /\ m.result # "Success" => m.rooms = <<>> /\ ~m.hasMore
  /\ m.hasMore => m.rooms # <<>>
  /\ \A i \in DOMAIN m.rooms :
       /\ m.rooms[i].room > (IF i = 1 THEN 0 ELSE m.rooms[i - 1].room)
       /\ m.rooms[i].capacity # 0 /\ m.rooms[i].users <= m.rooms[i].capacity
==============================================================================
