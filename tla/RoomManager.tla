----------------------------- MODULE RoomManager -----------------------------
(***************************************************************************)
(* UserManager, RoomManager and the Rooms it owns: who is logged in, who   *)
(* is in which room, and the games from start to end.  Every action is one *)
(* public operation of the two managers, run to completion: the server has *)
(* one thread for all of them.                                             *)
(*                                                                         *)
(* A request that is refused changes nothing (a stuttering step); the      *)
(* operators ...Result say which requests those are and with which code.   *)
(* The one exception is a move or a resignation that finds the turn        *)
(* expired: it is refused, and ends the game.                              *)
(*                                                                         *)
(* Remove(s) followed by Login(s) stands for a new connection: TcpNetwork  *)
(* never gives a session id twice, here ids are recycled to stay finite.   *)
(***************************************************************************)
EXTENDS Room, Sequences

CONSTANTS
  Nicknames,
  MaxRoomId,   \* the largest RoomId (2^32 - 1 in the code)
  MaxRooms,    \* RoomConfig::MaxRooms
  NoUser, NoRoom

ASSUME ManagerConstants ==
  /\ MaxRoomId \in Nat
  /\ MaxRooms \in Nat \ {0}
  /\ Sessions \cap Nicknames = {}
  /\ NoSession \notin Nicknames
  /\ NoUser \notin [nick : Nicknames, state : {"Lobby", "InRoom"}, room : 0..MaxRoomId]
  /\ NoRoom \notin Rooms

VARIABLES
  users,        \* m_users: [Sessions -> Users \cup {NoUser}]
  byNickname,   \* m_sessionByNickname: [Nicknames -> Sessions \cup {NoSession}]
  rooms,        \* m_rooms: [RoomIds -> Rooms \cup {NoRoom}]
  lastRoomId,   \* m_lastRoomId
  lastGameId,   \* m_lastGameId
  finished      \* m_finishedGames: the endings not yet told to the players

vars == <<users, byNickname, rooms, lastRoomId, lastGameId, finished>>

NoRoomId == 0                \* INVALID_ROOM_ID
RoomIds  == 1..MaxRoomId
Users    == [nick : Nicknames, state : {"Lobby", "InRoom"}, room : 0..MaxRoomId]
Reasons  == {"FiveInRow", "BoardFull", "Resigned", "TurnTimeout", "LeftRoom", "Disconnected"}

FinishedGames == [room : RoomIds, game : GameIds, status : FinalStatus,
                  reason : Reasons, moves : 0..Cells, targets : SUBSET Sessions]

RoomExists(r) == r \in RoomIds /\ rooms[r] # NoRoom
LiveRooms     == {r \in RoomIds : rooms[r] # NoRoom}
LoggedIn(s)   == users[s] # NoUser

\* User::EnterRoom and User::ReturnToLobby
InRoomUser(user, r) == [user EXCEPT !.state = "InRoom", !.room = r]
LobbyUser_Stays(user)     == user
LobbyUser_KeepsRoom(user) == [user EXCEPT !.state = "Lobby"]
LobbyUser(user)     == [user EXCEPT !.state = "Lobby", !.room = NoRoomId]

-----------------------------------------------------------------------------
(* UserManager *)

\* An invalid nickname is refused whatever the state; only valid ones are here.
LoginResult(s, nick) ==
  IF LoggedIn(s) THEN "AlreadyLoggedIn"
  ELSE IF byNickname[nick] # NoSession THEN "NicknameInUse"
  ELSE "Success"

Login(s, nick) ==
  /\ LoginResult(s, nick) = "Success"
  /\ users' = [users EXCEPT ![s] = [nick |-> nick, state |-> "Lobby", room |-> NoRoomId]]
  /\ byNickname' = [byNickname EXCEPT ![nick] = s]
  /\ UNCHANGED <<rooms, lastRoomId, lastGameId, finished>>

\* UserManager::Remove, on the users as LeaveRoom left them.
NicknamesWithout_KeepsNick(s) == byNickname

NicknamesWithout(s) ==
  IF LoggedIn(s) THEN [byNickname EXCEPT ![users[s].nick] = NoSession] ELSE byNickname

-----------------------------------------------------------------------------
(* Ending a game *)

\* FinishRoom: the record kept for the players, made while they are still members.
Ending(r, room, reason) ==
  [room |-> r, game |-> room.gameId, status |-> room.game.status, reason |-> reason,
   moves |-> room.game.moves, targets |-> room.members]

\* ExpireRoom: the player to move loses.
Expire(room) ==
  IF TurnExpired(room) THEN Finished(Forfeit(room, room.game.next)) ELSE room

ExpiryEnding(r, room) == Ending(r, Forfeit(room, room.game.next), "TurnTimeout")

\* The moment a turn may be found expired before a request is looked at.
ExpireBeforeRequest(r) ==
  /\ TurnExpired(rooms[r])
  /\ rooms' = [rooms EXCEPT ![r] = Expire(@)]
  /\ finished' = Append(finished, ExpiryEnding(r, rooms[r]))

-----------------------------------------------------------------------------
(* Rooms and their members *)

\* An invalid title is refused, and is left out like invalid nicknames.
CreateResult(s) ==
  IF ~LoggedIn(s) THEN "UserNotFound"
  ELSE IF users[s].state # "Lobby" THEN "AlreadyInRoom"
  ELSE IF users[s].room # NoRoomId THEN "StateMismatch"
  ELSE IF Cardinality(LiveRooms) >= MaxRooms THEN "RoomLimitReached"
  ELSE IF lastRoomId = MaxRoomId THEN "RoomIdExhausted"
  ELSE IF RoomExists(lastRoomId + 1) THEN "StateMismatch"
  ELSE "Success"

CreateRoom(s) ==
  LET r == lastRoomId + 1
  IN /\ CreateResult(s) = "Success"
     /\ rooms' = [rooms EXCEPT ![r] = NewRoom(s)]
     /\ users' = [users EXCEPT ![s] = InRoomUser(@, r)]
     /\ lastRoomId' = r
     /\ UNCHANGED <<byNickname, lastGameId, finished>>

EnterResult(s, r) ==
  IF ~LoggedIn(s) THEN "UserNotFound"
  ELSE IF users[s].state # "Lobby" THEN "AlreadyInRoom"
  ELSE IF users[s].room # NoRoomId THEN "StateMismatch"
  ELSE IF ~RoomExists(r) THEN "RoomNotFound"
  ELSE IF rooms[r].phase = "Playing" THEN "GameInProgress"
  ELSE IF s \in rooms[r].members THEN "StateMismatch"
  ELSE IF Cardinality(rooms[r].members) >= Capacity THEN "RoomFull"
  ELSE IF ~CanAdd(rooms[r], s) THEN "StateMismatch"
  ELSE "Success"

EnterRoom(s, r) ==
  /\ EnterResult(s, r) = "Success"
  /\ rooms' = [rooms EXCEPT ![r] = Added(@, s)]
  /\ users' = [users EXCEPT ![s] = InRoomUser(@, r)]
  /\ UNCHANGED <<byNickname, lastRoomId, lastGameId, finished>>

\* The lookups LeaveRoom, SetReady and StartGame begin with.
MemberResult(s) ==
  IF ~LoggedIn(s) THEN "UserNotFound"
  ELSE IF users[s].state # "InRoom" THEN "NotInRoom"
  ELSE IF ~RoomExists(users[s].room) THEN "StateMismatch"
  ELSE IF s \notin rooms[users[s].room].members THEN "StateMismatch"
  ELSE "Success"

\* LeaveRoom: an expired turn is settled first; a game still running is lost by
\* the one who leaves; the last member takes the room with him.
LeaveResult(s) ==
  IF LoggedIn(s) /\ users[s].state = "Lobby" /\ users[s].room # NoRoomId
  THEN "StateMismatch"
  ELSE IF MemberResult(s) # "Success" THEN MemberResult(s)
  ELSE LET room == Expire(rooms[users[s].room])
       IN IF room.phase = "Playing" /\ ~CanForfeit(room.game, StoneOf(room, s))
          THEN "StateMismatch"
          ELSE "Success"

LeaveEndings_NoForfeit(s, reason) ==
  LET r == users[s].room
  IN IF TurnExpired(rooms[r]) THEN <<ExpiryEnding(r, rooms[r])>> ELSE <<>>

LeaveEndings(s, reason) ==
  LET r == users[s].room
      room == rooms[r]
  IN IF TurnExpired(room) THEN <<ExpiryEnding(r, room)>>
     ELSE IF room.phase = "Playing" THEN <<Ending(r, Forfeit(room, StoneOf(room, s)), reason)>>
     ELSE <<>>

RoomsWithout(s) ==
  [rooms EXCEPT ![users[s].room] = IF @.members = {s} THEN NoRoom ELSE Removed(@, s)]

LeaveRoom(s, reason) ==
  /\ LeaveResult(s) = "Success"
  /\ rooms' = RoomsWithout(s)
  /\ users' = [users EXCEPT ![s] = LobbyUser(@)]
  /\ finished' = finished \o LeaveEndings(s, reason)
  /\ UNCHANGED <<byNickname, lastRoomId, lastGameId>>

\* What PacketProcessor::HandleDisconnected does to the managers: the room is
\* left, whatever LeaveRoom answers, and the user is removed.
LeaveAndRemove(s) ==
  /\ LoggedIn(s)
  /\ IF LeaveResult(s) = "Success"
     THEN /\ rooms' = RoomsWithout(s)
          /\ finished' = finished \o LeaveEndings(s, "Disconnected")
     ELSE UNCHANGED <<rooms, finished>>
  /\ users' = [users EXCEPT ![s] = NoUser]
  /\ byNickname' = NicknamesWithout(s)
  /\ UNCHANGED <<lastRoomId, lastGameId>>

-----------------------------------------------------------------------------
(* Games *)

ReadyResult(s) ==
  IF MemberResult(s) # "Success" THEN MemberResult(s)
  ELSE IF rooms[users[s].room].phase = "Playing" THEN "GameInProgress"
  ELSE IF rooms[users[s].room].host = s THEN "HostCannotReady"
  ELSE "Success"

SetReady(s, ready) ==
  /\ ReadyResult(s) = "Success"
  /\ rooms' = [rooms EXCEPT ![users[s].room] = WithReady(@, s, ready)]
  /\ UNCHANGED <<users, byNickname, lastRoomId, lastGameId, finished>>

StartResult_NotReady(s) ==
  IF MemberResult(s) # "Success" THEN MemberResult(s)
  ELSE LET room == rooms[users[s].room]
       IN IF room.host # s THEN "NotHost"
          ELSE IF room.phase = "Playing" THEN "GameAlreadyStarted"
          ELSE IF Cardinality(room.members) # Capacity THEN "NotEnoughPlayers"
          ELSE IF lastGameId = MaxGameId THEN "GameIdExhausted"
          ELSE "Success"

StartResult(s) ==
  IF MemberResult(s) # "Success" THEN MemberResult(s)
  ELSE LET room == rooms[users[s].room]
       IN IF room.host # s THEN "NotHost"
          ELSE IF room.phase = "Playing" THEN "GameAlreadyStarted"
          ELSE IF Cardinality(room.members) # Capacity THEN "NotEnoughPlayers"
          ELSE IF ~(room.members \ {room.host} \subseteq room.ready) THEN "NotAllReady"
          ELSE IF lastGameId = MaxGameId THEN "GameIdExhausted"
          ELSE "Success"

StartGame_SameId(s) ==
  /\ StartResult(s) = "Success"
  /\ rooms' = [rooms EXCEPT ![users[s].room] = Started(@, lastGameId + 1)]
  /\ UNCHANGED <<users, byNickname, lastRoomId, lastGameId, finished>>

StartGame(s) ==
  /\ StartResult(s) = "Success"
  /\ rooms' = [rooms EXCEPT ![users[s].room] = Started(@, lastGameId + 1)]
  /\ lastGameId' = lastGameId + 1
  /\ UNCHANGED <<users, byNickname, lastRoomId, finished>>

AddressResult_AnyGame(s, r, g) ==
  IF ~LoggedIn(s) THEN "NotLoggedIn"
  ELSE IF users[s].state # "InRoom" THEN "NotInRoom"
  ELSE IF users[s].room # r THEN "WrongRoom"
  ELSE IF ~RoomExists(r) THEN "StateMismatch"
  ELSE IF s \notin rooms[r].members THEN "StateMismatch"
  ELSE IF g = 0 THEN "StaleGame"
  ELSE "Success"

\* The checks PlaceStone and Resign share: the request names a room and a game.
AddressResult(s, r, g) ==
  IF ~LoggedIn(s) THEN "NotLoggedIn"
  ELSE IF users[s].state # "InRoom" THEN "NotInRoom"
  ELSE IF users[s].room # r THEN "WrongRoom"
  ELSE IF ~RoomExists(r) THEN "StateMismatch"
  ELSE IF s \notin rooms[r].members THEN "StateMismatch"
  ELSE IF g = 0 \/ g # rooms[r].gameId THEN "StaleGame"
  ELSE "Success"

\* What PlaceStone answers.
StoneResult(s, r, g, cell) ==
  IF AddressResult(s, r, g) # "Success" THEN AddressResult(s, r, g)
  ELSE IF TurnExpired(rooms[r]) THEN "GameNotRunning"
  ELSE IF PlaceResult(rooms[r], s, cell) = "InvalidStone" THEN "StateMismatch"
  ELSE PlaceResult(rooms[r], s, cell)

EndingReason_AlwaysFive(status) == "FiveInRow"

EndingReason(status) == IF status = "Draw" THEN "BoardFull" ELSE "FiveInRow"

PlaceStone_TryBuysTime(s, r, g, cell, line) ==
  /\ AddressResult(s, r, g) = "Success" /\ ~TurnExpired(rooms[r])
  /\ rooms[r].phase = "Playing"
  /\ rooms' = [rooms EXCEPT ![r].left = TurnTime]
  /\ UNCHANGED <<users, byNickname, lastRoomId, lastGameId, finished>>

PlaceStone(s, r, g, cell, line) ==
  /\ \/ /\ AddressResult(s, r, g) = "Success"
        /\ ExpireBeforeRequest(r)
     \/ /\ StoneResult(s, r, g, cell) = "Success"
        /\ LET moved == Moved(rooms[r], s, line)
           IN IF moved.game.status = "Playing"
              THEN rooms' = [rooms EXCEPT ![r] = moved] /\ UNCHANGED finished
              ELSE /\ rooms' = [rooms EXCEPT ![r] = Finished(moved)]
                   /\ finished' = Append(finished,
                                    Ending(r, moved, EndingReason(moved.game.status)))
  /\ UNCHANGED <<users, byNickname, lastRoomId, lastGameId>>

ResignResult(s, r, g) ==
  IF AddressResult(s, r, g) # "Success" THEN AddressResult(s, r, g)
  ELSE IF TurnExpired(rooms[r]) THEN "GameNotRunning"
  ELSE IF rooms[r].phase # "Playing" \/ rooms[r].game.status # "Playing"
       THEN "GameNotRunning"
  ELSE IF ~CanForfeit(rooms[r].game, StoneOf(rooms[r], s)) THEN "StateMismatch"
  ELSE "Success"

Resign(s, r, g) ==
  /\ \/ /\ AddressResult(s, r, g) = "Success"
        /\ ExpireBeforeRequest(r)
     \/ /\ ResignResult(s, r, g) = "Success"
        /\ LET lost == Forfeit(rooms[r], StoneOf(rooms[r], s))
           IN /\ rooms' = [rooms EXCEPT ![r] = Finished(lost)]
              /\ finished' = Append(finished, Ending(r, lost, "Resigned"))
  /\ UNCHANGED <<users, byNickname, lastRoomId, lastGameId>>

-----------------------------------------------------------------------------
(* Time and the queue of finished games *)

ExpiredRooms == {r \in LiveRooms : TurnExpired(rooms[r])}

\* The sequences that hold every element of S once: m_rooms is an unordered_map,
\* so the rooms expire in an order the code does not choose.
Orders_OneOnly(S) == {<<r>> : r \in S}

Orders(S) ==
  {q \in [1..Cardinality(S) -> S] : \A i, j \in DOMAIN q : q[i] = q[j] => i = j}

UpdateTimeouts ==
  /\ ExpiredRooms # {}
  /\ rooms' = [r \in RoomIds |-> IF r \in ExpiredRooms THEN Expire(rooms[r]) ELSE rooms[r]]
  /\ \E q \in Orders(ExpiredRooms) :
        finished' = finished \o [i \in DOMAIN q |-> ExpiryEnding(q[i], rooms[q[i]])]
  /\ UNCHANGED <<users, byNickname, lastRoomId, lastGameId>>

PopFinishedGame ==
  /\ finished # <<>>
  /\ finished' = Tail(finished)
  /\ UNCHANGED <<users, byNickname, rooms, lastRoomId, lastGameId>>

\* The clock: the time left of every running turn shrinks.
Tick ==
  /\ \E r \in LiveRooms : rooms[r].left > 0
  /\ rooms' = [r \in RoomIds |-> IF r \in LiveRooms /\ rooms[r].left > 0
                                 THEN [rooms[r] EXCEPT !.left = @ - 1] ELSE rooms[r]]
  /\ UNCHANGED <<users, byNickname, lastRoomId, lastGameId, finished>>

-----------------------------------------------------------------------------

Init ==
  /\ users = [s \in Sessions |-> NoUser]
  /\ byNickname = [n \in Nicknames |-> NoSession]
  /\ rooms = [r \in RoomIds |-> NoRoom]
  /\ lastRoomId = NoRoomId
  /\ lastGameId = 0
  /\ finished = <<>>

\* The moves a client can ask for in room r, and whether one makes a line.
Cell(r) == IF RoomExists(r) THEN CellsOf(rooms[r].game) ELSE {"free"}
Line(r) == IF RoomExists(r) THEN LineOutcomes(rooms[r].game) ELSE {FALSE}

Request(s) ==
  \/ \E nick \in Nicknames : Login(s, nick)
  \/ CreateRoom(s)
  \/ \E r \in RoomIds : EnterRoom(s, r)
  \/ LeaveRoom(s, "LeftRoom")
  \/ \E ready \in BOOLEAN : SetReady(s, ready)
  \/ StartGame(s)
  \/ \E r \in RoomIds, g \in 0..MaxGameId : Resign(s, r, g)
  \/ \E r \in RoomIds, g \in 0..MaxGameId :
       \E cell \in Cell(r), line \in Line(r) : PlaceStone(s, r, g, cell, line)

Next ==
  \/ \E s \in Sessions : Request(s)
  \/ \E s \in Sessions : LeaveAndRemove(s)
  \/ UpdateTimeouts
  \/ PopFinishedGame
  \/ Tick

Spec == Init /\ [][Next]_vars

\* The server loop looks for expired turns and sends the results out in every
\* round, whatever the clients do; and time passes.
Fairness == WF_vars(UpdateTimeouts) /\ WF_vars(PopFinishedGame) /\ WF_vars(Tick)

-----------------------------------------------------------------------------
(* Invariants *)

TypeOK ==
  /\ users \in [Sessions -> Users \cup {NoUser}]
  /\ byNickname \in [Nicknames -> Sessions \cup {NoSession}]
  /\ rooms \in [RoomIds -> Rooms \cup {NoRoom}]
  /\ lastRoomId \in 0..MaxRoomId
  /\ lastGameId \in 0..MaxGameId
  /\ finished \in Seq(FinishedGames)

\* The two maps of UserManager are inverse to each other: a nickname is taken
\* exactly as long as its owner is logged in.
NicknamesAgree ==
  \A s \in Sessions, n \in Nicknames :
     byNickname[n] = s <=> LoggedIn(s) /\ users[s].nick = n

\* What a user says about his room and what the room says about its members agree,
\* so that nobody is in two rooms and no room holds somebody who has gone.
MembersAgree ==
  \A s \in Sessions, r \in RoomIds :
     LoggedIn(s) /\ users[s].state = "InRoom" /\ users[s].room = r
       <=> RoomExists(r) /\ s \in rooms[r].members

LobbyMeansNoRoom ==
  \A s \in Sessions : LoggedIn(s) => (users[s].state = "Lobby" <=> users[s].room = NoRoomId)

\* Every room is sound (see Room.tla), and the ids it was given are among those
\* given out: a room id or a game id is never given twice.
RoomsSound ==
  \A r \in LiveRooms : /\ RoomSound(rooms[r])
                       /\ PlayingSound(rooms[r])
                       /\ r <= lastRoomId
                       /\ rooms[r].gameId <= lastGameId

\* StateMismatch is the managers' word for "my own data contradict each other":
\* no request of any user, whatever room and game it names, is ever answered so.
NoStateMismatch ==
  \A s \in Sessions :
     /\ "StateMismatch" \notin {CreateResult(s), LeaveResult(s), ReadyResult(s), StartResult(s)}
     /\ \A r \in RoomIds : EnterResult(s, r) # "StateMismatch"
     /\ \A r \in RoomIds, g \in GameIds :
          /\ ResignResult(s, r, g) # "StateMismatch"
          /\ \A cell \in Cell(r) : StoneResult(s, r, g, cell) # "StateMismatch"

\* A game ends once: no game waits twice in the queue of results, none of those
\* that wait is still being played, and no two rooms play the same game.
GameEndsOnce ==
  /\ \A i, j \in DOMAIN finished : finished[i].game = finished[j].game => i = j
  /\ \A r \in LiveRooms : rooms[r].phase = "Playing" =>
       /\ \A i \in DOMAIN finished : finished[i].game # rooms[r].gameId
       /\ \A q \in LiveRooms : rooms[q].gameId = rooms[r].gameId => q = r

\* A result can be explained by its game: a line belongs to who moved last, a
\* timeout is lost by who was to move, a draw fills the board, both players are told.
EndingSound(e) ==
  LET lastMover == IF e.moves % 2 = 1 THEN "Black" ELSE "White"
  IN /\ e.reason = "FiveInRow" => e.status = WonBy(lastMover) /\ e.moves >= FirstWin
     /\ e.reason = "TurnTimeout" => e.status = WonBy(lastMover)
     /\ e.reason = "BoardFull" <=> e.status = "Draw"
     /\ e.status = "Draw" => e.moves = Cells
     /\ e.reason \notin {"FiveInRow", "BoardFull"} => e.moves < Cells
     /\ Cardinality(e.targets) = Capacity

EndingsSound == \A i \in DOMAIN finished : EndingSound(finished[i])

-----------------------------------------------------------------------------
(* Action properties *)

Running(r) == RoomExists(r) /\ rooms[r].phase = "Playing"

\* Whoever is first to look at a room after its turn has run out, the result is
\* the timeout: no move, resignation, departure or lost connection gets in before.
TimeoutComesFirst ==
  [][\A r \in LiveRooms :
       TurnExpired(rooms[r]) /\ rooms'[r] # rooms[r]
         => /\ Len(finished') > Len(finished)
            /\ \E i \in (Len(finished) + 1)..Len(finished') :
                 /\ finished'[i].game = rooms[r].gameId
                 /\ finished'[i].reason = "TurnTimeout"
                 /\ finished'[i].status = WonBy(Opponent(rooms[r].game.next))]_vars

\* While a game runs its players stay as they are, and it only stops running
\* together with its result entering the queue.
GameRunsUndisturbed ==
  [][\A r \in LiveRooms : Running(r) =>
       LET same == Running(r)' /\ rooms'[r].gameId = rooms[r].gameId
       IN /\ same => /\ rooms'[r].members = rooms[r].members
                     /\ rooms'[r].host = rooms[r].host
                     /\ StoneOf(rooms'[r], rooms[r].white) = "White"
          /\ same \/ \E i \in DOMAIN finished' : /\ finished'[i].game = rooms[r].gameId
                                                 /\ finished'[i].targets = rooms[r].members]_vars

\* Time for the turn is given only to a game that has just begun or whose board
\* has just got a stone: no refused request buys any.
TimeIsEarned ==
  [][\A r \in LiveRooms \cap LiveRooms' :
       rooms'[r].left > rooms[r].left
         => \/ rooms'[r].gameId > rooms[r].gameId
            \/ rooms'[r].game.moves = rooms[r].game.moves + 1]_vars

\* A game begins only when the guest said he is ready since the room's members
\* last changed, and under an id no room had before.
GameStartsReady ==
  [][\A r \in LiveRooms : ~Running(r) /\ Running(r)' =>
       /\ rooms[r].members \ {rooms[r].host} = rooms[r].ready
       /\ rooms[r].ready # {}
       /\ \A q \in LiveRooms : rooms[q].gameId < rooms'[r].gameId]_vars

-----------------------------------------------------------------------------
(* Liveness *)

\* Every game comes to an end, whatever the two players do or leave undone.
GamesEnd ==
  \A r \in RoomIds, g \in GameIds :
     (Running(r) /\ rooms[r].gameId = g) ~> ~(Running(r) /\ rooms[r].gameId = g)
=============================================================================
