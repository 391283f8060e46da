----------------------------- MODULE ServerProofs ------------------------------
(***************************************************************************)
(* Theorems about the server loop, for every batch size, every set of slow *)
(* clients and every timeout.                                              *)
(*                                                                         *)
(* First, the server implements the managers: every step of PacketProcessor *)
(* does to users and rooms what some operation of RoomManager does, or     *)
(* nothing, so that what RoomManagerProofs shows of the managers holds in  *)
(* the server.  The invariant this needs is about the queue of events only: *)
(* it holds events of sessions, and packets clients send.                  *)
(*                                                                         *)
(* Then the loop itself: what is told of rooms and ends is valid, login    *)
(* deadlines are exact, nobody logs in late, the server cuts no connection *)
(* without a reason, requests reach only the games they name, and Update   *)
(* leaves no result untold.  The invariants are about the order of the     *)
(* events of a session and about the calls Update still has to make.       *)
(*                                                                         *)
(* Last, what clients know: their boards miss no move and no game they saw *)
(* end goes on, and between two updates every client knows where its user  *)
(* is and how the game stands there.  While Update is at work a view may be *)
(* behind.  The invariant ViewsInv says what is then on its way to the     *)
(* client: a notice on the agenda, or a result in the queue.  It can be    *)
(* kept because notices are sent before the next event is looked at        *)
(* (NoticesFirst), so that no handler finds a view that waits for one.     *)
(***************************************************************************)
EXTENDS PacketProcessor, RoomManagerProofs

Events == [type : {"Connected"}, session : Sessions, age : Nat]
          \cup [type : {"Packet"}, session : Sessions, packet : ClientPackets]
          \cup [type : {"Disconnected"}, session : Sessions]

EventsOK == clients \subseteq Sessions /\ events \in Seq(Events)

-----------------------------------------------------------------------------
(* The queue *)

\* An order of finitely many sessions is a sequence of them.
LEMMA OrdersAreSequences ==
  ASSUME NEW S \in SUBSET Sessions, NEW q \in Orders(S)
  PROVE  [i \in DOMAIN q |-> Disconnected(q[i])] \in Seq(Events)
<1>1. IsFiniteSet(S)
  BY RoomConstants, FS_Subset
<1>2. Cardinality(S) \in Nat
  BY <1>1, FS_CardinalityType
<1>3. q \in [1..Cardinality(S) -> S]
  BY DEF Orders
<1>4. \A i \in 1..Cardinality(S) : Disconnected(q[i]) \in Events
  BY <1>3 DEF Disconnected, Events
<1>5. [i \in 1..Cardinality(S) |-> Disconnected(q[i])] \in Seq(Events)
  BY <1>2, <1>4, SeqDef
<1> QED
  BY <1>3, <1>5

\* CloseClient adds the Disconnected events of clients.
LEMMA DisconnectingKeeps ==
  ASSUME clients \subseteq Sessions, NEW lost, NEW rest \in Seq(Events),
         Disconnecting(lost, rest)
  PROVE  EventsOK'
<1>1. PICK q \in Orders(lost \cap clients) :
        events' = rest \o [i \in DOMAIN q |-> Disconnected(q[i])]
  BY DEF Disconnecting
<1>2. [i \in DOMAIN q |-> Disconnected(q[i])] \in Seq(Events)
  BY OrdersAreSequences
<1>3. events' \in Seq(Events)
  BY <1>1, <1>2, ConcatProperties
<1>4. clients' \subseteq Sessions
  BY DEF Disconnecting
<1> QED
  BY <1>3, <1>4 DEF EventsOK

\* So does everything that sends.
LEMMA SendingKeeps ==
  ASSUME clients \subseteq Sessions, NEW targets, NEW message, NEW rest \in Seq(Events),
         SendTo(targets, message, rest) \/ Answer(targets, rest)
  PROVE  EventsOK'
<1>1. PICK lost : Disconnecting(lost, rest)
  BY DEF SendTo, Answer
<1> QED
  BY <1>1, DisconnectingKeeps

\* What is left after the first event are events, and the first one is one.
LEMMA TakingKeeps ==
  ASSUME EventsOK, events # <<>>
  PROVE  Head(events) \in Events /\ Tail(events) \in Seq(Events)
BY HeadTailProperties DEF EventsOK

-----------------------------------------------------------------------------
(* The requests *)

Step == [Next]_vars /\ EventsOK'

\* What a request asks the managers for is one of the requests of RoomManager.
LEMMA RequestIsStep ==
  ASSUME NEW s \in Sessions, Request(s)
  PROVE  [Next]_vars
BY DEF Next

\* The arguments of a packet come from where its decoder takes them.
LEMMA PacketTypes ==
  ASSUME NEW p \in ClientPackets
  PROVE  /\ p.id = "LOGIN_REQ" => p.nick \in Nicknames
         /\ p.id = "ROOM_ENTER_REQ" => p.room \in RoomIds
         /\ p.id = "ROOM_READY_REQ" => p.ready \in BOOLEAN
         /\ p.id \in {"GAME_MOVE_REQ", "GAME_RESIGN_REQ"}
              => p.room \in RoomIds /\ p.game \in 0..MaxGameId
<1>1. GameIds \subseteq 0..MaxGameId
  BY RoomConstants DEF GameIds
<1> QED
  BY <1>1 DEF ClientPackets

\* Each handler leaves the queue in order.
LEMMA HandlersKeepQueue ==
  ASSUME EventsOK, events # <<>>, NEW s \in Sessions, NEW p \in ClientPackets,
         ProcessPacket(s, p)
  PROVE  EventsOK'
<1>1. clients \subseteq Sessions /\ Tail(events) \in Seq(Events)
  BY TakingKeeps DEF EventsOK
<1>2. \A targets : Answer(targets, Tail(events)) => EventsOK'
  BY <1>1, SendingKeeps
<1>3. \A targets, message : SendTo(targets, message, Tail(events)) => EventsOK'
  BY <1>1, SendingKeeps
<1>4. \A lost : Disconnecting(lost, Tail(events)) => EventsOK'
  BY <1>1, DisconnectingKeeps
<1>5. NoReply => EventsOK'
  BY <1>1 DEF NoReply, EventsOK
<1>6. Reply(s) => EventsOK'
  BY <1>2 DEF Reply
<1>7. Refuse(s) => EventsOK'
  BY <1>6 DEF Refuse
<1>8. ASSUME NEW r, NEW g, HandleGameMove(s, r, g) PROVE EventsOK'
  BY <1>3, <1>4, <1>6, <1>7, <1>8 DEF HandleGameMove
<1> QED
  BY <1>4, <1>5, <1>6, <1>7, <1>8
  DEF ProcessPacket, HandleLogin, HandleRoomCreate, HandleRoomEnter, HandleRoomLeave,
      HandleRoomReady, HandleRoomStart, HandleGameResign, HandleChat, HandleBad

\* Each handler does to the managers what its request says, or nothing.
LEMMA HandlersAreSteps ==
  ASSUME NEW s \in Sessions, NEW p \in ClientPackets, ProcessPacket(s, p)
  PROVE  [Next]_vars
<1> USE PacketTypes
<1>1. ASSUME p.id = "LOGIN_REQ", HandleLogin(s, p.nick) PROVE [Next]_vars
  <2>1. CASE Login(s, p.nick)
    BY <1>1, <2>1, RequestIsStep DEF Request
  <2>2. CASE UNCHANGED vars
    BY <2>2
  <2> QED
    BY <1>1, <2>1, <2>2 DEF HandleLogin, Refuse
<1>2. ASSUME HandleRoomCreate(s) PROVE [Next]_vars
  BY <1>2, RequestIsStep DEF HandleRoomCreate, Refuse, Request
<1>3. ASSUME p.id = "ROOM_ENTER_REQ", HandleRoomEnter(s, p.room) PROVE [Next]_vars
  BY <1>3, RequestIsStep DEF HandleRoomEnter, Refuse, Request
<1>4. ASSUME HandleRoomLeave(s) PROVE [Next]_vars
  BY <1>4, RequestIsStep DEF HandleRoomLeave, Refuse, Request
<1>5. ASSUME p.id = "ROOM_READY_REQ", HandleRoomReady(s, p.ready) PROVE [Next]_vars
  BY <1>5, RequestIsStep DEF HandleRoomReady, Refuse, Request
<1>6. ASSUME HandleRoomStart(s) PROVE [Next]_vars
  BY <1>6, RequestIsStep DEF HandleRoomStart, Refuse, Request
<1>7. ASSUME p.id = "GAME_MOVE_REQ", HandleGameMove(s, p.room, p.game) PROVE [Next]_vars
  <2>1. PICK cell \in Cell(p.room), line \in Line(p.room) :
          PlaceStone(s, p.room, p.game, cell, line) \/ UNCHANGED vars
    BY <1>7 DEF HandleGameMove, Refuse
  <2> QED
    BY <1>7, <2>1, RequestIsStep DEF Request
<1>8. ASSUME p.id = "GAME_RESIGN_REQ", HandleGameResign(s, p.room, p.game)
      PROVE  [Next]_vars
  BY <1>8, RequestIsStep DEF HandleGameResign, Refuse, Request
<1>9. ASSUME HandleChat(s) \/ Refuse(s) \/ HandleBad(s) PROVE [Next]_vars
  BY <1>9 DEF HandleChat, Refuse, HandleBad
<1> QED
  BY <1>1, <1>2, <1>3, <1>4, <1>5, <1>6, <1>7, <1>8, <1>9 DEF ProcessPacket

-----------------------------------------------------------------------------
(* The steps of Update *)

\* Drain: one event, whatever it is.
LEMMA DrainIsStep == ASSUME EventsOK, Drain PROVE Step
<1>1. CASE events = <<>>
  BY <1>1 DEF Drain, Quiet, EventsOK, Step
<1>2. CASE events # <<>>
  <2> DEFINE e == Head(events)
  <2>1. e \in Events /\ Tail(events) \in Seq(Events) /\ clients \subseteq Sessions
    BY <1>2, TakingKeeps DEF EventsOK
  <2>2. e.session \in Sessions
    BY <2>1 DEF Events
  <2>3. NoReply => EventsOK'
    BY <2>1 DEF NoReply, EventsOK
  <2>4. CASE HandleConnected(e)
    BY <2>3, <2>4 DEF HandleConnected, Step
  <2>5. CASE e.type = "Packet" /\ HandlePacket(e)
    <3>1. e.packet \in ClientPackets
      BY <2>1, <2>5 DEF Events
    <3>2. CASE NoReply /\ UNCHANGED vars
      BY <2>3, <3>2 DEF Step
    <3>3. CASE HandleBad(e.session)
      BY <2>1, <3>3, DisconnectingKeeps DEF HandleBad, Step
    <3>4. CASE ProcessPacket(e.session, e.packet)
      BY <1>2, <2>2, <3>1, <3>4, HandlersKeepQueue, HandlersAreSteps DEF Step
    <3> QED
      BY <2>5, <3>2, <3>3, <3>4 DEF HandlePacket
  <2>6. CASE HandleDisconnected(e.session)
    <3>1. UNCHANGED vars \/ LeaveAndRemove(e.session)
      BY <2>6 DEF HandleDisconnected
    <3>2. [Next]_vars
      BY <2>2, <3>1 DEF Next
    <3> QED
      BY <2>3, <2>6, <3>2 DEF HandleDisconnected, Step
  <2> QED
    BY <1>2, <2>4, <2>5, <2>6 DEF Drain
<1> QED
  BY <1>1, <1>2

\* FlushFinishedGames takes one result from the queue of results.
LEMMA FlushIsStep == ASSUME EventsOK, FlushFinishedGames PROVE Step
<1>1. CASE Quiet /\ UNCHANGED vars
  BY <1>1 DEF Quiet, EventsOK, Step
<1>2. ASSUME PopFinishedGame, NEW lost, NEW targets, NEW message,
             SendTo(targets, message, events) \/ Disconnecting(lost, events)
      PROVE  Step
  <2>1. [Next]_vars
    BY <1>2 DEF Next
  <2>2. EventsOK'
    BY <1>2, SendingKeeps, DisconnectingKeeps DEF EventsOK
  <2> QED
    BY <2>1, <2>2 DEF Step
<1> QED
  BY <1>1, <1>2 DEF FlushFinishedGames

\* Notifications, answers and login deadlines are no business of the managers.
LEMMA NoticesAreSteps ==
  ASSUME EventsOK, NotifyRoomState \/ NotifyRoomMember \/ SendLeft \/ CheckLoginTimeouts
  PROVE  Step
<1>1. UNCHANGED vars
  BY DEF NotifyRoomState, NotifyRoomMember, SendLeft, CheckLoginTimeouts
<1>2. clients \subseteq Sessions /\ events \in Seq(Events)
  BY DEF EventsOK
<1>3. \/ \E targets, message : SendTo(targets, message, events)
      \/ \E targets : Answer(targets, events)
      \/ \E lost : Disconnecting(lost, events)
      \/ Quiet
  BY DEF NotifyRoomState, NotifyRoomMember, SendLeft, CheckLoginTimeouts
<1>4. EventsOK'
  BY <1>2, <1>3, SendingKeeps, DisconnectingKeeps DEF Quiet, EventsOK
<1> QED
  BY <1>1, <1>4 DEF Step

\* UpdateTimeouts
LEMMA TimeoutsAreSteps == ASSUME EventsOK, CallUpdateTimeouts PROVE Step
<1>1. [Next]_vars
  BY DEF CallUpdateTimeouts, Next
<1>2. EventsOK'
  BY DEF CallUpdateTimeouts, Quiet, EventsOK
<1> QED
  BY <1>1, <1>2 DEF Step

-----------------------------------------------------------------------------
(* The network and the clock *)

\* The network adds events of sessions.
LEMMA NetworkIsStep ==
  ASSUME EventsOK, NEW s \in Sessions,
         Accept(s) \/ (\E p \in ClientPackets : Receive(s, p)) \/ HangUp(s)
  PROVE  Step
<1>1. UNCHANGED vars
  BY DEF Accept, Receive, HangUp
<1>2. ASSUME Accept(s) PROVE EventsOK'
  <2>1. Connected(s) \in Events
    BY DEF Connected, Events
  <2> QED
    BY <1>2, <2>1, AppendProperties DEF Accept, EventsOK
<1>3. ASSUME NEW p \in ClientPackets, Receive(s, p) PROVE EventsOK'
  <2>1. Received(s, p) \in Events
    BY DEF Received, Events
  <2> QED
    BY <1>3, <2>1, AppendProperties DEF Receive, EventsOK
<1>4. ASSUME HangUp(s) PROVE EventsOK'
  BY <1>4, DisconnectingKeeps DEF HangUp, EventsOK
<1>5. EventsOK'
  BY <1>2, <1>3, <1>4
<1> QED
  BY <1>1, <1>5 DEF Step

\* Time passes for turns, too.
LEMMA TimeIsStep == ASSUME EventsOK, PassTime PROVE Step
<1>1. [Next]_vars
  BY DEF PassTime, Next
<1>2. \A e \in Events : Older(e) \in Events
  BY DEF Older, Events
<1>3. \A i \in DOMAIN events : events[i] \in Events
  BY DEF EventsOK
<1>4. events' \in Seq(Events)
  BY <1>2, <1>3, SeqDef DEF PassTime, EventsOK
<1> QED
  BY <1>1, <1>4 DEF PassTime, EventsOK, Step

\* Every step of the server is a step of the managers, or none.
LEMMA ServerIsStep == EventsOK /\ [ServerNext]_serverVars => Step
<1> SUFFICES ASSUME EventsOK, [ServerNext]_serverVars PROVE Step
  OBVIOUS
<1>1. CASE UpdateStep
  BY <1>1, TimeoutsAreSteps, FlushIsStep, NoticesAreSteps, DrainIsStep DEF UpdateStep
<1>2. CASE \E s \in Sessions : Accept(s) \/ (\E p \in ClientPackets : Receive(s, p)) \/ HangUp(s)
  BY <1>2, NetworkIsStep
<1>3. CASE PassTime
  BY <1>3, TimeIsStep
<1>4. CASE BeginUpdate \/ UNCHANGED serverVars
  BY <1>4 DEF BeginUpdate, Quiet, serverVars, EventsOK, Step
<1> QED
  BY <1>1, <1>2, <1>3, <1>4 DEF ServerNext

\* The server starts where the managers start.
LEMMA ServerStarts == ServerInit => Init /\ EventsOK
BY EmptySeq DEF ServerInit, EventsOK

\* The server does to users and rooms only what RoomManager.tla says.
THEOREM ServerImplementsManagers == ServerSpec => ImplementsManagers
<1>1. EventsOK /\ [ServerNext]_serverVars => [Next]_vars /\ EventsOK'
  BY ServerIsStep DEF Step
<1>2. ServerInit => Init /\ EventsOK
  BY ServerStarts
<1> QED
  BY <1>1, <1>2, PTL DEF ServerSpec, ImplementsManagers, Spec

\* In the server, too, nicknames, users, rooms and games never contradict each other,
\* whatever arrives in which order and whoever is disconnected while Update is at work.
THEOREM ServerSound ==
  ServerSpec => [](TypeOK /\ NicknamesAgree /\ MembersAgree /\ RoomsSound
                   /\ NoStateMismatch /\ GameEndsOnce)
BY ServerImplementsManagers, TypesCorrect, NicknamesCorrect, MembersCorrect, RoomsCorrect,
   MismatchNever, GamesEndOnce, PTL DEF ImplementsManagers

-----------------------------------------------------------------------------
(* The managers in the server *)

ManagersInv == EndingsInv /\ EventsOK

\* Every step of the server keeps what holds of the managers.
LEMMA NextManagers == ManagersInv /\ [ServerNext]_serverVars => ManagersInv' /\ [Next]_vars
BY ServerIsStep, NextEndings DEF ManagersInv, Step

\* The invariants of the managers hold in every reachable state of the server.
LEMMA ManagersInvariance == ServerSpec => []ManagersInv
<1>1. ServerInit => ManagersInv
  BY ServerStarts, InitInv
     DEF ManagersInv, EndingsInv, MovesInTurn, EndingsSound, LiveRooms, Init
<1>2. ManagersInv /\ [ServerNext]_serverVars => ManagersInv'
  BY NextManagers
<1> QED
  BY <1>1, <1>2, PTL DEF ServerSpec

\* In the server, too, results are explained by their games, a timeout is settled
\* before anything else, games run undisturbed, time has to be earned and games begin
\* with both players ready.
THEOREM ServerGamesSound ==
  ServerSpec => /\ []EndingsSound
                /\ TimeoutComesFirst /\ GameRunsUndisturbed /\ TimeIsEarned /\ GameStartsReady
BY ServerImplementsManagers, ResultsExplained, TimeoutsComeFirst, RunningGamesUndisturbed,
   TimeMustBeEarned, GamesStartReady, PTL DEF ImplementsManagers

-----------------------------------------------------------------------------
(* Notifications *)

\* GAME_END_NTF: a result that its game explains passes IsValidGameEnd.
LEMMA EndIsValid ==
  ASSUME NEW e \in FinishedGames, EndingSound(e)
  PROVE  IsValidGameEnd(EndOf(e))
<1>1. /\ EndOf(e).room = e.room /\ EndOf(e).game = e.game /\ EndOf(e).state = e.status
      /\ EndOf(e).reason = e.reason /\ EndOf(e).moves = e.moves
  BY DEF EndOf
<1>2. e.room # 0 /\ e.game # 0
  BY ManagerConstants, RoomConstants DEF FinishedGames, RoomIds, GameIds
<1>3. e.moves \in 0..Cells /\ e.status \in FinalStatus
  BY DEF FinishedGames
<1>4. /\ e.reason = "BoardFull" <=> e.status = "Draw"
      /\ e.status = "Draw" => e.moves = Cells
  BY DEF EndingSound
<1> QED
  BY <1>1, <1>2, <1>3, <1>4 DEF IsValidGameEnd, FinalStatus

\* The same for the first of the results.
LEMMA HeadIsValid ==
  ASSUME EndingsInv, finished # <<>>
  PROVE  Head(finished) \in FinishedGames /\ IsValidGameEnd(EndOf(Head(finished)))
<1>1. finished \in Seq(FinishedGames) /\ 1 \in DOMAIN finished /\ Head(finished) = finished[1]
  BY DEF EndingsInv, Inv, TypeOK
<1>2. Head(finished) \in FinishedGames
  BY <1>1
<1>3. EndingSound(Head(finished))
  BY <1>1 DEF EndingsInv, EndingsSound
<1> QED
  BY <1>2, <1>3, EndIsValid

\* Two users have two nicknames.
LEMMA NicknamesDiffer ==
  ASSUME Inv, NEW s \in Sessions, NEW t \in Sessions, LoggedIn(s), LoggedIn(t),
         users[s].nick = users[t].nick
  PROVE  s = t
<1>1. users[s].nick \in Nicknames
  BY DEF Inv, TypeOK, LoggedIn, Users
<1> QED
  BY <1>1 DEF Inv, NicknamesAgree

\* ROOM_STATE_NTF: everybody a room names is there, and what is said of the room
\* passes IsValidRoomState.
LEMMA RoomStateIsValid ==
  ASSUME Inv, NEW r, RoomExists(r)
  PROVE  StateKnown(r) /\ IsValidRoomState(StateOf(r))
<1> DEFINE room == rooms[r]
           nick(s) == users[s].nick
<1>1. r \in LiveRooms /\ r \in RoomIds /\ room \in Rooms /\ GoodRoom(room) /\ r # 0
  BY LiveRoomsGood, ManagerConstants DEF RoomExists, LiveRooms, RoomIds
<1>2. /\ room.members \subseteq Sessions
      /\ room.host \in room.members /\ room.ready \subseteq room.members \ {room.host}
      /\ IsFiniteSet(room.members) /\ Cardinality(room.members) \in Nat
      /\ Cardinality(room.members) <= 2
  BY <1>1, MembersFinite DEF Rooms, GoodRoom, RoomSound, Capacity
<1>3. \A s \in room.members : LoggedIn(s) /\ users[s].room = r
  BY <1>1, <1>2 DEF Inv, MembersAgree, RoomExists
<1>4. StateKnown(r)
  BY <1>2, <1>3 DEF StateKnown
<1>5. \A s, t \in room.members : nick(s) = nick(t) => s = t
  BY <1>2, <1>3, NicknamesDiffer
<1> HIDE DEF nick
<1> DEFINE players == {nick(s) : s \in room.members}
<1>6. /\ Cardinality(room.members) = 2 => Cardinality(players) = 2
      /\ Cardinality(players) \in 1..2
  <2>1. CASE Cardinality(room.members) = 2
    <3> DEFINE g == TheOne(room.members \ {room.host})
    <3>1. g \in room.members \ {room.host} /\ room.members = {room.host, g}
      BY <1>2, <2>1, TwoMembers
    <3> HIDE DEF g
    <3>2. players = {nick(room.host), nick(g)} /\ nick(room.host) # nick(g)
      BY <1>2, <1>5, <3>1
    <3>3. Cardinality({nick(room.host), nick(g)}) = 2
      BY <3>2, PairCounts
    <3>4. Cardinality(players) = 2
      BY <3>2, <3>3
    <3> HIDE DEF players
    <3> QED
      BY <3>4
  <2>2. CASE Cardinality(room.members) # 2
    <3>1. Cardinality(room.members) = 1
      BY <1>2, <2>2, FS_EmptySet
    <3>2. room.members = {room.host}
      BY <1>2, <3>1, FS_Singleton
    <3>3. players = {nick(room.host)}
      BY <3>2
    <3>4. Cardinality(players) = 1
      BY <3>3, FS_Singleton
    <3> HIDE DEF players
    <3> QED
      BY <2>2, <3>4
  <2> QED
    BY <2>1, <2>2
<1>7. nick(room.host) \in players /\ nick(room.host) \notin {nick(s) : s \in room.ready}
  BY <1>2, <1>5
<1>8. room.phase = "Playing" =>
        Cardinality(room.members) = 2 /\ room.gameId # 0 /\ room.ready = {}
  BY <1>1, PlayersHaveStones DEF GoodRoom, PlayingSound, Capacity
<1>9. /\ StateOf(r).room = r /\ StateOf(r).game = room.gameId /\ StateOf(r).phase = room.phase
      /\ StateOf(r).host = nick(room.host) /\ StateOf(r).players = players
      /\ StateOf(r).ready = {nick(s) : s \in room.ready}
  BY DEF StateOf, nick
<1> HIDE DEF room, players
<1>10. IsValidRoomState(StateOf(r))
  BY <1>1, <1>6, <1>7, <1>8, <1>9 DEF IsValidRoomState
<1> QED
  BY <1>4, <1>10

\* Every GAME_END_NTF and every ROOM_STATE_NTF can be encoded, whatever the agenda holds
\* and whoever has been disconnected meanwhile.
THEOREM NotificationsEncode == ServerSpec => []EverythingEncodes
<1>1. ManagersInv => EverythingEncodes
  BY HeadIsValid, RoomStateIsValid DEF ManagersInv, EndingsInv, EverythingEncodes
<1> QED
  BY <1>1, ManagersInvariance, PTL

\* GAME_MOVE_NTF: what is told of an accepted move passes IsValidGameMove.
LEMMA MoveIsValid ==
  ASSUME EndingsInv, NEW s \in Sessions, NEW r \in RoomIds, NEW g, NEW cell,
         NEW line \in Line(r),
         StoneResult(s, r, g, cell) = "Success", PlaceStone(s, r, g, cell, line)
  PROVE  IsValidGameMove(MoveOf(s, r))
<1> DEFINE room == rooms[r]
           moved == Moved(room, s, line)
           n == room.game.moves
           mover == room.game.next
<1>1. /\ AddressResult(s, r, g) = "Success" /\ ~TurnExpired(room)
      /\ PlaceResult(room, s, cell) = "Success"
  BY DEF StoneResult
<1>2. r \in LiveRooms /\ s \in room.members
  BY <1>1 DEF AddressResult, RoomExists, LiveRooms
<1>3. room.phase = "Playing" /\ StoneOf(room, s) = mover
  BY <1>1 DEF PlaceResult, MoveResult
<1>4. GoodRoom(room) /\ room \in Rooms /\ room.game \in Games /\ line \in BOOLEAN
  BY <1>2, LiveRoomsGood, LinesAreLate DEF EndingsInv, Rooms, Line, RoomExists, LiveRooms
<1>5. /\ n \in Nat /\ n < Cells /\ Cells \in Nat /\ mover \in Players
      /\ room.gameId # 0 /\ r # 0
  BY <1>3, <1>4, PlayersHaveStones, GameConstants, ManagerConstants, RoomConstants
     DEF GoodRoom, PlayingSound, Games, RoomIds, GameIds
<1>6. /\ moved \in Rooms
      /\ moved.game = Placed(room.game, mover, line)
      /\ moved.gameId = room.gameId
  <2>1. Placed(room.game, mover, line) \in Games /\ TurnTime \in 0..TurnTime
    BY <1>4, <1>5, PlacedIsGame, RoomConstants
  <2> QED
    BY <1>3, <1>4, <2>1 DEF Moved, Rooms
<1>7. rooms'[r].game = moved.game /\ rooms'[r].gameId = moved.gameId
  <2>1. rooms' = [rooms EXCEPT ![r] = moved] \/ rooms' = [rooms EXCEPT ![r] = Finished(moved)]
    BY <1>1 DEF PlaceStone, ExpireBeforeRequest
  <2>2. rooms'[r] = moved \/ rooms'[r] = Finished(moved)
    BY <2>1 DEF EndingsInv, Inv, TypeOK
  <2>3. Finished(moved).game = moved.game /\ Finished(moved).gameId = moved.gameId
    BY <1>6 DEF Finished, Rooms
  <2> QED
    BY <2>2, <2>3
<1>8. /\ MoveOf(s, r).room = r /\ MoveOf(s, r).game = room.gameId
      /\ MoveOf(s, r).stone = mover /\ MoveOf(s, r).next = moved.game.next
      /\ MoveOf(s, r).state = moved.game.status /\ MoveOf(s, r).moves = moved.game.moves
  BY <1>3, <1>6, <1>7 DEF MoveOf
<1>9. /\ moved.game.moves = n + 1
      /\ moved.game.status = IF line THEN WonBy(mover) ELSE IF n + 1 = Cells THEN "Draw" ELSE "Playing"
      /\ moved.game.next = IF line \/ n + 1 = Cells THEN "Empty" ELSE Opponent(mover)
  BY <1>4, <1>5, <1>6 DEF Placed
<1> HIDE DEF moved, n, mover, room
<1>10. n + 1 \in 1..Cells /\ (n + 1 # Cells => n + 1 < Cells)
  BY <1>5
<1> QED
  BY <1>4, <1>5, <1>8, <1>9, <1>10 DEF IsValidGameMove

-----------------------------------------------------------------------------
(* The queue of events *)

\* The events of one connection come in the order it lived: Connected is the first
\* and Disconnected the last.
InOrder(queue) ==
  \A i, j \in DOMAIN queue :
     i < j /\ queue[i].session = queue[j].session
       => queue[i].type # "Disconnected" /\ queue[j].type # "Connected"

\* Who is reported gone is gone.
GoneAreGone ==
  \A i \in DOMAIN events : events[i].type = "Disconnected" => events[i].session \notin clients

\* A connection not yet looked at has no user, and is not older than its time to log in.
NewComersWait ==
  \A i \in DOMAIN events : events[i].type = "Connected" =>
     ~LoggedIn(events[i].session) /\ events[i].age \in 0..LoginTime

QueueInv == InOrder(events) /\ GoneAreGone /\ NewComersWait

Queued(queue, s, type) == \E i \in DOMAIN queue : queue[i].session = s /\ queue[i].type = type

\* Pending is about the queue of the server.
LEMMA PendingIsQueued ==
  \A s, type : /\ Pending(s, type) <=> Queued(events, s, type)
               /\ Pending(s, type)' <=> Queued(events', s, type)
BY DEF Pending, Queued

\* What the queue is after CloseClient for each of "lost", behind "rest": nothing else
\* is added, and each of them that was connected is reported once.
LostAfter(lost, rest) ==
  LET added == {i \in DOMAIN events' : i > Len(rest)}
  IN /\ clients' = clients \ lost
     /\ events' \in Seq(Events)
     /\ \A i \in DOMAIN rest : i \in DOMAIN events' /\ events'[i] = rest[i]
     /\ \A i \in added : events'[i].type = "Disconnected" /\ events'[i].session \in lost \cap clients
     /\ \A i, j \in added : events'[i].session = events'[j].session => i = j
     /\ \A s \in lost \cap clients : Pending(s, "Disconnected")'

\* TcpNetwork::CloseClient, for each of these.
LEMMA LosingClients ==
  ASSUME clients \subseteq Sessions, NEW lost, NEW rest \in Seq(Events),
         Disconnecting(lost, rest)
  PROVE  LostAfter(lost, rest)
<1> DEFINE gone == lost \cap clients
           n == Cardinality(gone)
           k == Len(rest)
<1>1. PICK q \in Orders(gone) : events' = rest \o [i \in DOMAIN q |-> Disconnected(q[i])]
  BY DEF Disconnecting
<1>2. gone \in SUBSET Sessions /\ IsFiniteSet(gone)
  <2>1. gone \in SUBSET Sessions /\ IsFiniteSet(Sessions)
    BY RoomConstants
  <2> QED
    BY <2>1, FS_Subset
<1>3. /\ n \in Nat /\ k \in Nat
      /\ q \in [1..n -> gone] /\ DOMAIN q = 1..n
      /\ \A i, j \in 1..n : q[i] = q[j] => i = j
  <2>1. n \in Nat
    BY <1>2, FS_CardinalityType
  <2>2. q \in [1..n -> gone] /\ \A i, j \in DOMAIN q : q[i] = q[j] => i = j
    BY DEF Orders
  <2>3. k \in Nat
    OBVIOUS
  <2> HIDE DEF n, k, gone
  <2> QED
    BY <2>1, <2>2, <2>3
<1>4. \A s \in gone : \E i \in 1..n : q[i] = s
  <2>1. IsFiniteSet(1..n) /\ Cardinality(1..n) = n
    BY <1>3, FS_Interval
  <2>2. q \in Injection(1..n, gone)
    BY <1>3 DEF Injection, IsInjective
  <2>3. q \in Surjection(1..n, gone)
    BY <1>2, <2>1, <2>2, FS_Injection
  <2> QED
    BY <2>3 DEF Surjection
<1> DEFINE reports == [i \in DOMAIN q |-> Disconnected(q[i])]
<1>5. reports \in Seq(Events) /\ Len(reports) = n
  <2>1. reports \in Seq(Events)
    BY <1>2, OrdersAreSequences
  <2>2. DOMAIN reports = 1..n
    BY <1>3
  <2> HIDE DEF reports, n
  <2> QED
    BY <1>3, <2>1, <2>2
<1>6. \A i \in 1..n : reports[i].type = "Disconnected" /\ reports[i].session = q[i]
  BY <1>3 DEF Disconnected
<1>7. events' = rest \o reports
  BY <1>1
<1> HIDE DEF reports, n
<1>8. /\ DOMAIN events' = 1..(k + n) /\ events' \in Seq(Events)
      /\ \A i \in DOMAIN rest : i \in 1..(k + n) /\ events'[i] = rest[i]
      /\ \A i \in 1..n : events'[k + i] = reports[i]
  <2>1. /\ DOMAIN events' = 1..(Len(rest) + Len(reports))
        /\ \A i \in DOMAIN rest : events'[i] = rest[i]
        /\ \A i \in 1..Len(reports) : events'[Len(rest) + i] = reports[i]
    BY <1>5, <1>7, JoinedQueue
  <2>2. DOMAIN rest = 1..k /\ 1..k \subseteq 1..(k + n)
    BY <1>3
  <2>3. events' \in Seq(Events)
    BY <1>5, <1>7, ConcatProperties
  <2> QED
    BY <1>5, <2>1, <2>2, <2>3
<1>9. ASSUME NEW i \in DOMAIN events', i > k
      PROVE  /\ i - k \in 1..n
             /\ events'[i].type = "Disconnected" /\ events'[i].session = q[i - k]
  <2>1. i - k \in 1..n /\ k + (i - k) = i
    BY <1>3, <1>8, <1>9
  <2> QED
    BY <1>6, <1>8, <2>1
<1>10. ASSUME NEW i \in DOMAIN events', NEW j \in DOMAIN events', i > k, j > k,
              events'[i].session = events'[j].session
       PROVE  i = j
  <2>1. i - k \in 1..n /\ j - k \in 1..n /\ q[i - k] = q[j - k]
    BY <1>9, <1>10
  <2>2. i - k = j - k
    BY <1>3, <2>1
  <2> QED
    BY <1>3, <1>8, <2>2
<1>11. ASSUME NEW s \in gone PROVE Pending(s, "Disconnected")'
  <2>1. PICK i \in 1..n : q[i] = s
    BY <1>4
  <2>2. k + i \in DOMAIN events'
    BY <1>3, <1>8
  <2> QED
    BY <1>6, <1>8, <2>1, <2>2 DEF Pending
<1>12. \A i \in DOMAIN events' : i > k => events'[i].session \in gone
  BY <1>3, <1>9
<1>13. clients' = clients \ lost
  BY DEF Disconnecting
<1> QED
  BY <1>8, <1>9, <1>10, <1>11, <1>12, <1>13 DEF LostAfter

\* A queue that only loses its head, or nothing at all, loses nobody.
LEMMA LosingNobody ==
  ASSUME NEW rest \in Seq(Events), clients' = clients, events' = rest
  PROVE  LostAfter({}, rest)
<1>1. \A i \in DOMAIN rest : ~(i > Len(rest))
  OBVIOUS
<1> QED
  BY <1>1 DEF LostAfter

\* The places of a sequence and those of its tail.
LEMMA Shifted ==
  ASSUME NEW S, NEW queue \in Seq(S), queue # <<>>
  PROVE  LET rest == Tail(queue)
         IN /\ Head(queue) = queue[1] /\ 1 \in DOMAIN queue /\ rest \in Seq(S)
            /\ \A i \in DOMAIN rest : i + 1 \in DOMAIN queue /\ 1 < i + 1 /\ rest[i] = queue[i + 1]
            /\ \A i, j \in DOMAIN rest : i < j => i + 1 < j + 1
            /\ \A j \in DOMAIN queue : j # 1 => j - 1 \in DOMAIN rest /\ rest[j - 1] = queue[j]
<1>1. Len(queue) \in Nat /\ Len(queue) > 0 /\ DOMAIN queue = 1..Len(queue)
  OBVIOUS
<1>2. /\ Tail(queue) \in Seq(S) /\ DOMAIN Tail(queue) = 1..(Len(queue) - 1)
      /\ \A i \in DOMAIN Tail(queue) : Tail(queue)[i] = queue[i + 1]
  OBVIOUS
<1> QED
  BY <1>1, <1>2

\* What a step leaves of the queue: all of it, or all but the first event.
LEMMA RestOfQueue ==
  ASSUME EventsOK, QueueInv, NEW rest, rest = events \/ (events # <<>> /\ rest = Tail(events))
  PROVE  /\ rest \in Seq(Events)
         /\ InOrder(rest)
         /\ \A i \in DOMAIN rest : \E j \in DOMAIN events : events[j] = rest[i]
<1>1. CASE rest = events
  BY <1>1 DEF EventsOK, QueueInv
<1>2. CASE events # <<>> /\ rest = Tail(events)
  <2>1. /\ rest \in Seq(Events)
        /\ \A i \in DOMAIN rest : i + 1 \in DOMAIN events /\ rest[i] = events[i + 1]
        /\ \A i, j \in DOMAIN rest : i < j => i + 1 < j + 1
    BY <1>2, Shifted DEF EventsOK
  <2>2. InOrder(rest)
    BY <2>1 DEF QueueInv, InOrder
  <2> QED
    BY <2>1, <2>2
<1> QED
  BY <1>1, <1>2

\* The first event of a queue in order: of its session, nothing is behind Disconnected,
\* and no Connected is behind anything.
LEMMA FirstOfQueue ==
  ASSUME EventsOK, QueueInv, events # <<>>
  PROVE  LET e == Head(events)
         IN /\ e \in Events /\ e = events[1] /\ 1 \in DOMAIN events
            /\ ~Queued(Tail(events), e.session, "Connected")
            /\ e.type = "Disconnected" => \A type : ~Queued(Tail(events), e.session, type)
            /\ \A s, type : Queued(events, s, type) =>
                 Queued(Tail(events), s, type) \/ (e.session = s /\ e.type = type)
<1> DEFINE e == Head(events)
           rest == Tail(events)
<1>1. /\ e = events[1] /\ 1 \in DOMAIN events /\ e \in Events
      /\ \A i \in DOMAIN rest : i + 1 \in DOMAIN events /\ 1 < i + 1 /\ rest[i] = events[i + 1]
      /\ \A j \in DOMAIN events : j # 1 => j - 1 \in DOMAIN rest /\ rest[j - 1] = events[j]
  BY Shifted DEF EventsOK
<1> HIDE DEF e, rest
<1>4. ASSUME NEW i \in DOMAIN rest, rest[i].session = e.session
      PROVE  rest[i].type # "Connected" /\ e.type # "Disconnected"
  BY <1>1, <1>4 DEF QueueInv, InOrder
<1>5. ASSUME NEW s, NEW type, Queued(events, s, type)
      PROVE  Queued(rest, s, type) \/ (e.session = s /\ e.type = type)
  <2>1. PICK j \in DOMAIN events : events[j].session = s /\ events[j].type = type
    BY <1>5 DEF Queued
  <2>2. CASE j = 1
    BY <1>1, <2>1, <2>2
  <2>3. CASE j # 1
    BY <1>1, <2>1, <2>3 DEF Queued
  <2> QED
    BY <2>2, <2>3
<1> QED
  BY <1>1, <1>4, <1>5 DEF Queued, e, rest

\* Taking the first event and losing clients keep the queue in order.
LEMMA QueueKept ==
  ASSUME EventsOK, QueueInv, NEW lost, NEW rest, LostAfter(lost, rest),
         rest = events \/ (events # <<>> /\ rest = Tail(events)),
         \A s \in Sessions : LoggedIn(s)' => LoggedIn(s) \/ ~Queued(rest, s, "Connected")
  PROVE  QueueInv'
<1>1. /\ rest \in Seq(Events) /\ InOrder(rest) /\ Len(rest) \in Nat /\ DOMAIN rest = 1..Len(rest)
      /\ \A i \in DOMAIN rest : rest[i] \in Events /\ \E j \in DOMAIN events : events[j] = rest[i]
  <2>1. /\ rest \in Seq(Events) /\ InOrder(rest)
        /\ \A i \in DOMAIN rest : \E j \in DOMAIN events : events[j] = rest[i]
    BY RestOfQueue
  <2> QED
    BY <2>1
<1>2. /\ clients' = clients \ lost
      /\ events' \in Seq(Events) /\ DOMAIN events' \subseteq Nat
      /\ \A i \in DOMAIN rest : events'[i] = rest[i]
      /\ \A i \in DOMAIN events' : i \in DOMAIN rest \/ i > Len(rest)
      /\ \A i \in DOMAIN events' : i > Len(rest) =>
            events'[i].type = "Disconnected" /\ events'[i].session \in lost \cap clients
      /\ \A i, j \in DOMAIN events' : i > Len(rest) /\ j > Len(rest)
            /\ events'[i].session = events'[j].session => i = j
  BY <1>1 DEF LostAfter
<1>3. ASSUME NEW i \in DOMAIN events', NEW j \in DOMAIN events', i < j,
             events'[i].session = events'[j].session
      PROVE  events'[i].type # "Disconnected" /\ events'[j].type # "Connected"
  <2>1. CASE i \in DOMAIN rest /\ j \in DOMAIN rest
    BY <1>1, <1>2, <1>3, <2>1 DEF InOrder
  <2>2. CASE i \in DOMAIN rest /\ j > Len(rest)
    BY <1>1, <1>2, <1>3, <2>2 DEF QueueInv, GoneAreGone
  <2>3. CASE i > Len(rest) /\ j > Len(rest)
    BY <1>2, <1>3, <2>3
  <2> QED
    BY <1>1, <1>2, <1>3, <2>1, <2>2, <2>3
<1>4. InOrder(events')
  BY <1>3 DEF InOrder
<1>5. GoneAreGone'
  BY <1>1, <1>2 DEF QueueInv, GoneAreGone
<1>6. ASSUME NEW i \in DOMAIN events', events'[i].type = "Connected"
      PROVE  (~LoggedIn(events[i].session) /\ events[i].age \in 0..LoginTime)'
  <2>1. i \in DOMAIN rest /\ events'[i] = rest[i] /\ rest[i].session \in Sessions
    BY <1>1, <1>2, <1>6 DEF Events
  <2>2. Queued(rest, rest[i].session, "Connected")
    BY <1>6, <2>1 DEF Queued
  <2>3. ~LoggedIn(rest[i].session) /\ rest[i].age \in 0..LoginTime
    BY <1>1, <1>6, <2>1 DEF QueueInv, NewComersWait
  <2> QED
    BY <2>1, <2>2, <2>3
<1>7. NewComersWait'
  BY <1>6 DEF NewComersWait
<1> QED
  BY <1>4, <1>5, <1>7 DEF QueueInv

-----------------------------------------------------------------------------
(* What a step does to connections, users and deadlines *)

SameUsers == \A s \in Sessions : LoggedIn(s)' <=> LoggedIn(s)

\* What Update leaves of the queue when it looks at no event, at a packet, or at the
\* Connected of a connection that is lost already.
Leaves(rest) ==
  \/ rest = events
  \/ /\ events # <<>> /\ rest = Tail(events)
     /\ \/ Head(events).type = "Packet"
        \/ Head(events).type = "Connected" /\ Head(events).session \notin clients

\* Connections cut without their deadline being the reason.
Excused(lost) ==
  \A s \in lost \cap clients :
     \/ agenda = <<>>
     \/ s \in SlowClients
     \/ /\ events # <<>> /\ events[1].session = s /\ events[1].type = "Packet"
        /\ events[1].packet.id = "BAD"

PlainStep ==
  /\ SameUsers /\ deadlines' = deadlines
  /\ \E lost, rest : Leaves(rest) /\ LostAfter(lost, rest) /\ Excused(lost)

LoginStep ==
  /\ events # <<>>
  /\ LET e == Head(events)
     IN /\ e.type = "Packet" /\ e.session \in clients
        /\ ~LoggedIn(e.session) /\ ~LoginExpired(e.session)
        /\ \A s \in Sessions : LoggedIn(s)' <=> LoggedIn(s) \/ s = e.session
        /\ deadlines' = WithoutDeadline({e.session})
        /\ \E lost : LostAfter(lost, Tail(events)) /\ Excused(lost)

LateStep ==
  /\ SameUsers
  /\ \E late \in SUBSET {s \in DOMAIN deadlines : LoginExpired(s)} :
       /\ deadlines' = WithoutDeadline(late)
       /\ \E rest : Leaves(rest) /\ LostAfter(late, rest)

WelcomeStep ==
  /\ events # <<>> /\ Head(events).type = "Connected" /\ Head(events).session \in clients
  /\ HandleConnected(Head(events))
  /\ SameUsers

FarewellStep ==
  /\ events # <<>>
  /\ LET e == Head(events)
     IN /\ e.type = "Disconnected"
        /\ \A s \in Sessions : LoggedIn(s)' <=> LoggedIn(s) /\ s # e.session
        /\ deadlines' = WithoutDeadline({e.session})
        /\ NoReply

OuterStep ==
  /\ SameUsers
  /\ \/ \E s \in Sessions : Accept(s) \/ \E p \in ClientPackets : Receive(s, p)
     \/ PassTime

ServerShape ==
  PlainStep \/ LoginStep \/ LateStep \/ WelcomeStep \/ FarewellStep \/ OuterStep

\* The one user an operation stores anew is a user still.
LEMMA UserStays ==
  ASSUME Inv, NEW s \in Sessions, LoggedIn(s), NEW user \in Users,
         users' = [users EXCEPT ![s] = user]
  PROVE  SameUsers
<1>1. user # NoUser
  BY ManagerConstants DEF Users
<1> QED
  BY <1>1 DEF SameUsers, LoggedIn, Inv, TypeOK

\* Of the operations of the managers only Login and LeaveAndRemove change who is
\* logged in.
LEMMA UsersStay ==
  ASSUME Inv, NEW s \in Sessions,
         \/ UNCHANGED users
         \/ CreateRoom(s)
         \/ \E r \in RoomIds : EnterRoom(s, r)
         \/ \E reason : LeaveRoom(s, reason)
  PROVE  SameUsers
<1>1. LoggedIn(s) => users[s] \in Users
  BY DEF Inv, TypeOK, LoggedIn
<1>2. ASSUME LoggedIn(s), NEW r \in 0..MaxRoomId, users' = [users EXCEPT ![s] = InRoomUser(@, r)]
      PROVE  SameUsers
  <2>1. InRoomUser(users[s], r) \in Users
    BY <1>1, <1>2 DEF InRoomUser, Users
  <2> QED
    BY <1>2, <2>1, UserStays
<1>3. CASE UNCHANGED users
  BY <1>3 DEF SameUsers, LoggedIn
<1>4. CASE CreateRoom(s)
  <2>1. lastRoomId + 1 \in 0..MaxRoomId
    BY <1>4, ManagerConstants DEF CreateRoom, CreateResult, Inv, TypeOK
  <2> QED
    BY <1>2, <1>4, <2>1 DEF CreateRoom, CreateResult
<1>5. CASE \E r \in RoomIds : EnterRoom(s, r)
  <2>1. RoomIds \subseteq 0..MaxRoomId
    BY ManagerConstants DEF RoomIds
  <2> QED
    BY <1>2, <1>5, <2>1 DEF EnterRoom, EnterResult
<1>6. CASE \E reason : LeaveRoom(s, reason)
  <2>1. LoggedIn(s) /\ users' = [users EXCEPT ![s] = LobbyUser(users[s])]
    BY <1>6 DEF LeaveRoom, LeaveResult, MemberResult
  <2>2. LobbyUser(users[s]) \in Users
    <3>1. 0 \in 0..MaxRoomId
      BY ManagerConstants
    <3> QED
      BY <1>1, <2>1, <3>1 DEF LobbyUser, Users, NoRoomId
  <2> QED
    BY <2>1, <2>2, UserStays
<1> QED
  BY <1>3, <1>4, <1>5, <1>6

\* Sending loses only slow clients.
LEMMA SendingLoses ==
  ASSUME EventsOK, NEW targets, NEW message, NEW rest \in Seq(Events),
         SendTo(targets, message, rest) \/ Answer(targets, rest)
  PROVE  \E lost : LostAfter(lost, rest) /\ Excused(lost)
<1>1. PICK lost \in SUBSET (targets \cap clients \cap SlowClients) : Disconnecting(lost, rest)
  BY DEF SendTo, Answer
<1>2. LostAfter(lost, rest)
  BY <1>1, LosingClients DEF EventsOK
<1> QED
  BY <1>1, <1>2 DEF Excused

\* Sending nothing loses nobody.
LEMMA QuietLoses ==
  ASSUME EventsOK, NEW rest \in Seq(Events), clients' = clients, events' = rest
  PROVE  \E lost : LostAfter(lost, rest) /\ Excused(lost)
<1>1. LostAfter({}, rest)
  BY LosingNobody
<1> QED
  BY <1>1 DEF Excused

\* The handlers: a login may succeed; the rest changes nothing about who is logged in,
\* and cuts nobody but slow clients and senders of bad packets.
LEMMA HandlersShape ==
  ASSUME ManagersInv, events # <<>>, NEW s \in Sessions, NEW p \in ClientPackets,
         Head(events).type = "Packet", Head(events).session = s, Head(events).packet = p,
         s \in clients, ~LoginExpired(s), ProcessPacket(s, p)
  PROVE  PlainStep \/ LoginStep
<1> DEFINE Loses == \E lost : LostAfter(lost, Tail(events)) /\ Excused(lost)
<1>1. /\ Inv /\ EndingsInv /\ EventsOK
      /\ Tail(events) \in Seq(Events) /\ Leaves(Tail(events)) /\ Head(events) = events[1]
  <2>1. Inv /\ EndingsInv /\ EventsOK
    BY DEF ManagersInv, EndingsInv
  <2>2. Tail(events) \in Seq(Events)
    BY <2>1, TakingKeeps
  <2>3. Head(events) = events[1]
    BY <2>1, Shifted DEF EventsOK
  <2> QED
    BY <2>1, <2>2, <2>3 DEF Leaves
<1>2. ASSUME SameUsers, Loses, UNCHANGED deadlines PROVE PlainStep
  BY <1>1, <1>2 DEF PlainStep
<1>3. Reply(s) => Loses
  BY <1>1, SendingLoses DEF Reply
<1>4. NoReply => Loses
  BY <1>1, QuietLoses DEF NoReply
<1>5. UNCHANGED vars => SameUsers
  BY <1>1, UsersStay DEF vars
<1>6. Refuse(s) => SameUsers /\ Loses
  BY <1>3, <1>5 DEF Refuse
<1> HIDE DEF Loses
<1>7. ASSUME p.id = "LOGIN_REQ", HandleLogin(s, p.nick) PROVE PlainStep \/ LoginStep
  <2>1. CASE LoginResult(s, p.nick) = "Success"
    <3>1. ~LoggedIn(s) /\ p.nick \in Nicknames
      BY <1>7, <2>1, PacketTypes DEF LoginResult
    <3>2. /\ users' = [users EXCEPT ![s] = [nick |-> p.nick, state |-> "Lobby", room |-> NoRoomId]]
          /\ deadlines' = WithoutDeadline({s}) /\ Loses
      BY <1>3, <1>7, <2>1 DEF HandleLogin, Login
    <3>3. [nick |-> p.nick, state |-> "Lobby", room |-> NoRoomId] # NoUser
      <4>1. NoRoomId \in 0..MaxRoomId
        BY ManagerConstants DEF NoRoomId
      <4> QED
        BY <3>1, <4>1, ManagerConstants
    <3>4. \A t \in Sessions : LoggedIn(t)' <=> LoggedIn(t) \/ t = s
      BY <1>1, <3>2, <3>3 DEF LoggedIn, Inv, TypeOK
    <3> QED
      BY <3>1, <3>2, <3>4 DEF LoginStep, Loses
  <2>2. CASE LoginResult(s, p.nick) # "Success"
    BY <1>2, <1>6, <1>7, <2>2 DEF HandleLogin
  <2> QED
    BY <2>1, <2>2
<1>8. ASSUME HandleRoomCreate(s) PROVE SameUsers /\ Loses
  BY <1>1, <1>3, <1>6, <1>8, UsersStay DEF HandleRoomCreate
<1>9. ASSUME p.id = "ROOM_ENTER_REQ", HandleRoomEnter(s, p.room) PROVE SameUsers /\ Loses
  BY <1>1, <1>3, <1>6, <1>9, PacketTypes, UsersStay DEF HandleRoomEnter
<1>10. ASSUME HandleRoomLeave(s) PROVE SameUsers /\ Loses
  BY <1>1, <1>4, <1>5, <1>6, <1>10, UsersStay DEF HandleRoomLeave
<1>11. ASSUME HandleRoomReady(s, p.ready) PROVE SameUsers /\ Loses
  BY <1>1, <1>3, <1>6, <1>11, UsersStay DEF HandleRoomReady, SetReady
<1>12. ASSUME HandleRoomStart(s) PROVE SameUsers /\ Loses
  BY <1>1, <1>3, <1>6, <1>12, UsersStay DEF HandleRoomStart, StartGame
<1>13. ASSUME p.id = "GAME_MOVE_REQ", HandleGameMove(s, p.room, p.game)
       PROVE  SameUsers /\ Loses
  <2> DEFINE r == p.room
             g == p.game
  <2>1. r \in RoomIds
    BY <1>13, PacketTypes
  <2>2. PICK cell \in Cell(r), line \in Line(r) :
          IF StoneResult(s, r, g, cell) = "Success"
          THEN /\ PlaceStone(s, r, g, cell, line)
               /\ IF IsValidGameMove(MoveOf(s, r))
                  THEN SendTo(rooms[r].members, MoveOf(s, r), Tail(events))
                  ELSE Disconnecting(rooms[r].members, Tail(events)) /\ UNCHANGED views
          ELSE (PlaceStone(s, r, g, cell, line) /\ Reply(s)) \/ Refuse(s)
    BY <1>13 DEF HandleGameMove
  <2>3. PlaceStone(s, r, g, cell, line) => SameUsers
    BY <1>1, UsersStay DEF PlaceStone
  <2>4. CASE StoneResult(s, r, g, cell) = "Success"
    <3>1. PlaceStone(s, r, g, cell, line)
      BY <2>2, <2>4
    <3>2. IsValidGameMove(MoveOf(s, r))
      BY <1>1, <2>1, <2>4, <3>1, MoveIsValid
    <3>3. SendTo(rooms[r].members, MoveOf(s, r), Tail(events))
      BY <2>2, <2>4, <3>2
    <3>4. Loses
      BY <1>1, <3>3, SendingLoses DEF Loses
    <3> QED
      BY <2>3, <3>1, <3>4
  <2>5. CASE StoneResult(s, r, g, cell) # "Success"
    BY <1>3, <1>6, <2>2, <2>3, <2>5
  <2> QED
    BY <2>4, <2>5
<1>14. ASSUME HandleGameResign(s, p.room, p.game) PROVE SameUsers /\ Loses
  BY <1>1, <1>3, <1>6, <1>14, UsersStay DEF HandleGameResign, Resign
<1>15. ASSUME HandleChat(s) PROVE SameUsers /\ Loses
  BY <1>3, <1>5, <1>6, <1>15 DEF HandleChat
<1>16. ASSUME p.id = "BAD", HandleBad(s) PROVE SameUsers /\ Loses
  <2>1. LostAfter({s}, Tail(events))
    BY <1>1, <1>16, LosingClients DEF HandleBad, EventsOK
  <2>2. Excused({s})
    BY <1>1, <1>16 DEF Excused
  <2> QED
    BY <1>5, <1>16, <2>1, <2>2 DEF HandleBad, Loses
<1> QED
  BY <1>2, <1>6, <1>7, <1>8, <1>9, <1>10, <1>11, <1>12, <1>13, <1>14, <1>15, <1>16
     DEF ProcessPacket

\* Drain: a packet is looked at, a connection welcomed or seen off.
LEMMA DrainShape ==
  ASSUME ManagersInv, Drain
  PROVE  ServerShape
<1>1. Inv /\ EndingsInv /\ EventsOK
  BY DEF ManagersInv, EndingsInv
<1>2. UNCHANGED vars => SameUsers
  BY DEF vars, SameUsers, LoggedIn
<1>3. CASE events = <<>>
  <2>1. \E lost : LostAfter(lost, events) /\ Excused(lost)
    BY <1>1, <1>3, QuietLoses DEF Drain, Quiet, EventsOK
  <2> QED
    BY <1>2, <1>3, <2>1 DEF Drain, Leaves, PlainStep, ServerShape
<1>4. CASE events # <<>>
  <2> DEFINE e == Head(events)
  <2>1. e \in Events /\ Tail(events) \in Seq(Events) /\ e.session \in Sessions
    <3>1. e \in Events /\ Tail(events) \in Seq(Events)
      BY <1>1, <1>4, TakingKeeps
    <3> QED
      BY <3>1 DEF Events
  <2>2. NoReply => \E lost : LostAfter(lost, Tail(events)) /\ Excused(lost)
    BY <1>1, <2>1, QuietLoses DEF NoReply
  <2>3. CASE e.type = "Connected" /\ HandleConnected(e)
    <3>1. CASE e.session \in clients
      BY <1>2, <1>4, <2>3, <3>1 DEF WelcomeStep, HandleConnected, ServerShape
    <3>2. CASE e.session \notin clients
      <4>1. Leaves(Tail(events))
        BY <1>4, <2>3, <3>2 DEF Leaves
      <4> QED
        BY <1>2, <2>2, <2>3, <3>2, <4>1 DEF HandleConnected, PlainStep, ServerShape
    <3> QED
      BY <3>1, <3>2
  <2>4. CASE e.type = "Packet" /\ HandlePacket(e)
    <3>1. Leaves(Tail(events)) /\ e.packet \in ClientPackets
      BY <1>4, <2>1, <2>4 DEF Leaves, Events
    <3>2. CASE NoReply /\ UNCHANGED <<vars, agenda, deadlines>>
      BY <1>2, <2>2, <3>1, <3>2 DEF PlainStep, ServerShape
    <3>3. CASE LoginExpired(e.session) /\ deadlines' = WithoutDeadline({e.session})
               /\ HandleBad(e.session)
      <4>1. LostAfter({e.session}, Tail(events))
        BY <1>1, <2>1, <3>3, LosingClients DEF HandleBad, EventsOK
      <4>2. {e.session} \in SUBSET {s \in DOMAIN deadlines : LoginExpired(s)}
        BY <3>3 DEF LoginExpired
      <4> QED
        BY <1>2, <3>1, <3>3, <4>1, <4>2 DEF HandleBad, LateStep, ServerShape
    <3>4. CASE e.session \in clients /\ ~LoginExpired(e.session)
               /\ ProcessPacket(e.session, e.packet)
      BY <1>4, <2>1, <2>4, <3>1, <3>4, HandlersShape DEF ServerShape
    <3> QED
      BY <2>4, <3>2, <3>3, <3>4 DEF HandlePacket
  <2>5. CASE e.type = "Disconnected" /\ HandleDisconnected(e.session)
    <3>1. \A s \in Sessions : LoggedIn(s)' <=> LoggedIn(s) /\ s # e.session
      BY <1>1, <2>1, <2>5
         DEF HandleDisconnected, LeaveAndRemove, vars, LoggedIn, Inv, TypeOK
    <3> QED
      BY <1>4, <2>5, <3>1 DEF HandleDisconnected, FarewellStep, ServerShape
  <2> QED
    BY <1>4, <2>3, <2>4, <2>5 DEF Drain
<1> QED
  BY <1>3, <1>4

\* FlushFinishedGames: a result that waits passes its codec.
LEMMA FlushShape ==
  ASSUME ManagersInv, FlushFinishedGames
  PROVE  ServerShape
<1>1. EndingsInv /\ events \in Seq(Events) /\ EventsOK
  BY DEF ManagersInv, EventsOK
<1>2. SameUsers
  BY DEF FlushFinishedGames, PopFinishedGame, vars, SameUsers, LoggedIn
<1>3. \E lost : LostAfter(lost, events) /\ Excused(lost)
  <2>1. CASE finished = <<>>
    BY <1>1, <2>1, QuietLoses DEF FlushFinishedGames, Quiet, PopFinishedGame
  <2>2. CASE finished # <<>>
    <3>1. IsValidGameEnd(EndOf(Head(finished)))
      BY <1>1, <2>2, HeadIsValid
    <3>2. SendTo(Head(finished).targets, EndOf(Head(finished)), events)
      BY <2>2, <3>1 DEF FlushFinishedGames
    <3> QED
      BY <1>1, <3>2, SendingLoses
  <2> QED
    BY <2>1, <2>2
<1> QED
  BY <1>2, <1>3 DEF FlushFinishedGames, Leaves, PlainStep, ServerShape

\* Notifications and answers
LEMMA NoticesShape ==
  ASSUME ManagersInv, NotifyRoomState \/ NotifyRoomMember \/ SendLeft \/ CallUpdateTimeouts
  PROVE  ServerShape
<1>1. events \in Seq(Events) /\ EventsOK
  BY DEF ManagersInv, EventsOK
<1>2. SameUsers /\ deadlines' = deadlines
  BY DEF NotifyRoomState, NotifyRoomMember, SendLeft, CallUpdateTimeouts, UpdateTimeouts,
         vars, SameUsers, LoggedIn
<1>3. \/ \E targets, message : SendTo(targets, message, events)
      \/ \E targets : Answer(targets, events)
      \/ Quiet
  BY DEF NotifyRoomState, NotifyRoomMember, SendLeft, CallUpdateTimeouts
<1>4. \E lost : LostAfter(lost, events) /\ Excused(lost)
  BY <1>1, <1>3, SendingLoses, QuietLoses DEF Quiet
<1> QED
  BY <1>2, <1>4 DEF Leaves, PlainStep, ServerShape

\* CheckLoginTimeouts
LEMMA DeadlinesShape ==
  ASSUME ManagersInv, CheckLoginTimeouts
  PROVE  ServerShape
<1> DEFINE late == {s \in DOMAIN deadlines : LoginExpired(s)}
<1>1. SameUsers /\ deadlines' = WithoutDeadline(late) /\ Disconnecting(late, events)
  BY DEF CheckLoginTimeouts, vars, SameUsers, LoggedIn
<1>2. LostAfter(late, events)
  BY <1>1, LosingClients DEF ManagersInv, EventsOK
<1> QED
  BY <1>1, <1>2 DEF Leaves, LateStep, ServerShape

\* The network and the clock
LEMMA OuterShape ==
  ASSUME ManagersInv,
         \/ \E s \in Sessions : Accept(s) \/ (\E p \in ClientPackets : Receive(s, p)) \/ HangUp(s)
         \/ BeginUpdate \/ PassTime \/ UNCHANGED serverVars
  PROVE  ServerShape
<1>1. EventsOK /\ events \in Seq(Events)
  BY DEF ManagersInv, EventsOK
<1>2. SameUsers
  BY DEF Accept, Receive, HangUp, BeginUpdate, PassTime, Tick, serverVars, vars, SameUsers,
         LoggedIn
<1>3. ASSUME NEW s \in Sessions, HangUp(s) PROVE ServerShape
  <2>1. LostAfter({s}, events) /\ Excused({s})
    BY <1>1, <1>3, LosingClients DEF HangUp, EventsOK, Excused
  <2> QED
    BY <1>2, <1>3, <2>1 DEF HangUp, Leaves, PlainStep, ServerShape
<1>4. CASE BeginUpdate \/ UNCHANGED serverVars
  <2>1. clients' = clients /\ events' = events /\ deadlines' = deadlines
    BY <1>4 DEF BeginUpdate, Quiet, serverVars
  <2>2. \E lost : LostAfter(lost, events) /\ Excused(lost)
    BY <1>1, <2>1, QuietLoses
  <2> QED
    BY <1>2, <2>1, <2>2 DEF Leaves, PlainStep, ServerShape
<1> QED
  BY <1>2, <1>3, <1>4 DEF OuterStep, ServerShape

\* Every step of the server has one of these shapes.
LEMMA ServerStepIs ==
  ASSUME ManagersInv, [ServerNext]_serverVars
  PROVE  ServerShape
BY DrainShape, FlushShape, NoticesShape, DeadlinesShape, OuterShape DEF ServerNext, UpdateStep

-----------------------------------------------------------------------------
(* Login deadlines *)

DeadlineTypes ==
  /\ DOMAIN deadlines \subseteq Sessions
  /\ deadlines \in [DOMAIN deadlines -> 0..LoginTime]

\* What keeps deadlines exact: the order of the events behind them.
DeadlinesInv == ManagersInv /\ QueueInv /\ DeadlineTypes /\ DeadlinesExact

\* Taking a packet, losing clients and forgetting deadlines of lost clients and of
\* those who log in.
LEMMA LosingKeepsDeadlines ==
  ASSUME DeadlinesInv, NEW lost, NEW rest, NEW S,
         LostAfter(lost, rest), Leaves(rest),
         deadlines' = WithoutDeadline(S),
         \A s \in Sessions : LoggedIn(s)' => LoggedIn(s) \/ s \in S,
         \A s \in Sessions : LoggedIn(s) => LoggedIn(s)',
         \A s \in S : LoggedIn(s)' \/ s \in lost,
         \A s \in S : ~LoggedIn(s) => ~Queued(rest, s, "Connected") \/ (s \in lost /\ ~LoggedIn(s)')
  PROVE  QueueInv' /\ DeadlineTypes' /\ DeadlinesExact'
<1>1. /\ EventsOK /\ QueueInv /\ clients \subseteq Sessions
      /\ rest = events \/ (events # <<>> /\ rest = Tail(events))
  BY DEF DeadlinesInv, ManagersInv, EventsOK, Leaves
<1>2. DOMAIN deadlines' = DOMAIN deadlines \ S /\ \A s \in DOMAIN deadlines' : deadlines'[s] = deadlines[s]
  BY DEF WithoutDeadline
<1>3. QueueInv'
  BY <1>1, QueueKept
<1>4. DeadlineTypes'
  BY DEF WithoutDeadline, DeadlinesInv, DeadlineTypes
<1>5. /\ clients' = clients \ lost
      /\ \A s \in lost \cap clients : Pending(s, "Disconnected")'
      /\ \A s, type : Queued(rest, s, type) => Pending(s, type)'
  BY DEF LostAfter, Queued, Pending
<1>6. ASSUME NEW s, NEW type, type # "Packet", s \in clients \/ type = "Disconnected",
             Pending(s, type)
      PROVE  Queued(rest, s, type)
  <2>1. CASE rest = events
    BY <1>6, <2>1 DEF Pending, Queued
  <2>2. CASE rest # events
    <3>1. /\ events # <<>> /\ rest = Tail(events)
          /\ \/ Head(events).type = "Packet"
             \/ Head(events).type = "Connected" /\ Head(events).session \notin clients
      BY <2>2 DEF Leaves
    <3>2. Queued(events, s, type) =>
            Queued(rest, s, type) \/ (Head(events).session = s /\ Head(events).type = type)
      BY <1>1, <3>1, FirstOfQueue
    <3>3. Queued(events, s, type)
      BY <1>6 DEF Pending, Queued
    <3> QED
      BY <1>6, <3>1, <3>2, <3>3
  <2> QED
    BY <2>1, <2>2
<1>7. ASSUME NEW s \in clients', ~LoggedIn(s)', ~Pending(s, "Connected")'
      PROVE  s \in DOMAIN deadlines'
  <2>1. s \in clients /\ s \notin lost /\ s \in Sessions /\ ~LoggedIn(s)
    BY <1>1, <1>5, <1>7
  <2>2. ~Pending(s, "Connected")
    BY <1>5, <1>6, <1>7, <2>1
  <2>3. s \in DOMAIN deadlines
    BY <2>1, <2>2 DEF DeadlinesInv, DeadlinesExact
  <2> QED
    BY <1>2, <1>7, <2>1, <2>3
<1>8. ASSUME NEW s \in DOMAIN deadlines'
      PROVE  ~LoggedIn(s)' /\ (s \in clients' \/ Pending(s, "Disconnected")')
  <2>1. s \in DOMAIN deadlines /\ s \notin S /\ s \in Sessions
    BY <1>2, <1>8 DEF DeadlinesInv, DeadlineTypes
  <2>2. ~LoggedIn(s) /\ (s \in clients \/ Pending(s, "Disconnected"))
    BY <2>1 DEF DeadlinesInv, DeadlinesExact
  <2>3. Pending(s, "Disconnected") => Pending(s, "Disconnected")'
    BY <1>5, <1>6
  <2> QED
    BY <1>5, <2>1, <2>2, <2>3
<1>9. DeadlinesExact'
  BY <1>7, <1>8 DEF DeadlinesExact
<1> QED
  BY <1>3, <1>4, <1>9

\* A plain step: who is lost on the way keeps his Disconnected ahead of him.
LEMMA PlainKeepsDeadlines ==
  ASSUME DeadlinesInv, PlainStep
  PROVE  QueueInv' /\ DeadlineTypes' /\ DeadlinesExact'
<1>1. PICK lost, rest : Leaves(rest) /\ LostAfter(lost, rest)
  BY DEF PlainStep
<1>2. deadlines' = WithoutDeadline({})
  BY DEF PlainStep, WithoutDeadline, DeadlinesInv, DeadlineTypes
<1> QED
  BY <1>1, <1>2, LosingKeepsDeadlines DEF PlainStep, SameUsers

\* A login: who has logged in has no deadline.
LEMMA LoginKeepsDeadlines ==
  ASSUME DeadlinesInv, LoginStep
  PROVE  QueueInv' /\ DeadlineTypes' /\ DeadlinesExact'
<1> DEFINE s == Head(events).session
<1>1. PICK lost : LostAfter(lost, Tail(events))
  BY DEF LoginStep
<1>2. /\ Leaves(Tail(events)) /\ s \in clients /\ clients \subseteq Sessions
      /\ deadlines' = WithoutDeadline({s})
      /\ \A t \in Sessions : LoggedIn(t)' <=> LoggedIn(t) \/ t = s
  BY DEF LoginStep, Leaves, DeadlinesInv, ManagersInv, EventsOK
<1>3. ~Queued(Tail(events), s, "Connected")
  BY FirstOfQueue DEF LoginStep, DeadlinesInv, ManagersInv
<1> HIDE DEF s
<1> QED
  BY <1>1, <1>2, <1>3, LosingKeepsDeadlines

\* CheckLoginTimeouts, and a packet that comes too late: who is cut has no deadline.
LEMMA LateKeepsDeadlines ==
  ASSUME DeadlinesInv, LateStep
  PROVE  QueueInv' /\ DeadlineTypes' /\ DeadlinesExact'
<1>1. PICK late \in SUBSET DOMAIN deadlines :
        /\ deadlines' = WithoutDeadline(late)
        /\ \E rest : Leaves(rest) /\ LostAfter(late, rest)
  BY DEF LateStep
<1>2. \A s \in late : s \in Sessions /\ ~LoggedIn(s)
  BY DEF DeadlinesInv, DeadlineTypes, DeadlinesExact
<1> QED
  BY <1>1, <1>2, LosingKeepsDeadlines DEF LateStep, SameUsers

\* A queue that has only lost its head.
LEMMA TakingKeepsQueue ==
  ASSUME DeadlinesInv, events # <<>>, NoReply,
         \A s \in Sessions : LoggedIn(s)' => LoggedIn(s)
  PROVE  QueueInv'
<1>1. /\ EventsOK /\ QueueInv
      /\ Tail(events) \in Seq(Events) /\ clients' = clients /\ events' = Tail(events)
  BY TakingKeeps DEF DeadlinesInv, ManagersInv, NoReply
<1>2. LostAfter({}, Tail(events))
  BY <1>1, LosingNobody
<1> QED
  BY <1>1, <1>2, QueueKept

\* HandleConnected: whoever is welcomed has a deadline, not later than it should be.
LEMMA WelcomeKeepsDeadlines ==
  ASSUME DeadlinesInv, WelcomeStep
  PROVE  QueueInv' /\ DeadlineTypes' /\ DeadlinesExact'
<1> DEFINE e == Head(events)
           c == e.session
<1>1. /\ events # <<>> /\ e.type = "Connected" /\ c \in clients /\ SameUsers
      /\ deadlines' = [t \in DOMAIN deadlines \cup {c} |->
                          IF t = c THEN LoginTime - e.age ELSE deadlines[t]]
      /\ clients' = clients /\ events' = Tail(events) /\ NoReply
  BY DEF WelcomeStep, HandleConnected, NoReply
<1>2. QueueInv'
  BY <1>1, TakingKeepsQueue DEF SameUsers
<1>3. /\ e \in Events /\ e = events[1] /\ 1 \in DOMAIN events
      /\ \A s, type : Queued(events, s, type) =>
            Queued(Tail(events), s, type) \/ (c = s /\ e.type = type)
  BY <1>1, FirstOfQueue DEF DeadlinesInv, ManagersInv
<1>4. ~LoggedIn(c) /\ LoginTime - e.age \in 0..LoginTime /\ c \in Sessions
  <2>1. ~LoggedIn(c) /\ e.age \in 0..LoginTime /\ c \in Sessions
    BY <1>1, <1>3 DEF DeadlinesInv, QueueInv, NewComersWait, ManagersInv, EventsOK
  <2> QED
    BY <2>1, ServerConstants
<1> HIDE DEF e, c
<1>5. DeadlineTypes'
  BY <1>1, <1>4 DEF DeadlinesInv, DeadlineTypes
<1>6. ASSUME NEW s \in clients', ~LoggedIn(s)', ~Pending(s, "Connected")'
      PROVE  s \in DOMAIN deadlines'
  <2>1. s \in clients /\ ~LoggedIn(s)
    BY <1>1, <1>6 DEF SameUsers, DeadlinesInv, ManagersInv, EventsOK
  <2>2. CASE s # c
    <3>1. ~Pending(s, "Connected")
      BY <1>1, <1>3, <1>6, <2>2, PendingIsQueued
    <3> QED
      BY <1>1, <2>1, <3>1 DEF DeadlinesInv, DeadlinesExact
  <2> QED
    BY <1>1, <2>2
<1>7. ASSUME NEW s \in DOMAIN deadlines'
      PROVE  ~LoggedIn(s)' /\ (s \in clients' \/ Pending(s, "Disconnected")')
  <2>1. CASE s = c
    BY <1>1, <1>4, <2>1 DEF SameUsers
  <2>2. CASE s # c
    <3>1. /\ s \in Sessions /\ ~LoggedIn(s)
          /\ s \in clients \/ Pending(s, "Disconnected")
      BY <1>1, <1>7, <2>2 DEF DeadlinesInv, DeadlineTypes, DeadlinesExact
    <3>2. Pending(s, "Disconnected") => Pending(s, "Disconnected")'
      BY <1>1, <1>3, <2>2, PendingIsQueued
    <3> QED
      BY <1>1, <3>1, <3>2 DEF SameUsers
  <2> QED
    BY <2>1, <2>2
<1> QED
  BY <1>2, <1>5, <1>6, <1>7 DEF DeadlinesExact

\* HandleDisconnected: who is seen off has no deadline.
LEMMA FarewellKeepsDeadlines ==
  ASSUME DeadlinesInv, FarewellStep
  PROVE  QueueInv' /\ DeadlineTypes' /\ DeadlinesExact'
<1> DEFINE e == Head(events)
           c == e.session
<1>1. /\ events # <<>> /\ e.type = "Disconnected"
      /\ \A s \in Sessions : LoggedIn(s)' <=> LoggedIn(s) /\ s # c
      /\ deadlines' = WithoutDeadline({c})
      /\ clients' = clients /\ events' = Tail(events) /\ NoReply
  BY DEF FarewellStep, NoReply
<1>2. QueueInv'
  BY <1>1, TakingKeepsQueue
<1>3. /\ e \in Events /\ e = events[1] /\ 1 \in DOMAIN events
      /\ \A s, type : Queued(events, s, type) =>
            Queued(Tail(events), s, type) \/ (c = s /\ e.type = type)
  BY <1>1, FirstOfQueue DEF DeadlinesInv, ManagersInv
<1>4. c \notin clients
  BY <1>1, <1>3 DEF DeadlinesInv, QueueInv, GoneAreGone
<1> HIDE DEF e, c
<1>5. DeadlineTypes'
  BY <1>1 DEF WithoutDeadline, DeadlinesInv, DeadlineTypes
<1>6. ASSUME NEW s \in clients', ~LoggedIn(s)', ~Pending(s, "Connected")'
      PROVE  s \in DOMAIN deadlines'
  <2>1. s \in clients /\ s # c /\ ~LoggedIn(s)
    BY <1>1, <1>4, <1>6 DEF DeadlinesInv, ManagersInv, EventsOK
  <2>2. ~Pending(s, "Connected")
    BY <1>1, <1>3, <1>6, <2>1, PendingIsQueued
  <2>3. s \in DOMAIN deadlines
    BY <2>1, <2>2 DEF DeadlinesInv, DeadlinesExact
  <2> QED
    BY <1>1, <2>1, <2>3 DEF WithoutDeadline
<1>7. ASSUME NEW s \in DOMAIN deadlines'
      PROVE  ~LoggedIn(s)' /\ (s \in clients' \/ Pending(s, "Disconnected")')
  <2>1. s \in DOMAIN deadlines /\ s # c
    BY <1>1, <1>7 DEF WithoutDeadline
  <2>2. /\ s \in Sessions /\ ~LoggedIn(s)
        /\ s \in clients \/ Pending(s, "Disconnected")
    BY <2>1 DEF DeadlinesInv, DeadlineTypes, DeadlinesExact
  <2>3. Pending(s, "Disconnected") => Pending(s, "Disconnected")'
    BY <1>1, <1>3, <2>1, PendingIsQueued
  <2> QED
    BY <1>1, <2>2, <2>3
<1> QED
  BY <1>2, <1>5, <1>6, <1>7 DEF DeadlinesExact

\* A new connection waits for its Connected event to be looked at.
LEMMA AcceptKeepsDeadlines ==
  ASSUME DeadlinesInv, NEW c \in Sessions, Accept(c), SameUsers
  PROVE  QueueInv' /\ DeadlineTypes' /\ DeadlinesExact'
<1>1. /\ c \notin clients /\ ~LoggedIn(c) /\ c \notin DOMAIN deadlines
      /\ \A i \in DOMAIN events : events[i].session # c
      /\ clients' = clients \cup {c} /\ events' = Append(events, Connected(c))
      /\ deadlines' = deadlines
  BY DEF Accept
<1>2. /\ events \in Seq(Events) /\ Len(events) \in Nat /\ DOMAIN events = 1..Len(events)
      /\ DOMAIN events' = 1..(Len(events) + 1)
      /\ \A i \in DOMAIN events : events'[i] = events[i]
      /\ events'[Len(events) + 1] = Connected(c)
  BY <1>1 DEF DeadlinesInv, ManagersInv, EventsOK
<1>3. \A i \in DOMAIN events' : i \in DOMAIN events \/ i = Len(events) + 1
  BY <1>2
<1>4. Connected(c).type = "Connected" /\ Connected(c).session = c /\ Connected(c).age = 0
  BY DEF Connected
<1>5. ASSUME NEW i \in DOMAIN events', NEW j \in DOMAIN events', i < j,
             events'[i].session = events'[j].session
      PROVE  events'[i].type # "Disconnected" /\ events'[j].type # "Connected"
  <2>1. CASE j \in DOMAIN events
    <3>1. i \in DOMAIN events
      BY <1>2, <1>3, <1>5, <2>1
    <3> QED
      BY <1>2, <1>5, <2>1, <3>1 DEF DeadlinesInv, QueueInv, InOrder
  <2>2. CASE j = Len(events) + 1
    <3>1. i \in DOMAIN events
      BY <1>2, <1>5, <2>2
    <3> QED
      BY <1>1, <1>2, <1>4, <1>5, <2>2, <3>1
  <2> QED
    BY <1>3, <2>1, <2>2
<1>6. InOrder(events')
  BY <1>5 DEF InOrder
<1>7. GoneAreGone'
  BY <1>1, <1>2, <1>3, <1>4 DEF DeadlinesInv, QueueInv, GoneAreGone
<1>8. ASSUME NEW i \in DOMAIN events', events'[i].type = "Connected"
      PROVE  (~LoggedIn(events[i].session) /\ events[i].age \in 0..LoginTime)'
  <2>1. ~LoggedIn(events'[i].session) /\ events'[i].age \in 0..LoginTime
        /\ events'[i].session \in Sessions
    <3>1. CASE i \in DOMAIN events
      <4>1. events[i] \in Events
        BY <1>2, <3>1
      <4>2. events[i].session \in Sessions
        BY <4>1 DEF Events
      <4> QED
        BY <1>2, <1>8, <3>1, <4>2 DEF DeadlinesInv, QueueInv, NewComersWait
    <3>2. CASE i = Len(events) + 1
      BY <1>1, <1>2, <1>4, <3>2, ServerConstants
    <3> QED
      BY <1>3, <3>1, <3>2
  <2> QED
    BY <2>1 DEF SameUsers, LoggedIn
<1>9. NewComersWait'
  BY <1>8 DEF NewComersWait
<1>10. DeadlineTypes'
  BY <1>1 DEF DeadlinesInv, DeadlineTypes
<1>11. Pending(c, "Connected")' /\ \A s, type : Pending(s, type) => Pending(s, type)'
  BY <1>2, <1>4 DEF Pending
<1>12. \A s \in clients \cup DOMAIN deadlines : LoggedIn(s)' <=> LoggedIn(s)
  BY DEF SameUsers, DeadlinesInv, DeadlineTypes, ManagersInv, EventsOK
<1>13. ASSUME NEW s \in clients', ~LoggedIn(s)', ~Pending(s, "Connected")'
       PROVE  s \in DOMAIN deadlines'
  <2>1. s \in clients /\ ~LoggedIn(s) /\ ~Pending(s, "Connected")
    BY <1>1, <1>11, <1>12, <1>13
  <2> QED
    BY <1>1, <2>1 DEF DeadlinesInv, DeadlinesExact
<1>14. ASSUME NEW s \in DOMAIN deadlines'
       PROVE  ~LoggedIn(s)' /\ (s \in clients' \/ Pending(s, "Disconnected")')
  BY <1>1, <1>11, <1>12, <1>14 DEF DeadlinesInv, DeadlinesExact
<1>15. DeadlinesExact'
  BY <1>13, <1>14 DEF DeadlinesExact
<1> QED
  BY <1>6, <1>7, <1>9, <1>10, <1>15 DEF QueueInv

\* A packet is queued behind the Connected of its sender, and before its Disconnected.
LEMMA ReceiveKeepsDeadlines ==
  ASSUME DeadlinesInv, NEW c \in Sessions, NEW p \in ClientPackets, Receive(c, p), SameUsers
  PROVE  QueueInv' /\ DeadlineTypes' /\ DeadlinesExact'
<1>1. /\ c \in clients
      /\ clients' = clients /\ events' = Append(events, Received(c, p))
      /\ deadlines' = deadlines
  BY DEF Receive
<1>2. /\ events \in Seq(Events) /\ Len(events) \in Nat /\ DOMAIN events = 1..Len(events)
      /\ DOMAIN events' = 1..(Len(events) + 1)
      /\ \A i \in DOMAIN events : events'[i] = events[i]
      /\ events'[Len(events) + 1] = Received(c, p)
  BY <1>1 DEF DeadlinesInv, ManagersInv, EventsOK
<1>3. \A i \in DOMAIN events' : i \in DOMAIN events \/ i = Len(events) + 1
  BY <1>2
<1>4. Received(c, p).type = "Packet" /\ Received(c, p).session = c
  BY DEF Received
<1>5. ASSUME NEW i \in DOMAIN events', NEW j \in DOMAIN events', i < j,
             events'[i].session = events'[j].session
      PROVE  events'[i].type # "Disconnected" /\ events'[j].type # "Connected"
  <2>1. CASE j \in DOMAIN events
    <3>1. i \in DOMAIN events
      BY <1>2, <1>3, <1>5, <2>1
    <3> QED
      BY <1>2, <1>5, <2>1, <3>1 DEF DeadlinesInv, QueueInv, InOrder
  <2>2. CASE j = Len(events) + 1
    <3>1. i \in DOMAIN events
      BY <1>2, <1>5, <2>2
    <3> QED
      BY <1>1, <1>2, <1>4, <1>5, <2>2, <3>1 DEF DeadlinesInv, QueueInv, GoneAreGone
  <2> QED
    BY <1>3, <2>1, <2>2
<1>6. InOrder(events')
  BY <1>5 DEF InOrder
<1>7. GoneAreGone'
  BY <1>1, <1>2, <1>3, <1>4 DEF DeadlinesInv, QueueInv, GoneAreGone
<1>8. ASSUME NEW i \in DOMAIN events', events'[i].type = "Connected"
      PROVE  (~LoggedIn(events[i].session) /\ events[i].age \in 0..LoginTime)'
  <2>1. i \in DOMAIN events /\ events'[i] = events[i]
    BY <1>2, <1>3, <1>4, <1>8
  <2>2. events[i] \in Events
    BY <1>2, <2>1
  <2>3. events[i].session \in Sessions
    BY <2>2 DEF Events
  <2>4. ~LoggedIn(events'[i].session) /\ events'[i].age \in 0..LoginTime
        /\ events'[i].session \in Sessions
    BY <1>8, <2>1, <2>3 DEF DeadlinesInv, QueueInv, NewComersWait
  <2> QED
    BY <2>4 DEF SameUsers, LoggedIn
<1>9. NewComersWait'
  BY <1>8 DEF NewComersWait
<1>10. DeadlineTypes'
  BY <1>1 DEF DeadlinesInv, DeadlineTypes
<1>11. \A s, type : Pending(s, type) => Pending(s, type)'
  BY <1>2 DEF Pending
<1>12. \A s \in clients \cup DOMAIN deadlines : LoggedIn(s)' <=> LoggedIn(s)
  BY DEF SameUsers, DeadlinesInv, DeadlineTypes, ManagersInv, EventsOK
<1>13. DeadlinesExact'
  BY <1>1, <1>11, <1>12 DEF DeadlinesInv, DeadlinesExact
<1> QED
  BY <1>6, <1>7, <1>9, <1>10, <1>13 DEF QueueInv

\* Time makes Connected events older and deadlines shorter, not below zero.
LEMMA TimeKeepsDeadlines ==
  ASSUME DeadlinesInv, PassTime, SameUsers
  PROVE  QueueInv' /\ DeadlineTypes' /\ DeadlinesExact'
<1>1. /\ clients' = clients
      /\ events' = [i \in DOMAIN events |-> Older(events[i])]
      /\ deadlines' = [s \in DOMAIN deadlines |-> IF deadlines[s] > 0 THEN deadlines[s] - 1 ELSE 0]
  BY DEF PassTime
<1>2. ASSUME NEW i \in DOMAIN events
      PROVE  /\ events[i] \in Events /\ events[i].session \in Sessions
             /\ Older(events[i]).type = events[i].type
             /\ Older(events[i]).session = events[i].session
             /\ events[i].type = "Connected" /\ events[i].age \in 0..LoginTime
                  => Older(events[i]).age \in 0..LoginTime
  <2>1. events[i] \in Events
    BY DEF DeadlinesInv, ManagersInv, EventsOK
  <2> DEFINE e == events[i]
  <2>2. CASE e.type = "Connected" /\ e.age < LoginTime
    <3>1. e \in [type : {"Connected"}, session : Sessions, age : Nat]
      BY <2>1, <2>2 DEF Events
    <3>2. Older(e) = [e EXCEPT !.age = @ + 1]
      BY <2>2 DEF Older
    <3> HIDE DEF e
    <3>3. Older(e).type = e.type /\ Older(e).session = e.session /\ Older(e).age = e.age + 1
      BY <3>1, <3>2
    <3>4. e.age + 1 \in 0..LoginTime
      BY <2>2, <3>1, ServerConstants
    <3> QED
      BY <2>1, <3>1, <3>3, <3>4 DEF e
  <2>3. CASE ~(e.type = "Connected" /\ e.age < LoginTime)
    <3>1. Older(e) = e
      BY <2>3 DEF Older
    <3>2. e.session \in Sessions
      BY <2>1 DEF Events
    <3> QED
      BY <2>1, <3>1, <3>2
  <2> QED
    BY <2>2, <2>3
<1>3. /\ DOMAIN events' = DOMAIN events
      /\ \A i \in DOMAIN events : /\ events[i].session \in Sessions
                                  /\ events'[i].type = events[i].type
                                  /\ events'[i].session = events[i].session
                                  /\ events[i].type = "Connected" /\ events[i].age \in 0..LoginTime
                                       => events'[i].age \in 0..LoginTime
  BY <1>1, <1>2
<1>4. InOrder(events') /\ GoneAreGone'
  BY <1>1, <1>3 DEF DeadlinesInv, QueueInv, InOrder, GoneAreGone
<1>5. NewComersWait'
  BY <1>3 DEF DeadlinesInv, QueueInv, NewComersWait, SameUsers, LoggedIn
<1>6. DeadlineTypes'
  <2>1. \A n \in 0..LoginTime : (IF n > 0 THEN n - 1 ELSE 0) \in 0..LoginTime
    BY ServerConstants
  <2> QED
    BY <1>1, <2>1 DEF DeadlinesInv, DeadlineTypes
<1>7. \A s, type : Pending(s, type)' <=> Pending(s, type)
  BY <1>3 DEF Pending
<1>8. \A s \in clients \cup DOMAIN deadlines : LoggedIn(s)' <=> LoggedIn(s)
  BY DEF SameUsers, DeadlinesInv, DeadlineTypes, ManagersInv, EventsOK
<1>9. DeadlinesExact'
  BY <1>1, <1>7, <1>8 DEF DeadlinesInv, DeadlinesExact
<1> QED
  BY <1>4, <1>5, <1>6, <1>9 DEF QueueInv

\* Every step keeps deadlines exact.
LEMMA NextDeadlines == DeadlinesInv /\ [ServerNext]_serverVars => DeadlinesInv'
<1> SUFFICES ASSUME DeadlinesInv, [ServerNext]_serverVars PROVE DeadlinesInv'
  OBVIOUS
<1>1. ManagersInv' /\ ServerShape
  BY NextManagers, ServerStepIs DEF DeadlinesInv
<1>2. QueueInv' /\ DeadlineTypes' /\ DeadlinesExact'
  BY <1>1, PlainKeepsDeadlines, LoginKeepsDeadlines, LateKeepsDeadlines, WelcomeKeepsDeadlines,
     FarewellKeepsDeadlines, AcceptKeepsDeadlines, ReceiveKeepsDeadlines, TimeKeepsDeadlines
     DEF ServerShape, OuterStep
<1> QED
  BY <1>1, <1>2 DEF DeadlinesInv

\* The invariant of the deadlines holds in every reachable state of the server.
LEMMA DeadlinesInvariance == ServerSpec => []DeadlinesInv
<1>1. ServerInit => QueueInv /\ DeadlineTypes /\ DeadlinesExact
  BY DEF ServerInit, QueueInv, InOrder, GoneAreGone, NewComersWait, DeadlineTypes, DeadlinesExact
<1>2. DeadlinesInv /\ [ServerNext]_serverVars => DeadlinesInv'
  BY NextDeadlines
<1>3. ManagersInv /\ QueueInv /\ DeadlineTypes /\ DeadlinesExact => DeadlinesInv
  BY DEF DeadlinesInv
<1> QED
  BY <1>1, <1>2, <1>3, ManagersInvariance, PTL DEF ServerSpec

\* Whoever is connected and not logged in has a deadline as soon as the connection has
\* been looked at, and nobody else has one.
THEOREM DeadlinesAreExact == ServerSpec => []DeadlinesExact
<1>1. DeadlinesInv => DeadlinesExact
  BY DEF DeadlinesInv
<1> QED
  BY <1>1, DeadlinesInvariance, PTL

\* Nobody logs in after the deadline, nor before it was set, nor once disconnected,
\* however long the request has been waiting in the queue.
THEOREM LoginsAreInTime == ServerSpec => NoLateLogin
<1>1. ASSUME DeadlinesInv, [ServerNext]_serverVars, NEW s \in Sessions,
             ~LoggedIn(s), LoggedIn(s)'
      PROVE  s \in clients /\ s \in DOMAIN deadlines /\ deadlines[s] > 0
  <2>1. ServerShape
    BY <1>1, ServerStepIs DEF DeadlinesInv
  <2>2. LoginStep /\ s = Head(events).session
    BY <1>1, <2>1
       DEF ServerShape, PlainStep, LoginStep, LateStep, WelcomeStep, FarewellStep, OuterStep,
           SameUsers
  <2>3. /\ events # <<>> /\ Head(events).type = "Packet"
        /\ s \in clients /\ ~LoginExpired(s)
    BY <2>2 DEF LoginStep
  <2>4. ~Pending(s, "Connected")
    BY <1>1, <2>2, <2>3, FirstOfQueue, PendingIsQueued DEF DeadlinesInv, ManagersInv
  <2>5. s \in DOMAIN deadlines
    BY <1>1, <2>3, <2>4 DEF DeadlinesInv, DeadlinesExact
  <2>6. deadlines[s] \in 0..LoginTime /\ deadlines[s] # 0
    BY <1>1, <2>3, <2>5 DEF DeadlinesInv, DeadlineTypes, LoginExpired
  <2> QED
    BY <2>3, <2>5, <2>6, ServerConstants
<1>2. DeadlinesInv /\ [ServerNext]_serverVars =>
        [\A s \in Sessions : ~LoggedIn(s) /\ LoggedIn(s)' =>
           s \in clients /\ s \in DOMAIN deadlines /\ deadlines[s] > 0]_serverVars
  BY <1>1
<1> QED
  BY <1>2, DeadlinesInvariance, PTL DEF ServerSpec, NoLateLogin

\* The server cuts a connection only when its time to log in is over, when it sent what
\* no client sends, or when it does not read what it is sent: never because the server
\* could not encode what it had to say.
THEOREM NobodyIsCutForNothing == ServerSpec => CutForReason
<1> DEFINE Reason(s) == \/ agenda = <<>>
                        \/ LoginExpired(s)
                        \/ s \in SlowClients
                        \/ events # <<>> /\ events[1].session = s /\ events[1].type = "Packet"
                           /\ events[1].packet.id = "BAD"
<1>1. ASSUME DeadlinesInv, [ServerNext]_serverVars, NEW s \in clients \ clients'
      PROVE  Reason(s)
  <2>1. ServerShape
    BY <1>1, ServerStepIs DEF DeadlinesInv
  <2>2. CASE PlainStep \/ LoginStep
    <3>1. PICK lost, rest : LostAfter(lost, rest) /\ Excused(lost)
      BY <2>2 DEF PlainStep, LoginStep
    <3>2. s \in lost \cap clients
      BY <1>1, <3>1 DEF LostAfter
    <3> QED
      BY <3>1, <3>2 DEF Excused
  <2>3. CASE LateStep
    <3>1. PICK late \in SUBSET {t \in DOMAIN deadlines : LoginExpired(t)} :
            \E rest : LostAfter(late, rest)
      BY <2>3 DEF LateStep
    <3>2. s \in late
      BY <1>1, <3>1 DEF LostAfter
    <3> QED
      BY <3>1, <3>2
  <2>4. CASE WelcomeStep \/ FarewellStep \/ OuterStep
    BY <1>1, <2>4 DEF WelcomeStep, HandleConnected, FarewellStep, NoReply, OuterStep, Accept,
                      Receive, PassTime
  <2> QED
    BY <2>1, <2>2, <2>3, <2>4 DEF ServerShape
<1>2. DeadlinesInv /\ [ServerNext]_serverVars =>
        [\A s \in clients \ clients' : Reason(s)]_serverVars
  BY <1>1
<1> QED
  BY <1>2, DeadlinesInvariance, PTL DEF ServerSpec, CutForReason

-----------------------------------------------------------------------------
(* What Update still has to do *)

LeaveResults == {"Success", "UserNotFound", "NotInRoom", "StateMismatch"}

\* The calls a handler or another call adds to the agenda.
Notices ==
  {Call("FlushFinishedGames")}
  \cup {Tell(r) : r \in Nat} \cup {TellState(r) : r \in Nat}
  \cup {SendLeftTo(s, result) : s \in Sessions, result \in LeaveResults}

Calls == Notices \cup {Call(name) : name \in {"UpdateTimeouts", "Drain", "CheckLoginTimeouts"}}

Flushes(calls) == \E j \in DOMAIN calls : calls[j].do = "FlushFinishedGames"

\* Whatever may end a game is followed by a call that sends the results.
FlushFollows(calls) ==
  \A i \in DOMAIN calls : calls[i].do \in {"UpdateTimeouts", "Drain"} =>
     \E j \in DOMAIN calls : i < j /\ calls[j].do = "FlushFinishedGames"

\* Results wait only as long as there is a call to come that sends them.
AgendaInv ==
  /\ ManagersInv
  /\ agenda \in Seq(Calls)
  /\ FlushFollows(agenda)
  /\ finished # <<>> => Flushes(agenda)

\* The first call is done.
LEMMA DoneKeeps ==
  ASSUME NEW calls \in Seq(Calls), calls # <<>>, FlushFollows(calls)
  PROVE  /\ Tail(calls) \in Seq(Calls) /\ FlushFollows(Tail(calls))
         /\ calls[1].do \in {"UpdateTimeouts", "Drain"} => Flushes(Tail(calls))
         /\ calls[1].do # "FlushFinishedGames" /\ Flushes(calls) => Flushes(Tail(calls))
<1> DEFINE rest == Tail(calls)
<1>1. /\ 1 \in DOMAIN calls /\ rest \in Seq(Calls)
      /\ \A i \in DOMAIN rest : i + 1 \in DOMAIN calls /\ rest[i] = calls[i + 1]
      /\ \A j \in DOMAIN calls : j # 1 => j - 1 \in DOMAIN rest /\ rest[j - 1] = calls[j]
  BY Shifted
<1>2. \A i \in DOMAIN rest, j \in DOMAIN calls : i + 1 < j => j # 1 /\ i < j - 1
  <2>1. DOMAIN rest \subseteq Nat /\ DOMAIN calls \subseteq Nat \ {0}
    BY <1>1
  <2> HIDE DEF rest
  <2> QED
    BY <2>1
<1> HIDE DEF rest
<1>3. FlushFollows(rest)
  <2> SUFFICES ASSUME NEW i \in DOMAIN rest, rest[i].do \in {"UpdateTimeouts", "Drain"}
               PROVE  \E j \in DOMAIN rest : i < j /\ rest[j].do = "FlushFinishedGames"
    BY DEF FlushFollows
  <2>1. PICK j \in DOMAIN calls : i + 1 < j /\ calls[j].do = "FlushFinishedGames"
    BY <1>1 DEF FlushFollows
  <2>2. j - 1 \in DOMAIN rest /\ i < j - 1 /\ rest[j - 1].do = "FlushFinishedGames"
    BY <1>1, <1>2, <2>1
  <2> QED
    BY <2>2
<1>4. \A j \in DOMAIN calls : j # 1 /\ calls[j].do = "FlushFinishedGames" => Flushes(rest)
  BY <1>1 DEF Flushes
<1>5. calls[1].do \in {"UpdateTimeouts", "Drain"} => Flushes(rest)
  <2> SUFFICES ASSUME calls[1].do \in {"UpdateTimeouts", "Drain"} PROVE Flushes(rest)
    OBVIOUS
  <2>1. PICK j \in DOMAIN calls : 1 < j /\ calls[j].do = "FlushFinishedGames"
    BY <1>1 DEF FlushFollows
  <2> QED
    BY <1>4, <2>1
<1> QED
  BY <1>1, <1>3, <1>4, <1>5 DEF Flushes, rest

\* Calls are put before the others.
LEMMA FirstKeeps ==
  ASSUME NEW calls \in Seq(Calls), NEW notices \in Seq(Notices), FlushFollows(calls)
  PROVE  /\ notices \o calls \in Seq(Calls) /\ FlushFollows(notices \o calls)
         /\ Flushes(calls) => Flushes(notices \o calls)
<1> DEFINE all == notices \o calls
           k == Len(notices)
<1>1. notices \in Seq(Calls)
  BY DEF Calls
<1>2. /\ all \in Seq(Calls) /\ k \in Nat /\ DOMAIN calls = 1..Len(calls) /\ Len(calls) \in Nat
      /\ DOMAIN all = 1..(k + Len(calls))
      /\ \A i \in DOMAIN notices : all[i] = notices[i]
      /\ \A i \in 1..Len(calls) : all[k + i] = calls[i]
  BY <1>1, JoinedQueue, ConcatProperties
<1>3. \A i \in DOMAIN all : i \in DOMAIN notices \/ (i - k \in DOMAIN calls /\ k + (i - k) = i)
  <2>1. DOMAIN notices = 1..k
    OBVIOUS
  <2> HIDE DEF all, k
  <2> QED
    BY <1>2, <2>1
<1>4. \A j \in DOMAIN calls : k + j \in DOMAIN all
  <2> HIDE DEF all, k
  <2> QED
    BY <1>2
<1>5. \A i \in DOMAIN notices : notices[i].do \notin {"UpdateTimeouts", "Drain"}
  <2>1. \A call \in Notices : call.do \notin {"UpdateTimeouts", "Drain"}
    BY DEF Notices, Call, Tell, TellState, SendLeftTo
  <2> QED
    BY <2>1
<1> HIDE DEF all, k
<1>6. FlushFollows(all)
  <2> SUFFICES ASSUME NEW i \in DOMAIN all, all[i].do \in {"UpdateTimeouts", "Drain"}
               PROVE  \E j \in DOMAIN all : i < j /\ all[j].do = "FlushFinishedGames"
    BY DEF FlushFollows
  <2>1. i - k \in DOMAIN calls /\ k + (i - k) = i
    BY <1>2, <1>3, <1>5
  <2>2. calls[i - k] = all[i]
    BY <1>2, <2>1
  <2>3. PICK j \in DOMAIN calls : i - k < j /\ calls[j].do = "FlushFinishedGames"
    BY <2>1, <2>2 DEF FlushFollows
  <2>4. k + j \in DOMAIN all /\ all[k + j].do = "FlushFinishedGames"
    BY <1>2, <1>4, <2>3
  <2>5. i < k + j
    BY <1>2, <2>1, <2>3
  <2> QED
    BY <2>4, <2>5
<1>7. Flushes(calls) => Flushes(all)
  BY <1>2, <1>4 DEF Flushes
<1> QED
  BY <1>2, <1>6, <1>7 DEF all

\* One, two or four calls more.
LEMMA NoticeSequences ==
  /\ \A a \in Notices : <<a>> \in Seq(Notices)
  /\ \A a, b \in Notices : <<a, b>> \in Seq(Notices)
  /\ \A a, b, c, d \in Notices : <<a, b>> \o <<c, d>> \in Seq(Notices)
  /\ \A a, b, c \in Notices : <<a>> \o <<b, c>> \in Seq(Notices)
  /\ \A a \in Notices : <<a>> \o <<>> \in Seq(Notices)
<1>1. \A a \in Notices : <<a>> \in Seq(Notices)
  OBVIOUS
<1>2. \A a, b \in Notices : <<a, b>> \in Seq(Notices)
  OBVIOUS
<1>3. <<>> \in Seq(Notices)
  OBVIOUS
<1> QED
  BY <1>1, <1>2, <1>3, ConcatProperties

\* The room of a user is a number, and so is that of a new room.
LEMMA RoomNumbers ==
  ASSUME Inv
  PROVE  /\ \A s \in Sessions : LoggedIn(s) => users[s].room \in Nat
         /\ lastRoomId + 1 \in Nat
         /\ RoomIds \subseteq Nat
<1>1. 0..MaxRoomId \subseteq Nat /\ RoomIds \subseteq Nat
  BY ManagerConstants DEF RoomIds
<1>2. \A s \in Sessions : LoggedIn(s) => users[s] \in Users
  BY DEF Inv, TypeOK, LoggedIn
<1>3. lastRoomId + 1 \in Nat
  BY <1>1 DEF Inv, TypeOK
<1> QED
  BY <1>1, <1>2, <1>3 DEF Users

Adds == \E notices \in Seq(Notices) : First(notices)

\* The calls the handlers add.
LEMMA HandlersAdd ==
  ASSUME Inv, NEW s \in Sessions, NEW p \in ClientPackets, ProcessPacket(s, p)
  PROVE  UNCHANGED agenda \/ Adds
<1>1. \A r \in Nat : Tell(r) \in Notices /\ TellState(r) \in Notices
  BY DEF Notices
<1>2. Call("FlushFinishedGames") \in Notices
  BY DEF Notices
<1>3. \A r \in Nat : /\ First(<<Tell(r)>>) => Adds
                     /\ First(<<TellState(r)>>) => Adds
                     /\ First(<<Tell(r), TellState(r)>>) => Adds
  BY <1>1, NoticeSequences DEF Adds
<1>4. MemberResult(s) = "Success" => users[s].room \in Nat
  BY RoomNumbers DEF MemberResult
<1>5. HandleChat(s) => UNCHANGED agenda \/ Adds
  BY <1>3, <1>4 DEF HandleChat, Refuse
<1>6. HandleRoomCreate(s) => UNCHANGED agenda \/ Adds
  BY <1>3, RoomNumbers DEF HandleRoomCreate, Refuse
<1>7. p.id = "ROOM_ENTER_REQ" /\ HandleRoomEnter(s, p.room) => UNCHANGED agenda \/ Adds
  BY <1>3, RoomNumbers, PacketTypes DEF HandleRoomEnter, Refuse
<1>8. HandleRoomReady(s, p.ready) => UNCHANGED agenda \/ Adds
  BY <1>3, <1>4 DEF HandleRoomReady, ReadyResult, Refuse
<1>9. HandleRoomStart(s) => UNCHANGED agenda \/ Adds
  BY <1>3, <1>4 DEF HandleRoomStart, StartResult, Refuse
<1>10. HandleRoomLeave(s) => UNCHANGED agenda \/ Adds
  <2> SUFFICES ASSUME HandleRoomLeave(s), LoggedIn(s) PROVE Adds
    BY DEF HandleRoomLeave, Refuse
  <2> DEFINE sent == SendLeftTo(s, LeaveResult(s))
             r == users[s].room
             flush == Call("FlushFinishedGames")
  <2>1. LeaveResult(s) \in LeaveResults
    <3>1. MemberResult(s) \in LeaveResults
      BY DEF MemberResult, LeaveResults
    <3>2. LeaveResult(s) \in {"StateMismatch", "Success", MemberResult(s)}
      BY DEF LeaveResult
    <3> QED
      BY <3>1, <3>2 DEF LeaveResults
  <2>2. sent \in Notices /\ r \in Nat /\ Tell(r) \in Notices /\ TellState(r) \in Notices
    BY <1>1, <2>1, RoomNumbers DEF Notices
  <2>3. First(<<flush, sent>> \o <<Tell(r), TellState(r)>>) \/ First(<<flush, sent>>)
    BY DEF HandleRoomLeave
  <2> HIDE DEF sent, r, flush
  <2> QED
    BY <1>2, <2>2, <2>3, NoticeSequences DEF Adds, flush
<1>11. HandleGameMove(s, p.room, p.game) => UNCHANGED agenda
  BY DEF HandleGameMove, Refuse
<1> QED
  BY <1>5, <1>6, <1>7, <1>8, <1>9, <1>10, <1>11
     DEF ProcessPacket, HandleLogin, HandleGameResign, HandleBad, Refuse

\* Every step of the server, as the agenda sees it: a call is done, calls are added
\* while the queue or the results are gone through, or an update begins.
AgendaShape ==
  \/ UNCHANGED <<agenda, finished>>
  \/ Doing("Drain") /\ (UNCHANGED agenda \/ Adds)
  \/ Doing("FlushFinishedGames") /\ Adds
  \/ Done /\ Doing("UpdateTimeouts")
  \/ Done /\ Doing("FlushFinishedGames") /\ finished' = <<>>
  \/ Done /\ agenda # <<>> /\ agenda[1].do # "FlushFinishedGames" /\ UNCHANGED finished
  \/ BeginUpdate

\* Every step of the server has one of these shapes.
LEMMA AgendaStepIs ==
  ASSUME ManagersInv, [ServerNext]_serverVars
  PROVE  AgendaShape
<1>1. Inv /\ EndingsInv /\ EventsOK
  BY DEF ManagersInv, EndingsInv
<1>2. CASE Drain
  <2>1. CASE events = <<>>
    BY <1>2, <2>1 DEF Drain, Doing, vars, AgendaShape
  <2>2. CASE events # <<>>
    <3> DEFINE e == Head(events)
               c == e.session
    <3>1. e \in Events /\ c \in Sessions
      <4>1. e \in Events
        BY <1>1, <2>2, TakingKeeps
      <4> QED
        BY <4>1 DEF Events
    <3>2. CASE e.type = "Packet" /\ c \in clients /\ ProcessPacket(c, e.packet)
      <4>1. e.packet \in ClientPackets
        BY <3>1, <3>2 DEF Events
      <4>2. UNCHANGED agenda \/ Adds
        BY <1>1, <3>1, <3>2, <4>1, HandlersAdd
      <4> QED
        BY <1>2, <4>2 DEF Drain, AgendaShape
    <3>3. CASE HandleDisconnected(c)
      <4>1. UNCHANGED agenda \/ Adds
        <5> SUFFICES ASSUME LoggedIn(c) PROVE Adds
          BY <3>3 DEF HandleDisconnected
        <5> DEFINE r == users[c].room
                   flush == Call("FlushFinishedGames")
        <5>1. First(<<flush>> \o <<Tell(r), TellState(r)>>) \/ First(<<flush>> \o <<>>)
          BY <3>3 DEF HandleDisconnected
        <5>2. r \in Nat
          BY <1>1, <3>1, RoomNumbers
        <5>3. Tell(r) \in Notices /\ TellState(r) \in Notices /\ flush \in Notices
          BY <5>2 DEF Notices
        <5> HIDE DEF r, flush
        <5> QED
          BY <5>1, <5>3, NoticeSequences DEF Adds
      <4> QED
        BY <1>2, <4>1 DEF Drain, AgendaShape
    <3>4. UNCHANGED agenda \/ ProcessPacket(c, e.packet) \/ HandleDisconnected(c)
      BY <1>2, <2>2 DEF Drain, HandleConnected, HandlePacket, HandleBad
    <3>5. ProcessPacket(c, e.packet) => UNCHANGED agenda \/ (e.type = "Packet" /\ c \in clients)
                                        \/ HandleDisconnected(c)
      BY <1>2, <2>2 DEF Drain, HandleConnected, HandlePacket, HandleBad
    <3> QED
      BY <1>2, <3>2, <3>3, <3>4, <3>5 DEF Drain, AgendaShape
  <2> QED
    BY <2>1, <2>2
<1>3. CASE FlushFinishedGames
  <2>1. CASE finished = <<>>
    BY <1>3, <2>1 DEF FlushFinishedGames, PopFinishedGame, vars, AgendaShape
  <2>2. CASE finished # <<>>
    <3>1. Head(finished) \in FinishedGames /\ IsValidGameEnd(EndOf(Head(finished)))
      BY <1>1, <2>2, HeadIsValid
    <3>2. First(<<TellState(Head(finished).room)>>)
      BY <1>3, <2>2, <3>1 DEF FlushFinishedGames
    <3>3. Head(finished).room \in Nat
      BY <1>1, <3>1, RoomNumbers DEF FinishedGames
    <3>4. TellState(Head(finished).room) \in Notices
      BY <3>3 DEF Notices
    <3>5. Adds
      BY <3>2, <3>4, NoticeSequences DEF Adds
    <3> QED
      BY <1>3, <3>5 DEF FlushFinishedGames, AgendaShape
  <2> QED
    BY <2>1, <2>2
<1>4. CASE CallUpdateTimeouts
  BY <1>4 DEF CallUpdateTimeouts, AgendaShape
<1>5. CASE NotifyRoomState \/ NotifyRoomMember \/ SendLeft \/ CheckLoginTimeouts
  BY <1>5 DEF NotifyRoomState, NotifyRoomMember, SendLeft, CheckLoginTimeouts, Doing, vars,
              AgendaShape
<1>6. CASE \/ \E s \in Sessions : Accept(s) \/ (\E p \in ClientPackets : Receive(s, p)) \/ HangUp(s)
           \/ BeginUpdate \/ PassTime \/ UNCHANGED serverVars
  BY <1>6 DEF Accept, Receive, HangUp, PassTime, Tick, vars, serverVars, AgendaShape
<1> QED
  BY <1>2, <1>3, <1>4, <1>5, <1>6 DEF ServerNext, UpdateStep

\* Every step of the server preserves the invariant of the agenda.
LEMMA NextAgenda == AgendaInv /\ [ServerNext]_serverVars => AgendaInv'
<1> SUFFICES ASSUME AgendaInv, [ServerNext]_serverVars PROVE AgendaInv'
  OBVIOUS
<1>1. ManagersInv' /\ AgendaShape
  BY NextManagers, AgendaStepIs DEF AgendaInv
<1>2. agenda \in Seq(Calls) /\ FlushFollows(agenda) /\ (finished # <<>> => Flushes(agenda))
  BY DEF AgendaInv
<1> SUFFICES agenda' \in Seq(Calls) /\ FlushFollows(agenda') /\ (finished' # <<>> => Flushes(agenda'))
  BY <1>1 DEF AgendaInv, FlushFollows, Flushes
<1>3. \A name : Doing(name) => agenda # <<>> /\ 1 \in DOMAIN agenda /\ agenda[1].do = name
  BY <1>2 DEF Doing
<1>4. Doing("Drain") => Flushes(agenda)
  BY <1>2, <1>3 DEF FlushFollows, Flushes
<1>5. Doing("FlushFinishedGames") => Flushes(agenda)
  BY <1>3 DEF Flushes
<1>6. ASSUME Adds
      PROVE  /\ agenda' \in Seq(Calls) /\ FlushFollows(agenda')
             /\ Flushes(agenda) => Flushes(agenda')
  BY <1>2, <1>6, FirstKeeps DEF Adds, First
<1>7. ASSUME Done, agenda # <<>>
      PROVE  /\ agenda' \in Seq(Calls) /\ FlushFollows(agenda')
             /\ agenda[1].do \in {"UpdateTimeouts", "Drain"} => Flushes(agenda')
             /\ agenda[1].do # "FlushFinishedGames" /\ Flushes(agenda) => Flushes(agenda')
  BY <1>2, <1>7, DoneKeeps DEF Done
<1>8. CASE UNCHANGED <<agenda, finished>>
  BY <1>2, <1>8
<1>9. CASE Doing("Drain") /\ (UNCHANGED agenda \/ Adds)
  BY <1>2, <1>4, <1>6, <1>9
<1>10. CASE Doing("FlushFinishedGames") /\ Adds
  BY <1>5, <1>6, <1>10
<1>11. CASE Done /\ Doing("UpdateTimeouts")
  BY <1>3, <1>7, <1>11
<1>12. CASE Done /\ Doing("FlushFinishedGames") /\ finished' = <<>>
  BY <1>3, <1>7, <1>12
<1>13. CASE Done /\ agenda # <<>> /\ agenda[1].do # "FlushFinishedGames" /\ UNCHANGED finished
  BY <1>2, <1>7, <1>13
<1>14. CASE BeginUpdate
  <2>1. agenda' = Update
    BY <1>14 DEF BeginUpdate
  <2>2. /\ DOMAIN Update = 1..7
        /\ Update[1].do = "UpdateTimeouts" /\ Update[2].do = "FlushFinishedGames"
        /\ Update[3].do = "Drain" /\ Update[4].do = "CheckLoginTimeouts"
        /\ Update[5].do = "CheckLoginTimeouts" /\ Update[6].do = "UpdateTimeouts"
        /\ Update[7].do = "FlushFinishedGames"
    BY DEF Update, Call
  <2>3. \A i \in 1..7 : i = 7 \/ i < 7
    OBVIOUS
  <2>4. FlushFollows(Update) /\ Flushes(Update)
    BY <2>2, <2>3 DEF FlushFollows, Flushes
  <2>5. Update \in Seq(Calls)
    <3>1. /\ Call("UpdateTimeouts") \in Calls /\ Call("FlushFinishedGames") \in Calls
          /\ Call("Drain") \in Calls /\ Call("CheckLoginTimeouts") \in Calls
      BY DEF Calls, Notices
    <3> QED
      BY <3>1 DEF Update
  <2> QED
    BY <2>1, <2>4, <2>5
<1> QED
  BY <1>1, <1>8, <1>9, <1>10, <1>11, <1>12, <1>13, <1>14 DEF AgendaShape

\* Update leaves no result of a game untold, whatever ends games while it is at work
\* and in whichever of its calls.
THEOREM UpdateTellsAll == ServerSpec => []ResultsAreOut
<1>1. ManagersInv /\ ServerInit => AgendaInv
  BY DEF ServerInit, Init, AgendaInv, FlushFollows
<1>2. AgendaInv => ResultsAreOut
  BY DEF AgendaInv, Flushes, ResultsAreOut
<1> QED
  BY <1>1, <1>2, NextAgenda, ManagersInvariance, PTL DEF ServerSpec

-----------------------------------------------------------------------------
(* Games and requests *)

\* What GamesAnswerRequests allows to happen to a room whose game runs.
Answered(r) ==
  \/ TurnExpired(rooms[r])
  \/ rooms'[r] \in {[rooms[r] EXCEPT !.left = time] : time \in 0..rooms[r].left}
  \/ Doing("Drain") /\ events # <<>> /\ Answers(Head(events), r)

\* Leaving a room changes that one only, and only members leave it.
LEMMA OnlyTheRoomLeft ==
  ASSUME Inv, NEW s \in Sessions, LeaveResult(s) = "Success", rooms' = RoomsWithout(s),
         NEW r \in LiveRooms, rooms'[r] # rooms[r]
  PROVE  s \in rooms[r].members
<1>1. MemberResult(s) = "Success"
  BY DEF LeaveResult
<1>2. s \in rooms[users[s].room].members
  BY <1>1 DEF MemberResult
<1>3. r = users[s].room
  BY DEF RoomsWithout, LiveRooms, Inv, TypeOK
<1> QED
  BY <1>2, <1>3

\* The handlers touch a running game only for a request of one of its players that
\* names it.
LEMMA HandlersAnswer ==
  ASSUME Inv, Doing("Drain"), events # <<>>, NEW s \in Sessions, NEW p \in ClientPackets,
         Head(events).type = "Packet", Head(events).session = s, Head(events).packet = p,
         ProcessPacket(s, p),
         NEW r \in LiveRooms, Running(r), rooms'[r] # rooms[r]
  PROVE  Answered(r)
<1>1. r \in RoomIds /\ RoomExists(r) /\ rooms[r].phase = "Playing" /\ DOMAIN rooms = RoomIds
  BY DEF Running, LiveRooms, Inv, TypeOK
<1>2. ~UNCHANGED rooms
  OBVIOUS
<1>3. ASSUME HandleLogin(s, p.nick) \/ HandleChat(s) \/ Refuse(s) \/ HandleBad(s)
      PROVE  FALSE
  BY <1>2, <1>3 DEF HandleLogin, Login, HandleChat, Refuse, HandleBad, vars
<1>4. ASSUME HandleRoomCreate(s) PROVE FALSE
  <2>1. CreateRoom(s)
    BY <1>2, <1>4 DEF HandleRoomCreate, Refuse, vars
  <2>2. ~RoomExists(lastRoomId + 1) /\ rooms' = [rooms EXCEPT ![lastRoomId + 1] = NewRoom(s)]
    BY <2>1 DEF CreateRoom, CreateResult
  <2>3. r # lastRoomId + 1
    BY <1>1, <2>2
  <2> QED
    BY <1>1, <2>2, <2>3
<1>5. ASSUME HandleRoomEnter(s, p.room) PROVE FALSE
  <2>1. EnterRoom(s, p.room)
    BY <1>2, <1>5 DEF HandleRoomEnter, Refuse, vars
  <2>2. /\ rooms[p.room].phase # "Playing"
        /\ rooms' = [rooms EXCEPT ![p.room] = Added(@, s)]
    BY <2>1 DEF EnterRoom, EnterResult
  <2> QED
    BY <1>1, <2>2
<1>6. ASSUME p.id = "ROOM_LEAVE_REQ", HandleRoomLeave(s) PROVE Answered(r)
  <2>1. LeaveRoom(s, "LeftRoom")
    BY <1>2, <1>6 DEF HandleRoomLeave, Refuse, vars
  <2>2. s \in rooms[r].members
    BY <2>1, OnlyTheRoomLeft DEF LeaveRoom
  <2> QED
    BY <1>6, <2>2 DEF Answered, Answers
<1>7. ASSUME HandleRoomReady(s, p.ready) PROVE FALSE
  <2>1. SetReady(s, p.ready)
    BY <1>2, <1>7 DEF HandleRoomReady, Refuse, vars
  <2>2. /\ rooms[users[s].room].phase # "Playing"
        /\ rooms' = [rooms EXCEPT ![users[s].room] = WithReady(@, s, p.ready)]
    BY <2>1 DEF SetReady, ReadyResult
  <2> QED
    BY <1>1, <2>2
<1>8. ASSUME HandleRoomStart(s) PROVE FALSE
  <2>1. StartGame(s)
    BY <1>2, <1>8 DEF HandleRoomStart, Refuse, vars
  <2>2. /\ rooms[users[s].room].phase # "Playing"
        /\ rooms' = [rooms EXCEPT ![users[s].room] = Started(@, lastGameId + 1)]
    BY <2>1 DEF StartGame, StartResult
  <2> QED
    BY <1>1, <2>2
<1>9. ASSUME p.id = "GAME_MOVE_REQ", HandleGameMove(s, p.room, p.game) PROVE Answered(r)
  <2>1. PICK cell \in Cell(p.room), line \in Line(p.room) :
          PlaceStone(s, p.room, p.game, cell, line)
    BY <1>2, <1>9 DEF HandleGameMove, Refuse, vars
  <2>2. /\ AddressResult(s, p.room, p.game) = "Success"
        /\ \E room : rooms' = [rooms EXCEPT ![p.room] = room]
    BY <2>1 DEF PlaceStone, StoneResult, ExpireBeforeRequest
  <2>3. p.room = r
    BY <1>1, <2>2
  <2>4. s \in rooms[r].members /\ p.game = rooms[r].gameId
    BY <2>2, <2>3 DEF AddressResult
  <2>5. TurnExpired(rooms[r]) \/ PlaceResult(rooms[r], s, cell) = "Success"
    BY <2>1, <2>2, <2>3 DEF PlaceStone, ExpireBeforeRequest, StoneResult
  <2>6. PlaceResult(rooms[r], s, cell) = "Success" => StoneOf(rooms[r], s) = rooms[r].game.next
    BY DEF PlaceResult, MoveResult
  <2> QED
    BY <1>9, <2>3, <2>4, <2>5, <2>6 DEF Answered, Answers
<1>10. ASSUME p.id = "GAME_RESIGN_REQ", HandleGameResign(s, p.room, p.game) PROVE Answered(r)
  <2>1. Resign(s, p.room, p.game)
    BY <1>2, <1>10 DEF HandleGameResign, Refuse, vars
  <2>2. /\ AddressResult(s, p.room, p.game) = "Success"
        /\ \E room : rooms' = [rooms EXCEPT ![p.room] = room]
    BY <2>1 DEF Resign, ResignResult, ExpireBeforeRequest
  <2>3. p.room = r
    BY <1>1, <2>2
  <2>4. s \in rooms[r].members /\ p.game = rooms[r].gameId
    BY <2>2, <2>3 DEF AddressResult
  <2> QED
    BY <1>10, <2>3, <2>4 DEF Answered, Answers
<1> QED
  BY <1>3, <1>4, <1>5, <1>6, <1>7, <1>8, <1>9, <1>10 DEF ProcessPacket

\* A running game changes only because its time passes or is over, because a player
\* leaves it, or by a request of one of its players that names this very game: nothing
\* sent during an earlier game of the room touches the next one, however late it is
\* looked at.
THEOREM GamesChangeOnRequest == ServerSpec => GamesAnswerRequests
<1>1. ASSUME ManagersInv, [ServerNext]_serverVars, NEW r \in LiveRooms, Running(r),
             rooms'[r] # rooms[r]
      PROVE  Answered(r)
  <2>1. Inv /\ EventsOK /\ ~UNCHANGED rooms /\ r \in RoomIds
    BY <1>1 DEF ManagersInv, EndingsInv, LiveRooms
  <2>2. CASE CallUpdateTimeouts
    <3>1. UpdateTimeouts
      BY <2>1, <2>2 DEF CallUpdateTimeouts, vars
    <3>2. r \in ExpiredRooms
      BY <1>1, <2>1, <3>1 DEF UpdateTimeouts
    <3> QED
      BY <3>2 DEF ExpiredRooms, Answered
  <2>3. CASE PassTime
    <3>1. Tick
      BY <2>1, <2>3 DEF PassTime, vars
    <3>2. rooms[r].left > 0 /\ rooms'[r] = [rooms[r] EXCEPT !.left = rooms[r].left - 1]
      BY <1>1, <2>1, <3>1 DEF Tick
    <3>3. rooms[r].left \in Nat
      BY <2>1, LiveRoomsGood, RoomConstants DEF Rooms
    <3>4. rooms[r].left - 1 \in 0..rooms[r].left
      BY <3>2, <3>3
    <3> QED
      BY <3>2, <3>4 DEF Answered
  <2>4. CASE Drain
    <3> DEFINE e == Head(events)
               c == e.session
    <3>1. events # <<>> /\ Doing("Drain")
      BY <2>1, <2>4 DEF Drain, vars
    <3>2. e \in Events /\ c \in Sessions
      <4>1. e \in Events
        BY <2>1, <3>1, TakingKeeps
      <4> QED
        BY <4>1 DEF Events
    <3>3. CASE e.type = "Packet" /\ ProcessPacket(c, e.packet)
      <4>1. e.packet \in ClientPackets
        BY <3>2, <3>3 DEF Events
      <4> QED
        BY <1>1, <2>1, <3>1, <3>2, <3>3, <4>1, HandlersAnswer
    <3>4. CASE e.type = "Disconnected" /\ HandleDisconnected(c)
      <4>1. LeaveResult(c) = "Success" /\ rooms' = RoomsWithout(c)
        BY <2>1, <3>4 DEF HandleDisconnected, LeaveAndRemove, vars
      <4>2. c \in rooms[r].members
        BY <1>1, <2>1, <3>2, <4>1, OnlyTheRoomLeft
      <4> QED
        BY <3>1, <3>4, <4>2 DEF Answered, Answers
    <3> QED
      BY <2>1, <2>4, <3>1, <3>3, <3>4 DEF Drain, HandleConnected, HandlePacket, HandleBad, vars
  <2>5. CallUpdateTimeouts \/ PassTime \/ Drain
    BY <1>1, <2>1
       DEF ServerNext, UpdateStep, FlushFinishedGames, PopFinishedGame, NotifyRoomState,
           NotifyRoomMember, SendLeft, CheckLoginTimeouts, Accept, Receive, HangUp, BeginUpdate,
           vars, serverVars
  <2> QED
    BY <2>2, <2>3, <2>4, <2>5
<1>2. ManagersInv /\ [ServerNext]_serverVars =>
        [\A r \in LiveRooms : Running(r) /\ rooms'[r] # rooms[r] => Answered(r)]_serverVars
  BY <1>1
<1> QED
  BY <1>2, ManagersInvariance, PTL DEF ServerSpec, GamesAnswerRequests, Answered

-----------------------------------------------------------------------------
(* What Update has still to say *)

Coming(call) == \E i \in DOMAIN agenda : agenda[i] = call

\* The calls that may change what the others have to tell.
Works == {"UpdateTimeouts", "Drain", "CheckLoginTimeouts"}

\* What is to be told of a room or to a leaver is told before Update goes on.
NoticesFirst(calls) ==
  \A i, j \in DOMAIN calls :
     j <= i /\ calls[i].do \in {"NotifyRoomState", "SendLeft"} => calls[j].do \notin Works

\* The first call is done; nothing else is forgotten.
LEMMA DoneComing ==
  ASSUME NEW calls \in Seq(Calls), calls # <<>>
  PROVE  /\ NoticesFirst(calls) => NoticesFirst(Tail(calls))
         /\ \A i \in DOMAIN Tail(calls) : \E j \in DOMAIN calls : calls[j] = Tail(calls)[i]
         /\ \A j \in DOMAIN calls :
              calls[j] = calls[1] \/ \E i \in DOMAIN Tail(calls) : Tail(calls)[i] = calls[j]
<1> DEFINE rest == Tail(calls)
<1>1. /\ 1 \in DOMAIN calls
      /\ \A i \in DOMAIN rest : i + 1 \in DOMAIN calls /\ rest[i] = calls[i + 1]
      /\ \A j \in DOMAIN calls : j # 1 => j - 1 \in DOMAIN rest /\ rest[j - 1] = calls[j]
      /\ DOMAIN rest \subseteq Nat
  BY Shifted
<1>2. \A i, j \in DOMAIN rest : j <= i => j + 1 <= i + 1
  BY <1>1
<1> QED
  BY <1>1, <1>2 DEF NoticesFirst

\* Calls are put before the others, and none of those is forgotten.
LEMMA FirstComing ==
  ASSUME NEW calls \in Seq(Calls), NEW notices \in Seq(Notices)
  PROVE  LET all == notices \o calls
         IN /\ NoticesFirst(calls) => NoticesFirst(all)
            /\ \A i \in DOMAIN calls : \E j \in DOMAIN all : all[j] = calls[i]
            /\ \A i \in DOMAIN notices : \E j \in DOMAIN all : all[j] = notices[i]
            /\ \A j \in DOMAIN all : \/ \E i \in DOMAIN calls : all[j] = calls[i]
                                     \/ \E i \in DOMAIN notices : all[j] = notices[i]
<1> DEFINE all == notices \o calls
           n == Len(notices)
<1>1. notices \in Seq(Calls)
  BY DEF Calls
<1>2. /\ DOMAIN all = 1..(n + Len(calls))
      /\ \A i \in DOMAIN notices : all[i] = notices[i]
      /\ \A i \in 1..Len(calls) : all[n + i] = calls[i]
  BY <1>1, JoinedQueue
<1>3. n \in Nat /\ Len(calls) \in Nat /\ DOMAIN notices = 1..n /\ DOMAIN calls = 1..Len(calls)
  OBVIOUS
<1>4. \A j \in DOMAIN all : j \in DOMAIN notices \/ (j - n \in DOMAIN calls /\ n + (j - n) = j)
  BY <1>2, <1>3
<1>5. \A i \in DOMAIN notices : notices[i].do \notin Works
  <2>1. \A c \in Notices : c.do \notin Works
    BY DEF Notices, Works, Call, Tell, TellState, SendLeftTo
  <2> QED
    BY <2>1
<1>6. \A j \in DOMAIN all : j \notin DOMAIN notices => j - n \in DOMAIN calls /\ all[j] = calls[j - n]
  BY <1>2, <1>3, <1>4
<1>7. \A i \in DOMAIN calls : n + i \in DOMAIN all /\ all[n + i] = calls[i]
  BY <1>2, <1>3
<1>8. ASSUME NoticesFirst(calls) PROVE NoticesFirst(all)
  <2> SUFFICES ASSUME NEW i \in DOMAIN all, NEW j \in DOMAIN all, j <= i,
                      all[i].do \in {"NotifyRoomState", "SendLeft"}
               PROVE  all[j].do \notin Works
    BY DEF NoticesFirst
  <2>1. CASE j \in DOMAIN notices
    BY <1>2, <1>5, <2>1
  <2>2. CASE j \notin DOMAIN notices
    <3>1. i \notin DOMAIN notices
      BY <1>2, <1>3, <2>2
    <3>2. j - n <= i - n
      BY <1>2, <1>3
    <3>3. /\ i - n \in DOMAIN calls /\ calls[i - n] = all[i]
          /\ j - n \in DOMAIN calls /\ calls[j - n] = all[j]
      BY <1>6, <2>2, <3>1
    <3> HIDE DEF all, n
    <3> QED
      BY <1>8, <3>2, <3>3 DEF NoticesFirst
  <2> QED
    BY <2>1, <2>2
<1> HIDE DEF all, n
<1>9. /\ \A i \in DOMAIN calls : \E j \in DOMAIN all : all[j] = calls[i]
      /\ \A i \in DOMAIN notices : \E j \in DOMAIN all : all[j] = notices[i]
  BY <1>2, <1>3, <1>7
<1>10. \A j \in DOMAIN all : \/ \E i \in DOMAIN calls : all[j] = calls[i]
                             \/ \E i \in DOMAIN notices : all[j] = notices[i]
  BY <1>2, <1>6
<1> QED
  BY <1>8, <1>9, <1>10 DEF all

\* While Update is at work on something else than notices, none is coming.
LEMMA NothingComing ==
  ASSUME agenda \in Seq(Calls), NoticesFirst(agenda), agenda # <<>>, agenda[1].do \in Works
  PROVE  \A r, s : ~Coming(TellState(r)) /\ ~Coming(SendLeftTo(s, "Success"))
<1>1. 1 \in DOMAIN agenda /\ \A i \in DOMAIN agenda : 1 <= i
  OBVIOUS
<1>2. \A i \in DOMAIN agenda : agenda[i].do \notin {"NotifyRoomState", "SendLeft"}
  BY <1>1 DEF NoticesFirst
<1>3. \A r, s : TellState(r).do = "NotifyRoomState" /\ SendLeftTo(s, "Success").do = "SendLeft"
  BY DEF TellState, SendLeftTo
<1> QED
  BY <1>2, <1>3 DEF Coming

\* Notices stay first.
LEMMA NextNotices ==
  ASSUME AgendaInv, NoticesFirst(agenda), [ServerNext]_serverVars
  PROVE  NoticesFirst(agenda')
<1>1. agenda \in Seq(Calls) /\ AgendaShape
  BY AgendaStepIs DEF AgendaInv
<1>2. CASE UNCHANGED agenda
  BY <1>2
<1>3. CASE Adds
  BY <1>1, <1>3, FirstComing DEF Adds, First
<1>4. CASE Done /\ agenda # <<>>
  BY <1>1, <1>4, DoneComing DEF Done
<1>5. CASE BeginUpdate
  <2>1. agenda' = Update
    BY <1>5 DEF BeginUpdate
  <2>2. \A i \in DOMAIN Update : Update[i].do \notin {"NotifyRoomState", "SendLeft"}
    BY DEF Update, Call
  <2> QED
    BY <2>1, <2>2 DEF NoticesFirst
<1> QED
  BY <1>1, <1>2, <1>3, <1>4, <1>5 DEF AgendaShape, Doing

-----------------------------------------------------------------------------
(* What a view makes of a message *)

Views == [room : Nat, playing : BOOLEAN, state : GameStatus, next : Stones,
          moves : 0..Cells, game : Nat, error : Errors]

\* A new view knows of no room.
LEMMA ResetIs ==
  /\ ResetView(0) \in Views /\ ResetView(0).error = "None"
  /\ ResetView(0).room = 0 /\ ~ResetView(0).playing
BY GameConstants DEF ResetView, Views, GameStatus, Stones, Errors

\* Whatever has failed reads no more.
LEMMA FailedReadsNothing ==
  ASSUME NEW view, view.error # "None", NEW m
  PROVE  Read(view, m) = view
BY DEF Read

\* ROOM_STATE_NTF of a room that does not play: the result of its game may stay on show.
LEMMA ReadWaiting ==
  ASSUME NEW view \in Views, view.error = "None",
         NEW m, m.type = "ROOM_STATE_NTF", m.room \in Nat, m.game \in Nat, m.phase # "Playing"
  PROVE  LET after == Read(view, m)
         IN /\ after \in Views /\ after.error = "None"
            /\ after.room = m.room /\ after.game = m.game /\ ~after.playing
            /\ after.state \in FinalStatus =>
                 view.room = m.room /\ view.game = m.game /\ after.state = view.state
<1>1. Read(view, m) = ReadRoomState(view, m)
  BY DEF Read
<1>2. CASE view.room = m.room /\ view.game = m.game /\ view.state \in FinalStatus
  <2>1. Read(view, m) = [view EXCEPT !.playing = FALSE]
    BY <1>1, <1>2 DEF ReadRoomState
  <2>2. /\ Read(view, m) \in Views /\ Read(view, m).error = "None"
        /\ Read(view, m).room = m.room /\ Read(view, m).game = m.game
        /\ Read(view, m).state = view.state
    BY <1>2, <2>1 DEF Views
  <2>3. Read(view, m).playing = FALSE
    BY <2>1 DEF Views
  <2> QED
    BY <1>2, <2>2, <2>3
<1>3. CASE ~(view.room = m.room /\ view.game = m.game /\ view.state \in FinalStatus)
  <2>1. Read(view, m) = [ResetView(m.room) EXCEPT !.game = m.game]
    BY <1>1, <1>3 DEF ReadRoomState
  <2>2. Read(view, m) = [room |-> m.room, playing |-> FALSE, state |-> "NotStarted",
                         next |-> "Empty", moves |-> 0, game |-> m.game, error |-> "None"]
    BY <2>1 DEF ResetView
  <2>3. Read(view, m) \in Views
    BY <2>2, GameConstants DEF Views, GameStatus, Stones, Errors
  <2> QED
    BY <2>2, <2>3 DEF FinalStatus
<1> QED
  BY <1>2, <1>3

\* ROOM_STATE_NTF of a room that plays: a game the view did not show yet begins, the
\* one it shows goes on.
LEMMA ReadPlaying ==
  ASSUME NEW view \in Views, view.error = "None",
         NEW m, m.type = "ROOM_STATE_NTF", m.room \in Nat, m.game \in Nat, m.phase = "Playing"
  PROVE  LET after == Read(view, m)
             sameGame == view.room = m.room /\ view.game = m.game
         IN /\ after \in Views
            /\ ~sameGame => after = BegunView(m.room, m.game)
            /\ sameGame /\ view.playing => after = view
<1>1. Read(view, m) = ReadRoomState(view, m)
  BY DEF Read
<1>2. BegunView(m.room, m.game) \in Views
  BY GameConstants DEF BegunView, Views, GameStatus, Stones, Players, Errors
<1>3. Failed(view, "BackToPlaying") \in Views
  BY DEF Failed, Views, Errors
<1> QED
  BY <1>1, <1>2, <1>3 DEF ReadRoomState

\* GAME_MOVE_NTF: the next move of the game on show is shown, one of another game ignored.
LEMMA ReadMoveIs ==
  ASSUME NEW view \in Views, view.error = "None",
         NEW m, m.type = "GAME_MOVE_NTF", m.state \in GameStatus, m.next \in Stones,
         m.moves \in 0..Cells
  PROVE  LET after == Read(view, m)
             sameGame == view.room = m.room /\ view.game = m.game
         IN /\ after \in Views
            /\ ~sameGame => after = view
            /\ sameGame /\ CanApply(view, m) =>
                 /\ after.room = view.room /\ after.game = view.game
                 /\ after.playing = view.playing /\ after.error = view.error
                 /\ after.state = m.state /\ after.next = m.next /\ after.moves = m.moves
<1>1. Read(view, m) = ReadMove(view, m)
  BY DEF Read
<1>2. CASE ~(view.room = m.room /\ view.game = m.game)
  BY <1>1, <1>2 DEF ReadMove
<1>3. CASE (view.room = m.room /\ view.game = m.game) /\ ~CanApply(view, m)
  <2>1. Read(view, m) = [view EXCEPT !.error = "MoveOutOfSync"]
    BY <1>1, <1>3 DEF ReadMove, Failed
  <2> QED
    BY <1>3, <2>1 DEF Views, Errors
<1>4. CASE (view.room = m.room /\ view.game = m.game) /\ CanApply(view, m)
  <2>1. Read(view, m) = [view EXCEPT !.state = m.state, !.next = m.next, !.moves = m.moves]
    BY <1>1, <1>4 DEF ReadMove
  <2> QED
    BY <1>4, <2>1 DEF Views
<1> QED
  BY <1>2, <1>3, <1>4

\* GAME_END_NTF: the result of the game on show is shown, unless the client is told that
\* its board is out of step; one of another game is ignored.
LEMMA ReadEndIs ==
  ASSUME NEW view \in Views, view.error = "None",
         NEW m, m.type = "GAME_END_NTF", m.state \in GameStatus
  PROVE  LET after == Read(view, m)
             sameGame == view.room = m.room /\ view.game = m.game
         IN /\ after \in Views
            /\ after.error \in {"None", "EndOutOfSync"}
            /\ ~sameGame => after = view
            /\ sameGame /\ after.error = "None" =>
                 /\ view.playing /\ view.moves = m.moves
                 /\ after.room = view.room /\ after.game = view.game
                 /\ ~after.playing /\ after.state = m.state
<1>1. Read(view, m) = ReadEnd(view, m)
  BY DEF Read
<1>2. CASE ~(view.room = m.room /\ view.game = m.game)
  BY <1>1, <1>2 DEF ReadEnd
<1>3. CASE (view.room = m.room /\ view.game = m.game) /\ (~view.playing \/ m.moves # view.moves)
  <2>1. Read(view, m) = [view EXCEPT !.error = "EndOutOfSync"]
    BY <1>1, <1>3 DEF ReadEnd, Failed
  <2> QED
    BY <1>3, <2>1 DEF Views, Errors
<1>4. CASE (view.room = m.room /\ view.game = m.game) /\ view.playing /\ m.moves = view.moves
  <2>1. Read(view, m) = [view EXCEPT !.state = m.state, !.next = "Empty", !.playing = FALSE]
    BY <1>1, <1>4 DEF ReadEnd
  <2>2. /\ Read(view, m) \in Views
        /\ Read(view, m).room = view.room /\ Read(view, m).game = view.game
        /\ Read(view, m).state = m.state /\ Read(view, m).error = "None"
    BY <2>1 DEF Views, Stones
  <2>3. Read(view, m).playing = FALSE
    BY <2>1 DEF Views
  <2> QED
    BY <1>4, <2>2, <2>3
<1> QED
  BY <1>2, <1>3, <1>4

\* ROOM_LEAVE_RES
LEMMA ReadLeftIs ==
  ASSUME NEW view, view.error = "None", NEW m, m.type = "ROOM_LEAVE_RES"
  PROVE  Read(view, m) = ResetView(0)
BY DEF Read

-----------------------------------------------------------------------------
(* What happens to the game of a room of which its members are told nothing yet *)

\* Nothing is lost from the queue of results.
Retained == \A i \in DOMAIN finished : i \in DOMAIN finished' /\ finished'[i] = finished[i]

SameGame(room, after) ==
  /\ after # NoRoom
  /\ after.gameId = room.gameId /\ after.phase = room.phase /\ after.game = room.game

\* Somebody leaves a room that waits.
Halted(room, after) ==
  /\ after # NoRoom
  /\ room.phase # "Playing" /\ after.phase # "Playing"
  /\ after.gameId = room.gameId /\ after.game.status = "NotStarted"

\* The result of a game that needed no move to end.
Tells(e, r, room) ==
  /\ e.room = r /\ e.game = room.gameId
  /\ e.targets = room.members /\ e.moves = room.game.moves

\* A game ends, and its result is queued.
Stopped(r, room, after) ==
  /\ after # NoRoom
  /\ room.phase = "Playing" /\ after.phase # "Playing"
  /\ after.gameId = room.gameId
  /\ \E i \in DOMAIN finished' : /\ Tells(finished'[i], r, room)
                                 /\ after.game.status \in {"NotStarted", finished'[i].status}

Silent(r) ==
  \/ SameGame(rooms[r], rooms'[r])
  \/ Halted(rooms[r], rooms'[r])
  \/ Stopped(r, rooms[r], rooms'[r])

\* No game is touched.
LEMMA SameRooms ==
  ASSUME Inv, UNCHANGED <<rooms, finished>>
  PROVE  Retained /\ \A r \in LiveRooms : SameGame(rooms[r], rooms'[r])
BY DEF Retained, SameGame, LiveRooms

\* One result more.
LEMMA ResultAdded ==
  ASSUME Inv, NEW e, finished' = finished \o <<e>> \/ finished' = Append(finished, e)
  PROVE  Retained /\ \E i \in DOMAIN finished' : finished'[i] = e
<1>1. finished \in Seq(FinishedGames) /\ Len(finished) \in Nat
  BY DEF Inv, TypeOK
<1>2. \A S : \A queue \in Seq(S) :
        /\ DOMAIN Append(queue, e) = 1..(Len(queue) + 1)
        /\ Append(queue, e)[Len(queue) + 1] = e
        /\ \A i \in DOMAIN queue : Append(queue, e)[i] = queue[i]
  OBVIOUS
<1>3. \A S : \A queue \in Seq(S) : queue \o <<e>> = Append(queue, e)
  OBVIOUS
<1>4. finished' = Append(finished, e)
  BY <1>1, <1>3
<1>5. /\ DOMAIN finished' = 1..(Len(finished) + 1)
      /\ finished'[Len(finished) + 1] = e
      /\ \A i \in DOMAIN finished : finished'[i] = finished[i]
  BY <1>1, <1>2, <1>4
<1> QED
  BY <1>1, <1>5 DEF Retained

\* A player gives up, or his turn has expired.
LEMMA ForfeitTells ==
  ASSUME NEW room, GoodRoom(room), room.phase = "Playing", NEW loser \in Players,
         NEW r, NEW reason
  PROVE  LET over == Forfeit(room, loser)
             e == Ending(r, over, reason)
         IN /\ Tells(e, r, room) /\ e.status = over.game.status
            /\ Finished(over) # NoRoom /\ Finished(over).phase # "Playing"
            /\ Finished(over).gameId = room.gameId /\ Finished(over).game = over.game
<1> DEFINE over == Forfeit(room, loser)
<1>1. /\ JustOver(over) /\ over.members = room.members /\ over.gameId = room.gameId
      /\ over.game = Forfeited(room.game, loser)
  BY ForfeitIsOver
<1>2. over.game.moves = room.game.moves
  BY <1>1, ForfeitedEnds DEF GoodRoom, Rooms
<1> HIDE DEF over
<1>3. /\ GoodRoom(Finished(over)) /\ Finished(over).phase = "Waiting"
      /\ Finished(over).gameId = room.gameId
  BY <1>1, FinishedGood
<1>4. Finished(over).game = over.game
  BY <1>1 DEF Finished, JustOver, Rooms
<1>5. Finished(over) # NoRoom
  BY <1>3, ManagerConstants DEF GoodRoom
<1> QED
  BY <1>1, <1>2, <1>3, <1>4, <1>5 DEF Tells, Ending, over

\* Room r ends its game without a move, and no other room is touched.
LEMMA ForfeitSilent ==
  ASSUME Inv, NEW r \in LiveRooms, rooms[r].phase = "Playing", NEW loser \in Players,
         NEW reason,
         LET over == Forfeit(rooms[r], loser)
         IN /\ rooms' = [rooms EXCEPT ![r] = Finished(over)]
            /\ finished' = Append(finished, Ending(r, over, reason))
  PROVE  Retained /\ \A q \in LiveRooms : Silent(q)
<1> DEFINE over == Forfeit(rooms[r], loser)
           e == Ending(r, over, reason)
<1>1. GoodRoom(rooms[r]) /\ DOMAIN rooms = RoomIds /\ r \in RoomIds
  BY LiveRoomsGood DEF Inv, TypeOK
<1>2. /\ Tells(e, r, rooms[r]) /\ e.status = over.game.status
      /\ Finished(over) # NoRoom /\ Finished(over).phase # "Playing"
      /\ Finished(over).gameId = rooms[r].gameId /\ Finished(over).game = over.game
  BY <1>1, ForfeitTells
<1>3. rooms' = [rooms EXCEPT ![r] = Finished(over)] /\ finished' = Append(finished, e)
  OBVIOUS
<1> HIDE DEF over, e
<1>4. Retained /\ \E i \in DOMAIN finished' : finished'[i] = e
  BY <1>3, ResultAdded
<1>5. rooms'[r] = Finished(over) /\ \A q \in RoomIds : q # r => rooms'[q] = rooms[q]
  BY <1>1, <1>3
<1>6. Stopped(r, rooms[r], rooms'[r])
  BY <1>2, <1>4, <1>5 DEF Stopped
<1>7. \A q \in LiveRooms : q # r => SameGame(rooms[q], rooms'[q])
  BY <1>5 DEF SameGame, LiveRooms
<1> QED
  BY <1>4, <1>6, <1>7 DEF Silent

\* ExpireRoom, called at the head of PlaceStone and Resign
LEMMA ExpirySilent ==
  ASSUME Inv, NEW r \in LiveRooms, ExpireBeforeRequest(r)
  PROVE  Retained /\ \A q \in LiveRooms : Silent(q)
<1>1. TurnExpired(rooms[r]) /\ rooms[r].phase = "Playing" /\ GoodRoom(rooms[r])
  BY LiveRoomsGood DEF ExpireBeforeRequest, TurnExpired
<1>2. rooms[r].game.next \in Players
  BY <1>1, PlayersHaveStones
<1>3. LET over == Forfeit(rooms[r], rooms[r].game.next)
      IN /\ rooms' = [rooms EXCEPT ![r] = Finished(over)]
         /\ finished' = Append(finished, Ending(r, over, "TurnTimeout"))
  BY <1>1 DEF ExpireBeforeRequest, Expire, ExpiryEnding
<1> QED
  BY <1>1, <1>2, <1>3, ForfeitSilent

\* RoomManager::Resign
LEMMA ResignSilent ==
  ASSUME Inv, NEW s \in Sessions, NEW r \in RoomIds, NEW g, Resign(s, r, g)
  PROVE  Retained /\ \A q \in LiveRooms : Silent(q)
<1>1. AddressResult(s, r, g) = "Success"
  BY DEF Resign, ResignResult
<1>2. r \in LiveRooms
  BY <1>1 DEF AddressResult, RoomExists, LiveRooms
<1>3. CASE ExpireBeforeRequest(r)
  BY <1>2, <1>3, ExpirySilent
<1>4. CASE ResignResult(s, r, g) = "Success" /\ ~ExpireBeforeRequest(r)
  <2>1. /\ rooms[r].phase = "Playing" /\ StoneOf(rooms[r], s) \in Players
        /\ LET over == Forfeit(rooms[r], StoneOf(rooms[r], s))
           IN /\ rooms' = [rooms EXCEPT ![r] = Finished(over)]
              /\ finished' = Append(finished, Ending(r, over, "Resigned"))
    BY <1>1, <1>4 DEF Resign, ResignResult, CanForfeit
  <2> QED
    BY <1>2, <2>1, ForfeitSilent
<1> QED
  BY <1>3, <1>4 DEF Resign

\* LeaveRoom, called by a request and by HandleDisconnected: those who stay behind.
LEMMA LeavingSilent ==
  ASSUME Inv, NEW s \in Sessions, NEW reason, LeaveResult(s) = "Success",
         rooms' = RoomsWithout(s), finished' = finished \o LeaveEndings(s, reason)
  PROVE  Retained /\ \A q \in LiveRooms : rooms'[q] # NoRoom => Silent(q)
<1> DEFINE r == users[s].room
           room == rooms[r]
<1>1. LoggedIn(s) /\ users[s].state = "InRoom"
  BY DEF LeaveResult, MemberResult
<1>2. /\ r \in LiveRooms /\ s \in room.members /\ r \in RoomIds
      /\ room \in Rooms /\ GoodRoom(room) /\ DOMAIN rooms = RoomIds
  BY <1>1, MembersRoom, LiveRoomsGood DEF Inv, TypeOK
<1>3. /\ rooms'[r] = IF room.members = {s} THEN NoRoom ELSE Removed(room, s)
      /\ \A q \in RoomIds : q # r => rooms'[q] = rooms[q]
  BY <1>2 DEF RoomsWithout
<1>4. LeaveEndings(s, reason) =
        IF TurnExpired(room) THEN <<ExpiryEnding(r, room)>>
        ELSE IF room.phase = "Playing" THEN <<Ending(r, Forfeit(room, StoneOf(room, s)), reason)>>
             ELSE << >>
  BY DEF LeaveEndings
<1> HIDE DEF r, room
<1>5. \A q \in LiveRooms : q # r => SameGame(rooms[q], rooms'[q])
  BY <1>3 DEF SameGame, LiveRooms
<1>6. ASSUME rooms'[r] # NoRoom
      PROVE  /\ rooms'[r].phase # "Playing" /\ rooms'[r].gameId = room.gameId
             /\ rooms'[r].game.status = "NotStarted"
  <2>1. rooms'[r] = Removed(room, s)
    BY <1>3, <1>6
  <2> QED
    BY <1>2, <2>1 DEF Removed, Rooms, ResetGame
<1>7. CASE room.phase = "Playing"
  <2>1. PICK loser, why : /\ loser \in Players
                          /\ LeaveEndings(s, reason) = <<Ending(r, Forfeit(room, loser), why)>>
    <3>1. room.game.next \in Players /\ StoneOf(room, s) \in Players
      BY <1>2, <1>7, PlayersHaveStones
    <3> QED
      BY <1>4, <1>7, <3>1 DEF ExpiryEnding
  <2> DEFINE e == Ending(r, Forfeit(room, loser), why)
  <2>2. Tells(e, r, room)
    BY <1>2, <1>7, <2>1, ForfeitTells
  <2>3. finished' = finished \o <<e>>
    BY <2>1
  <2> HIDE DEF e
  <2>4. Retained /\ \E i \in DOMAIN finished' : finished'[i] = e
    BY <2>3, ResultAdded
  <2>5. rooms'[r] # NoRoom => Stopped(r, room, rooms'[r])
    BY <1>6, <1>7, <2>2, <2>4 DEF Stopped
  <2> QED
    BY <1>5, <2>4, <2>5 DEF Silent, room
<1>8. CASE room.phase # "Playing"
  <2>1. finished' = finished
    BY <1>4, <1>8 DEF TurnExpired, Inv, TypeOK
  <2>2. rooms'[r] # NoRoom => Halted(room, rooms'[r])
    BY <1>6, <1>8 DEF Halted
  <2> QED
    BY <1>5, <2>1, <2>2 DEF Retained, Silent, room
<1> QED
  BY <1>7, <1>8

\* RoomManager::UpdateTimeouts
LEMMA TimeoutsSilent ==
  ASSUME Inv, UpdateTimeouts
  PROVE  Retained /\ \A r \in LiveRooms : Silent(r)
<1>1. QueueStep /\ \A r \in LiveRooms : RoomStep(r)
  BY UpdateTimeoutsStep DEF StepShape
<1>2. /\ rooms' = [r \in RoomIds |-> IF r \in ExpiredRooms THEN Expire(rooms[r]) ELSE rooms[r]]
      /\ ExpiredRooms # {}
  BY DEF UpdateTimeouts
<1>3. ASSUME NEW r \in ExpiredRooms
      PROVE  Stopped(r, rooms[r], rooms'[r]) /\ NewEndings # {}
  <2>1. r \in LiveRooms /\ r \in RoomIds /\ GoodRoom(rooms[r]) /\ TurnExpired(rooms[r])
    BY LiveRoomsGood DEF ExpiredRooms
  <2>2. /\ rooms[r].phase = "Playing" /\ rooms[r].left = 0 /\ rooms[r].game.next \in Players
    BY <2>1, PlayersHaveStones DEF TurnExpired
  <2>3. rooms'[r] = Finished(Forfeit(rooms[r], rooms[r].game.next))
    BY <1>2, <2>1 DEF Expire
  <2> DEFINE over == Forfeit(rooms[r], rooms[r].game.next)
             e == Ending(r, over, "TurnTimeout")
  <2>4. /\ Tells(e, r, rooms[r]) /\ e.status = over.game.status
        /\ rooms'[r] # NoRoom /\ rooms'[r].phase # "Playing"
        /\ rooms'[r].gameId = rooms[r].gameId /\ rooms'[r].game = over.game
    BY <2>1, <2>2, <2>3, ForfeitTells
  <2>5. PICK i \in NewEndings : EndsWith(rooms[r], r, finished'[i])
    <3>1. RoomStep(r)
      BY <1>1, <2>1
    <3>2. rooms'[r] # rooms[r]
      BY <2>2, <2>4
    <3> QED
      BY <2>1, <2>2, <2>4, <3>1, <3>2
         DEF RoomStep, Entered, CanAdd, Readied, Begun, PlayedOn, Ticked
  <2>6. finished'[i] = e
    BY <2>1, <2>5 DEF EndsWith, Expires, GivenUp, PlayedOut, ExpiryEnding
  <2> HIDE DEF over, e
  <2> QED
    BY <2>2, <2>4, <2>5, <2>6 DEF Stopped, NewEndings
<1>4. Retained
  <2>1. /\ finished \in Seq(FinishedGames) /\ Len(finished) \in Nat
        /\ finished' \in Seq(FinishedGames) /\ Len(finished') \in Nat
    BY UpdateTimeoutsInv DEF Inv, TypeOK
  <2>0. NewEndings # {}
    BY <1>2, <1>3
  <2>2. ASSUME finished # <<>>, finished' = Tail(finished) PROVE FALSE
    <3>1. \A i \in DOMAIN finished' : ~(i > Len(finished))
      BY <2>1, <2>2
    <3> QED
      BY <2>0, <3>1 DEF NewEndings
  <2>3. CASE finished' = finished
    BY <2>3 DEF Retained
  <2>4. CASE Len(finished') > Len(finished) /\ \A i \in DOMAIN finished : finished'[i] = finished[i]
    <3>1. \A i \in DOMAIN finished : i \in DOMAIN finished'
      BY <2>1, <2>4
    <3> QED
      BY <2>4, <3>1 DEF Retained
  <2> QED
    BY <1>1, <2>2, <2>3, <2>4 DEF QueueStep
<1>5. \A r \in LiveRooms \ ExpiredRooms : SameGame(rooms[r], rooms'[r])
  BY <1>2 DEF SameGame, LiveRooms
<1> QED
  BY <1>3, <1>4, <1>5 DEF Silent

\* The clock, and the operations on a room that have nothing to do with its game.
LEMMA ReplacedSame ==
  ASSUME Inv, NEW r \in RoomIds, NEW room, rooms' = [rooms EXCEPT ![r] = room],
         UNCHANGED finished, r \in LiveRooms => SameGame(rooms[r], room)
  PROVE  Retained /\ \A q \in LiveRooms : SameGame(rooms[q], rooms'[q])
<1>1. rooms'[r] = room /\ \A q \in RoomIds : q # r => rooms'[q] = rooms[q]
  BY DEF Inv, TypeOK
<1>2. \A q \in LiveRooms : SameGame(rooms[q], rooms'[q])
  BY <1>1 DEF SameGame, LiveRooms
<1> QED
  BY <1>2 DEF Retained

\* Users come to a room, get ready, or wait: the game of no room changes.
LEMMA RequestsSame ==
  ASSUME Inv,
         \/ Tick
         \/ \E s \in Sessions : \/ CreateRoom(s)
                                \/ \E r \in RoomIds : EnterRoom(s, r)
                                \/ \E ready \in BOOLEAN : SetReady(s, ready)
                                \/ \E nick : Login(s, nick)
  PROVE  Retained /\ \A r \in LiveRooms : SameGame(rooms[r], rooms'[r])
<1>0. \A r \in LiveRooms : r \in RoomIds /\ rooms[r] \in Rooms /\ rooms[r] # NoRoom
  BY LiveRoomsGood DEF LiveRooms
<1>1. CASE Tick
  <2>1. \A r \in LiveRooms : SameGame(rooms[r], rooms'[r])
    <3> TAKE r \in LiveRooms
    <3>1. CASE rooms[r].left > 0
      <4>1. rooms'[r] = [rooms[r] EXCEPT !.left = @ - 1]
        BY <1>0, <1>1, <3>1 DEF Tick
      <4>2. GoodRoom(rooms'[r])
        BY <3>1, <4>1, LiveRoomsGood, TickedGood
      <4> QED
        BY <1>0, <4>1, <4>2, ManagerConstants DEF SameGame, GoodRoom, Rooms
    <3>2. CASE ~(rooms[r].left > 0)
      BY <1>0, <1>1, <3>2 DEF Tick, SameGame
    <3> QED
      BY <3>1, <3>2
  <2> QED
    BY <1>1, <2>1 DEF Tick, Retained
<1>2. CASE \E s \in Sessions : CreateRoom(s)
  <2>1. PICK s \in Sessions : CreateRoom(s)
    BY <1>2
  <2>2. ~RoomExists(lastRoomId + 1) /\ lastRoomId # MaxRoomId
    BY <2>1 DEF CreateRoom, CreateResult
  <2>3. lastRoomId + 1 \in RoomIds /\ lastRoomId + 1 \notin LiveRooms
    BY <2>2, ManagerConstants DEF Inv, TypeOK, RoomIds, RoomExists, LiveRooms
  <2> QED
    BY <2>1, <2>3, ReplacedSame DEF CreateRoom
<1>3. CASE \E s \in Sessions, r \in RoomIds : EnterRoom(s, r)
  <2>1. PICK s \in Sessions, r \in RoomIds : EnterRoom(s, r)
    BY <1>3
  <2>2. CanAdd(rooms[r], s) /\ r \in LiveRooms
    BY <2>1 DEF EnterRoom, EnterResult, RoomExists, LiveRooms
  <2>3. GoodRoom(Added(rooms[r], s))
    BY <2>2, LiveRoomsGood, AddedGood
  <2>4. SameGame(rooms[r], Added(rooms[r], s))
    BY <1>0, <2>2, <2>3, ManagerConstants DEF SameGame, Added, GoodRoom, Rooms
  <2>5. rooms' = [rooms EXCEPT ![r] = Added(rooms[r], s)] /\ UNCHANGED finished
    BY <2>1 DEF EnterRoom
  <2> QED
    BY <2>4, <2>5, ReplacedSame
<1>4. CASE \E s \in Sessions, ready \in BOOLEAN : SetReady(s, ready)
  <2>1. PICK s \in Sessions, ready \in BOOLEAN : SetReady(s, ready)
    BY <1>4
  <2> DEFINE r == users[s].room
  <2>2. /\ LoggedIn(s) /\ users[s].state = "InRoom"
        /\ rooms[r].phase # "Playing" /\ s # rooms[r].host
    BY <2>1 DEF SetReady, ReadyResult, MemberResult
  <2>3. r \in LiveRooms /\ s \in rooms[r].members
    BY <2>2, MembersRoom
  <2>4. GoodRoom(WithReady(rooms[r], s, ready))
    BY <2>2, <2>3, LiveRoomsGood, WithReadyGood
  <2>5. SameGame(rooms[r], WithReady(rooms[r], s, ready))
    BY <1>0, <2>3, <2>4, ManagerConstants DEF SameGame, WithReady, GoodRoom, Rooms
  <2>6. rooms' = [rooms EXCEPT ![r] = WithReady(rooms[r], s, ready)] /\ UNCHANGED finished
    BY <2>1 DEF SetReady
  <2>7. r \in RoomIds
    BY <1>0, <2>3
  <2> HIDE DEF r
  <2> QED
    BY <2>5, <2>6, <2>7, ReplacedSame
<1>5. CASE \E s \in Sessions : \E nick : Login(s, nick)
  BY <1>5, SameRooms DEF Login
<1> QED
  BY <1>1, <1>2, <1>3, <1>4, <1>5

-----------------------------------------------------------------------------
(* What a client knows, and what it is about to be told *)

\* ViewAgrees for a user in room r.
Agrees(view, r, room) ==
  /\ view.room = r /\ view.game = room.gameId
  /\ view.playing <=> room.phase = "Playing"
  /\ view.playing => /\ view.state = "Playing"
                     /\ view.moves = room.game.moves
                     /\ view.next = room.game.next
  /\ view.state \in FinalStatus /\ room.game.status \in FinalStatus
       => view.state = room.game.status

\* A client that does not know its room, or the game that has just begun there, is
\* about to be told.
Outdated(view, r, room) ==
  /\ ~(view.room = r /\ view.game = room.gameId)
  /\ room.phase = "Playing" => room.game = StartedGame

\* A client that believes a game to run which is over has its result in the queue.
AwaitsEnd(s, view, r, room, e) ==
  /\ s \in e.targets /\ e.room = r /\ e.game = room.gameId
  /\ view.room = r /\ view.game = room.gameId
  /\ view.playing /\ view.moves = e.moves /\ view.state \in {"Playing", e.status}
  /\ room.phase # "Playing" /\ room.game.status \in {"NotStarted", e.status}

Away(s) == ~LoggedIn(s) \/ users[s].state = "Lobby"

KnowsNoRoom(view) == view.room = NoRoomId /\ ~view.playing

ViewOK(s) ==
  LET view == views[s]
      r == users[s].room
  IN IF Away(s) THEN KnowsNoRoom(view) \/ Coming(SendLeftTo(s, "Success"))
     ELSE \/ Agrees(view, r, rooms[r])
          \/ Outdated(view, r, rooms[r]) /\ Coming(TellState(r))
          \/ \E i \in DOMAIN finished : AwaitsEnd(s, view, r, rooms[r], finished[i])

GoodFor(s) ==
  /\ views[s] \in Views
  /\ views[s].error \in {"None", "EndOutOfSync"}
  /\ s \in clients /\ views[s].error = "None" => ViewOK(s)

\* Who is about to be told that he has left has left.
LeaversLeft ==
  \A s \in Sessions : Coming(SendLeftTo(s, "Success")) => LoggedIn(s) /\ users[s].state = "Lobby"

ViewsInv ==
  /\ DeadlinesInv /\ OnceInv /\ AgendaInv
  /\ NoticesFirst(agenda)
  /\ LeaversLeft
  /\ DOMAIN views = Sessions
  /\ \A s \in Sessions : GoodFor(s)

ViewsStay == (\A s \in Sessions : GoodFor(s)') /\ LeaversLeft'

\* Who is not away is in a room that exists, and is one of its members.
LEMMA InRoom ==
  ASSUME Inv, NEW s \in Sessions, ~Away(s)
  PROVE  /\ LoggedIn(s) /\ users[s].state = "InRoom"
         /\ users[s].room \in LiveRooms /\ users[s].room \in RoomIds
         /\ users[s].room # NoRoomId
         /\ s \in rooms[users[s].room].members
<1>1. users[s] \in Users
  BY DEF Away, LoggedIn, Inv, TypeOK
<1>2. LoggedIn(s) /\ users[s].state = "InRoom"
  BY <1>1 DEF Away, Users
<1>3. users[s].room \in LiveRooms /\ s \in rooms[users[s].room].members
  BY <1>2, MembersRoom
<1> QED
  BY <1>2, <1>3, ManagerConstants DEF LiveRooms, RoomIds, NoRoomId

\* What is known of the view of somebody in room r.
LEMMA InRoomView ==
  ASSUME NEW s, ~Away(s), ViewOK(s), NEW r, users[s].room = r
  PROVE  \/ Agrees(views[s], r, rooms[r])
         \/ Outdated(views[s], r, rooms[r]) /\ Coming(TellState(r))
         \/ \E i \in DOMAIN finished : AwaitsEnd(s, views[s], r, rooms[r], finished[i])
BY DEF ViewOK

\* What has to be shown of his view after a step.
LEMMA InRoomViewNext ==
  ASSUME NEW s, ~Away(s)', NEW r, users'[s].room = r,
         \/ Agrees(views'[s], r, rooms'[r])
         \/ Outdated(views'[s], r, rooms'[r]) /\ Coming(TellState(r))'
         \/ \E i \in DOMAIN finished' : AwaitsEnd(s, views'[s], r, rooms'[r], finished'[i])
  PROVE  ViewOK(s)'
BY DEF ViewOK, Coming, TellState

\* What is known of the view of somebody who is away.
LEMMA AwayView ==
  ASSUME NEW s, Away(s)
  PROVE  ViewOK(s) <=> KnowsNoRoom(views[s]) \/ Coming(SendLeftTo(s, "Success"))
BY DEF ViewOK

\* What has to be shown of it after a step.
LEMMA AwayViewNext ==
  ASSUME NEW s, Away(s)', KnowsNoRoom(views'[s]) \/ Coming(SendLeftTo(s, "Success"))'
  PROVE  ViewOK(s)'
BY DEF ViewOK, KnowsNoRoom

\* Nothing is said to s and nothing happens to his user: what the others do to his room
\* leaves him right, or waiting for what will be said.
LEMMA KeptView ==
  ASSUME Inv, NEW s \in Sessions, NEW r, GoodFor(s),
         views'[s] = views[s], users'[s] = users[s], s \in clients' => s \in clients,
         Retained,
         Coming(SendLeftTo(s, "Success")) => Coming(SendLeftTo(s, "Success"))',
         ~Away(s) =>
           /\ users[s].room = r
           /\ \/ SameGame(rooms[r], rooms'[r]) /\ (Coming(TellState(r)) => Coming(TellState(r))')
              \/ Silent(r) /\ ~Coming(TellState(r))
  PROVE  GoodFor(s)'
<1> DEFINE view == views[s]
           room == rooms[r]
           after == rooms'[r]
           call == TellState(r)
<1> SUFFICES ASSUME ViewOK(s) PROVE ViewOK(s)'
  BY DEF GoodFor
<1>1. CASE Away(s)
  BY <1>1 DEF ViewOK, Away, LoggedIn
<1>2. CASE ~Away(s)
  <2>1. s \in room.members
    BY <1>2, InRoom
  <2>2. ~Away(s)' /\ users[s].room = r /\ users'[s].room = r
    BY <1>2 DEF Away, LoggedIn
  <2>3. \/ Agrees(view, r, after)
        \/ Outdated(view, r, after) /\ Coming(call)'
        \/ \E i \in DOMAIN finished' : AwaitsEnd(s, view, r, after, finished'[i])
        => ViewOK(s)'
    BY <2>2, InRoomViewNext
  <2>4. \/ Agrees(view, r, room)
        \/ Outdated(view, r, room) /\ Coming(call)
        \/ \E i \in DOMAIN finished : AwaitsEnd(s, view, r, room, finished[i])
    BY <1>2, <2>2, InRoomView
  <2>5. CASE SameGame(room, after) /\ (Coming(TellState(r)) => Coming(TellState(r))')
    <3>1. Agrees(view, r, room) => Agrees(view, r, after)
      BY <2>5 DEF Agrees, SameGame
    <3>2. Outdated(view, r, room) => Outdated(view, r, after)
      BY <2>5 DEF Outdated, SameGame
    <3>3. \A e : AwaitsEnd(s, view, r, room, e) => AwaitsEnd(s, view, r, after, e)
      BY <2>5 DEF AwaitsEnd, SameGame
    <3> QED
      BY <2>3, <2>4, <2>5, <3>1, <3>2, <3>3 DEF Retained
  <2>6. CASE Silent(r) /\ ~SameGame(room, after) /\ ~Coming(TellState(r))
    <3>1. ~Coming(call)
      BY <2>6
    <3>2. CASE Halted(room, after)
      <4>1. Agrees(view, r, room) => Agrees(view, r, after)
        BY <3>2 DEF Agrees, Halted, FinalStatus
      <4>2. \A e : AwaitsEnd(s, view, r, room, e) => AwaitsEnd(s, view, r, after, e)
        BY <3>2 DEF AwaitsEnd, Halted
      <4> QED
        BY <2>3, <2>4, <3>1, <4>1, <4>2 DEF Retained
    <3>3. CASE Stopped(r, room, after)
      <4>1. Agrees(view, r, room)
        BY <2>4, <3>1, <3>3 DEF Stopped, AwaitsEnd, Outdated
      <4>2. PICK i \in DOMAIN finished' : /\ Tells(finished'[i], r, room)
                                          /\ after.game.status \in {"NotStarted", finished'[i].status}
        BY <3>3 DEF Stopped
      <4>3. AwaitsEnd(s, view, r, after, finished'[i])
        BY <2>1, <3>3, <4>1, <4>2 DEF Stopped, Agrees, Tells, AwaitsEnd
      <4> QED
        BY <2>3, <4>3
    <3> QED
      BY <2>6, <3>2, <3>3 DEF Silent
  <2> QED
    BY <1>2, <2>5, <2>6
<1> QED
  BY <1>1, <1>2

\* The same while Update is at work and no notice is pending.
LEMMA KeptAtWork ==
  ASSUME ViewsInv, agenda # <<>>, agenda[1].do \in Works, NEW s \in Sessions,
         views'[s] = views[s], users'[s] = users[s], s \in clients' => s \in clients,
         Retained, ~Away(s) => Silent(users[s].room)
  PROVE  GoodFor(s)'
<1> DEFINE r == users[s].room
<1>1. ~Coming(TellState(r)) /\ ~Coming(SendLeftTo(s, "Success"))
  BY NothingComing DEF ViewsInv, AgendaInv
<1>2. Inv /\ GoodFor(s)
  BY DEF ViewsInv, OnceInv
<1> QED
  BY <1>1, <1>2, KeptView

\* The same when neither users nor rooms nor results change and no notice is forgotten.
LEMMA KeptQuiet ==
  ASSUME Inv, NEW s \in Sessions, NEW r, GoodFor(s), UNCHANGED <<users, rooms, finished>>,
         views'[s] = views[s], s \in clients' => s \in clients,
         Coming(SendLeftTo(s, "Success")) => Coming(SendLeftTo(s, "Success"))',
         ~Away(s) => users[s].room = r /\ (Coming(TellState(r)) => Coming(TellState(r))')
  PROVE  GoodFor(s)'
<1>1. Retained /\ (~Away(s) => SameGame(rooms[r], rooms'[r]))
  BY InRoom, SameRooms
<1> QED
  BY <1>1, KeptView

\* Nobody is told to have left whom LeaversLeft does not speak of already.
LEMMA LeaversStay ==
  ASSUME LeaversLeft, UNCHANGED users,
         \A s \in Sessions : Coming(SendLeftTo(s, "Success"))' => Coming(SendLeftTo(s, "Success"))
  PROVE  LeaversLeft'
BY DEF LeaversLeft, LoggedIn

\* SendPacket to several: each of them reads the message, or is lost.
LEMMA SendIs ==
  ASSUME NEW targets, NEW message, NEW rest, SendTo(targets, message, rest),
         NEW s \in Sessions
  PROVE  /\ s \in clients' => s \in clients
         /\ \/ s \in targets /\ s \in clients' /\ views'[s] = Read(views[s], message)
            \/ views'[s] = views[s] /\ (s \in clients' => s \notin targets)
BY DEF SendTo, Disconnecting

\* What is lost is lost, and nobody is won.
LEMMA AnswerIs ==
  ASSUME NEW targets, NEW rest,
         Answer(targets, rest) \/ (Disconnecting(targets, rest) /\ UNCHANGED views)
  PROVE  UNCHANGED views /\ clients' \subseteq clients
BY DEF Answer, Disconnecting

-----------------------------------------------------------------------------
(* Sending: what is told keeps the views right *)

\* A call is done: what is still to be told is what was to be told, but for that call.
LEMMA DoneTells ==
  ASSUME agenda \in Seq(Calls), agenda # <<>>, Done
  PROVE  \A c : /\ Coming(c)' => Coming(c)
                /\ Coming(c) /\ c # agenda[1] => Coming(c)'
BY DoneComing DEF Done, Coming

\* Calls are added: they and the others are still to be made.
LEMMA FirstTells ==
  ASSUME agenda \in Seq(Calls), NEW notices \in Seq(Notices), First(notices)
  PROVE  /\ \A c : Coming(c) => Coming(c)'
         /\ \A i \in DOMAIN notices : Coming(notices[i])'
         /\ \A c : Coming(c)' => Coming(c) \/ \E i \in DOMAIN notices : notices[i] = c
<1>1. agenda' = notices \o agenda
  BY DEF First
<1>2. /\ \A i \in DOMAIN agenda : \E j \in DOMAIN agenda' : agenda'[j] = agenda[i]
      /\ \A i \in DOMAIN notices : \E j \in DOMAIN agenda' : agenda'[j] = notices[i]
      /\ \A j \in DOMAIN agenda' : \/ \E i \in DOMAIN agenda : agenda'[j] = agenda[i]
                                   \/ \E i \in DOMAIN notices : agenda'[j] = notices[i]
  BY <1>1, FirstComing
<1> QED
  BY <1>2 DEF Coming

\* A step that says nothing and changes nothing the views are about, but for a call
\* that is done and was no notice.
LEMMA QuietStays ==
  ASSUME ViewsInv, UNCHANGED <<users, rooms, finished, views>>, clients' \subseteq clients,
         \/ agenda # <<>> /\ Done /\ agenda[1].do \notin {"NotifyRoomState", "SendLeft"}
         \/ UNCHANGED agenda
         \/ agenda = <<>> /\ agenda' = Update
  PROVE  ViewsStay
<1>1. Inv /\ agenda \in Seq(Calls) /\ LeaversLeft /\ \A s \in Sessions : GoodFor(s)
  BY DEF ViewsInv, OnceInv, AgendaInv
<1>2. \A r, s : TellState(r).do = "NotifyRoomState" /\ SendLeftTo(s, "Success").do = "SendLeft"
  BY DEF TellState, SendLeftTo
<1>3. \A r, s : /\ Coming(TellState(r)) => Coming(TellState(r))'
                /\ Coming(SendLeftTo(s, "Success")) <=> Coming(SendLeftTo(s, "Success"))'
  <2>1. CASE agenda # <<>> /\ Done /\ agenda[1].do \notin {"NotifyRoomState", "SendLeft"}
    <3>1. \A c : /\ Coming(c)' => Coming(c)
                 /\ Coming(c) /\ c # agenda[1] => Coming(c)'
      BY <1>1, <2>1, DoneTells
    <3>2. \A r, s : TellState(r) # agenda[1] /\ SendLeftTo(s, "Success") # agenda[1]
      BY <1>2, <2>1
    <3> QED
      BY <3>1, <3>2
  <2>2. CASE UNCHANGED agenda
    BY <2>2 DEF Coming
  <2>3. CASE agenda = <<>> /\ agenda' = Update
    <3>1. \A i \in DOMAIN Update : Update[i].do # "SendLeft"
      BY DEF Update, Call
    <3> QED
      BY <1>2, <2>3, <3>1 DEF Coming
  <2> QED
    BY <2>1, <2>2, <2>3
<1>4. ASSUME NEW s \in Sessions PROVE GoodFor(s)'
  <2>1. PICK r : r = users[s].room
    OBVIOUS
  <2> QED
    BY <1>1, <1>3, <2>1, KeptQuiet
<1>5. LeaversLeft'
  BY <1>1, <1>3, LeaversStay
<1> QED
  BY <1>4, <1>5 DEF ViewsStay

\* GAME_END_NTF is read by one of the players the result is for: it is the result his
\* view waits for, or of another game, or his client finds it does not fit.
LEMMA EndTold ==
  ASSUME ViewsInv, PopFinishedGame, First(<<TellState(Head(finished).room)>>),
         NEW s \in Sessions, s \in clients' => s \in clients,
         s \in Head(finished).targets, views'[s] = Read(views[s], EndOf(Head(finished)))
  PROVE  GoodFor(s)'
<1> DEFINE e == Head(finished)
           view == views[s]
           after == views'[s]
           m == EndOf(e)
<1>1. /\ Inv /\ agenda \in Seq(Calls) /\ GoodFor(s) /\ GameEndsOnce
      /\ finished \in Seq(FinishedGames) /\ finished # <<>>
      /\ finished' = Tail(finished) /\ UNCHANGED <<users, rooms>>
  BY DEF ViewsInv, OnceInv, AgendaInv, Inv, TypeOK, PopFinishedGame
<1>2. /\ e = finished[1] /\ 1 \in DOMAIN finished
      /\ \A j \in DOMAIN finished : j # 1 => j - 1 \in DOMAIN finished' /\ finished'[j - 1] = finished[j]
  BY <1>1, Shifted
<1>3. e \in FinishedGames
  BY <1>1, <1>2
<1>4. \A c : Coming(c) => Coming(c)'
  <2>1. <<TellState(e.room)>> \in Seq(Notices)
    BY <1>3, ManagerConstants DEF FinishedGames, RoomIds, Notices
  <2> QED
    BY <1>1, <2>1, FirstTells
<1>5. view \in Views /\ view.error \in {"None", "EndOutOfSync"}
  BY <1>1 DEF GoodFor
<1>6. CASE view.error # "None"
  <2>1. after = view
    BY <1>6, FailedReadsNothing
  <2> QED
    BY <1>5, <1>6, <2>1 DEF GoodFor
<1>7. CASE view.error = "None"
  <2>0. m.type = "GAME_END_NTF" /\ m.state = e.status /\ m.room = e.room /\ m.game = e.game
        /\ m.moves = e.moves /\ e.status \in FinalStatus
    BY <1>3 DEF EndOf, FinishedGames
  <2> HIDE DEF m
  <2>1. /\ after \in Views /\ after.error \in {"None", "EndOutOfSync"}
        /\ ~(view.room = e.room /\ view.game = e.game) => after = view
        /\ view.room = e.room /\ view.game = e.game /\ after.error = "None" =>
             /\ view.playing /\ view.moves = e.moves
             /\ after.room = view.room /\ after.game = view.game
             /\ ~after.playing /\ after.state = e.status
    BY <1>5, <1>7, <2>0, ReadEndIs DEF GameStatus, m
  <2> SUFFICES ASSUME s \in clients, after.error = "None" PROVE ViewOK(s)'
    BY <2>1 DEF GoodFor
  <2>2. ViewOK(s)
    BY <1>1, <1>7 DEF GoodFor
  <2>3. CASE Away(s)
    <3>1. Away(s)'
      BY <1>1, <2>3 DEF Away, LoggedIn
    <3>2. CASE KnowsNoRoom(view)
      <4>1. after = view
        BY <1>3, <2>1, <3>2 DEF KnowsNoRoom, FinishedGames, RoomIds, NoRoomId
      <4> QED
        BY <3>1, <3>2, <4>1, AwayViewNext
    <3>3. CASE Coming(SendLeftTo(s, "Success"))
      BY <1>4, <3>1, <3>3, AwayViewNext
    <3> QED
      BY <2>2, <2>3, <3>2, <3>3, AwayView
  <2>4. CASE ~Away(s)
    <3>1. PICK r : r = users[s].room
      OBVIOUS
    <3> DEFINE room == rooms[r]
    <3>2. ~Away(s)' /\ users'[s].room = r /\ rooms'[r] = room
      BY <1>1, <2>4, <3>1 DEF Away, LoggedIn
    <3>3. r \in LiveRooms
      BY <1>1, <2>4, <3>1, InRoom
    <3>4. e.room = r /\ e.game = room.gameId => room.phase # "Playing"
      BY <1>1, <1>2, <3>3 DEF GameEndsOnce
    <3>5. CASE Agrees(view, r, room)
      <4>1. after = view
        BY <2>1, <3>4, <3>5 DEF Agrees
      <4> QED
        BY <3>2, <3>5, <4>1, InRoomViewNext
    <3>6. CASE Outdated(view, r, room) /\ Coming(TellState(r))
      <4>1. Outdated(after, r, room)
        BY <2>1, <3>6 DEF Outdated
      <4> QED
        BY <1>4, <3>2, <3>6, <4>1, InRoomViewNext
    <3>7. ASSUME NEW i \in DOMAIN finished, AwaitsEnd(s, view, r, room, finished[i])
          PROVE  ViewOK(s)'
      <4>1. CASE i = 1
        <5>1. Agrees(after, r, room)
          BY <1>2, <2>0, <2>1, <3>7, <4>1 DEF AwaitsEnd, Agrees, FinalStatus
        <5> QED
          BY <3>2, <5>1, InRoomViewNext
      <4>2. CASE i # 1
        <5>1. finished[i].game # e.game
          BY <1>1, <1>2, <4>2 DEF GameEndsOnce
        <5>2. after = view
          BY <2>1, <3>7, <5>1 DEF AwaitsEnd
        <5>3. i - 1 \in DOMAIN finished' /\ finished'[i - 1] = finished[i]
          BY <1>2, <4>2
        <5> QED
          BY <3>2, <3>7, <5>2, <5>3, InRoomViewNext
      <4> QED
        BY <4>1, <4>2
    <3> QED
      BY <2>2, <2>4, <3>1, <3>5, <3>6, <3>7, InRoomView
  <2> QED
    BY <2>3, <2>4
<1> QED
  BY <1>5, <1>6, <1>7

\* FlushFinishedGames
LEMMA FlushStays ==
  ASSUME ViewsInv, FlushFinishedGames
  PROVE  ViewsStay
<1> DEFINE e == Head(finished)
<1>1. /\ Inv /\ agenda \in Seq(Calls) /\ LeaversLeft /\ \A s \in Sessions : GoodFor(s)
      /\ finished \in Seq(FinishedGames)
      /\ agenda # <<>> /\ agenda[1].do = "FlushFinishedGames"
  BY DEF ViewsInv, OnceInv, AgendaInv, Inv, TypeOK, FlushFinishedGames, Doing
<1>2. CASE finished = <<>> /\ Done /\ Quiet /\ UNCHANGED vars
  <2>1. UNCHANGED <<users, rooms, finished, views>> /\ clients' \subseteq clients
    BY <1>2 DEF Quiet, vars
  <2> QED
    BY <1>1, <1>2, <2>1, QuietStays
<1>3. CASE PopFinishedGame /\ SendTo(e.targets, EndOf(e), events) /\ First(<<TellState(e.room)>>)
  <2>1. /\ finished # <<>> /\ finished' = Tail(finished) /\ UNCHANGED <<users, rooms>>
    BY <1>3 DEF PopFinishedGame
  <2>2. /\ e = finished[1]
        /\ \A j \in DOMAIN finished : j # 1 => j - 1 \in DOMAIN finished' /\ finished'[j - 1] = finished[j]
        /\ e \in FinishedGames
    BY <1>1, <2>1, Shifted
  <2>3. <<TellState(e.room)>> \in Seq(Notices)
    BY <2>2, ManagerConstants DEF FinishedGames, RoomIds, Notices
  <2>4. /\ \A c : Coming(c) => Coming(c)'
        /\ \A s : Coming(SendLeftTo(s, "Success"))' => Coming(SendLeftTo(s, "Success"))
    <3>1. \A c : /\ Coming(c) => Coming(c)'
                 /\ Coming(c)' => Coming(c) \/ c = TellState(e.room)
      <4>1. PICK call : call = TellState(e.room)
        OBVIOUS
      <4>2. <<call>> \in Seq(Notices) /\ First(<<call>>)
        BY <1>3, <2>3, <4>1
      <4>3. \A i \in DOMAIN <<call>> : <<call>>[i] = call
        OBVIOUS
      <4> QED
        BY <1>1, <4>1, <4>2, <4>3, FirstTells
    <3>2. \A s : SendLeftTo(s, "Success") # TellState(e.room)
      BY DEF SendLeftTo, TellState
    <3> QED
      BY <3>1, <3>2
  <2>5. ASSUME NEW s \in Sessions PROVE GoodFor(s)'
    <3>1. /\ s \in clients' => s \in clients
          /\ \/ s \in e.targets /\ s \in clients' /\ views'[s] = Read(views[s], EndOf(e))
             \/ views'[s] = views[s] /\ (s \in clients' => s \notin e.targets)
      BY <1>3, SendIs
    <3>2. CASE s \in e.targets /\ views'[s] = Read(views[s], EndOf(e))
      BY <1>3, <3>1, <3>2, EndTold
    <3>3. CASE views'[s] = views[s] /\ (s \in clients' => s \notin e.targets)
      <4> SUFFICES ASSUME s \in clients', ViewOK(s) PROVE ViewOK(s)'
        BY <1>1, <3>1, <3>3 DEF GoodFor
      <4>1. CASE Away(s)
        <5>1. Away(s)'
          BY <2>1, <4>1 DEF Away, LoggedIn
        <5>2. KnowsNoRoom(views'[s]) \/ Coming(SendLeftTo(s, "Success"))'
          BY <2>4, <3>3, <4>1, AwayView
        <5> QED
          BY <5>1, <5>2, AwayViewNext
      <4>2. CASE ~Away(s)
        <5>1. PICK r : r = users[s].room
          OBVIOUS
        <5>2. ~Away(s)' /\ users'[s].room = r /\ rooms'[r] = rooms[r]
          BY <2>1, <4>2, <5>1 DEF Away, LoggedIn
        <5>3. \/ Agrees(views[s], r, rooms[r])
              \/ Outdated(views[s], r, rooms[r]) /\ Coming(TellState(r))
              \/ \E i \in DOMAIN finished : AwaitsEnd(s, views[s], r, rooms[r], finished[i])
          BY <4>2, <5>1, InRoomView
        <5>4. ASSUME NEW i \in DOMAIN finished, AwaitsEnd(s, views[s], r, rooms[r], finished[i])
              PROVE  \E j \in DOMAIN finished' : AwaitsEnd(s, views[s], r, rooms[r], finished'[j])
          <6>1. i # 1
            BY <2>2, <3>3, <5>4 DEF AwaitsEnd
          <6> QED
            BY <2>2, <5>4, <6>1
        <5> QED
          BY <2>4, <3>3, <5>2, <5>3, <5>4, InRoomViewNext
      <4> QED
        BY <4>1, <4>2
    <3> QED
      BY <3>1, <3>2, <3>3
  <2>6. LeaversLeft'
    BY <1>1, <2>1, <2>4, LeaversStay
  <2> QED
    BY <2>5, <2>6 DEF ViewsStay
<1>4. finished # <<>> => IsValidGameEnd(EndOf(e))
  BY HeadIsValid DEF ViewsInv, DeadlinesInv, ManagersInv
<1> QED
  BY <1>2, <1>3, <1>4 DEF FlushFinishedGames, PopFinishedGame

-----------------------------------------------------------------------------
(* The rest of what Update says *)

\* ROOM_STATE_NTF is read by a member of the room: afterwards he knows it.
LEMMA StateTold ==
  ASSUME ViewsInv, NEW r, RoomExists(r), UNCHANGED <<users, rooms>>,
         NEW s \in rooms[r].members, s \in clients,
         views'[s] = Read(views[s], StateOf(r))
  PROVE  GoodFor(s)'
<1> DEFINE view == views[s]
           after == views'[s]
           room == rooms[r]
           m == StateOf(r)
<1>1. /\ Inv /\ r \in LiveRooms /\ r \in RoomIds /\ r \in Nat
      /\ room \in Rooms /\ GoodRoom(room)
  <2>1. Inv /\ r \in LiveRooms
    BY DEF ViewsInv, OnceInv, RoomExists, LiveRooms
  <2> QED
    BY <2>1, LiveRoomsGood, ManagerConstants DEF RoomIds
<1>2. /\ s \in Sessions /\ LoggedIn(s) /\ users[s].state = "InRoom" /\ users[s].room = r
  BY <1>1 DEF Inv, MembersAgree, Rooms
<1>3. /\ ~Away(s) /\ ~Away(s)' /\ users'[s].room = r /\ rooms'[r] = room
  BY <1>2 DEF Away, LoggedIn
<1>4. view \in Views /\ view.error \in {"None", "EndOutOfSync"} /\ GoodFor(s)
  BY <1>2 DEF ViewsInv, GoodFor
<1>5. CASE view.error # "None"
  <2>1. after = view
    BY <1>5, FailedReadsNothing
  <2> QED
    BY <1>4, <1>5, <2>1 DEF GoodFor
<1>6. CASE view.error = "None"
  <2>1. \/ Agrees(view, r, room)
        \/ Outdated(view, r, room)
        \/ \E i \in DOMAIN finished : AwaitsEnd(s, view, r, room, finished[i])
    <3>1. ViewOK(s)
      BY <1>4, <1>6 DEF GoodFor
    <3> QED
      BY <1>2, <1>3, <3>1, InRoomView
  <2>2. m.type = "ROOM_STATE_NTF" /\ m.room = r /\ m.game = room.gameId /\ m.phase = room.phase
    BY DEF StateOf
  <2>3. room.gameId \in Nat
    BY <1>1, RoomConstants DEF Rooms
  <2> HIDE DEF m
  <2>4. CASE room.phase # "Playing"
    <3>1. /\ after \in Views /\ after.error = "None"
          /\ after.room = r /\ after.game = room.gameId /\ ~after.playing
          /\ after.state \in FinalStatus =>
               view.room = r /\ view.game = room.gameId /\ after.state = view.state
      BY <1>1, <1>4, <1>6, <2>2, <2>3, <2>4, ReadWaiting DEF m
    <3>2. after.state \in FinalStatus /\ room.game.status \in FinalStatus
            => after.state = room.game.status
      BY <2>1, <3>1 DEF Agrees, Outdated, AwaitsEnd, FinalStatus
    <3>3. Agrees(after, r, room)
      BY <2>4, <3>1, <3>2 DEF Agrees
    <3> QED
      BY <1>3, <3>1, <3>3, InRoomViewNext DEF GoodFor
  <2>5. CASE room.phase = "Playing"
    <3>1. /\ after \in Views
          /\ ~(view.room = r /\ view.game = room.gameId) => after = BegunView(r, room.gameId)
          /\ view.room = r /\ view.game = room.gameId /\ view.playing => after = view
      BY <1>1, <1>4, <1>6, <2>2, <2>3, <2>5, ReadPlaying DEF m
    <3>2. CASE Outdated(view, r, room)
      <4>1. after = BegunView(r, room.gameId) /\ room.game = StartedGame
        BY <2>5, <3>1, <3>2 DEF Outdated
      <4>2. /\ Agrees(after, r, room) /\ after.error = "None"
        BY <2>5, <4>1 DEF Agrees, BegunView, StartedGame, FinalStatus
      <4> QED
        BY <1>3, <3>1, <4>2, InRoomViewNext DEF GoodFor
    <3>3. CASE Agrees(view, r, room)
      <4>1. after = view
        BY <2>5, <3>1, <3>3 DEF Agrees
      <4> QED
        BY <1>3, <1>4, <3>3, <4>1, InRoomViewNext DEF GoodFor
    <3> QED
      BY <2>1, <2>5, <3>2, <3>3 DEF AwaitsEnd
  <2> QED
    BY <2>4, <2>5
<1> QED
  BY <1>4, <1>5, <1>6

\* NotifyRoomState
LEMMA StateStays ==
  ASSUME ViewsInv, NotifyRoomState
  PROVE  ViewsStay
<1>1. /\ Inv /\ agenda \in Seq(Calls) /\ LeaversLeft /\ \A s \in Sessions : GoodFor(s)
      /\ agenda # <<>> /\ agenda[1].do = "NotifyRoomState" /\ Done
      /\ UNCHANGED <<users, rooms, finished>>
  BY DEF ViewsInv, OnceInv, AgendaInv, NotifyRoomState, Doing, vars
<1>2. PICK r : r = agenda[1].room
  OBVIOUS
<1>3. IF RoomExists(r) THEN SendTo(rooms[r].members, StateOf(r), events) ELSE Quiet
  BY <1>1, <1>2, RoomStateIsValid DEF NotifyRoomState, StateKnown
<1>4. /\ \A c : Coming(c)' => Coming(c)
      /\ \A s : Coming(SendLeftTo(s, "Success")) => Coming(SendLeftTo(s, "Success"))'
      /\ \A q : Coming(TellState(q)) /\ q # r => Coming(TellState(q))'
  <2>1. \A c : /\ Coming(c)' => Coming(c)
               /\ Coming(c) /\ c # agenda[1] => Coming(c)'
    BY <1>1, DoneTells
  <2>2. \A s, q : /\ SendLeftTo(s, "Success") # agenda[1]
                  /\ q # r => TellState(q) # agenda[1]
    BY <1>1, <1>2 DEF SendLeftTo, TellState
  <2> QED
    BY <2>1, <2>2
<1>5. ASSUME NEW s \in Sessions PROVE GoodFor(s)'
  <2>1. CASE RoomExists(r) /\ s \in rooms[r].members /\ s \in clients'
    <3>1. s \in clients /\ views'[s] = Read(views[s], StateOf(r))
      BY <1>3, <2>1, SendIs
    <3> QED
      BY <1>1, <2>1, <3>1, StateTold
  <2>2. CASE ~(RoomExists(r) /\ s \in rooms[r].members /\ s \in clients')
    <3>1. (s \in clients' => s \in clients) /\ views'[s] = views[s]
      BY <1>3, <2>2, SendIs DEF Quiet
    <3> SUFFICES ASSUME s \in clients' PROVE GoodFor(s)'
      BY <1>1, <3>1 DEF GoodFor
    <3>2. PICK q : q = users[s].room
      OBVIOUS
    <3>3. ~Away(s) => q # r
      BY <1>1, <2>2, <3>2, InRoom DEF RoomExists, LiveRooms
    <3> QED
      BY <1>1, <1>4, <3>1, <3>2, <3>3, KeptQuiet
  <2> QED
    BY <2>1, <2>2
<1>6. LeaversLeft'
  BY <1>1, <1>4, LeaversStay
<1> QED
  BY <1>5, <1>6 DEF ViewsStay

\* SendLeft: who has left knows no room any more.
LEMMA LeftStays ==
  ASSUME ViewsInv, SendLeft
  PROVE  ViewsStay
<1>1. /\ Inv /\ agenda \in Seq(Calls) /\ LeaversLeft /\ \A s \in Sessions : GoodFor(s)
      /\ agenda # <<>> /\ agenda[1].do = "SendLeft" /\ Done /\ agenda[1] \in Calls
      /\ UNCHANGED <<users, rooms, finished>>
  BY DEF ViewsInv, OnceInv, AgendaInv, SendLeft, Doing, vars
<1>2. PICK t, result : agenda[1] = SendLeftTo(t, result)
  <2>1. \A c \in Calls : c.do = "SendLeft" => \E t, result : c = SendLeftTo(t, result)
    BY DEF Calls, Notices, Call, Tell, TellState
  <2> QED
    BY <1>1, <2>1
<1>3. agenda[1].session = t /\ agenda[1].result = result
  BY <1>2 DEF SendLeftTo
<1>4. \A c : /\ Coming(c)' => Coming(c)
             /\ Coming(c) /\ c # agenda[1] => Coming(c)'
  BY <1>1, DoneTells
<1>5. /\ \A r : Coming(TellState(r)) => Coming(TellState(r))'
      /\ \A s : (s # t \/ result # "Success") =>
                (Coming(SendLeftTo(s, "Success")) => Coming(SendLeftTo(s, "Success"))')
  <2>1. \A r : TellState(r) # agenda[1]
    BY <1>2 DEF SendLeftTo, TellState
  <2>2. \A s : s # t \/ result # "Success" => SendLeftTo(s, "Success") # agenda[1]
    BY <1>2 DEF SendLeftTo
  <2> QED
    BY <1>4, <2>1, <2>2
<1>6. LeaversLeft'
  BY <1>1, <1>4, LeaversStay
<1>7. ASSUME NEW s \in Sessions PROVE GoodFor(s)'
  <2>1. PICK r : r = users[s].room
    OBVIOUS
  <2>2. CASE result # "Success"
    <3>1. views'[s] = views[s] /\ clients' \subseteq clients
      BY <1>3, <2>2, AnswerIs DEF SendLeft
    <3>2. Coming(SendLeftTo(s, "Success")) => Coming(SendLeftTo(s, "Success"))'
      BY <1>5, <2>2
    <3> QED
      BY <1>1, <1>5, <2>1, <3>1, <3>2, KeptQuiet
  <2>3. CASE result = "Success"
    <3> DEFINE m == [type |-> "ROOM_LEAVE_RES"]
    <3>1. SendTo({t}, m, events)
      BY <1>3, <2>3 DEF SendLeft
    <3>2. /\ s \in clients' => s \in clients
          /\ \/ s = t /\ s \in clients' /\ views'[s] = Read(views[s], m)
             \/ views'[s] = views[s] /\ (s \in clients' => s # t)
      BY <3>1, SendIs
    <3>3. CASE s = t /\ views'[s] = Read(views[s], m) /\ views[s].error = "None"
      <4>1. views'[s] = ResetView(0)
        BY <3>3, ReadLeftIs
      <4>2. Coming(SendLeftTo(s, "Success"))
        BY <1>1, <1>2, <2>3, <3>3 DEF Coming
      <4>3. Away(s)'
        BY <1>1, <4>2 DEF LeaversLeft, Away
      <4>4. ViewOK(s)'
        BY <4>1, <4>3, ResetIs, AwayViewNext DEF KnowsNoRoom, NoRoomId
      <4> QED
        BY <4>1, <4>4, ResetIs DEF GoodFor
    <3>4. CASE s = t /\ views'[s] = Read(views[s], m) /\ views[s].error # "None"
      <4>1. views'[s] = views[s]
        BY <3>4, FailedReadsNothing
      <4> QED
        BY <1>1, <3>4, <4>1 DEF GoodFor
    <3>5. CASE views'[s] = views[s] /\ (s \in clients' => s # t)
      <4>1. CASE s \notin clients'
        BY <1>1, <3>5, <4>1 DEF GoodFor
      <4>2. CASE s \in clients'
        <5>1. Coming(SendLeftTo(s, "Success")) => Coming(SendLeftTo(s, "Success"))'
          BY <1>5, <3>5, <4>2
        <5> QED
          BY <1>1, <1>5, <2>1, <3>2, <3>5, <5>1, KeptQuiet
      <4> QED
        BY <4>1, <4>2
    <3> QED
      BY <3>2, <3>3, <3>4, <3>5
  <2> QED
    BY <2>2, <2>3
<1> QED
  BY <1>6, <1>7 DEF ViewsStay

\* UpdateTimeouts: games are over, and their results queued.
LEMMA TimeoutsStay ==
  ASSUME ViewsInv, CallUpdateTimeouts
  PROVE  ViewsStay
<1>1. /\ Inv /\ agenda \in Seq(Calls) /\ LeaversLeft /\ \A s \in Sessions : GoodFor(s)
      /\ agenda # <<>> /\ agenda[1].do = "UpdateTimeouts" /\ Done
      /\ UNCHANGED <<views, clients>>
  BY DEF ViewsInv, OnceInv, AgendaInv, CallUpdateTimeouts, Doing, Quiet
<1>2. CASE UNCHANGED vars
  <2>1. UNCHANGED <<users, rooms, finished>>
    BY <1>2 DEF vars
  <2> QED
    BY <1>1, <2>1, QuietStays
<1>3. CASE UpdateTimeouts
  <2>1. UNCHANGED users
    BY <1>3 DEF UpdateTimeouts
  <2>2. Retained /\ \A r \in LiveRooms : Silent(r)
    BY <1>1, <1>3, TimeoutsSilent
  <2>3. ASSUME NEW s \in Sessions PROVE GoodFor(s)'
    <3>1. ~Away(s) => Silent(users[s].room)
      BY <1>1, <2>2, InRoom
    <3> QED
      BY <1>1, <2>1, <2>2, <3>1, KeptAtWork DEF Works
  <2>4. LeaversLeft'
    <3>1. \A c : Coming(c)' => Coming(c)
      BY <1>1, DoneTells
    <3> QED
      BY <1>1, <2>1, <3>1, LeaversStay
  <2> QED
    BY <2>3, <2>4 DEF ViewsStay
<1> QED
  BY <1>2, <1>3 DEF CallUpdateTimeouts

\* NotifyRoomMember, CheckLoginTimeouts, and the steps of the network but Accept: no
\* view is about what they do.
LEMMA OthersStay ==
  ASSUME ViewsInv,
         \/ NotifyRoomMember \/ CheckLoginTimeouts \/ BeginUpdate
         \/ \E s \in Sessions : HangUp(s) \/ \E p \in ClientPackets : Receive(s, p)
         \/ UNCHANGED serverVars
  PROVE  ViewsStay
<1>1. CASE NotifyRoomMember
  <2>1. UNCHANGED <<views>> /\ clients' \subseteq clients
    BY <1>1, AnswerIs DEF NotifyRoomMember
  <2> QED
    BY <1>1, <2>1, QuietStays DEF NotifyRoomMember, Doing, vars
<1>2. CASE CheckLoginTimeouts
  <2>1. UNCHANGED <<views>> /\ clients' \subseteq clients
    BY <1>2 DEF CheckLoginTimeouts, Disconnecting
  <2> QED
    BY <1>2, <2>1, QuietStays DEF CheckLoginTimeouts, Doing, vars
<1>3. CASE BeginUpdate
  BY <1>3, QuietStays DEF BeginUpdate, Quiet, vars
<1>4. ASSUME NEW s \in Sessions, HangUp(s) \/ \E p \in ClientPackets : Receive(s, p)
      PROVE  ViewsStay
  BY <1>4, QuietStays DEF HangUp, Receive, Disconnecting, vars
<1>5. CASE UNCHANGED serverVars
  BY <1>5, QuietStays DEF serverVars, vars
<1> QED
  BY <1>1, <1>2, <1>3, <1>4, <1>5

\* The clock
LEMMA TimeStays ==
  ASSUME ViewsInv, PassTime
  PROVE  ViewsStay
<1>1. /\ Inv /\ LeaversLeft /\ (\A s \in Sessions : GoodFor(s))
      /\ UNCHANGED <<agenda, views, clients, users>>
  BY DEF ViewsInv, OnceInv, PassTime, Tick, vars
<1>2. \A c : Coming(c)' <=> Coming(c)
  BY <1>1 DEF Coming
<1>3. Retained /\ \A r \in LiveRooms : SameGame(rooms[r], rooms'[r])
  BY <1>1, RequestsSame, SameRooms DEF PassTime, vars
<1>4. ASSUME NEW s \in Sessions PROVE GoodFor(s)'
  <2>1. PICK r : r = users[s].room
    OBVIOUS
  <2>2. ~Away(s) => SameGame(rooms[r], rooms'[r])
    BY <1>1, <1>3, <2>1, InRoom
  <2> QED
    BY <1>1, <1>2, <1>3, <2>1, <2>2, KeptView
<1>5. LeaversLeft'
  BY <1>1, <1>2, LeaversStay
<1> QED
  BY <1>4, <1>5 DEF ViewsStay

\* A new connection knows nothing, and has no user.
LEMMA AcceptStays ==
  ASSUME ViewsInv, NEW c \in Sessions, Accept(c)
  PROVE  ViewsStay
<1>1. /\ Inv /\ LeaversLeft /\ (\A s \in Sessions : GoodFor(s)) /\ DOMAIN views = Sessions
      /\ UNCHANGED <<agenda, users, rooms, finished>> /\ ~LoggedIn(c)
      /\ clients' = clients \cup {c} /\ views' = [views EXCEPT ![c] = ResetView(0)]
  BY DEF ViewsInv, OnceInv, Accept, vars
<1>2. \A call : Coming(call)' <=> Coming(call)
  BY <1>1 DEF Coming
<1>3. ASSUME NEW s \in Sessions PROVE GoodFor(s)'
  <2>1. CASE s = c
    <3>1. views'[s] = ResetView(0) /\ Away(s)'
      BY <1>1, <2>1 DEF Away, LoggedIn
    <3>2. ViewOK(s)'
      BY <3>1, ResetIs, AwayViewNext DEF KnowsNoRoom, NoRoomId
    <3> QED
      BY <3>1, <3>2, ResetIs DEF GoodFor
  <2>2. CASE s # c
    <3>1. PICK r : r = users[s].room
      OBVIOUS
    <3> QED
      BY <1>1, <1>2, <2>2, <3>1, KeptQuiet
  <2> QED
    BY <2>1, <2>2
<1>4. LeaversLeft'
  BY <1>1, <1>2, LeaversStay
<1> QED
  BY <1>3, <1>4 DEF ViewsStay

-----------------------------------------------------------------------------
(* The packets *)

\* An event is looked at: no notice is pending, so every view is right, or a result is
\* on its way to it.
LEMMA AtDrain ==
  ASSUME ViewsInv, Doing("Drain")
  PROVE  /\ Inv /\ agenda \in Seq(Calls) /\ \A s \in Sessions : GoodFor(s)
         /\ agenda # <<>> /\ agenda[1].do \in Works
         /\ \A r, s : ~Coming(TellState(r)) /\ ~Coming(SendLeftTo(s, "Success"))
<1>1. /\ Inv /\ agenda \in Seq(Calls) /\ (\A s \in Sessions : GoodFor(s)) /\ NoticesFirst(agenda)
      /\ agenda # <<>> /\ agenda[1].do = "Drain"
  BY DEF ViewsInv, OnceInv, AgendaInv, Doing
<1> QED
  BY <1>1, NothingComing DEF Works

\* Calls that tell nobody that he has left.
TellsNoLeaver(notices) ==
  \A i \in DOMAIN notices, s \in Sessions : notices[i] # SendLeftTo(s, "Success")

\* Nobody is told that he has left but by HandleRoomLeave.
LEMMA NobodyLeft ==
  ASSUME ViewsInv, Doing("Drain"),
         \/ UNCHANGED agenda
         \/ Done
         \/ \E notices \in Seq(Notices) :
              First(notices) /\ TellsNoLeaver(notices)
  PROVE  LeaversLeft'
<1>1. /\ agenda \in Seq(Calls) /\ agenda # <<>>
      /\ \A s : ~Coming(SendLeftTo(s, "Success"))
  BY AtDrain
<1>2. \A s \in Sessions : ~Coming(SendLeftTo(s, "Success"))'
  <2>1. CASE UNCHANGED agenda
    BY <1>1, <2>1 DEF Coming
  <2>2. CASE Done
    BY <1>1, <2>2, DoneTells
  <2>3. ASSUME NEW notices \in Seq(Notices), First(notices), TellsNoLeaver(notices)
        PROVE  \A s \in Sessions : ~Coming(SendLeftTo(s, "Success"))'
    <3>1. \A c : Coming(c)' => Coming(c) \/ \E i \in DOMAIN notices : notices[i] = c
      BY <1>1, <2>3, FirstTells
    <3> QED
      BY <1>1, <2>3, <3>1 DEF TellsNoLeaver
  <2> QED
    BY <2>1, <2>2, <2>3
<1> QED
  BY <1>2 DEF LeaversLeft

\* One, two or three calls.
LEMMA FewCalls ==
  ASSUME NEW S, NEW a \in S, NEW b \in S, NEW f \in S
  PROVE  /\ <<b>> \in Seq(S) /\ <<a>> \in Seq(S) /\ <<a, b>> \in Seq(S)
         /\ <<f>> \o <<a, b>> \in Seq(S) /\ <<f>> \o <<>> \in Seq(S)
         /\ <<f, b>> \in Seq(S)
OBVIOUS

\* The notices of the handlers about a room.
LEMMA RoomNotices ==
  ASSUME NEW r \in Nat,
         NEW notices \in {<<TellState(r)>>, <<Tell(r)>>, <<Tell(r), TellState(r)>>,
                          <<Call("FlushFinishedGames")>> \o <<Tell(r), TellState(r)>>,
                          <<Call("FlushFinishedGames")>> \o <<>>}
  PROVE  notices \in Seq(Notices) /\ TellsNoLeaver(notices)
<1> DEFINE Others == {Tell(r), TellState(r), Call("FlushFinishedGames")}
<1>1. Others \subseteq Notices
  BY DEF Notices
<1>2. notices \in Seq(Others)
  <2>1. Tell(r) \in Others /\ TellState(r) \in Others /\ Call("FlushFinishedGames") \in Others
    OBVIOUS
  <2> HIDE DEF Others
  <2> QED
    BY <2>1, FewCalls
<1>3. notices \in Seq(Notices)
  BY <1>1, NoticeSequences
<1>4. \A c \in Others : c.do # "SendLeft"
  BY DEF Tell, TellState, Call
<1>5. \A s : SendLeftTo(s, "Success").do = "SendLeft"
  BY DEF SendLeftTo
<1> HIDE DEF Others
<1>6. \A i \in DOMAIN notices : notices[i] \in Others
  BY <1>2
<1> QED
  BY <1>3, <1>4, <1>5, <1>6 DEF TellsNoLeaver

\* An event after which everybody who is still connected has the user he had, and to
\* whose room nothing was done that its members are told by a message.
LEMMA StillStay ==
  ASSUME ViewsInv, Doing("Drain"), UNCHANGED views, clients' \subseteq clients, Retained,
         NEW s \in Sessions,
         s \in clients' => users'[s] = users[s] /\ (~Away(s) => Silent(users[s].room))
  PROVE  GoodFor(s)'
<1>1. agenda # <<>> /\ agenda[1].do \in Works /\ GoodFor(s)
  BY AtDrain
<1>2. CASE s \in clients'
  BY <1>1, <1>2, KeptAtWork
<1>3. CASE s \notin clients'
  BY <1>1, <1>3 DEF GoodFor
<1> QED
  BY <1>2, <1>3

\* Refused requests, bad packets, and whatever else leaves users and rooms alone.
LEMMA RefusedStays ==
  ASSUME ViewsInv, Doing("Drain"), UNCHANGED <<views, users, rooms, finished>>,
         clients' \subseteq clients,
         \/ UNCHANGED agenda
         \/ Done
         \/ \E notices \in Seq(Notices) :
              First(notices) /\ TellsNoLeaver(notices)
  PROVE  ViewsStay
<1>1. Inv
  BY AtDrain
<1>2. Retained /\ \A r \in LiveRooms : SameGame(rooms[r], rooms'[r])
  BY <1>1, SameRooms
<1>3. \A s \in Sessions : ~Away(s) => Silent(users[s].room)
  BY <1>1, <1>2, InRoom DEF Silent
<1> QED
  BY <1>2, <1>3, StillStay, NobodyLeft DEF ViewsStay

\* HandleLogin: who logs in knows no room, and is in none.
LEMMA LoginStays ==
  ASSUME ViewsInv, Doing("Drain"), NEW c \in Sessions, NEW nick, HandleLogin(c, nick)
  PROVE  ViewsStay
<1>1. UNCHANGED <<views, agenda>> /\ clients' \subseteq clients
  BY AnswerIs DEF HandleLogin, Reply, Refuse
<1>2. CASE UNCHANGED vars
  BY <1>1, <1>2, RefusedStays DEF vars
<1>3. CASE Login(c, nick)
  <2>1. /\ Inv /\ GoodFor(c)
        /\ \A r, s : ~Coming(TellState(r)) /\ ~Coming(SendLeftTo(s, "Success"))
    BY AtDrain
  <2>2. Retained /\ \A r \in LiveRooms : SameGame(rooms[r], rooms'[r])
    BY <1>3, <2>1, RequestsSame
  <2>3. /\ ~LoggedIn(c)
        /\ users' = [users EXCEPT ![c] = [nick |-> nick, state |-> "Lobby", room |-> NoRoomId]]
    BY <1>3 DEF Login, LoginResult
  <2>4. /\ users'[c].state = "Lobby"
        /\ \A s \in Sessions : s # c => users'[s] = users[s]
    BY <2>1, <2>3 DEF Inv, TypeOK
  <2>5. ASSUME NEW s \in Sessions, s # c PROVE GoodFor(s)'
    <3>1. ~Away(s) => Silent(users[s].room)
      BY <2>1, <2>2, InRoom DEF Silent
    <3> QED
      BY <1>1, <2>2, <2>4, <2>5, <3>1, StillStay
  <2>6. GoodFor(c)'
    <3>1. Away(c) /\ Away(c)'
      BY <2>3, <2>4 DEF Away
    <3>2. ViewOK(c) => KnowsNoRoom(views'[c])
      BY <1>1, <2>1, <3>1, AwayView
    <3>3. ViewOK(c) => ViewOK(c)'
      BY <3>1, <3>2, AwayViewNext
    <3> QED
      BY <1>1, <2>1, <3>3 DEF GoodFor
  <2> QED
    BY <1>1, <2>5, <2>6, NobodyLeft DEF ViewsStay
<1> QED
  BY <1>2, <1>3 DEF HandleLogin, Refuse

\* HandleChat
LEMMA ChatStays ==
  ASSUME ViewsInv, Doing("Drain"), NEW c \in Sessions, HandleChat(c)
  PROVE  ViewsStay
<1>1. UNCHANGED views /\ UNCHANGED vars /\ clients' \subseteq clients
  BY AnswerIs DEF HandleChat, Reply, Refuse
<1>2. CASE UNCHANGED agenda
  BY <1>1, <1>2, RefusedStays DEF vars
<1>3. CASE MemberResult(c) = "Success" /\ First(<<Tell(users[c].room)>>)
  <2>1. users[c].room \in Nat
    BY <1>3, AtDrain, RoomNumbers DEF MemberResult
  <2>2. PICK notices : notices = <<Tell(users[c].room)>>
    OBVIOUS
  <2>3. notices \in Seq(Notices) /\ First(notices) /\ TellsNoLeaver(notices)
    BY <1>3, <2>1, <2>2, RoomNotices
  <2> QED
    BY <1>1, <2>3, RefusedStays DEF vars
<1> QED
  BY <1>2, <1>3 DEF HandleChat, Refuse

\* User::EnterRoom
LEMMA RoomedUser ==
  ASSUME NEW user \in Users, NEW r \in RoomIds
  PROVE  /\ InRoomUser(user, r) \in Users
         /\ InRoomUser(user, r).state = "InRoom" /\ InRoomUser(user, r).room = r
<1>1. r \in 0..MaxRoomId
  BY ManagerConstants DEF RoomIds
<1> QED
  BY <1>1 DEF InRoomUser, Users

\* What the newcomer's view is about to learn, and that the others' stay as they are.
LEMMA NewcomerStays ==
  ASSUME ViewsInv, Doing("Drain"), NEW c \in Sessions, NEW r \in RoomIds,
         Away(c), UNCHANGED views, clients' \subseteq clients,
         Retained, \A q \in LiveRooms : SameGame(rooms[q], rooms'[q]),
         \A s \in Sessions : s # c => users'[s] = users[s],
         LoggedIn(c)', users'[c].state = "InRoom", users'[c].room = r,
         rooms'[r].phase # "Playing",
         First(<<Tell(r), TellState(r)>>)
  PROVE  ViewsStay
<1>1. /\ Inv /\ GoodFor(c) /\ agenda \in Seq(Calls)
      /\ \A q, s : ~Coming(TellState(q)) /\ ~Coming(SendLeftTo(s, "Success"))
  BY AtDrain
<1>2. <<Tell(r), TellState(r)>> \in Seq(Notices) /\ TellsNoLeaver(<<Tell(r), TellState(r)>>)
  <2>1. r \in Nat
    BY ManagerConstants DEF RoomIds
  <2> QED
    BY <2>1, RoomNotices
<1>3. Coming(TellState(r))'
  <2>1. <<Tell(r), TellState(r)>>[2] = TellState(r) /\ 2 \in DOMAIN <<Tell(r), TellState(r)>>
    OBVIOUS
  <2> QED
    BY <1>1, <1>2, <2>1, FirstTells
<1>4. ASSUME NEW s \in Sessions, s # c PROVE GoodFor(s)'
  <2>1. ~Away(s) => Silent(users[s].room)
    BY <1>1, InRoom DEF Silent
  <2> QED
    BY <1>4, <2>1, StillStay
<1>5. GoodFor(c)'
  <2> SUFFICES ASSUME ViewOK(c) PROVE ViewOK(c)'
    BY <1>1 DEF GoodFor
  <2>1. views'[c].room = NoRoomId
    BY <1>1, AwayView DEF KnowsNoRoom
  <2>2. Outdated(views'[c], r, rooms'[r])
    BY <2>1, ManagerConstants DEF Outdated, RoomIds, NoRoomId
  <2>3. ~Away(c)'
    BY DEF Away
  <2> QED
    BY <1>3, <2>2, <2>3, InRoomViewNext
<1>6. LeaversLeft'
  BY <1>2, NobodyLeft
<1> QED
  BY <1>4, <1>5, <1>6 DEF ViewsStay

\* HandleRoomCreate
LEMMA CreateStays ==
  ASSUME ViewsInv, Doing("Drain"), NEW c \in Sessions, HandleRoomCreate(c)
  PROVE  ViewsStay
<1>1. UNCHANGED views /\ clients' \subseteq clients
  BY AnswerIs DEF HandleRoomCreate, Reply, Refuse
<1>2. CASE UNCHANGED <<vars, agenda>>
  BY <1>1, <1>2, RefusedStays DEF vars
<1>3. CASE CreateRoom(c) /\ First(<<Tell(lastRoomId + 1), TellState(lastRoomId + 1)>>)
  <2>1. PICK r : r = lastRoomId + 1
    OBVIOUS
  <2>2. /\ CreateResult(c) = "Success"
        /\ rooms' = [rooms EXCEPT ![r] = NewRoom(c)]
        /\ users' = [users EXCEPT ![c] = InRoomUser(@, r)]
    BY <1>3, <2>1 DEF CreateRoom
  <2>3. /\ LoggedIn(c) /\ users[c].state = "Lobby" /\ lastRoomId # MaxRoomId
    BY <2>2 DEF CreateResult
  <2>4. Inv
    BY AtDrain
  <2>5. r \in RoomIds /\ users[c] \in Users
    BY <2>1, <2>3, <2>4, ManagerConstants DEF Inv, TypeOK, RoomIds, LoggedIn
  <2>6. /\ users'[c] = InRoomUser(users[c], r) /\ rooms'[r] = NewRoom(c)
        /\ \A s \in Sessions : s # c => users'[s] = users[s]
    BY <2>2, <2>4, <2>5 DEF Inv, TypeOK
  <2>7. /\ users'[c] \in Users /\ users'[c].state = "InRoom" /\ users'[c].room = r
        /\ rooms'[r].phase = "Waiting"
    BY <2>5, <2>6, RoomedUser DEF NewRoom
  <2>8. LoggedIn(c)' /\ Away(c)
    BY <2>3, <2>7, ManagerConstants DEF LoggedIn, Users, Away
  <2>9. Retained /\ \A q \in LiveRooms : SameGame(rooms[q], rooms'[q])
    BY <1>3, <2>4, RequestsSame
  <2> QED
    BY <1>1, <1>3, <2>1, <2>5, <2>6, <2>7, <2>8, <2>9, NewcomerStays
<1> QED
  BY <1>2, <1>3 DEF HandleRoomCreate, Refuse

\* HandleRoomEnter
LEMMA EnterStays ==
  ASSUME ViewsInv, Doing("Drain"), NEW c \in Sessions, NEW r \in RoomIds, HandleRoomEnter(c, r)
  PROVE  ViewsStay
<1>1. UNCHANGED views /\ clients' \subseteq clients
  BY AnswerIs DEF HandleRoomEnter, Reply, Refuse
<1>2. CASE UNCHANGED <<vars, agenda>>
  BY <1>1, <1>2, RefusedStays DEF vars
<1>3. CASE EnterRoom(c, r) /\ First(<<Tell(r), TellState(r)>>)
  <2>1. /\ EnterResult(c, r) = "Success"
        /\ rooms' = [rooms EXCEPT ![r] = Added(@, c)]
        /\ users' = [users EXCEPT ![c] = InRoomUser(@, r)]
    BY <1>3 DEF EnterRoom
  <2>2. /\ LoggedIn(c) /\ users[c].state = "Lobby" /\ r \in LiveRooms /\ CanAdd(rooms[r], c)
    BY <2>1 DEF EnterResult, RoomExists, LiveRooms
  <2>3. Inv /\ users[c] \in Users
    BY <2>2, AtDrain DEF Inv, TypeOK, LoggedIn
  <2>4. /\ users'[c] = InRoomUser(users[c], r) /\ rooms'[r] = Added(rooms[r], c)
        /\ \A s \in Sessions : s # c => users'[s] = users[s]
    BY <2>1, <2>3 DEF Inv, TypeOK
  <2>5. users'[c] \in Users /\ users'[c].state = "InRoom" /\ users'[c].room = r
    BY <2>3, <2>4, RoomedUser
  <2>6. rooms'[r].phase = "Waiting"
    BY <2>2, <2>3, <2>4, LiveRoomsGood, AddedGood DEF CanAdd
  <2>7. LoggedIn(c)' /\ Away(c)
    BY <2>2, <2>5, ManagerConstants DEF LoggedIn, Users, Away
  <2>8. Retained /\ \A q \in LiveRooms : SameGame(rooms[q], rooms'[q])
    BY <1>3, <2>3, RequestsSame
  <2> QED
    BY <1>1, <1>3, <2>4, <2>5, <2>6, <2>7, <2>8, NewcomerStays
<1> QED
  BY <1>2, <1>3 DEF HandleRoomEnter, Refuse

-----------------------------------------------------------------------------
(* Packets that change games *)

\* An event after which every user is as before and no member of a room has to be told
\* anything by a message.
LEMMA SilentStays ==
  ASSUME ViewsInv, Doing("Drain"), UNCHANGED <<views, users>>, clients' \subseteq clients,
         Retained, \A r \in LiveRooms : Silent(r),
         \/ UNCHANGED agenda
         \/ Done
         \/ \E notices \in Seq(Notices) :
              First(notices) /\ TellsNoLeaver(notices)
  PROVE  ViewsStay
<1>1. \A s \in Sessions : ~Away(s) => Silent(users[s].room)
  BY AtDrain, InRoom
<1> QED
  BY <1>1, StillStay, NobodyLeft DEF ViewsStay

\* HandleRoomReady
LEMMA ReadyStays ==
  ASSUME ViewsInv, Doing("Drain"), NEW c \in Sessions, NEW ready \in BOOLEAN,
         HandleRoomReady(c, ready)
  PROVE  ViewsStay
<1>1. UNCHANGED views /\ clients' \subseteq clients
  BY AnswerIs DEF HandleRoomReady, Reply, Refuse
<1>2. CASE UNCHANGED <<vars, agenda>>
  BY <1>1, <1>2, RefusedStays DEF vars
<1>3. CASE SetReady(c, ready) /\ First(<<TellState(users[c].room)>>)
  <2>1. Inv /\ UNCHANGED users
    BY <1>3, AtDrain DEF SetReady
  <2>2. Retained /\ \A r \in LiveRooms : Silent(r)
    BY <1>3, <2>1, RequestsSame DEF Silent
  <2>3. users[c].room \in Nat
    BY <1>3, <2>1, RoomNumbers DEF SetReady, ReadyResult, MemberResult
  <2>4. PICK notices : notices = <<TellState(users[c].room)>>
    OBVIOUS
  <2>5. notices \in Seq(Notices) /\ First(notices) /\ TellsNoLeaver(notices)
    BY <1>3, <2>3, <2>4, RoomNotices
  <2> QED
    BY <1>1, <2>1, <2>2, <2>5, SilentStays
<1> QED
  BY <1>2, <1>3 DEF HandleRoomReady, Refuse

\* HandleGameResign: the result will be told.
LEMMA ResignStays ==
  ASSUME ViewsInv, Doing("Drain"), NEW c \in Sessions, NEW r \in RoomIds, NEW g,
         HandleGameResign(c, r, g)
  PROVE  ViewsStay
<1>1. UNCHANGED <<views, agenda>> /\ clients' \subseteq clients
  BY AnswerIs DEF HandleGameResign, Reply, Refuse
<1>2. CASE UNCHANGED vars
  BY <1>1, <1>2, RefusedStays DEF vars
<1>3. CASE Resign(c, r, g)
  <2>1. Retained /\ \A q \in LiveRooms : Silent(q)
    BY <1>3, AtDrain, ResignSilent
  <2>2. UNCHANGED users
    BY <1>3 DEF Resign
  <2> QED
    BY <1>1, <2>1, <2>2, SilentStays
<1> QED
  BY <1>2, <1>3 DEF HandleGameResign, Refuse

\* HandleRoomStart: the views of both players do not show the new game, and are about
\* to be told of it.
LEMMA StartStays ==
  ASSUME ViewsInv, Doing("Drain"), NEW c \in Sessions, HandleRoomStart(c)
  PROVE  ViewsStay
<1>1. UNCHANGED views /\ clients' \subseteq clients
  BY AnswerIs DEF HandleRoomStart, Reply, Refuse
<1>2. CASE UNCHANGED <<vars, agenda>>
  BY <1>1, <1>2, RefusedStays DEF vars
<1>3. CASE StartGame(c) /\ First(<<TellState(users[c].room)>>)
  <2>1. /\ Inv /\ agenda \in Seq(Calls) /\ (\A s \in Sessions : GoodFor(s))
        /\ \A q : ~Coming(TellState(q))
    BY AtDrain
  <2>2. PICK r : r = users[c].room
    OBVIOUS
  <2>3. PICK id : id = lastGameId + 1
    OBVIOUS
  <2>4. /\ StartResult(c) = "Success" /\ UNCHANGED <<users, finished>>
        /\ rooms' = [rooms EXCEPT ![r] = Started(@, id)]
    BY <1>3, <2>2, <2>3 DEF StartGame
  <2>5. r \in LiveRooms /\ r \in RoomIds /\ rooms[r].phase # "Playing"
    BY <2>2, <2>4 DEF StartResult, MemberResult, RoomExists, LiveRooms
  <2>6. rooms[r].gameId # id /\ rooms[r] \in Rooms
    BY <2>1, <2>3, <2>5, LiveRoomsGood, RoomConstants DEF Inv, TypeOK, RoomsSound, Rooms
  <2>7. /\ rooms'[r].gameId = id /\ rooms'[r].game = StartedGame
        /\ \A q \in LiveRooms : q # r => SameGame(rooms[q], rooms'[q])
    <3>1. rooms'[r] = Started(rooms[r], id)
      BY <2>1, <2>4, <2>5 DEF Inv, TypeOK
    <3>2. \A q \in LiveRooms : q # r => rooms'[q] = rooms[q] /\ rooms[q] # NoRoom
      BY <2>1, <2>4, <2>5 DEF Inv, TypeOK, LiveRooms
    <3> QED
      BY <2>6, <3>1, <3>2 DEF Started, SameGame, Rooms
  <2>8. Retained
    BY <2>4 DEF Retained
  <2>9. PICK notices : notices = <<TellState(r)>>
    OBVIOUS
  <2>10. notices \in Seq(Notices) /\ First(notices) /\ TellsNoLeaver(notices)
    <3>1. r \in Nat
      BY <2>1, <2>5, RoomNumbers
    <3>2. First(notices)
      BY <1>3, <2>2, <2>9
    <3> QED
      BY <2>9, <3>1, <3>2, RoomNotices
  <2>11. Coming(TellState(r))'
    <3>1. 1 \in DOMAIN notices /\ notices[1] = TellState(r)
      BY <2>9
    <3> QED
      BY <2>1, <2>10, <3>1, FirstTells
  <2>12. ASSUME NEW s \in Sessions PROVE GoodFor(s)'
    <3>1. CASE Away(s) \/ users[s].room # r
      <4>1. ~Away(s) => Silent(users[s].room)
        BY <2>1, <2>7, <3>1, InRoom DEF Silent
      <4> QED
        BY <1>1, <2>4, <2>8, <4>1, StillStay
    <3>2. CASE ~Away(s) /\ users[s].room = r
      <4> SUFFICES ASSUME ViewOK(s) PROVE ViewOK(s)'
        BY <1>1, <2>1 DEF GoodFor
      <4>1. views[s].game = rooms[r].gameId
        BY <2>1, <3>2, InRoomView DEF Agrees, AwaitsEnd
      <4>2. Outdated(views'[s], r, rooms'[r])
        BY <1>1, <2>6, <2>7, <4>1 DEF Outdated
      <4>3. ~Away(s)' /\ users'[s].room = r
        BY <2>4, <3>2 DEF Away, LoggedIn
      <4> QED
        BY <2>11, <4>2, <4>3, InRoomViewNext
    <3> QED
      BY <3>1, <3>2
  <2> QED
    BY <2>10, <2>12, NobodyLeft DEF ViewsStay
<1> QED
  BY <1>2, <1>3 DEF HandleRoomStart, Refuse

\* What is known of those who stay when somebody leaves.
LEMMA LeftBehind ==
  ASSUME Inv, NEW c \in Sessions, LeaveResult(c) = "Success",
         NEW reason \in Reasons, rooms' = RoomsWithout(c),
         finished' = finished \o LeaveEndings(c, reason),
         UNCHANGED <<lastRoomId, lastGameId>>
  PROVE  /\ Retained
         /\ \A s \in Sessions : s # c /\ ~Away(s) => Silent(users[s].room)
<1>1. /\ \A r \in RoomIds : r # users[c].room => rooms'[r] = rooms[r]
      /\ \A t \in Sessions : rooms'[users[c].room] # NoRoom /\ t \in rooms'[users[c].room].members
                                 <=> t \in rooms[users[c].room].members /\ t # c
  BY LeavingRooms
<1>2. Retained /\ \A q \in LiveRooms : rooms'[q] # NoRoom => Silent(q)
  BY LeavingSilent
<1>3. ASSUME NEW s \in Sessions, s # c, ~Away(s) PROVE Silent(users[s].room)
  <2>1. PICK q : q = users[s].room
    OBVIOUS
  <2>2. q \in LiveRooms /\ q \in RoomIds /\ s \in rooms[q].members
    BY <1>3, <2>1, InRoom
  <2>3. rooms'[q] # NoRoom
    BY <1>1, <1>3, <2>2 DEF LiveRooms
  <2> QED
    BY <1>2, <2>1, <2>2, <2>3
<1> QED
  BY <1>2, <1>3

\* HandleRoomLeave: who leaves is about to be told, and is in the lobby.
LEMMA LeaveStays ==
  ASSUME ViewsInv, Doing("Drain"), NEW c \in Sessions, HandleRoomLeave(c)
  PROVE  ViewsStay
<1>1. CASE ~LoggedIn(c)
  BY <1>1, AnswerIs, RefusedStays DEF HandleRoomLeave, Refuse, Reply, vars
<1>2. CASE LoggedIn(c)
  <2> DEFINE f == Call("FlushFinishedGames")
             result == LeaveResult(c)
             l == SendLeftTo(c, result)
  <2>1. /\ Inv /\ agenda \in Seq(Calls) /\ (\A s \in Sessions : GoodFor(s))
        /\ \A s : ~Coming(SendLeftTo(s, "Success"))
    BY AtDrain
  <2>2. UNCHANGED <<views, clients>>
    BY <1>2 DEF HandleRoomLeave, NoReply
  <2>3. result \in {"Success", "NotInRoom"}
    BY <1>2, <2>1, LeaveNeverFails
  <2>4. f \in Notices /\ l \in Notices
    BY <2>3 DEF Notices, LeaveResults
  <2>5. \A s : f # SendLeftTo(s, "Success")
    BY DEF Call, SendLeftTo
  <2>6. CASE result # "Success"
    <3>1. UNCHANGED vars /\ First(<<f, l>>)
      BY <1>2, <2>6 DEF HandleRoomLeave
    <3>2. \A s : l # SendLeftTo(s, "Success")
      BY <2>6 DEF SendLeftTo
    <3> HIDE DEF f, l
    <3>3. PICK notices : notices = <<f, l>>
      OBVIOUS
    <3>4. notices \in Seq(Notices) /\ First(notices)
      BY <2>4, <3>1, <3>3, FewCalls
    <3>5. TellsNoLeaver(notices)
      BY <2>5, <3>2, <3>3 DEF TellsNoLeaver
    <3> QED
      BY <2>2, <3>1, <3>4, <3>5, RefusedStays DEF vars
  <2>7. CASE result = "Success"
    <3>1. PICK r : r = users[c].room
      OBVIOUS
    <3>2. LeaveRoom(c, "LeftRoom") /\ First(<<f, l>> \o <<Tell(r), TellState(r)>>)
      BY <1>2, <2>7, <3>1 DEF HandleRoomLeave
    <3>3. /\ rooms' = RoomsWithout(c) /\ UNCHANGED <<lastRoomId, lastGameId>>
          /\ finished' = finished \o LeaveEndings(c, "LeftRoom")
          /\ users' = [users EXCEPT ![c] = LobbyUser(@)]
      BY <3>2 DEF LeaveRoom
    <3>4. /\ Retained
          /\ \A s \in Sessions : s # c /\ ~Away(s) => Silent(users[s].room)
      BY <2>1, <2>7, <3>3, LeftBehind DEF Reasons
    <3>5. /\ users'[c] = LobbyUser(users[c]) /\ users[c] \in Users
          /\ \A s \in Sessions : s # c => users'[s] = users[s]
      BY <1>2, <2>1, <3>3 DEF Inv, TypeOK, LoggedIn
    <3>6. /\ LoggedIn(c)' /\ users'[c].state = "Lobby" /\ Away(c)'
      <4>1. \A user \in Users : LobbyUser(user) \in Users /\ LobbyUser(user).state = "Lobby"
        <5> SUFFICES ASSUME NEW user \in Users
                     PROVE  LobbyUser(user) \in Users /\ LobbyUser(user).state = "Lobby"
          OBVIOUS
        <5>1. NoRoomId \in 0..MaxRoomId
          BY ManagerConstants DEF NoRoomId
        <5> QED
          BY <5>1 DEF LobbyUser, Users
      <4> QED
        BY <3>5, <4>1, ManagerConstants DEF LoggedIn, Users, Away
    <3>7. r \in Nat
      BY <1>2, <2>1, <3>1, RoomNumbers
    <3>8. PICK a, b : a = Tell(r) /\ b = TellState(r)
      OBVIOUS
    <3>9. a \in Notices /\ b \in Notices
      BY <3>7, <3>8 DEF Notices
    <3>10. \A s : a # SendLeftTo(s, "Success") /\ b # SendLeftTo(s, "Success")
      BY <3>8 DEF Tell, TellState, SendLeftTo
    <3>11. PICK m : m = SendLeftTo(c, "Success") /\ m = l
      BY <2>7
    <3> HIDE DEF f, l, result
    <3>12. PICK notices : notices = <<f, m>> \o <<a, b>>
      OBVIOUS
    <3>13. notices \in Seq(Notices) /\ First(notices)
      BY <2>4, <3>2, <3>8, <3>9, <3>11, <3>12, NoticeSequences
    <3>14. 2 \in DOMAIN notices /\ notices[2] = m
      BY <3>12
    <3>15. \A i \in DOMAIN notices : notices[i] \in {f, m, a, b}
      BY <3>12
    <3>16. Coming(m)'
      BY <2>1, <3>13, <3>14, FirstTells
    <3>17. ASSUME NEW s \in Sessions, Coming(SendLeftTo(s, "Success"))' PROVE s = c
      <4>1. PICK i \in DOMAIN notices : notices[i] = SendLeftTo(s, "Success")
        BY <2>1, <3>13, <3>17, FirstTells
      <4>2. SendLeftTo(s, "Success") = SendLeftTo(c, "Success")
        BY <2>5, <3>10, <3>11, <3>15, <4>1
      <4> QED
        BY <4>2 DEF SendLeftTo
    <3>18. LeaversLeft'
      BY <3>6, <3>17 DEF LeaversLeft
    <3>19. GoodFor(c)'
      <4>1. Coming(SendLeftTo(c, "Success"))'
        BY <3>11, <3>16 DEF Coming
      <4>2. ViewOK(c)'
        BY <3>6, <4>1, AwayViewNext
      <4> QED
        BY <2>1, <2>2, <4>2 DEF GoodFor
    <3>20. \A s \in Sessions : s # c => GoodFor(s)'
      BY <2>2, <3>4, <3>5, StillStay
    <3> QED
      BY <3>18, <3>19, <3>20 DEF ViewsStay
  <2> QED
    BY <2>6, <2>7
<1> QED
  BY <1>1, <1>2

\* HandleDisconnected: the one it is about reads nothing any more.
LEMMA FarewellStays ==
  ASSUME ViewsInv, Doing("Drain"), NEW c \in Sessions, c \notin clients, HandleDisconnected(c)
  PROVE  ViewsStay
<1>1. UNCHANGED <<views, clients>>
  BY DEF HandleDisconnected, NoReply
<1>2. CASE ~LoggedIn(c)
  BY <1>1, <1>2, RefusedStays DEF HandleDisconnected, vars
<1>3. CASE LoggedIn(c)
  <2> DEFINE f == Call("FlushFinishedGames")
  <2>1. Inv
    BY AtDrain
  <2>2. PICK r : r = users[c].room
    OBVIOUS
  <2>3. /\ LeaveAndRemove(c)
        /\ First(<<f>> \o IF LeaveResult(c) = "Success" THEN <<Tell(r), TellState(r)>> ELSE <<>>)
    BY <1>3, <2>2 DEF HandleDisconnected
  <2>4. \A s \in Sessions : s # c => users'[s] = users[s]
    BY <2>1, <2>3 DEF LeaveAndRemove, Inv, TypeOK
  <2>5. /\ Retained
        /\ \A s \in Sessions : s # c /\ ~Away(s) => Silent(users[s].room)
    <3>1. CASE LeaveResult(c) = "Success"
      BY <2>1, <2>3, <3>1, LeftBehind DEF LeaveAndRemove, Reasons
    <3>2. CASE LeaveResult(c) # "Success"
      BY <2>1, <2>3, <3>2, SameRooms, InRoom DEF LeaveAndRemove, Silent
    <3> QED
      BY <3>1, <3>2
  <2>6. r \in Nat
    BY <1>3, <2>1, <2>2, RoomNumbers
  <2>7. PICK notices : /\ notices \in {<<f>> \o <<Tell(r), TellState(r)>>, <<f>> \o <<>>}
                       /\ First(notices)
    BY <2>3
  <2>8. notices \in Seq(Notices) /\ TellsNoLeaver(notices)
    BY <2>6, <2>7, RoomNotices
  <2>9. \A s \in Sessions : GoodFor(s)'
    BY <1>1, <2>4, <2>5, StillStay
  <2> QED
    BY <2>7, <2>8, <2>9, NobodyLeft DEF ViewsStay
<1> QED
  BY <1>2, <1>3

\* An accepted move: both players read it and their views follow the game; if it was
\* the last one, its result is in the queue for them.
LEMMA MadeMoveStays ==
  ASSUME ViewsInv, Doing("Drain"), NEW c \in Sessions, NEW r \in RoomIds, NEW g, NEW cell,
         NEW line \in Line(r), StoneResult(c, r, g, cell) = "Success",
         PlaceStone(c, r, g, cell, line), UNCHANGED agenda,
         SendTo(rooms[r].members, MoveOf(c, r), Tail(events))
  PROVE  ViewsStay
<1> DEFINE room == rooms[r]
           after == rooms'[r]
           moved == Moved(room, c, line)
<1>1. /\ Inv /\ (\A s \in Sessions : GoodFor(s))
      /\ \A q, s : ~Coming(TellState(q)) /\ ~Coming(SendLeftTo(s, "Success"))
      /\ agenda # <<>> /\ agenda[1].do \in Works
  BY AtDrain
<1>2. /\ r \in LiveRooms /\ c \in room.members /\ ~TurnExpired(room)
      /\ PlaceResult(room, c, cell) = "Success"
  BY DEF StoneResult, AddressResult, RoomExists, LiveRooms
<1>3. /\ room.phase = "Playing" /\ StoneOf(room, c) = room.game.next
  BY <1>2 DEF PlaceResult, MoveResult
<1>4. GoodRoom(room) /\ room \in Rooms
  BY <1>1, <1>2, LiveRoomsGood
<1>5. line \in BOOLEAN
  BY <1>2, LinesAreLate DEF Line, RoomExists
<1>6. /\ moved.game.status = "Playing" => GoodRoom(moved)
      /\ moved.game.status # "Playing" => JustOver(moved)
      /\ moved.members = room.members /\ moved.gameId = room.gameId /\ moved.phase = "Playing"
  BY <1>2, <1>4, <1>5, MovedGood
<1>7. moved.game = Placed(room.game, StoneOf(room, c), line)
  BY <1>4 DEF Moved, Rooms
<1>8. moved.game.moves = room.game.moves + 1
  BY <1>7 DEF Placed
<1> HIDE DEF moved
<1>9. /\ UNCHANGED users
      /\ \/ /\ moved.game.status = "Playing"
            /\ rooms' = [rooms EXCEPT ![r] = moved] /\ UNCHANGED finished
         \/ /\ moved.game.status # "Playing"
            /\ rooms' = [rooms EXCEPT ![r] = Finished(moved)]
            /\ \E reason : finished' = Append(finished, Ending(r, moved, reason))
  BY <1>2 DEF PlaceStone, ExpireBeforeRequest, moved
<1>10. /\ after.game = moved.game /\ after.gameId = room.gameId
       /\ \A q \in LiveRooms : q # r => SameGame(rooms[q], rooms'[q])
  <2>1. after \in {moved, Finished(moved)} /\ \A q \in LiveRooms : q # r => rooms'[q] = rooms[q]
    BY <1>1, <1>2, <1>9 DEF Inv, TypeOK, LiveRooms
  <2>2. Finished(moved).game = moved.game /\ Finished(moved).gameId = moved.gameId
    BY DEF Finished
  <2> QED
    BY <1>6, <2>1, <2>2 DEF SameGame, LiveRooms
<1>11. Retained
  <2>1. CASE UNCHANGED finished
    BY <2>1 DEF Retained
  <2>2. ASSUME NEW e, finished' = Append(finished, e) PROVE Retained
    BY <1>1, <2>2, ResultAdded
  <2> QED
    BY <1>9, <2>1, <2>2
<1>12. PICK m : m = MoveOf(c, r)
  OBVIOUS
<1>13. /\ m.type = "GAME_MOVE_NTF" /\ m.room = r /\ m.game = room.gameId
       /\ m.stone = room.game.next /\ m.moves = room.game.moves + 1
       /\ m.state = moved.game.status /\ m.next = moved.game.next
       /\ m.state \in GameStatus /\ m.next \in Stones /\ m.moves \in 0..Cells
  <2>1. /\ m.type = "GAME_MOVE_NTF" /\ m.room = r /\ m.game = room.gameId
        /\ m.stone = room.game.next /\ m.moves = moved.game.moves
        /\ m.state = moved.game.status /\ m.next = moved.game.next
    BY <1>3, <1>10, <1>12 DEF MoveOf
  <2>2. moved.game \in Games
    BY <1>6 DEF GoodRoom, JustOver, Rooms
  <2> QED
    BY <1>8, <2>1, <2>2 DEF Games
<1>14. ASSUME NEW s \in Sessions PROVE GoodFor(s)'
  <2>1. /\ s \in clients' => s \in clients
        /\ \/ s \in room.members /\ s \in clients' /\ views'[s] = Read(views[s], m)
           \/ views'[s] = views[s] /\ (s \in clients' => s \notin room.members)
    BY <1>12, SendIs
  <2>2. CASE views'[s] = views[s] /\ (s \in clients' => s \notin room.members)
    <3>1. CASE s \notin clients'
      BY <1>1, <2>2, <3>1 DEF GoodFor
    <3>2. CASE s \notin room.members
      <4>1. ~Away(s) => Silent(users[s].room)
        BY <1>1, <1>10, <3>2, InRoom DEF Silent
      <4> QED
        BY <1>1, <1>9, <1>11, <2>1, <2>2, <4>1, KeptAtWork
    <3> QED
      BY <2>2, <3>1, <3>2
  <2>3. CASE s \in room.members /\ s \in clients' /\ views'[s] = Read(views[s], m)
    <3>1. views[s] \in Views /\ views[s].error \in {"None", "EndOutOfSync"} /\ s \in clients
      BY <1>1, <2>1, <2>3 DEF GoodFor
    <3>2. CASE views[s].error # "None"
      <4>1. views'[s] = views[s]
        BY <2>3, <3>2, FailedReadsNothing
      <4> QED
        BY <3>1, <3>2, <4>1 DEF GoodFor
    <3>3. CASE views[s].error = "None"
      <4>1. ~Away(s) /\ users[s].room = r
        BY <1>1, <1>2, <2>3 DEF Inv, MembersAgree, RoomExists, LiveRooms, Away
      <4>2. ViewOK(s)
        BY <1>1, <3>1, <3>3 DEF GoodFor
      <4>3. Agrees(views[s], r, room)
        BY <1>1, <1>3, <4>1, <4>2, InRoomView DEF AwaitsEnd
      <4>4. CanApply(views[s], m) /\ views[s].room = m.room /\ views[s].game = m.game
        BY <1>3, <1>13, <4>3 DEF Agrees, CanApply
      <4>5. /\ views'[s] \in Views
            /\ views'[s].room = r /\ views'[s].game = room.gameId
            /\ views'[s].playing /\ views'[s].error = "None"
            /\ views'[s].state = m.state /\ views'[s].next = m.next /\ views'[s].moves = m.moves
        BY <1>3, <1>13, <2>3, <3>1, <3>3, <4>3, <4>4, ReadMoveIs DEF Agrees
      <4>6. ~Away(s)' /\ users'[s].room = r
        BY <1>9, <4>1 DEF Away, LoggedIn
      <4>7. CASE moved.game.status = "Playing"
        <5>1. after = moved
          BY <1>1, <1>9, <4>7 DEF Inv, TypeOK
        <5>2. Agrees(views'[s], r, after)
          BY <1>6, <1>8, <1>13, <4>5, <4>7, <5>1 DEF Agrees, FinalStatus
        <5> QED
          BY <4>5, <4>6, <5>2, InRoomViewNext DEF GoodFor
      <4>8. CASE moved.game.status # "Playing"
        <5>1. PICK e : /\ finished' = Append(finished, e)
                       /\ \E reason : e = Ending(r, moved, reason)
          BY <1>9, <4>8
        <5>2. /\ e.room = r /\ e.game = room.gameId /\ e.targets = room.members
              /\ e.status = moved.game.status /\ e.moves = moved.game.moves
          BY <1>6, <5>1 DEF Ending
        <5>3. after.phase # "Playing"
          <6>1. after = Finished(moved)
            BY <1>1, <1>9, <4>8 DEF Inv, TypeOK
          <6> QED
            BY <1>6, <4>8, <6>1, FinishedGood
        <5>4. AwaitsEnd(s, views'[s], r, after, e)
          BY <1>8, <1>10, <1>13, <2>3, <4>5, <5>2, <5>3 DEF AwaitsEnd
        <5>5. \E i \in DOMAIN finished' : finished'[i] = e
          BY <1>1, <5>1, ResultAdded
        <5>6. ViewOK(s)'
          BY <4>6, <5>4, <5>5, InRoomViewNext
        <5> QED
          BY <4>5, <5>6 DEF GoodFor
      <4> QED
        BY <4>7, <4>8
    <3> QED
      BY <3>2, <3>3
  <2> QED
    BY <2>1, <2>2, <2>3
<1> QED
  BY <1>14, NobodyLeft DEF ViewsStay

\* HandleGameMove: an accepted move, a turn found expired, or a refusal.
LEMMA MoveStays ==
  ASSUME ViewsInv, Doing("Drain"), NEW c \in Sessions, NEW r \in RoomIds, NEW g,
         HandleGameMove(c, r, g)
  PROVE  ViewsStay
<1>1. PICK cell \in Cell(r), line \in Line(r) :
        IF StoneResult(c, r, g, cell) = "Success"
        THEN /\ PlaceStone(c, r, g, cell, line)
             /\ IF IsValidGameMove(MoveOf(c, r))
                THEN SendTo(rooms[r].members, MoveOf(c, r), Tail(events))
                ELSE Disconnecting(rooms[r].members, Tail(events)) /\ UNCHANGED views
             /\ UNCHANGED agenda
        ELSE IF AddressResult(c, r, g) = "Success" /\ TurnExpired(rooms[r])
        THEN PlaceStone(c, r, g, cell, line) /\ Reply(c) /\ UNCHANGED agenda
        ELSE Refuse(c)
  BY DEF HandleGameMove
<1>2. CASE StoneResult(c, r, g, cell) = "Success"
  <2>1. EndingsInv
    BY DEF ViewsInv, AgendaInv, ManagersInv
  <2>2. PlaceStone(c, r, g, cell, line) /\ UNCHANGED agenda
    BY <1>1, <1>2
  <2>3. IsValidGameMove(MoveOf(c, r))
    BY <1>2, <2>1, <2>2, MoveIsValid
  <2>4. SendTo(rooms[r].members, MoveOf(c, r), Tail(events))
    BY <1>1, <1>2, <2>3
  <2> QED
    BY <1>2, <2>2, <2>4, MadeMoveStays
<1>3. CASE /\ StoneResult(c, r, g, cell) # "Success"
           /\ AddressResult(c, r, g) = "Success" /\ TurnExpired(rooms[r])
  <2>1. PlaceStone(c, r, g, cell, line) /\ Reply(c) /\ UNCHANGED agenda
    BY <1>1, <1>3
  <2>2. ExpireBeforeRequest(r) /\ UNCHANGED users
    BY <1>3, <2>1 DEF PlaceStone
  <2>3. r \in LiveRooms
    BY <1>3 DEF AddressResult, RoomExists, LiveRooms
  <2>4. Retained /\ \A q \in LiveRooms : Silent(q)
    BY <2>2, <2>3, AtDrain, ExpirySilent
  <2>5. UNCHANGED views /\ clients' \subseteq clients
    BY <2>1, AnswerIs DEF Reply
  <2> QED
    BY <2>1, <2>2, <2>4, <2>5, SilentStays
<1>4. CASE Refuse(c)
  BY <1>4, AnswerIs, RefusedStays DEF Refuse, Reply, vars
<1> QED
  BY <1>1, <1>2, <1>3, <1>4

\* The handlers
LEMMA HandlersStay ==
  ASSUME ViewsInv, Doing("Drain"), NEW c \in Sessions, NEW p \in ClientPackets,
         ProcessPacket(c, p)
  PROVE  ViewsStay
<1>1. ASSUME Refuse(c) \/ HandleBad(c) PROVE ViewsStay
  BY <1>1, AnswerIs, RefusedStays DEF Refuse, Reply, HandleBad, vars
<1> QED
  BY <1>1, PacketTypes, LoginStays, ChatStays, CreateStays, EnterStays, LeaveStays,
     ReadyStays, StartStays, MoveStays, ResignStays
  DEF ProcessPacket

\* Drain: any event
LEMMA DrainStays ==
  ASSUME ViewsInv, Drain
  PROVE  ViewsStay
<1>1. EventsOK /\ GoneAreGone /\ Doing("Drain")
  BY DEF ViewsInv, DeadlinesInv, ManagersInv, QueueInv, Drain
<1>2. CASE events = <<>>
  BY <1>1, <1>2, RefusedStays DEF Drain, Quiet, vars
<1>3. CASE events # <<>>
  <2>1. PICK e : e = Head(events)
    OBVIOUS
  <2>2. /\ e \in Events /\ e = events[1] /\ 1 \in DOMAIN events
    BY <1>1, <1>3, <2>1, TakingKeeps, Shifted DEF EventsOK
  <2>3. CASE e.type = "Connected" /\ HandleConnected(e)
    BY <1>1, <2>3, RefusedStays DEF HandleConnected, NoReply, vars
  <2>4. CASE e.type = "Packet" /\ HandlePacket(e)
    <3>1. e.session \in Sessions /\ e.packet \in ClientPackets
      BY <2>2, <2>4 DEF Events
    <3>2. CASE NoReply /\ UNCHANGED <<vars, agenda>>
      BY <1>1, <3>2, RefusedStays DEF NoReply, vars
    <3>3. CASE HandleBad(e.session)
      BY <1>1, <3>3, AnswerIs, RefusedStays DEF HandleBad, vars
    <3>4. CASE ProcessPacket(e.session, e.packet)
      BY <1>1, <3>1, <3>4, HandlersStay
    <3> QED
      BY <2>4, <3>2, <3>3, <3>4 DEF HandlePacket
  <2>5. CASE e.type = "Disconnected" /\ HandleDisconnected(e.session)
    <3>1. e.session \in Sessions /\ e.session \notin clients
      BY <1>1, <2>2, <2>5 DEF Events, GoneAreGone
    <3> QED
      BY <1>1, <2>5, <3>1, FarewellStays
  <2> QED
    BY <1>3, <2>1, <2>3, <2>4, <2>5 DEF Drain
<1> QED
  BY <1>2, <1>3

\* There is a view of every session.
LEMMA ViewsOfAll ==
  ASSUME DOMAIN views = Sessions, [ServerNext]_serverVars
  PROVE  DOMAIN views' = Sessions
<1>1. ASSUME NEW targets, NEW message, NEW rest, SendTo(targets, message, rest)
      PROVE  DOMAIN views' = Sessions
  BY <1>1 DEF SendTo
<1>2. ASSUME NEW targets, NEW rest, Answer(targets, rest)
      PROVE  DOMAIN views' = Sessions
  BY <1>2 DEF Answer
<1>3. ASSUME NEW c, Reply(c) \/ Refuse(c) \/ NoReply \/ HandleBad(c)
      PROVE  DOMAIN views' = Sessions
  BY <1>2, <1>3 DEF Reply, Refuse, NoReply, HandleBad
<1>4. ASSUME NEW c, NEW r, NEW g, HandleGameMove(c, r, g)
      PROVE  DOMAIN views' = Sessions
  BY <1>1, <1>3, <1>4 DEF HandleGameMove
<1>5. ASSUME NEW c, NEW p, ProcessPacket(c, p)
      PROVE  DOMAIN views' = Sessions
  BY <1>3, <1>4, <1>5
  DEF ProcessPacket, HandleLogin, HandleChat, HandleRoomCreate, HandleRoomEnter,
      HandleRoomLeave, HandleRoomReady, HandleRoomStart, HandleGameResign
<1>6. CASE Drain
  BY <1>3, <1>5, <1>6
  DEF Drain, Quiet, HandleConnected, HandlePacket, HandleDisconnected
<1>7. CASE FlushFinishedGames \/ NotifyRoomState \/ NotifyRoomMember \/ SendLeft
  BY <1>1, <1>2, <1>7
  DEF FlushFinishedGames, NotifyRoomState, NotifyRoomMember, SendLeft, Quiet
<1>8. CASE CallUpdateTimeouts \/ CheckLoginTimeouts \/ BeginUpdate \/ PassTime
  BY <1>8 DEF CallUpdateTimeouts, CheckLoginTimeouts, BeginUpdate, PassTime, Quiet
<1>9. ASSUME NEW s \in Sessions,
             Accept(s) \/ HangUp(s) \/ \E p \in ClientPackets : Receive(s, p)
      PROVE  DOMAIN views' = Sessions
  BY <1>9 DEF Accept, HangUp, Receive
<1> QED
  BY <1>6, <1>7, <1>8, <1>9 DEF ServerNext, UpdateStep, serverVars

-----------------------------------------------------------------------------
(* The theorems *)

\* Every step keeps every view right, or on its way to it.
LEMMA NextViews == ViewsInv /\ [ServerNext]_serverVars => ViewsInv'
<1> SUFFICES ASSUME ViewsInv, [ServerNext]_serverVars PROVE ViewsInv'
  OBVIOUS
<1>1. DeadlinesInv' /\ AgendaInv' /\ NoticesFirst(agenda')
  BY NextDeadlines, NextAgenda, NextNotices DEF ViewsInv
<1>2. OnceInv'
  BY NextManagers, NextOnce DEF ViewsInv, AgendaInv
<1>3. DOMAIN views' = Sessions
  BY ViewsOfAll DEF ViewsInv
<1>4. ViewsStay
  BY DrainStays, FlushStays, StateStays, LeftStays, TimeoutsStay, OthersStay, TimeStays,
     AcceptStays
  DEF ServerNext, UpdateStep
<1> QED
  BY <1>1, <1>2, <1>3, <1>4 DEF ViewsInv, ViewsStay

\* The server starts with views that know of nothing.
LEMMA ViewsInit == ServerInit /\ DeadlinesInv /\ AgendaInv /\ OnceInv => ViewsInv
<1> SUFFICES ASSUME ServerInit, DeadlinesInv, AgendaInv, OnceInv PROVE ViewsInv
  OBVIOUS
<1>1. /\ views = [s \in Sessions |-> ResetView(0)] /\ agenda = <<>>
      /\ users = [s \in Sessions |-> NoUser]
  BY DEF ServerInit, Init
<1>2. NoticesFirst(agenda) /\ LeaversLeft
  BY <1>1 DEF NoticesFirst, LeaversLeft, Coming
<1>3. ASSUME NEW s \in Sessions PROVE GoodFor(s)
  <2>1. views[s] = ResetView(0) /\ Away(s)
    BY <1>1, <1>3 DEF Away, LoggedIn
  <2>2. ViewOK(s)
    BY <2>1, ResetIs, AwayView DEF KnowsNoRoom, NoRoomId
  <2> QED
    BY <2>1, <2>2, ResetIs DEF GoodFor
<1> QED
  BY <1>1, <1>2, <1>3 DEF ViewsInv

\* The invariant holds in every reachable state of the server.
LEMMA ViewsInvariance == ServerSpec => []ViewsInv
<1>1. ServerInit => AgendaInv \/ ~ManagersInv
  BY DEF ServerInit, Init, AgendaInv, FlushFollows
<1>2. ServerInit => OnceInv
  BY ServerStarts, InitInv DEF Init, OnceInv, GameEndsOnce, QueueIsOld, LiveRooms
<1>3. DeadlinesInv => ManagersInv
  BY DEF DeadlinesInv
<1>4. ViewsInv /\ [ServerNext]_serverVars => ViewsInv'
  BY NextViews
<1> QED
  BY <1>1, <1>2, <1>3, <1>4, ViewsInit, DeadlinesInvariance, PTL DEF ServerSpec

\* The board of a client never misses a move, and a game it has seen end does not go
\* on, whatever is lost, left or started while Update is at work.
THEOREM BoardsStayInSync == ServerSpec => []BoardsInSync
<1>1. ViewsInv => BoardsInSync
  BY DEF ViewsInv, GoodFor, BoardsInSync
<1> QED
  BY <1>1, ViewsInvariance, PTL

\* Between two updates every client that has not failed knows where its user is and the
\* state of the game there, and shows no other result than the server's.
THEOREM ViewsAlwaysAgree == ServerSpec => []ViewsAgree
<1>1. ASSUME ViewsInv, agenda = <<>>, NEW s \in clients, LoggedIn(s), views[s].error = "None"
      PROVE  ViewAgrees(views[s], users[s])
  <2>1. /\ finished = <<>> /\ Inv /\ s \in Sessions /\ GoodFor(s)
    BY <1>1 DEF ViewsInv, AgendaInv, Flushes, OnceInv, DeadlinesInv, ManagersInv, EventsOK
  <2>2. ViewOK(s) /\ \A c : ~Coming(c)
    BY <1>1, <2>1 DEF GoodFor, Coming
  <2>3. CASE Away(s)
    <3>1. users[s].state = "Lobby" /\ KnowsNoRoom(views[s])
      BY <1>1, <2>2, <2>3, AwayView DEF Away
    <3> QED
      BY <3>1 DEF ViewAgrees, KnowsNoRoom
  <2>4. CASE ~Away(s)
    <3>1. PICK r : r = users[s].room
      OBVIOUS
    <3>2. Agrees(views[s], r, rooms[r])
      BY <2>1, <2>2, <2>4, <3>1, InRoomView
    <3>3. users[s].state # "Lobby"
      BY <2>4 DEF Away
    <3> QED
      BY <3>1, <3>2, <3>3 DEF ViewAgrees, Agrees
  <2> QED
    BY <2>3, <2>4
<1>2. ViewsInv => ViewsAgree
  BY <1>1 DEF ViewsAgree
<1> QED
  BY <1>2, ViewsInvariance, PTL

\* Every variable of the server keeps its type.
THEOREM ServerTypes == ServerSpec => []ServerTypeOK
<1>1. ASSUME ViewsInv PROVE ServerTypeOK
  <2>1. EventsOK /\ DeadlineTypes /\ \A s \in Sessions : views[s] \in Views
    BY <1>1 DEF ViewsInv, DeadlinesInv, ManagersInv, GoodFor
  <2>2. \A i \in DOMAIN events : /\ events[i].session \in Sessions
                                 /\ events[i].type \in {"Connected", "Packet", "Disconnected"}
    <3> SUFFICES ASSUME NEW i \in DOMAIN events
                 PROVE  /\ events[i].session \in Sessions
                        /\ events[i].type \in {"Connected", "Packet", "Disconnected"}
      OBVIOUS
    <3>1. events[i] \in Events
      BY <2>1 DEF EventsOK
    <3> QED
      BY <3>1 DEF Events
  <2> QED
    BY <2>1, <2>2 DEF ServerTypeOK, EventsOK, DeadlineTypes, Views
<1> QED
  BY <1>1, ViewsInvariance, PTL
================================================================================
