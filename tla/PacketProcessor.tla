---------------------------- MODULE PacketProcessor ----------------------------
(***************************************************************************)
(* The server loop.  The network (here: the connections and the queue of   *)
(* events INetwork promises; TcpNetwork.tla has the sockets) and           *)
(* PacketProcessor::Update take turns, on one thread.  Update works        *)
(* through its agenda: the calls it still has to make, in order.  Each     *)
(* call is one step, so that time can pass between them, and the steps     *)
(* change users and rooms by the operations of RoomManager only.           *)
(*                                                                         *)
(* The clients are there as their views of the game (ClientView.tla), which *)
(* every notification sent to them changes.  Sending fails for a client    *)
(* that is not connected or whose send buffer is full: then the server     *)
(* disconnects it.                                                         *)
(***************************************************************************)
EXTENDS RoomManager, ClientView, Packets

CONSTANTS
  LoginTime,    \* m_loginTimeout
  MaxBatch,     \* bound: events the network collects before one Update
  PacketIds,    \* the packets the clients of an instance send
  SlowClients   \* sessions whose send buffer may be full

ASSUME ServerConstants ==
  /\ LoginTime \in Nat \ {0}
  /\ MaxBatch \in Nat \ {0}
  /\ SlowClients \subseteq Sessions

VARIABLES
  clients,     \* the sessions connected (m_clients of the network)
  events,      \* m_events
  deadlines,   \* m_loginDeadlines: the time left, of sessions that must log in
  agenda,      \* what Update has still to do; empty while the network runs
  views        \* what each client knows, see ClientView.tla

serverVars == <<vars, clients, events, deadlines, agenda, views>>

\* The packets of clients.  "BAD" is one without a handler, or that does not
\* decode; "OTHER" is one whose answer depends on the managers but changes
\* nothing (ECHO_REQ, ROOM_LIST_REQ).
ClientPackets ==
  LET all == [id : {"LOGIN_REQ"}, nick : Nicknames]
             \cup [id : {"ROOM_CREATE_REQ", "ROOM_LEAVE_REQ", "ROOM_START_REQ",
                         "CHAT_REQ", "OTHER", "BAD"}]
             \cup [id : {"ROOM_ENTER_REQ"}, room : RoomIds]
             \cup [id : {"ROOM_READY_REQ"}, ready : BOOLEAN]
             \cup [id : {"GAME_MOVE_REQ", "GAME_RESIGN_REQ"}, room : RoomIds, game : GameIds]
  IN {p \in all : p.id \in PacketIds}

\* The age of a Connected event is what OccurredAt is for.
Connected(s)    == [type |-> "Connected", session |-> s, age |-> 0]
Received(s, p)  == [type |-> "Packet", session |-> s, packet |-> p]
Disconnected(s) == [type |-> "Disconnected", session |-> s]

-----------------------------------------------------------------------------
(* The calls of Update *)

Call(name)    == [do |-> name]
Tell(r)       == [do |-> "NotifyRoomMember", room |-> r]
TellState(r)  == [do |-> "NotifyRoomState", room |-> r]
SendLeftTo(s, result) == [do |-> "SendLeft", session |-> s, result |-> result]

Update_FlushFirst ==
  <<Call("UpdateTimeouts"), Call("FlushFinishedGames"), Call("Drain"),
    Call("CheckLoginTimeouts"), Call("CheckLoginTimeouts"), Call("UpdateTimeouts")>>

Update == <<Call("UpdateTimeouts"), Call("FlushFinishedGames"), Call("Drain"),
            Call("CheckLoginTimeouts"), Call("CheckLoginTimeouts"),
            Call("UpdateTimeouts"), Call("FlushFinishedGames")>>

Doing(name)    == agenda # <<>> /\ agenda[1].do = name
Done           == agenda' = Tail(agenda)
First(calls)   == agenda' = calls \o agenda
-----------------------------------------------------------------------------
(* The network as its users see it *)

\* CloseClient for each of these, which leaves "rest" and their events queued.
Disconnecting(lost, rest) ==
  /\ clients' = clients \ lost
  /\ \E q \in Orders(lost \cap clients) :
        events' = rest \o [i \in DOMAIN q |-> Disconnected(q[i])]

\* SendPacket to each of these.  Some of the slow ones may be lost by it.
SendTo(targets, message, rest) ==
  \E lost \in SUBSET (targets \cap clients \cap SlowClients) :
    /\ Disconnecting(lost, rest)
    /\ views' = [s \in Sessions |-> IF s \in (targets \cap clients) \ lost
                                    THEN Read(views[s], message) ELSE views[s]]

\* The same for a message that changes no view.
Answer(targets, rest) ==
  /\ \E lost \in SUBSET (targets \cap clients \cap SlowClients) : Disconnecting(lost, rest)
  /\ UNCHANGED views

Quiet == UNCHANGED <<clients, events, views>>

-----------------------------------------------------------------------------
(* Notifications *)

EndOf(e) == [type |-> "GAME_END_NTF", room |-> e.room, game |-> e.game,
             state |-> e.status, reason |-> e.reason, moves |-> e.moves]

StateOf(r) ==
  [type |-> "ROOM_STATE_NTF", room |-> r, game |-> rooms[r].gameId, phase |-> rooms[r].phase,
   host |-> users[rooms[r].host].nick,
   players |-> {users[s].nick : s \in rooms[r].members},
   ready |-> {users[s].nick : s \in rooms[r].ready}]

\* FlushFinishedGames, one finished game at a time.
FlushFinishedGames ==
  /\ Doing("FlushFinishedGames")
  /\ \/ /\ finished = <<>>
        /\ Done /\ Quiet /\ UNCHANGED vars
     \/ /\ PopFinishedGame
        /\ LET e == Head(finished)
           IN IF IsValidGameEnd(EndOf(e))
              THEN SendTo(e.targets, EndOf(e), events) /\ First(<<TellState(e.room)>>)
              ELSE Disconnecting(e.targets, events) /\ UNCHANGED <<agenda, views>>
  /\ UNCHANGED deadlines

\* Whether NotifyRoomState finds everybody it has to name.
StateKnown(r) ==
  /\ RoomExists(r)
  /\ LoggedIn(rooms[r].host)
  /\ \A s \in rooms[r].members : LoggedIn(s) /\ users[s].room = r

NotifyRoomState ==
  /\ Doing("NotifyRoomState")
  /\ LET r == agenda[1].room
     IN IF StateKnown(r) /\ IsValidRoomState(StateOf(r))
        THEN SendTo(rooms[r].members, StateOf(r), events)
        ELSE Quiet
  /\ Done /\ UNCHANGED <<vars, deadlines>>

\* NotifyRoomMember, and the broadcast of HandleChat.
NotifyRoomMember ==
  /\ Doing("NotifyRoomMember")
  /\ LET r == agenda[1].room
     IN Answer(IF RoomExists(r) THEN rooms[r].members ELSE {}, events)
  /\ Done /\ UNCHANGED <<vars, deadlines>>

\* The answer of HandleRoomLeave, which comes after the results just flushed.
SendLeft ==
  /\ Doing("SendLeft")
  /\ LET s == agenda[1].session
     IN IF agenda[1].result = "Success"
        THEN SendTo({s}, [type |-> "ROOM_LEAVE_RES"], events)
        ELSE Answer({s}, events)
  /\ Done /\ UNCHANGED <<vars, deadlines>>

-----------------------------------------------------------------------------
(* The handlers: s has sent a packet, the rest of the queue is Tail(events).  *)
(* Each answers s, and adds to the agenda the calls it makes after that.      *)

Reply(s)  == Answer({s}, Tail(events))
NoReply   == events' = Tail(events) /\ UNCHANGED <<clients, views>>
Refuse(s) == Reply(s) /\ UNCHANGED <<vars, agenda>>

WithoutDeadline(S) == [c \in DOMAIN deadlines \ S |-> deadlines[c]]

HandleLogin_KeepsDeadline(s, nick) ==
  IF LoginResult(s, nick) = "Success"
  THEN Login(s, nick) /\ UNCHANGED deadlines /\ Reply(s) /\ UNCHANGED agenda
  ELSE Refuse(s) /\ UNCHANGED deadlines

HandleLogin(s, nick) ==
  IF LoginResult(s, nick) = "Success"
  THEN /\ Login(s, nick)
       /\ deadlines' = WithoutDeadline({s})
       /\ Reply(s) /\ UNCHANGED agenda
  ELSE Refuse(s) /\ UNCHANGED deadlines

\* After two answers, and only if both were queued, the room hears it.
HandleChat(s) ==
  IF MemberResult(s) = "Success"
  THEN /\ Reply(s) /\ UNCHANGED vars
       /\ IF s \in clients' THEN First(<<Tell(users[s].room)>>) ELSE UNCHANGED agenda
  ELSE Refuse(s)

HandleRoomCreate(s) ==
  IF CreateResult(s) = "Success"
  THEN /\ CreateRoom(s) /\ Reply(s)
       /\ First(<<Tell(lastRoomId + 1), TellState(lastRoomId + 1)>>)
  ELSE Refuse(s)

HandleRoomEnter(s, r) ==
  IF EnterResult(s, r) = "Success"
  THEN EnterRoom(s, r) /\ Reply(s) /\ First(<<Tell(r), TellState(r)>>)
  ELSE Refuse(s)

\* Even a refused leave flushes what earlier requests of the batch left queued.
HandleRoomLeave(s) ==
  IF ~LoggedIn(s) THEN Refuse(s)
  ELSE LET result == LeaveResult(s)
           then == <<Call("FlushFinishedGames"), SendLeftTo(s, result)>>
           r == users[s].room
       IN /\ NoReply
          /\ IF result = "Success"
             THEN LeaveRoom(s, "LeftRoom") /\ First(then \o <<Tell(r), TellState(r)>>)
             ELSE UNCHANGED vars /\ First(then)

HandleRoomReady(s, ready) ==
  IF ReadyResult(s) = "Success"
  THEN SetReady(s, ready) /\ Reply(s) /\ First(<<TellState(users[s].room)>>)
  ELSE Refuse(s)

HandleRoomStart(s) ==
  IF StartResult(s) = "Success"
  THEN StartGame(s) /\ Reply(s) /\ First(<<TellState(users[s].room)>>)
  ELSE Refuse(s)

\* GAME_MOVE_NTF, after the move.
MoveOf(s, r) ==
  LET game == rooms'[r].game
  IN [type |-> "GAME_MOVE_NTF", room |-> r, game |-> rooms'[r].gameId,
      stone |-> StoneOf(rooms[r], s), next |-> game.next, state |-> game.status,
      moves |-> game.moves]

\* A move that ends the game leaves its result queued, to be flushed later.
HandleGameMove(s, r, g) ==
  \E cell \in Cell(r), line \in Line(r) :
    IF StoneResult(s, r, g, cell) = "Success"
    THEN /\ PlaceStone(s, r, g, cell, line)
         /\ IF IsValidGameMove(MoveOf(s, r))
            THEN SendTo(rooms[r].members, MoveOf(s, r), Tail(events))
            ELSE Disconnecting(rooms[r].members, Tail(events)) /\ UNCHANGED views
         /\ UNCHANGED agenda
    ELSE IF AddressResult(s, r, g) = "Success" /\ TurnExpired(rooms[r])
    THEN PlaceStone(s, r, g, cell, line) /\ Reply(s) /\ UNCHANGED agenda
    ELSE Refuse(s)

\* So does a resignation.
HandleGameResign(s, r, g) ==
  IF \/ ResignResult(s, r, g) = "Success"
     \/ AddressResult(s, r, g) = "Success" /\ TurnExpired(rooms[r])
  THEN Resign(s, r, g) /\ Reply(s) /\ UNCHANGED agenda
  ELSE Refuse(s)

HandleBad(s) == Disconnecting({s}, Tail(events)) /\ UNCHANGED <<vars, agenda, views>>

ProcessPacket(s, p) ==
  \/ p.id = "LOGIN_REQ" /\ HandleLogin(s, p.nick)
  \/ /\ UNCHANGED deadlines
     /\ \/ p.id = "ROOM_CREATE_REQ" /\ HandleRoomCreate(s)
        \/ p.id = "ROOM_ENTER_REQ"  /\ HandleRoomEnter(s, p.room)
        \/ p.id = "ROOM_LEAVE_REQ"  /\ HandleRoomLeave(s)
        \/ p.id = "ROOM_READY_REQ"  /\ HandleRoomReady(s, p.ready)
        \/ p.id = "ROOM_START_REQ"  /\ HandleRoomStart(s)
        \/ p.id = "GAME_MOVE_REQ"   /\ HandleGameMove(s, p.room, p.game)
        \/ p.id = "GAME_RESIGN_REQ" /\ HandleGameResign(s, p.room, p.game)
        \/ p.id = "CHAT_REQ"        /\ HandleChat(s)
        \/ p.id = "OTHER"           /\ Refuse(s)
        \/ p.id = "BAD"             /\ HandleBad(s)

-----------------------------------------------------------------------------
(* The events, and the login deadlines *)

LoginExpired(s) == s \in DOMAIN deadlines /\ deadlines[s] = 0

\* A connection that ended before its Connected event is looked at gets no deadline.
HandleConnected(e) ==
  /\ deadlines' = IF e.session \in clients
                  THEN [c \in DOMAIN deadlines \cup {e.session} |->
                          IF c = e.session THEN LoginTime - e.age ELSE deadlines[c]]
                  ELSE deadlines
  /\ NoReply /\ UNCHANGED <<vars, agenda>>

HandlePacket_AtAnyTime(e) ==
  \/ e.session \notin clients /\ NoReply /\ UNCHANGED <<vars, agenda, deadlines>>
  \/ e.session \in clients /\ ProcessPacket(e.session, e.packet)

HandlePacket(e) ==
  \/ e.session \notin clients /\ NoReply /\ UNCHANGED <<vars, agenda, deadlines>>
  \/ /\ e.session \in clients /\ LoginExpired(e.session)
     /\ deadlines' = WithoutDeadline({e.session})
     /\ HandleBad(e.session)
  \/ /\ e.session \in clients /\ ~LoginExpired(e.session)
     /\ ProcessPacket(e.session, e.packet)

HandleDisconnected_RoomOnly(s) ==
  /\ deadlines' = WithoutDeadline({s})
  /\ NoReply
  /\ IF LoggedIn(s) /\ LeaveResult(s) = "Success"
     THEN LeaveAndRemove(s) /\ First(<<Call("FlushFinishedGames"),
                                       Tell(users[s].room), TellState(users[s].room)>>)
     ELSE UNCHANGED <<vars, agenda>>

HandleDisconnected_RemoveFirst(s) ==
  /\ deadlines' = WithoutDeadline({s})
  /\ NoReply
  /\ users' = [users EXCEPT ![s] = NoUser]
  /\ byNickname' = NicknamesWithout(s)
  /\ UNCHANGED <<rooms, lastRoomId, lastGameId, finished, agenda>>

\* The room is left before the user is removed; then the results are flushed.
HandleDisconnected(s) ==
  /\ deadlines' = WithoutDeadline({s})
  /\ NoReply
  /\ IF ~LoggedIn(s) THEN UNCHANGED <<vars, agenda>>
     ELSE /\ LeaveAndRemove(s)
          /\ LET r == users[s].room
             IN First(<<Call("FlushFinishedGames")>>
                      \o IF LeaveResult(s) = "Success" THEN <<Tell(r), TellState(r)>> ELSE <<>>)

\* The loop over TryPopEvent.
Drain ==
  /\ Doing("Drain")
  /\ IF events = <<>> THEN Done /\ Quiet /\ UNCHANGED <<vars, deadlines>>
     ELSE LET e == Head(events)
          IN \/ e.type = "Connected"    /\ HandleConnected(e)
             \/ e.type = "Packet"       /\ HandlePacket(e)
             \/ e.type = "Disconnected" /\ HandleDisconnected(e.session)

CheckLoginTimeouts_OnlyForgets ==
  /\ Doing("CheckLoginTimeouts")
  /\ deadlines' = WithoutDeadline({s \in DOMAIN deadlines : LoginExpired(s)})
  /\ Done /\ Quiet /\ UNCHANGED vars

CheckLoginTimeouts ==
  /\ Doing("CheckLoginTimeouts")
  /\ LET expired == {s \in DOMAIN deadlines : LoginExpired(s)}
     IN deadlines' = WithoutDeadline(expired) /\ Disconnecting(expired, events)
  /\ Done /\ UNCHANGED <<vars, views>>

CallUpdateTimeouts ==
  /\ Doing("UpdateTimeouts")
  /\ IF ExpiredRooms # {} THEN UpdateTimeouts ELSE UNCHANGED vars
  /\ Done /\ Quiet /\ UNCHANGED deadlines

-----------------------------------------------------------------------------
(* The network and the clock *)

\* A session id is not given again before everything about it is forgotten
\* (in the code: never).
Accept(s) ==
  /\ agenda = <<>> /\ Len(events) < MaxBatch
  /\ s \notin clients /\ ~LoggedIn(s) /\ s \notin DOMAIN deadlines
  /\ \A i \in DOMAIN events : events[i].session # s
  /\ clients' = clients \cup {s}
  /\ events' = Append(events, Connected(s))
  /\ views' = [views EXCEPT ![s] = ResetView(0)]
  /\ UNCHANGED <<vars, deadlines, agenda>>

Receive(s, p) ==
  /\ agenda = <<>> /\ Len(events) < MaxBatch
  /\ s \in clients
  /\ events' = Append(events, Received(s, p))
  /\ UNCHANGED <<vars, clients, deadlines, agenda, views>>

\* The peer closes, or its socket fails, or it breaks the framing.
HangUp(s) ==
  /\ agenda = <<>>
  /\ s \in clients
  /\ Disconnecting({s}, events)
  /\ UNCHANGED <<vars, deadlines, agenda, views>>

BeginUpdate ==
  /\ agenda = <<>>
  /\ agenda' = Update
  /\ UNCHANGED <<vars, deadlines>> /\ Quiet

Older(e) == IF e.type = "Connected" /\ e.age < LoginTime THEN [e EXCEPT !.age = @ + 1] ELSE e

PassTime ==
  /\ IF \E r \in LiveRooms : rooms[r].left > 0 THEN Tick ELSE UNCHANGED vars
  /\ deadlines' = [s \in DOMAIN deadlines |-> IF deadlines[s] > 0 THEN deadlines[s] - 1 ELSE 0]
  /\ events' = [i \in DOMAIN events |-> Older(events[i])]
  /\ UNCHANGED <<clients, agenda, views>>

-----------------------------------------------------------------------------

ServerInit ==
  /\ Init
  /\ clients = {} /\ events = <<>> /\ agenda = <<>>
  /\ deadlines = [s \in {} |-> 0]
  /\ views = [s \in Sessions |-> ResetView(0)]

UpdateStep ==
  \/ CallUpdateTimeouts
  \/ FlushFinishedGames
  \/ NotifyRoomState
  \/ NotifyRoomMember
  \/ SendLeft
  \/ Drain
  \/ CheckLoginTimeouts

ServerNext ==
  \/ \E s \in Sessions : Accept(s)
  \/ \E s \in Sessions, p \in ClientPackets : Receive(s, p)
  \/ \E s \in Sessions : HangUp(s)
  \/ BeginUpdate
  \/ UpdateStep
  \/ PassTime

ServerSpec == ServerInit /\ [][ServerNext]_serverVars

\* The loop of ServerApp::Run never stops turning, and time never stops.
FairServerSpec ==
  ServerSpec /\ WF_serverVars(BeginUpdate \/ UpdateStep) /\ WF_serverVars(PassTime)

-----------------------------------------------------------------------------
(* Invariants *)

Pending(s, type) == \E i \in DOMAIN events : events[i].session = s /\ events[i].type = type

ServerTypeOK ==
  /\ clients \subseteq Sessions
  /\ \A i \in DOMAIN events : /\ events[i].session \in Sessions
                              /\ events[i].type \in {"Connected", "Packet", "Disconnected"}
  /\ DOMAIN deadlines \subseteq Sessions
  /\ \A s \in DOMAIN deadlines : deadlines[s] \in 0..LoginTime
  /\ \A s \in Sessions : views[s].error \in Errors /\ views[s].moves \in 0..Cells

\* Nobody sits on a connection without having to log in: whoever is connected and
\* not logged in has a deadline as soon as the connection has been looked at, and
\* those who have logged in, or are gone, have none.
DeadlinesExact ==
  /\ \A s \in clients : ~LoggedIn(s) /\ ~Pending(s, "Connected") => s \in DOMAIN deadlines
  /\ \A s \in DOMAIN deadlines : ~LoggedIn(s) /\ (s \in clients \/ Pending(s, "Disconnected"))

\* Update leaves no result of a game untold.
ResultsAreOut == agenda = <<>> => finished = <<>>

\* No end of a game and no state of a room the server means to tell is refused by its codec,
\* and the room names only users who are there, even amid a clean-up.  (A move that is not
\* encoded cuts off its room: CutForReason.)
EverythingEncodes ==
  /\ Doing("FlushFinishedGames") /\ finished # <<>> => IsValidGameEnd(EndOf(Head(finished)))
  /\ Doing("NotifyRoomState") /\ RoomExists(agenda[1].room)
       => StateKnown(agenda[1].room) /\ IsValidRoomState(StateOf(agenda[1].room))

\* Between updates a client that has not failed knows where its user is, and the
\* state of the game there; a result it shows is the one the server has.
ViewAgrees(view, user) ==
  IF user.state = "Lobby" THEN view.room = NoRoomId /\ ~view.playing
  ELSE LET room == rooms[user.room]
       IN /\ view.room = user.room
          /\ view.game = room.gameId
          /\ view.playing <=> room.phase = "Playing"
          /\ view.playing => /\ view.state = "Playing"
                             /\ view.moves = room.game.moves
                             /\ view.next = room.game.next
          /\ view.state \in FinalStatus /\ room.game.status \in FinalStatus
               => view.state = room.game.status

ViewsAgree ==
  agenda = <<>> => \A s \in clients : LoggedIn(s) /\ views[s].error = "None"
                                       => ViewAgrees(views[s], users[s])

\* The board of a client never misses a move, and a game it has seen end does not
\* go on.
BoardsInSync == \A s \in Sessions : views[s].error \notin {"MoveOutOfSync", "BackToPlaying"}

\* "The final board of the same game is left standing" (ChatClient.cpp:677), and a
\* result for the game on show that does not fit it is an error (:850): so no client
\* is told that its room waits before it is told the result of the game it plays.
EndsInSync == \A s \in Sessions : views[s].error # "EndOutOfSync"

-----------------------------------------------------------------------------
(* Action properties *)

\* The server cuts a connection for a reason: the time to log in is over, the client
\* sent what no client sends, or does not read what it is sent.
CutForReason ==
  [][\A s \in clients \ clients' :
       \/ agenda = <<>>
       \/ LoginExpired(s)
       \/ s \in SlowClients
       \/ events # <<>> /\ events[1].session = s /\ events[1].type = "Packet"
          /\ events[1].packet.id = "BAD"]_serverVars

\* A game changes only because its time passes or is over, because a player leaves
\* it, or because of a request of one of its players that names this room and this
\* very game, a move being the player's to make: nothing sent during an earlier game
\* of the room, however long it waited in the queue, touches the next one.
Answers(e, r) ==
  /\ e.session \in rooms[r].members
  /\ \/ e.type = "Disconnected"
     \/ /\ e.type = "Packet"
        /\ \/ e.packet.id = "ROOM_LEAVE_REQ"
           \/ /\ e.packet.id \in {"GAME_MOVE_REQ", "GAME_RESIGN_REQ"}
              /\ e.packet.room = r /\ e.packet.game = rooms[r].gameId
              /\ e.packet.id = "GAME_MOVE_REQ"
                   => StoneOf(rooms[r], e.session) = rooms[r].game.next

GamesAnswerRequests ==
  [][\A r \in LiveRooms : Running(r) /\ rooms'[r] # rooms[r] =>
       \/ TurnExpired(rooms[r])
       \/ rooms'[r] \in {[rooms[r] EXCEPT !.left = time] : time \in 0..rooms[r].left}
       \/ Doing("Drain") /\ events # <<>> /\ Answers(Head(events), r)]_serverVars

\* Nobody logs in after the deadline, nor before it was set, nor once disconnected,
\* however late the request is looked at.
NoLateLogin ==
  [][\A s \in Sessions : ~LoggedIn(s) /\ LoggedIn(s)' =>
       s \in clients /\ s \in DOMAIN deadlines /\ deadlines[s] > 0]_serverVars

\* The server does to users and rooms only what RoomManager.tla says, so that what
\* is shown there of the managers holds of them in the server.
ImplementsManagers == Spec

-----------------------------------------------------------------------------
(* Liveness *)

\* A connection that does not log in is dropped in the end.
SilentAreDropped ==
  \A s \in Sessions : (s \in clients /\ ~LoggedIn(s)) ~> (s \notin clients \/ LoggedIn(s))

\* A user whose connection is lost is removed in the end.
GhostsAreBuried ==
  \A s \in Sessions : (LoggedIn(s) /\ s \notin clients) ~> ~LoggedIn(s)
================================================================================
