--------------------------- MODULE RoomManagerProofs ---------------------------
(***************************************************************************)
(* Theorems about RoomManager, for every set of sessions and nicknames,    *)
(* every board, every turn time and every limit.  The first part says what *)
(* each operation of a Room does to a sound Room.  The inductive invariant *)
(* Inv joins that with what the two managers say about users and rooms;    *)
(* one lemma per operation shows that the operation preserves it.          *)
(*                                                                         *)
(* The second part is about the games: that every result in the queue can  *)
(* be explained by its game, and what a step may do to a game that runs.   *)
(* All of it rests on one lemma, StepIs: whatever operation a step is, a   *)
(* room changes in one of the ways listed in RoomStep, and the queue of    *)
(* results loses its head or grows by results of rooms whose games were    *)
(* running.  The properties then follow from those few cases.              *)
(***************************************************************************)
EXTENDS RoomManager, FiniteSetTheorems, SequenceTheorems, TLAPS

\* A Room as it is between two operations.
GoodRoom(room) == room \in Rooms /\ RoomSound(room) /\ PlayingSound(room)

\* A Room whose game has just got its result, as FinishRoom finds it: everything
\* else still is as it was while the game ran.
JustOver(room) ==
  /\ room \in Rooms /\ RoomSound(room)
  /\ room.phase = "Playing"
  /\ room.game.status \in FinalStatus
  /\ Cardinality(room.members) = Capacity
  /\ room.gameId \in GameIds

-----------------------------------------------------------------------------
(* Sets of at most two members *)

\* Members are finitely many, so they can be counted.
LEMMA MembersFinite ==
  ASSUME NEW room \in Rooms
  PROVE  IsFiniteSet(room.members) /\ Cardinality(room.members) \in Nat
<1>1. room.members \in SUBSET Sessions
  BY DEF Rooms
<1>2. IsFiniteSet(room.members)
  BY <1>1, RoomConstants, FS_Subset
<1> QED
  BY <1>2, FS_CardinalityType

\* Room::RemoveMember and Room::StartGame pick the first of a set of members that
\* is not empty: whom they pick is one of them.
LEMMA TheOneIsIn ==
  ASSUME NEW S, S # {}
  PROVE  TheOne(S) \in S
<1>1. PICK s : s \in S
  OBVIOUS
<1>2. (CHOOSE x \in S : TRUE) \in S
  BY <1>1
<1> QED
  BY <1>2 DEF TheOne

\* Two members, one of them the host: the other one is the only guest.
LEMMA TwoMembers ==
  ASSUME NEW S, NEW h \in S, IsFiniteSet(S), Cardinality(S) = 2
  PROVE  /\ TheOne(S \ {h}) \in S \ {h}
         /\ S = {h, TheOne(S \ {h})}
<1>1. IsFiniteSet(S \ {h}) /\ Cardinality(S \ {h}) = 1
  BY FS_RemoveElement
<1>2. PICK g : S \ {h} = {g}
  BY <1>1, FS_Singleton
<1>3. TheOne(S \ {h}) \in S \ {h}
  BY <1>2, TheOneIsIn
<1> QED
  BY <1>2, <1>3

\* A pair has two elements, one element has one.
LEMMA PairCounts ==
  ASSUME NEW a, NEW b, a # b
  PROVE  IsFiniteSet({a, b}) /\ Cardinality({a, b}) = 2
<1>1. IsFiniteSet({a}) /\ Cardinality({a}) = 1
  BY FS_Singleton
<1>2. {a, b} = {a} \cup {b}
  OBVIOUS
<1> QED
  BY <1>1, <1>2, FS_AddElement

-----------------------------------------------------------------------------
(* Games *)

\* The games OmokGame makes by itself are games.
LEMMA GameTypes ==
  /\ ResetGame \in Games
  /\ StartedGame \in Games
  /\ ResetGame.status = "NotStarted" /\ StartedGame.status = "Playing"
  /\ StartedGame.next = "Black" /\ StartedGame.moves = 0
<1>1. 0 \in 0..Cells
  BY GameConstants
<1> QED
  BY <1>1 DEF ResetGame, StartedGame, Games, GameStatus, Stones, FinalStatus, Players

\* OmokGame::Forfeit ends the game in favour of the other player.
LEMMA ForfeitedEnds ==
  ASSUME NEW game \in Games, NEW loser \in Players
  PROVE  /\ Forfeited(game, loser) \in Games
         /\ Forfeited(game, loser).status \in {"BlackWon", "WhiteWon"}
         /\ Forfeited(game, loser).moves = game.moves
BY DEF Forfeited, Games, WonBy, Opponent, GameStatus, FinalStatus, Stones, Players

\* OmokGame::TryPlaceStone leaves a game that goes on with a free cell and a player
\* to move, or one that has a result.
LEMMA PlacedIsGame ==
  ASSUME NEW game \in Games, NEW stone \in Players, NEW line \in BOOLEAN,
         game.moves < Cells
  PROVE  LET after == Placed(game, stone, line)
         IN /\ after \in Games
            /\ after.status \in FinalStatus \cup {"Playing"}
            /\ after.status = "Playing" => after.next \in Players /\ after.moves < Cells
<1>1. game.moves \in Nat /\ game.moves + 1 \in 0..Cells
  BY GameConstants DEF Games
<1> QED
  BY <1>1, GameConstants
     DEF Placed, Games, WonBy, Opponent, GameStatus, FinalStatus, Stones, Players

-----------------------------------------------------------------------------
(* The operations of a Room *)

\* Room::Room
LEMMA NewRoomGood ==
  ASSUME NEW s \in Sessions
  PROVE  GoodRoom(NewRoom(s))
<1>1. Cardinality({s}) = 1
  BY FS_Singleton
<1>2. NewRoom(s) \in Rooms
  BY GameTypes, RoomConstants DEF NewRoom, Rooms
<1> QED
  BY <1>1, <1>2, GameTypes DEF GoodRoom, NewRoom, RoomSound, PlayingSound, Capacity

\* Room::AddMember
LEMMA AddedGood ==
  ASSUME NEW room, GoodRoom(room), NEW s \in Sessions, CanAdd(room, s)
  PROVE  /\ GoodRoom(Added(room, s))
         /\ Added(room, s).members = room.members \cup {s}
         /\ Added(room, s).phase = room.phase
         /\ Added(room, s).gameId = room.gameId
<1> USE DEF GoodRoom
<1>1. Cardinality(room.members \cup {s}) = Cardinality(room.members) + 1
  BY MembersFinite, FS_AddElement DEF CanAdd
<1>2. Cardinality(room.members \cup {s}) <= Capacity
  BY <1>1, MembersFinite DEF CanAdd, Capacity
<1>3. Added(room, s) \in Rooms
  BY DEF Added, Rooms
<1> QED
  BY <1>2, <1>3 DEF Added, RoomSound, PlayingSound, CanAdd, Rooms

\* Room::RemoveMember, when somebody stays behind
LEMMA RemovedGood ==
  ASSUME NEW room, room \in Rooms, RoomSound(room), NEW s \in room.members, room.members # {s}
  PROVE  /\ GoodRoom(Removed(room, s))
         /\ Removed(room, s).members = room.members \ {s}
         /\ Removed(room, s).phase = "Waiting"
         /\ Removed(room, s).gameId = room.gameId
<1>1. /\ TheOne(room.members \ {s}) \in room.members \ {s}
      /\ room.members \ {s} # {}
  <2>1. room.members \ {s} # {}
    OBVIOUS
  <2> QED
    BY <2>1, TheOneIsIn
<1>2. Cardinality(room.members \ {s}) <= Capacity
  <2>1. /\ IsFiniteSet(room.members)
        /\ Cardinality(room.members) \in Nat
        /\ Cardinality(room.members) <= 2
    BY MembersFinite DEF RoomSound, Capacity
  <2>2. Cardinality(room.members \ {s}) = Cardinality(room.members) - 1
    BY <2>1, FS_RemoveElement
  <2> QED
    BY <2>1, <2>2 DEF Capacity
<1>3. Removed(room, s) \in Rooms
  <2>1. 0 \in 0..TurnTime /\ room.members \in SUBSET Sessions
    BY RoomConstants DEF Rooms
  <2>2. TheOne(room.members \ {s}) \in Sessions
    BY <1>1, <2>1
  <2> QED
    BY ZenonT(60), <2>1, <2>2, GameTypes DEF Removed, Rooms
<1>4. /\ Removed(room, s).host \in room.members \ {s}
      /\ Removed(room, s).members = room.members \ {s}
      /\ Removed(room, s).ready = {}
      /\ Removed(room, s).phase = "Waiting"
      /\ Removed(room, s).game = ResetGame
      /\ Removed(room, s).gameId = room.gameId
  BY <1>1 DEF Removed, RoomSound, Rooms
<1> QED
  BY <1>2, <1>3, <1>4, GameTypes DEF GoodRoom, RoomSound, PlayingSound

\* Room::SetReady, for a guest of a waiting room
LEMMA WithReadyGood ==
  ASSUME NEW room, GoodRoom(room), NEW s \in room.members, NEW ready \in BOOLEAN,
         s # room.host, room.phase # "Playing"
  PROVE  /\ GoodRoom(WithReady(room, s, ready))
         /\ WithReady(room, s, ready).members = room.members
         /\ WithReady(room, s, ready).phase = room.phase
         /\ WithReady(room, s, ready).gameId = room.gameId
BY DEF GoodRoom, WithReady, Rooms, RoomSound, PlayingSound

\* Room::StartGame, for a room with two members
LEMMA StartedGood ==
  ASSUME NEW room, GoodRoom(room), NEW id \in GameIds,
         Cardinality(room.members) = Capacity
  PROVE  /\ GoodRoom(Started(room, id))
         /\ Started(room, id).members = room.members
         /\ Started(room, id).gameId = id
<1> USE DEF GoodRoom
<1>1. room.host \in room.members /\ room.members \in SUBSET Sessions
  BY DEF RoomSound, Rooms
<1>2. /\ TheOne(room.members \ {room.host}) \in room.members \ {room.host}
      /\ room.members = {room.host, TheOne(room.members \ {room.host})}
  BY <1>1, MembersFinite, TwoMembers DEF Capacity
<1>3. TurnTime \in 0..TurnTime /\ id \in 0..MaxGameId /\ id # 0
  BY RoomConstants DEF GameIds
<1>4. Started(room, id) \in Rooms
  BY <1>1, <1>2, <1>3, GameTypes DEF Started, Rooms
<1>5. /\ Started(room, id).members = room.members
      /\ Started(room, id).host = room.host
      /\ Started(room, id).ready = {}
      /\ Started(room, id).phase = "Playing"
      /\ Started(room, id).game = StartedGame
      /\ Started(room, id).gameId = id
      /\ Started(room, id).black = room.host
      /\ Started(room, id).white = TheOne(room.members \ {room.host})
  BY DEF Started, Rooms
<1>6. RoomSound(Started(room, id))
  BY <1>1, <1>5 DEF RoomSound
<1>7. PlayingSound(Started(room, id))
  BY <1>2, <1>3, <1>5, GameTypes, GameConstants DEF PlayingSound, Players
<1> QED
  BY <1>4, <1>5, <1>6, <1>7

\* A room that plays has two members, and each of them has a stone.
LEMMA PlayersHaveStones ==
  ASSUME NEW room, GoodRoom(room), room.phase = "Playing"
  PROVE  /\ Cardinality(room.members) = Capacity
         /\ \A s \in room.members : StoneOf(room, s) \in Players
         /\ room.game.next \in Players
         /\ room.gameId \in GameIds
<1>1. /\ room.members = {room.black, room.white}
      /\ room.black # room.white
  BY DEF GoodRoom, PlayingSound
<1>2. Cardinality(room.members) = 2
  <2>1. Cardinality({room.black, room.white}) = 2
    BY <1>1, PairCounts
  <2> QED
    BY <1>1, <2>1
<1>3. room.gameId \in GameIds
  BY RoomConstants DEF GoodRoom, PlayingSound, Rooms, GameIds
<1> QED
  BY <1>1, <1>2, <1>3 DEF GoodRoom, PlayingSound, StoneOf, Players, Capacity

\* Room::Forfeit on a running game
LEMMA ForfeitIsOver ==
  ASSUME NEW room, GoodRoom(room), room.phase = "Playing", NEW loser \in Players
  PROVE  /\ JustOver(Forfeit(room, loser))
         /\ Forfeit(room, loser).members = room.members
         /\ Forfeit(room, loser).gameId = room.gameId
         /\ Forfeit(room, loser).game = Forfeited(room.game, loser)
<1>1. room \in Rooms /\ room.game \in Games
  BY DEF GoodRoom, Rooms
<1>2. Forfeited(room.game, loser) \in Games /\ Forfeited(room.game, loser).status \in FinalStatus
  BY <1>1, ForfeitedEnds DEF FinalStatus
<1>3. /\ Forfeit(room, loser) \in Rooms
      /\ Forfeit(room, loser).game = Forfeited(room.game, loser)
      /\ Forfeit(room, loser).members = room.members
      /\ Forfeit(room, loser).host = room.host
      /\ Forfeit(room, loser).ready = room.ready
      /\ Forfeit(room, loser).phase = room.phase
      /\ Forfeit(room, loser).gameId = room.gameId
  BY <1>1, <1>2 DEF Forfeit, Rooms
<1> QED
  BY <1>2, <1>3, PlayersHaveStones DEF JustOver, GoodRoom, RoomSound

\* Room::PlaceStone when the move is accepted: the game goes on in a sound room, or
\* it has its result.
LEMMA MovedGood ==
  ASSUME NEW room, GoodRoom(room), NEW s \in room.members, NEW cell, NEW line \in BOOLEAN,
         PlaceResult(room, s, cell) = "Success"
  PROVE  LET moved == Moved(room, s, line)
         IN /\ moved.game.status = "Playing" => GoodRoom(moved)
            /\ moved.game.status # "Playing" => JustOver(moved)
            /\ moved.members = room.members
            /\ moved.gameId = room.gameId
            /\ moved.phase = "Playing"
<1> DEFINE moved == Moved(room, s, line)
           after == Placed(room.game, StoneOf(room, s), line)
<1>1. room \in Rooms /\ room.game \in Games
  BY DEF GoodRoom, Rooms
<1>2. room.phase = "Playing"
  BY DEF PlaceResult
<1>3. StoneOf(room, s) \in Players /\ room.game.moves < Cells
  BY <1>2, PlayersHaveStones DEF GoodRoom, PlayingSound
<1>4. /\ after \in Games
      /\ after.status \in FinalStatus \cup {"Playing"}
      /\ after.status = "Playing" => after.next \in Players /\ after.moves < Cells
  BY <1>1, <1>3, PlacedIsGame
<1>5. TurnTime \in 0..TurnTime
  BY RoomConstants
<1>6. /\ moved \in Rooms
      /\ moved.game = after
      /\ moved.members = room.members
      /\ moved.host = room.host
      /\ moved.ready = room.ready
      /\ moved.phase = room.phase
      /\ moved.black = room.black
      /\ moved.white = room.white
      /\ moved.gameId = room.gameId
  BY <1>1, <1>4, <1>5 DEF Moved, Rooms
<1>7. RoomSound(moved)
  BY <1>6 DEF GoodRoom, RoomSound
<1>8. ASSUME after.status = "Playing" PROVE PlayingSound(moved)
  BY <1>2, <1>4, <1>6, <1>8 DEF GoodRoom, PlayingSound
<1>9. ASSUME after.status # "Playing" PROVE JustOver(moved)
  BY <1>2, <1>4, <1>6, <1>7, <1>9, PlayersHaveStones DEF JustOver
<1> HIDE DEF moved, after
<1>10. /\ moved.game.status = "Playing" => GoodRoom(moved)
       /\ moved.game.status # "Playing" => JustOver(moved)
  BY <1>6, <1>7, <1>8, <1>9 DEF GoodRoom
<1> QED
  BY <1>2, <1>6, <1>10 DEF moved

\* Room::FinishGame makes a sound, waiting room of one whose game has its result.
LEMMA FinishedGood ==
  ASSUME NEW room, JustOver(room)
  PROVE  /\ GoodRoom(Finished(room))
         /\ Finished(room).members = room.members
         /\ Finished(room).phase = "Waiting"
         /\ Finished(room).gameId = room.gameId
<1>0. room \in Rooms /\ 0 \in 0..TurnTime
  BY RoomConstants DEF JustOver
<1>1. /\ Finished(room) \in Rooms
      /\ Finished(room).members = room.members
      /\ Finished(room).host = room.host
      /\ Finished(room).ready = {}
      /\ Finished(room).phase = "Waiting"
      /\ Finished(room).game = room.game
      /\ Finished(room).gameId = room.gameId
  BY <1>0 DEF Finished, Rooms
<1> QED
  BY <1>1 DEF GoodRoom, JustOver, RoomSound, PlayingSound, FinalStatus

\* The clock leaves a room sound.
LEMMA TickedGood ==
  ASSUME NEW room, GoodRoom(room), room.left > 0
  PROVE  /\ GoodRoom([room EXCEPT !.left = @ - 1])
         /\ [room EXCEPT !.left = @ - 1].members = room.members
         /\ [room EXCEPT !.left = @ - 1].gameId = room.gameId
         /\ [room EXCEPT !.left = @ - 1].phase = room.phase
BY RoomConstants DEF GoodRoom, RoomSound, PlayingSound, Rooms

-----------------------------------------------------------------------------
(* The managers *)

\* The inductive invariant
Inv ==
  /\ TypeOK
  /\ NicknamesAgree
  /\ MembersAgree
  /\ LobbyMeansNoRoom
  /\ RoomsSound

\* Everything of TypeOK but the queue.
TypesButQueue ==
  /\ users \in [Sessions -> Users \cup {NoUser}]
  /\ byNickname \in [Nicknames -> Sessions \cup {NoSession}]
  /\ rooms \in [RoomIds -> Rooms \cup {NoRoom}]
  /\ lastRoomId \in 0..MaxRoomId
  /\ lastGameId \in 0..MaxGameId

-----------------------------------------------------------------------------
(* Facts about a state *)

\* Each room that is there is sound, by itself and as the player of a game.
LEMMA LiveRoomsGood ==
  ASSUME Inv, NEW r \in LiveRooms
  PROVE  r \in RoomIds /\ rooms[r] \in Rooms /\ GoodRoom(rooms[r])
BY DEF Inv, TypeOK, LiveRooms, RoomsSound, GoodRoom

\* A user who is in a room is one of its members, and the room is there.
LEMMA MembersRoom ==
  ASSUME Inv, NEW s \in Sessions, LoggedIn(s), users[s].state = "InRoom"
  PROVE  /\ users[s].room \in LiveRooms
         /\ s \in rooms[users[s].room].members
<1>1. users[s] \in Users
  BY DEF Inv, TypeOK, LoggedIn
<1>2. users[s].room \in RoomIds
  BY <1>1, ManagerConstants DEF Inv, LobbyMeansNoRoom, NoRoomId, RoomIds, Users
<1> QED
  BY <1>2 DEF Inv, MembersAgree, RoomExists, LiveRooms

\* What FinishRoom queues is a complete record of a finished game.
LEMMA EndingType ==
  ASSUME NEW r \in RoomIds, NEW room, JustOver(room), NEW reason \in Reasons
  PROVE  Ending(r, room, reason) \in FinishedGames
BY DEF JustOver, Ending, FinishedGames, Rooms, Games

\* A queue stays a queue of finished games when one is added.
LEMMA QueueGrows ==
  ASSUME TypeOK, NEW e \in FinishedGames
  PROVE  /\ Append(finished, e) \in Seq(FinishedGames)
         /\ finished \o <<e>> = Append(finished, e)
         /\ finished \o << >> = finished
BY DEF TypeOK

-----------------------------------------------------------------------------
(* Changes of one room *)

\* When one live room is replaced by a sound one with the same members, everything
\* that was said about users and rooms still holds.
LEMMA ReplaceRoom ==
  ASSUME Inv, NEW r \in LiveRooms, NEW room, GoodRoom(room),
         room.members = rooms[r].members,
         rooms' = [rooms EXCEPT ![r] = room],
         lastGameId' \in 0..MaxGameId, lastGameId <= lastGameId',
         room.gameId <= lastGameId',
         UNCHANGED <<users, byNickname, lastRoomId>>
  PROVE  TypesButQueue' /\ NicknamesAgree' /\ MembersAgree' /\ LobbyMeansNoRoom' /\ RoomsSound'
<1>1. room \in Rooms /\ room # NoRoom
  BY ManagerConstants DEF GoodRoom
<1>2. LiveRooms' = LiveRooms /\ r \in RoomIds /\ rooms[r] # NoRoom
  BY <1>1 DEF LiveRooms, Inv, TypeOK
<1>3. TypesButQueue'
  BY <1>1, <1>2 DEF Inv, TypeOK, TypesButQueue
<1>4. NicknamesAgree' /\ LobbyMeansNoRoom'
  BY DEF Inv, NicknamesAgree, LobbyMeansNoRoom, LoggedIn
<1>5. \A q \in RoomIds : RoomExists(q)' <=> RoomExists(q)
  BY <1>1, <1>2 DEF RoomExists, Inv, TypeOK
<1>6. \A q \in RoomIds : RoomExists(q) => rooms'[q].members = rooms[q].members
  BY <1>2 DEF Inv, TypeOK
<1>7. MembersAgree'
  BY <1>5, <1>6 DEF Inv, MembersAgree, LoggedIn
<1>8. RoomsSound'
  <2>1. SUFFICES ASSUME NEW q \in LiveRooms
                 PROVE  /\ RoomSound(rooms'[q]) /\ PlayingSound(rooms'[q])
                        /\ q <= lastRoomId' /\ rooms'[q].gameId <= lastGameId'
    BY <1>2 DEF RoomsSound
  <2>2. CASE q = r
    BY <1>2, <2>2 DEF Inv, TypeOK, RoomsSound, GoodRoom
  <2>3. CASE q # r
    <3>1. q \in RoomIds /\ rooms'[q] = rooms[q] /\ rooms[q] \in Rooms
      BY <2>3, LiveRoomsGood DEF Inv, TypeOK
    <3>2. /\ RoomSound(rooms[q]) /\ PlayingSound(rooms[q])
          /\ q <= lastRoomId /\ rooms[q].gameId <= lastGameId
      BY DEF Inv, RoomsSound
    <3>3. rooms[q].gameId \in Int /\ lastGameId \in Int /\ lastGameId' \in Int
      BY <3>1, RoomConstants DEF Rooms, Inv, TypeOK
    <3> QED
      BY <3>1, <3>2, <3>3
  <2> QED
    BY <2>2, <2>3
<1> QED
  BY <1>3, <1>4, <1>7, <1>8

\* The types of the queue and of the rest make up TypeOK.
LEMMA TypesJoin ==
  ASSUME TypesButQueue', finished' \in Seq(FinishedGames),
         NicknamesAgree', MembersAgree', LobbyMeansNoRoom', RoomsSound'
  PROVE  Inv'
BY DEF Inv, TypeOK, TypesButQueue

-----------------------------------------------------------------------------
(* UserManager *)

\* UserManager::Login: the name was free and its new owner had none.
LEMMA LoginInv ==
  ASSUME Inv, NEW s \in Sessions, NEW nick \in Nicknames, Login(s, nick)
  PROVE  Inv'
<1> DEFINE user == [nick |-> nick, state |-> "Lobby", room |-> NoRoomId]
<1>1. /\ ~LoggedIn(s) /\ byNickname[nick] = NoSession
      /\ users' = [users EXCEPT ![s] = user]
      /\ byNickname' = [byNickname EXCEPT ![nick] = s]
      /\ UNCHANGED <<rooms, lastRoomId, lastGameId, finished>>
  BY DEF Login, LoginResult
<1>2. user \in Users /\ user # NoUser
  BY ManagerConstants DEF Users, NoRoomId
<1>3. TypeOK'
  BY <1>1, <1>2 DEF Inv, TypeOK
<1>4. /\ users'[s] = user
      /\ \A t \in Sessions \ {s} : users'[t] = users[t]
  BY <1>1 DEF Inv, TypeOK
<1>5. NicknamesAgree'
  <2>1. SUFFICES ASSUME NEW t \in Sessions, NEW n \in Nicknames
                 PROVE  byNickname'[n] = t <=> LoggedIn(t)' /\ users'[t].nick = n
    BY DEF NicknamesAgree
  <2>2. byNickname[n] = t <=> LoggedIn(t) /\ users[t].nick = n
    BY DEF Inv, NicknamesAgree
  <2>3. byNickname'[n] = IF n = nick THEN s ELSE byNickname[n]
    BY <1>1 DEF Inv, TypeOK
  <2>4. NoSession # t
    BY RoomConstants
  <2>5. CASE t = s
    BY <1>1, <1>2, <1>4, <2>2, <2>3, <2>5 DEF LoggedIn
  <2>6. CASE t # s
    BY <1>1, <1>4, <2>2, <2>3, <2>4, <2>6 DEF LoggedIn
  <2> QED
    BY <2>5, <2>6
<1>6. MembersAgree'
  <2>1. SUFFICES ASSUME NEW t \in Sessions, NEW r \in RoomIds
                 PROVE  LoggedIn(t)' /\ users'[t].state = "InRoom" /\ users'[t].room = r
                          <=> RoomExists(r)' /\ t \in rooms'[r].members
    BY DEF MembersAgree
  <2>2. LoggedIn(t) /\ users[t].state = "InRoom" /\ users[t].room = r
          <=> RoomExists(r) /\ t \in rooms[r].members
    BY DEF Inv, MembersAgree
  <2> QED
    BY <1>1, <1>4, <2>2 DEF LoggedIn, RoomExists
<1>7. LobbyMeansNoRoom'
  BY <1>4 DEF Inv, LobbyMeansNoRoom, LoggedIn
<1>8. RoomsSound'
  BY <1>1 DEF Inv, RoomsSound, LiveRooms
<1> QED
  BY <1>3, <1>5, <1>6, <1>7, <1>8 DEF Inv

-----------------------------------------------------------------------------
(* Operations on one room that keep its members *)

\* RoomManager::SetReady: a guest of a waiting room changes his mind.
LEMMA SetReadyInv ==
  ASSUME Inv, NEW s \in Sessions, NEW ready \in BOOLEAN, SetReady(s, ready)
  PROVE  Inv'
<1> DEFINE r == users[s].room
<1>1. /\ LoggedIn(s) /\ users[s].state = "InRoom"
      /\ rooms[r].phase # "Playing" /\ rooms[r].host # s
      /\ rooms' = [rooms EXCEPT ![r] = WithReady(rooms[r], s, ready)]
      /\ UNCHANGED <<users, byNickname, lastRoomId, lastGameId, finished>>
  BY DEF SetReady, ReadyResult, MemberResult
<1>2. r \in LiveRooms /\ s \in rooms[r].members
  BY <1>1, MembersRoom
<1>3. GoodRoom(rooms[r])
  BY <1>2, LiveRoomsGood
<1> DEFINE room == WithReady(rooms[r], s, ready)
<1>4. GoodRoom(room) /\ room.members = rooms[r].members /\ room.gameId = rooms[r].gameId
  BY <1>1, <1>2, <1>3, WithReadyGood
<1>5. lastGameId \in 0..MaxGameId /\ lastGameId <= lastGameId /\ room.gameId <= lastGameId
  BY <1>2, <1>4 DEF Inv, TypeOK, RoomsSound
<1> HIDE DEF room, r
<1>6. rooms' = [rooms EXCEPT ![r] = room]
  BY <1>1 DEF room, r
<1>7. TypesButQueue' /\ NicknamesAgree' /\ MembersAgree' /\ LobbyMeansNoRoom' /\ RoomsSound'
  BY <1>1, <1>2, <1>4, <1>5, <1>6, ReplaceRoom
<1> QED
  BY <1>1, <1>7, TypesJoin DEF Inv, TypeOK

\* RoomManager::StartGame: both members are there and the guest is ready.
LEMMA StartGameInv ==
  ASSUME Inv, NEW s \in Sessions, StartGame(s)
  PROVE  Inv'
<1> DEFINE r == users[s].room
           id == lastGameId + 1
           room == Started(rooms[r], id)
<1>1. /\ LoggedIn(s) /\ users[s].state = "InRoom"
      /\ Cardinality(rooms[r].members) = Capacity
      /\ lastGameId # MaxGameId
      /\ rooms' = [rooms EXCEPT ![r] = room]
      /\ lastGameId' = id
      /\ UNCHANGED <<users, byNickname, lastRoomId, finished>>
  BY DEF StartGame, StartResult, MemberResult
<1>2. r \in LiveRooms
  BY <1>1, MembersRoom
<1>3. GoodRoom(rooms[r])
  BY <1>2, LiveRoomsGood
<1>4. id \in GameIds /\ lastGameId <= id /\ id <= id /\ id \in 0..MaxGameId
  BY <1>1, RoomConstants DEF Inv, TypeOK, GameIds
<1>5. GoodRoom(room) /\ room.members = rooms[r].members /\ room.gameId = id
  BY <1>1, <1>3, <1>4, StartedGood
<1> HIDE DEF r, id, room
<1>6. TypesButQueue' /\ NicknamesAgree' /\ MembersAgree' /\ LobbyMeansNoRoom' /\ RoomsSound'
  BY <1>1, <1>2, <1>4, <1>5, ReplaceRoom
<1> QED
  BY <1>1, <1>6, TypesJoin DEF Inv, TypeOK

\* FinishRoom: a room whose game has its result goes back to waiting, and the result
\* enters the queue.
LEMMA FinishRoomInv ==
  ASSUME Inv, NEW r \in LiveRooms, NEW over, JustOver(over), NEW reason \in Reasons,
         over.members = rooms[r].members, over.gameId = rooms[r].gameId,
         rooms' = [rooms EXCEPT ![r] = Finished(over)],
         finished' = Append(finished, Ending(r, over, reason)),
         UNCHANGED <<users, byNickname, lastRoomId, lastGameId>>
  PROVE  Inv'
<1> DEFINE room == Finished(over)
<1>1. GoodRoom(room) /\ room.members = rooms[r].members /\ room.gameId = rooms[r].gameId
  BY FinishedGood
<1>2. /\ lastGameId' = lastGameId /\ lastGameId \in 0..MaxGameId /\ lastGameId <= lastGameId
      /\ room.gameId <= lastGameId
  BY <1>1 DEF Inv, TypeOK, RoomsSound
<1> HIDE DEF room
<1>3. rooms' = [rooms EXCEPT ![r] = room]
  BY DEF room
<1>4. TypesButQueue' /\ NicknamesAgree' /\ MembersAgree' /\ LobbyMeansNoRoom' /\ RoomsSound'
  BY <1>1, <1>2, <1>3, ReplaceRoom
<1>5. finished' \in Seq(FinishedGames)
  BY LiveRoomsGood, EndingType, QueueGrows DEF Inv
<1> QED
  BY <1>4, <1>5, TypesJoin

\* ExpireRoom, called at the head of PlaceStone and Resign
LEMMA ExpireBeforeRequestInv ==
  ASSUME Inv, NEW r \in LiveRooms, ExpireBeforeRequest(r),
         UNCHANGED <<users, byNickname, lastRoomId, lastGameId>>
  PROVE  Inv'
<1> DEFINE over == Forfeit(rooms[r], rooms[r].game.next)
<1>1. GoodRoom(rooms[r]) /\ rooms[r].phase = "Playing"
  BY LiveRoomsGood DEF ExpireBeforeRequest, TurnExpired
<1>2. /\ JustOver(over)
      /\ over.members = rooms[r].members /\ over.gameId = rooms[r].gameId
  BY <1>1, PlayersHaveStones, ForfeitIsOver
<1>3. /\ rooms' = [rooms EXCEPT ![r] = Finished(over)]
      /\ finished' = Append(finished, Ending(r, over, "TurnTimeout"))
  BY DEF ExpireBeforeRequest, Expire, ExpiryEnding
<1>4. "TurnTimeout" \in Reasons
  BY DEF Reasons
<1> HIDE DEF over
<1> QED
  BY <1>2, <1>3, <1>4, FinishRoomInv

\* RoomManager::Resign, or the expiry it finds instead.
LEMMA ResignInv ==
  ASSUME Inv, NEW s \in Sessions, NEW r \in RoomIds, NEW g, Resign(s, r, g)
  PROVE  Inv'
<1>1. /\ AddressResult(s, r, g) = "Success"
      /\ UNCHANGED <<users, byNickname, lastRoomId, lastGameId>>
  BY DEF Resign, ResignResult
<1>2. r \in LiveRooms /\ s \in rooms[r].members
  BY <1>1 DEF AddressResult, RoomExists, LiveRooms
<1>3. CASE ExpireBeforeRequest(r)
  BY <1>1, <1>2, <1>3, ExpireBeforeRequestInv
<1>4. CASE ResignResult(s, r, g) = "Success" /\ ~ExpireBeforeRequest(r)
  <2> DEFINE over == Forfeit(rooms[r], StoneOf(rooms[r], s))
  <2>1. /\ rooms[r].phase = "Playing"
        /\ StoneOf(rooms[r], s) \in Players
        /\ rooms' = [rooms EXCEPT ![r] = Finished(over)]
        /\ finished' = Append(finished, Ending(r, over, "Resigned"))
    BY <1>1, <1>4 DEF Resign, ResignResult, CanForfeit
  <2>2. GoodRoom(rooms[r])
    BY <1>2, LiveRoomsGood
  <2>3. /\ JustOver(over)
        /\ over.members = rooms[r].members /\ over.gameId = rooms[r].gameId
    BY <2>1, <2>2, ForfeitIsOver
  <2>4. "Resigned" \in Reasons
    BY DEF Reasons
  <2> HIDE DEF over
  <2> QED
    BY <1>1, <1>2, <2>1, <2>3, <2>4, FinishRoomInv
<1> QED
  BY <1>1, <1>3, <1>4 DEF Resign

\* RoomManager::PlaceStone: the expiry, a move that goes on, a move that ends.
LEMMA PlaceStoneInv ==
  ASSUME Inv, NEW s \in Sessions, NEW r \in RoomIds, NEW g, NEW cell, NEW line \in BOOLEAN,
         PlaceStone(s, r, g, cell, line)
  PROVE  Inv'
<1>1. /\ AddressResult(s, r, g) = "Success"
      /\ UNCHANGED <<users, byNickname, lastRoomId, lastGameId>>
  BY DEF PlaceStone, StoneResult
<1>2. r \in LiveRooms /\ s \in rooms[r].members
  BY <1>1 DEF AddressResult, RoomExists, LiveRooms
<1>3. CASE ExpireBeforeRequest(r)
  BY <1>1, <1>2, <1>3, ExpireBeforeRequestInv
<1>4. CASE StoneResult(s, r, g, cell) = "Success" /\ ~ExpireBeforeRequest(r)
  <2> DEFINE moved == Moved(rooms[r], s, line)
             reason == EndingReason(moved.game.status)
  <2>1. GoodRoom(rooms[r])
    BY <1>2, LiveRoomsGood
  <2>2. PlaceResult(rooms[r], s, cell) = "Success"
    BY <1>1, <1>4 DEF StoneResult
  <2>3. /\ moved.game.status = "Playing" => GoodRoom(moved)
        /\ moved.game.status # "Playing" => JustOver(moved)
        /\ moved.members = rooms[r].members
        /\ moved.gameId = rooms[r].gameId
    BY <1>2, <2>1, <2>2, MovedGood
  <2>4. IF moved.game.status = "Playing"
        THEN rooms' = [rooms EXCEPT ![r] = moved] /\ UNCHANGED finished
        ELSE /\ rooms' = [rooms EXCEPT ![r] = Finished(moved)]
             /\ finished' = Append(finished, Ending(r, moved, reason))
    BY <1>1, <1>4 DEF PlaceStone
  <2>5. /\ lastGameId \in 0..MaxGameId /\ lastGameId <= lastGameId
        /\ moved.gameId <= lastGameId
    BY <1>2, <2>3 DEF Inv, TypeOK, RoomsSound
  <2>6. reason \in Reasons
    BY DEF EndingReason, Reasons
  <2> HIDE DEF moved, reason
  <2>7. CASE moved.game.status = "Playing"
    <3>1. /\ TypesButQueue' /\ NicknamesAgree' /\ MembersAgree'
          /\ LobbyMeansNoRoom' /\ RoomsSound'
      BY <1>1, <1>2, <2>3, <2>4, <2>5, <2>7, ReplaceRoom
    <3> QED
      BY <2>4, <2>7, <3>1, TypesJoin DEF Inv, TypeOK
  <2>8. CASE moved.game.status # "Playing"
    BY <1>1, <1>2, <2>3, <2>4, <2>6, <2>8, FinishRoomInv
  <2> QED
    BY <2>7, <2>8
<1> QED
  BY <1>1, <1>3, <1>4 DEF PlaceStone
-----------------------------------------------------------------------------
(* Operations that change who is where *)

\* RoomManager::CreateRoom: a new room with its only member.
LEMMA CreateRoomInv ==
  ASSUME Inv, NEW s \in Sessions, CreateRoom(s)
  PROVE  Inv'
<1> DEFINE r == lastRoomId + 1
           room == NewRoom(s)
           user == InRoomUser(users[s], r)
<1>1. /\ LoggedIn(s) /\ users[s].state = "Lobby"
      /\ lastRoomId # MaxRoomId /\ ~RoomExists(r)
      /\ rooms' = [rooms EXCEPT ![r] = room]
      /\ users' = [users EXCEPT ![s] = user]
      /\ lastRoomId' = r
      /\ UNCHANGED <<byNickname, lastGameId, finished>>
  BY DEF CreateRoom, CreateResult
<1>2. /\ r \in RoomIds /\ r # NoRoomId /\ rooms[r] = NoRoom /\ lastRoomId < r
      /\ lastRoomId' \in 0..MaxRoomId /\ r \in 0..MaxRoomId
  BY <1>1, ManagerConstants DEF Inv, TypeOK, RoomIds, NoRoomId, RoomExists
<1>3. GoodRoom(room) /\ room.members = {s} /\ room.gameId = 0
  BY NewRoomGood DEF NewRoom
<1>4. room \in Rooms /\ room # NoRoom
  BY <1>3, ManagerConstants DEF GoodRoom
<1>5. /\ users[s] \in Users
      /\ user \in Users /\ user # NoUser
      /\ user.nick = users[s].nick /\ user.state = "InRoom" /\ user.room = r
  <2>1. users[s] \in Users
    BY <1>1 DEF Inv, TypeOK, LoggedIn
  <2> QED
    BY <1>2, <2>1, ManagerConstants DEF InRoomUser, Users
<1> HIDE DEF r, room, user
<1>6. TypeOK'
  BY <1>1, <1>2, <1>4, <1>5 DEF Inv, TypeOK
<1>7. /\ users'[s] = user
      /\ \A t \in Sessions \ {s} : users'[t] = users[t]
      /\ rooms'[r] = room
      /\ \A q \in RoomIds \ {r} : rooms'[q] = rooms[q]
  BY <1>1, <1>2 DEF Inv, TypeOK
<1>8. NicknamesAgree'
  BY <1>1, <1>5, <1>7 DEF Inv, NicknamesAgree, LoggedIn
<1>9. LobbyMeansNoRoom'
  BY <1>2, <1>5, <1>7 DEF Inv, LobbyMeansNoRoom, LoggedIn
<1>10. MembersAgree'
  <2>1. SUFFICES ASSUME NEW t \in Sessions, NEW q \in RoomIds
                 PROVE  LoggedIn(t)' /\ users'[t].state = "InRoom" /\ users'[t].room = q
                          <=> RoomExists(q)' /\ t \in rooms'[q].members
    BY DEF MembersAgree
  <2>2. LoggedIn(t) /\ users[t].state = "InRoom" /\ users[t].room = q
          <=> RoomExists(q) /\ t \in rooms[q].members
    BY DEF Inv, MembersAgree
  <2>3. CASE q = r
    BY <1>1, <1>2, <1>3, <1>4, <1>5, <1>7, <2>2, <2>3 DEF LoggedIn, RoomExists
  <2>4. CASE q # r
    BY <1>1, <1>2, <1>5, <1>7, <2>2, <2>4 DEF LoggedIn, RoomExists
  <2> QED
    BY <2>3, <2>4
<1>11. RoomsSound'
  <2>1. SUFFICES ASSUME NEW q \in LiveRooms'
                 PROVE  /\ RoomSound(rooms'[q]) /\ PlayingSound(rooms'[q])
                        /\ q <= lastRoomId' /\ rooms'[q].gameId <= lastGameId'
    BY DEF RoomsSound
  <2>2. CASE q = r
    <3>1. lastGameId \in Nat /\ r \in Nat /\ 0 <= lastGameId /\ r <= r
      BY <1>2, RoomConstants, ManagerConstants DEF Inv, TypeOK
    <3> QED
      BY <1>1, <1>3, <1>7, <2>2, <3>1 DEF GoodRoom
  <2>3. CASE q # r
    <3>1. q \in LiveRooms /\ rooms'[q] = rooms[q] /\ q \in Int /\ r \in Int /\ lastRoomId \in Int
      BY <1>2, <1>7, <2>3, ManagerConstants DEF LiveRooms, RoomIds, Inv, TypeOK
    <3> QED
      BY <1>1, <1>2, <3>1 DEF Inv, RoomsSound
  <2> QED
    BY <2>2, <2>3
<1> QED
  BY <1>6, <1>8, <1>9, <1>10, <1>11 DEF Inv

\* RoomManager::EnterRoom: a second member in a waiting room.
LEMMA EnterRoomInv ==
  ASSUME Inv, NEW s \in Sessions, NEW r \in RoomIds, EnterRoom(s, r)
  PROVE  Inv'
<1> DEFINE room == Added(rooms[r], s)
           user == InRoomUser(users[s], r)
<1>1. /\ LoggedIn(s) /\ users[s].state = "Lobby"
      /\ RoomExists(r) /\ CanAdd(rooms[r], s)
      /\ rooms' = [rooms EXCEPT ![r] = room]
      /\ users' = [users EXCEPT ![s] = user]
      /\ UNCHANGED <<byNickname, lastRoomId, lastGameId, finished>>
  BY DEF EnterRoom, EnterResult
<1>2. r \in LiveRooms /\ GoodRoom(rooms[r]) /\ r # NoRoomId /\ r \in 0..MaxRoomId
  BY <1>1, LiveRoomsGood, ManagerConstants DEF RoomExists, LiveRooms, RoomIds, NoRoomId
<1>3. /\ GoodRoom(room) /\ room.members = rooms[r].members \cup {s}
      /\ room.gameId = rooms[r].gameId
  BY <1>1, <1>2, AddedGood
<1>4. room \in Rooms /\ room # NoRoom
  BY <1>3, ManagerConstants DEF GoodRoom
<1>5. /\ user \in Users /\ user # NoUser
      /\ user.nick = users[s].nick /\ user.state = "InRoom" /\ user.room = r
  <2>1. users[s] \in Users
    BY <1>1 DEF Inv, TypeOK, LoggedIn
  <2> QED
    BY <1>2, <2>1, ManagerConstants DEF InRoomUser, Users
<1> HIDE DEF room, user
<1>6. TypeOK'
  BY <1>1, <1>4, <1>5 DEF Inv, TypeOK
<1>7. /\ users'[s] = user
      /\ \A t \in Sessions \ {s} : users'[t] = users[t]
      /\ rooms'[r] = room
      /\ \A q \in RoomIds \ {r} : rooms'[q] = rooms[q]
  BY <1>1 DEF Inv, TypeOK
<1>8. NicknamesAgree'
  BY <1>1, <1>5, <1>7 DEF Inv, NicknamesAgree, LoggedIn
<1>9. LobbyMeansNoRoom'
  BY <1>2, <1>5, <1>7 DEF Inv, LobbyMeansNoRoom, LoggedIn
<1>10. MembersAgree'
  <2>1. SUFFICES ASSUME NEW t \in Sessions, NEW q \in RoomIds
                 PROVE  LoggedIn(t)' /\ users'[t].state = "InRoom" /\ users'[t].room = q
                          <=> RoomExists(q)' /\ t \in rooms'[q].members
    BY DEF MembersAgree
  <2>2. LoggedIn(t) /\ users[t].state = "InRoom" /\ users[t].room = q
          <=> RoomExists(q) /\ t \in rooms[q].members
    BY DEF Inv, MembersAgree
  <2>3. CASE q = r
    BY <1>1, <1>3, <1>4, <1>5, <1>7, <2>2, <2>3 DEF LoggedIn, RoomExists
  <2>4. CASE q # r
    BY <1>1, <1>5, <1>7, <2>2, <2>4 DEF LoggedIn, RoomExists
  <2> QED
    BY <2>3, <2>4
<1>11. RoomsSound'
  <2>1. SUFFICES ASSUME NEW q \in LiveRooms'
                 PROVE  /\ RoomSound(rooms'[q]) /\ PlayingSound(rooms'[q])
                        /\ q <= lastRoomId' /\ rooms'[q].gameId <= lastGameId'
    BY DEF RoomsSound
  <2>2. CASE q = r
    BY <1>1, <1>2, <1>3, <1>7, <2>2 DEF Inv, RoomsSound, GoodRoom
  <2>3. CASE q # r
    <3>1. q \in LiveRooms /\ rooms'[q] = rooms[q]
      BY <1>7, <2>3 DEF LiveRooms
    <3> QED
      BY <1>1, <3>1 DEF Inv, RoomsSound
  <2> QED
    BY <2>2, <2>3
<1> QED
  BY <1>6, <1>8, <1>9, <1>10, <1>11 DEF Inv

-----------------------------------------------------------------------------
(* Leaving *)

\* What LeaveRoom makes of the rooms: the one s was in is gone or sound, and holds
\* s no more; the others stay.  What it queues are records of finished games.
LEMMA LeavingRooms ==
  ASSUME Inv, NEW s \in Sessions, LeaveResult(s) = "Success",
         rooms' = RoomsWithout(s), NEW reason \in Reasons,
         UNCHANGED <<lastRoomId, lastGameId>>
  PROVE  /\ LoggedIn(s) /\ users[s].state = "InRoom" /\ users[s].room \in LiveRooms
         /\ rooms' \in [RoomIds -> Rooms \cup {NoRoom}]
         /\ RoomsSound'
         /\ \A r \in RoomIds : r # users[s].room => rooms'[r] = rooms[r]
         /\ \A t \in Sessions : rooms'[users[s].room] # NoRoom /\ t \in rooms'[users[s].room].members
                                 <=> t \in rooms[users[s].room].members /\ t # s
         /\ finished \o LeaveEndings(s, reason) \in Seq(FinishedGames)
<1> DEFINE r == users[s].room
           room == IF rooms[r].members = {s} THEN NoRoom ELSE Removed(rooms[r], s)
<1>1. /\ LoggedIn(s) /\ users[s].state = "InRoom"
      /\ LET q == Expire(rooms[r]) IN q.phase = "Playing" => StoneOf(q, s) \in Players
  BY DEF LeaveResult, MemberResult, CanForfeit
<1>2. r \in LiveRooms /\ s \in rooms[r].members
  BY <1>1, MembersRoom
<1>3. /\ r \in RoomIds /\ rooms[r] \in Rooms /\ GoodRoom(rooms[r])
      /\ r <= lastRoomId /\ rooms[r].gameId <= lastGameId
  BY <1>2, LiveRoomsGood DEF Inv, RoomsSound
<1>4. rooms' = [rooms EXCEPT ![r] = room]
  BY DEF RoomsWithout
<1>5. ASSUME rooms[r].members # {s}
      PROVE  /\ room = Removed(rooms[r], s) /\ GoodRoom(room)
             /\ room.members = rooms[r].members \ {s} /\ room.gameId = rooms[r].gameId
             /\ room \in Rooms /\ room # NoRoom
  BY <1>2, <1>3, <1>5, RemovedGood, ManagerConstants DEF GoodRoom
<1>6. room \in Rooms \cup {NoRoom}
  BY <1>5
<1> HIDE DEF r, room
<1>7. /\ rooms' \in [RoomIds -> Rooms \cup {NoRoom}]
      /\ rooms'[r] = room
      /\ \A q \in RoomIds : q # r => rooms'[q] = rooms[q]
  BY <1>3, <1>4, <1>6 DEF Inv, TypeOK
<1>8. RoomsSound'
  <2>1. SUFFICES ASSUME NEW q \in LiveRooms'
                 PROVE  /\ RoomSound(rooms'[q]) /\ PlayingSound(rooms'[q])
                        /\ q <= lastRoomId' /\ rooms'[q].gameId <= lastGameId'
    BY DEF RoomsSound
  <2>2. CASE q = r
    <3>1. rooms[r].members # {s}
      BY <1>7, <2>2 DEF LiveRooms, room
    <3> QED
      BY <1>3, <1>5, <1>7, <2>2, <3>1 DEF GoodRoom
  <2>3. CASE q # r
    <3>1. q \in LiveRooms /\ rooms'[q] = rooms[q]
      BY <1>7, <2>3 DEF LiveRooms
    <3> QED
      BY <3>1 DEF Inv, RoomsSound
  <2> QED
    BY <2>2, <2>3
<1>9. \A t \in Sessions : rooms'[r] # NoRoom /\ t \in rooms'[r].members
                          <=> t \in rooms[r].members /\ t # s
  <2>1. CASE rooms[r].members = {s}
    BY <1>7, <2>1 DEF room
  <2>2. CASE rooms[r].members # {s}
    BY <1>3, <1>5, <1>7, <2>2
  <2> QED
    BY <2>1, <2>2
<1>10. finished \o LeaveEndings(s, reason) \in Seq(FinishedGames)
  <2>1. CASE TurnExpired(rooms[r])
    <3>1. JustOver(Forfeit(rooms[r], rooms[r].game.next))
      BY <1>3, <2>1, PlayersHaveStones, ForfeitIsOver DEF TurnExpired
    <3>2. ExpiryEnding(r, rooms[r]) \in FinishedGames
      BY <1>3, <3>1, EndingType DEF ExpiryEnding, Reasons
    <3>3. LeaveEndings(s, reason) = <<ExpiryEnding(r, rooms[r])>>
      BY <2>1 DEF LeaveEndings, r
    <3> QED
      BY <3>2, <3>3, QueueGrows DEF Inv
  <2>2. CASE ~TurnExpired(rooms[r]) /\ rooms[r].phase = "Playing"
    <3>1. JustOver(Forfeit(rooms[r], StoneOf(rooms[r], s)))
      BY <1>2, <1>3, <2>2, PlayersHaveStones, ForfeitIsOver
    <3>2. Ending(r, Forfeit(rooms[r], StoneOf(rooms[r], s)), reason) \in FinishedGames
      BY <1>3, <3>1, EndingType
    <3>3. LeaveEndings(s, reason) = <<Ending(r, Forfeit(rooms[r], StoneOf(rooms[r], s)), reason)>>
      BY <2>2 DEF LeaveEndings, r
    <3> QED
      BY <3>2, <3>3, QueueGrows DEF Inv
  <2>3. CASE ~TurnExpired(rooms[r]) /\ rooms[r].phase # "Playing"
    <3>1. LeaveEndings(s, reason) = << >>
      BY <2>3 DEF LeaveEndings, r
    <3>2. finished \o << >> = finished
      BY DEF Inv, TypeOK
    <3> QED
      BY <3>1, <3>2 DEF Inv, TypeOK
  <2> QED
    BY <2>1, <2>2, <2>3
<1> QED
  BY <1>1, <1>2, <1>7, <1>8, <1>9, <1>10 DEF r

\* RoomManager::LeaveRoom: the room without s, or no room at all.
LEMMA LeaveRoomInv ==
  ASSUME Inv, NEW s \in Sessions, NEW reason \in Reasons, LeaveRoom(s, reason)
  PROVE  Inv'
<1> DEFINE user == LobbyUser(users[s])
<1>1. /\ LeaveResult(s) = "Success"
      /\ rooms' = RoomsWithout(s)
      /\ users' = [users EXCEPT ![s] = user]
      /\ finished' = finished \o LeaveEndings(s, reason)
      /\ UNCHANGED <<byNickname, lastRoomId, lastGameId>>
  BY DEF LeaveRoom
<1>2. /\ LoggedIn(s) /\ users[s].state = "InRoom" /\ users[s].room \in LiveRooms
      /\ rooms' \in [RoomIds -> Rooms \cup {NoRoom}]
      /\ RoomsSound'
      /\ \A r \in RoomIds : r # users[s].room => rooms'[r] = rooms[r]
      /\ \A t \in Sessions : rooms'[users[s].room] # NoRoom /\ t \in rooms'[users[s].room].members
                              <=> t \in rooms[users[s].room].members /\ t # s
      /\ finished' \in Seq(FinishedGames)
  BY <1>1, LeavingRooms
<1>3. /\ user \in Users /\ user # NoUser
      /\ user.nick = users[s].nick /\ user.state = "Lobby" /\ user.room = NoRoomId
  <2>1. users[s] \in Users /\ NoRoomId \in 0..MaxRoomId
    BY <1>2, ManagerConstants DEF Inv, TypeOK, LoggedIn, NoRoomId
  <2> QED
    BY <2>1, ManagerConstants DEF LobbyUser, Users
<1> HIDE DEF user
<1>4. /\ users'[s] = user
      /\ \A t \in Sessions \ {s} : users'[t] = users[t]
  BY <1>1 DEF Inv, TypeOK
<1>5. TypeOK'
  BY <1>1, <1>2, <1>3 DEF Inv, TypeOK
<1>6. NicknamesAgree'
  BY <1>1, <1>2, <1>3, <1>4 DEF Inv, NicknamesAgree, LoggedIn
<1>7. LobbyMeansNoRoom'
  BY <1>3, <1>4 DEF Inv, LobbyMeansNoRoom, LoggedIn
<1>8. MembersAgree'
  <2>1. SUFFICES ASSUME NEW t \in Sessions, NEW q \in RoomIds
                 PROVE  LoggedIn(t)' /\ users'[t].state = "InRoom" /\ users'[t].room = q
                          <=> RoomExists(q)' /\ t \in rooms'[q].members
    BY DEF MembersAgree
  <2>2. LoggedIn(t) /\ users[t].state = "InRoom" /\ users[t].room = q
          <=> RoomExists(q) /\ t \in rooms[q].members
    BY DEF Inv, MembersAgree
  <2>3. CASE q = users[s].room
    <3>1. RoomExists(q)
      BY <1>2, <2>3 DEF RoomExists, LiveRooms
    <3>2. CASE t = s
      BY <1>2, <1>3, <1>4, <2>3, <3>2 DEF RoomExists
    <3>3. CASE t # s
      BY <1>2, <1>4, <2>2, <2>3, <3>1, <3>3 DEF LoggedIn, RoomExists
    <3> QED
      BY <3>2, <3>3
  <2>4. CASE q # users[s].room
    <3>1. rooms'[q] = rooms[q] /\ (RoomExists(q)' <=> RoomExists(q))
      BY <1>2, <2>4 DEF RoomExists
    <3>2. CASE t = s
      BY <1>2, <1>3, <1>4, <2>2, <2>4, <3>1, <3>2
    <3>3. CASE t # s
      BY <1>4, <2>2, <3>1, <3>3 DEF LoggedIn
    <3> QED
      BY <3>2, <3>3
  <2> QED
    BY <2>3, <2>4
<1> QED
  BY <1>2, <1>5, <1>6, <1>7, <1>8 DEF Inv
\* A user who is in a room can always leave it; nobody else has a room to leave.
LEMMA LeaveNeverFails ==
  ASSUME Inv, NEW s \in Sessions, LoggedIn(s)
  PROVE  LeaveResult(s) = IF users[s].state = "InRoom" THEN "Success" ELSE "NotInRoom"
<1>1. users[s].state \in {"Lobby", "InRoom"}
  BY DEF Inv, TypeOK, LoggedIn, Users
<1>2. users[s].state = "Lobby" => users[s].room = NoRoomId
  BY DEF Inv, LobbyMeansNoRoom
<1>3. CASE users[s].state = "Lobby"
  BY <1>2, <1>3 DEF LeaveResult, MemberResult
<1>4. CASE users[s].state = "InRoom"
  <2> DEFINE r == users[s].room
  <2>1. r \in LiveRooms /\ s \in rooms[r].members
    BY <1>4, MembersRoom
  <2>2. GoodRoom(rooms[r])
    BY <2>1, LiveRoomsGood
  <2>3. MemberResult(s) = "Success"
    BY <1>4, <2>1 DEF MemberResult, RoomExists, LiveRooms
  <2>4. CASE TurnExpired(rooms[r])
    <3>1. Expire(rooms[r]) = Finished(Forfeit(rooms[r], rooms[r].game.next))
      BY <2>4 DEF Expire
    <3>2. JustOver(Forfeit(rooms[r], rooms[r].game.next))
      BY <2>2, <2>4, PlayersHaveStones, ForfeitIsOver DEF TurnExpired
    <3>3. Expire(rooms[r]).phase = "Waiting"
      BY <3>1, <3>2, FinishedGood
    <3> QED
      BY <1>4, <2>3, <3>3 DEF LeaveResult
  <2>5. CASE ~TurnExpired(rooms[r])
    <3>1. Expire(rooms[r]) = rooms[r]
      BY <2>5 DEF Expire
    <3>2. rooms[r].phase = "Playing" => CanForfeit(rooms[r].game, StoneOf(rooms[r], s))
      BY <2>1, <2>2, PlayersHaveStones DEF CanForfeit, GoodRoom, PlayingSound
    <3> QED
      BY <1>4, <2>3, <3>1, <3>2 DEF LeaveResult
  <2> QED
    BY <2>4, <2>5
<1> QED
  BY <1>1, <1>3, <1>4

\* HandleDisconnected: with his room s gives up his nickname, too.
LEMMA LeaveAndRemoveInv ==
  ASSUME Inv, NEW s \in Sessions, LeaveAndRemove(s)
  PROVE  Inv'
<1> DEFINE nick == users[s].nick
<1>1. /\ LoggedIn(s)
      /\ users' = [users EXCEPT ![s] = NoUser]
      /\ byNickname' = [byNickname EXCEPT ![nick] = NoSession]
      /\ UNCHANGED <<lastRoomId, lastGameId>>
  BY DEF LeaveAndRemove, NicknamesWithout
<1>2. /\ users'[s] = NoUser
      /\ \A t \in Sessions \ {s} : users'[t] = users[t]
      /\ users' \in [Sessions -> Users \cup {NoUser}]
  BY <1>1 DEF Inv, TypeOK
<1>3. nick \in Nicknames
  BY <1>1 DEF Inv, TypeOK, LoggedIn, Users
<1>4. NicknamesAgree' /\ byNickname' \in [Nicknames -> Sessions \cup {NoSession}]
  <2>1. byNickname' \in [Nicknames -> Sessions \cup {NoSession}]
    BY <1>1 DEF Inv, TypeOK
  <2>2. SUFFICES ASSUME NEW t \in Sessions, NEW n \in Nicknames
                 PROVE  byNickname'[n] = t <=> LoggedIn(t)' /\ users'[t].nick = n
    BY <2>1 DEF NicknamesAgree
  <2>3. byNickname[n] = t <=> LoggedIn(t) /\ users[t].nick = n
    BY DEF Inv, NicknamesAgree
  <2>4. byNickname'[n] = IF n = nick THEN NoSession ELSE byNickname[n]
    BY <1>1, <1>3 DEF Inv, TypeOK
  <2>5. NoSession # t /\ byNickname[nick] = s
    BY <1>1, <1>3, RoomConstants DEF Inv, NicknamesAgree
  <2>6. CASE t = s
    BY <1>2, <2>3, <2>4, <2>5, <2>6 DEF LoggedIn
  <2>7. CASE t # s
    BY <1>2, <2>3, <2>4, <2>5, <2>7 DEF LoggedIn
  <2> QED
    BY <2>6, <2>7
<1>5. LobbyMeansNoRoom'
  BY <1>2 DEF Inv, LobbyMeansNoRoom, LoggedIn
<1>6. CASE users[s].state = "InRoom"
  <2>1. LeaveResult(s) = "Success" /\ "Disconnected" \in Reasons
    BY <1>1, <1>6, LeaveNeverFails DEF Reasons
  <2>2. /\ rooms' = RoomsWithout(s)
        /\ finished' = finished \o LeaveEndings(s, "Disconnected")
    BY <2>1 DEF LeaveAndRemove
  <2>3. /\ users[s].room \in LiveRooms
        /\ rooms' \in [RoomIds -> Rooms \cup {NoRoom}]
        /\ RoomsSound'
        /\ \A r \in RoomIds : r # users[s].room => rooms'[r] = rooms[r]
        /\ \A t \in Sessions : rooms'[users[s].room] # NoRoom /\ t \in rooms'[users[s].room].members
                                <=> t \in rooms[users[s].room].members /\ t # s
        /\ finished' \in Seq(FinishedGames)
    BY <1>1, <2>1, <2>2, LeavingRooms
  <2>4. MembersAgree'
    <3>1. SUFFICES ASSUME NEW t \in Sessions, NEW q \in RoomIds
                   PROVE  LoggedIn(t)' /\ users'[t].state = "InRoom" /\ users'[t].room = q
                            <=> RoomExists(q)' /\ t \in rooms'[q].members
      BY DEF MembersAgree
    <3>2. LoggedIn(t) /\ users[t].state = "InRoom" /\ users[t].room = q
            <=> RoomExists(q) /\ t \in rooms[q].members
      BY DEF Inv, MembersAgree
    <3>3. CASE q = users[s].room
      <4>1. RoomExists(q)
        BY <2>3, <3>3 DEF RoomExists, LiveRooms
      <4>2. CASE t = s
        BY <1>2, <2>3, <3>3, <4>2 DEF RoomExists, LoggedIn
      <4>3. CASE t # s
        BY <1>2, <2>3, <3>2, <3>3, <4>1, <4>3 DEF LoggedIn, RoomExists
      <4> QED
        BY <4>2, <4>3
    <3>4. CASE q # users[s].room
      <4>1. rooms'[q] = rooms[q] /\ (RoomExists(q)' <=> RoomExists(q))
        BY <2>3, <3>4 DEF RoomExists
      <4>2. CASE t = s
        BY <1>1, <1>2, <3>2, <3>4, <4>1, <4>2 DEF LoggedIn
      <4>3. CASE t # s
        BY <1>2, <3>2, <4>1, <4>3 DEF LoggedIn
      <4> QED
        BY <4>2, <4>3
    <3> QED
      BY <3>3, <3>4
  <2> QED
    BY <1>1, <1>2, <1>4, <1>5, <2>3, <2>4 DEF Inv, TypeOK
<1>7. CASE users[s].state # "InRoom"
  <2>1. UNCHANGED <<rooms, finished>>
    BY <1>1, <1>7, LeaveNeverFails DEF LeaveAndRemove
  <2>2. MembersAgree'
    <3>1. SUFFICES ASSUME NEW t \in Sessions, NEW q \in RoomIds
                   PROVE  LoggedIn(t)' /\ users'[t].state = "InRoom" /\ users'[t].room = q
                            <=> RoomExists(q)' /\ t \in rooms'[q].members
      BY DEF MembersAgree
    <3>2. LoggedIn(t) /\ users[t].state = "InRoom" /\ users[t].room = q
            <=> RoomExists(q) /\ t \in rooms[q].members
      BY DEF Inv, MembersAgree
    <3>3. RoomExists(q)' <=> RoomExists(q)
      BY <2>1 DEF RoomExists
    <3> QED
      BY <1>2, <1>7, <2>1, <3>2, <3>3 DEF LoggedIn
  <2>3. RoomsSound'
    BY <1>1, <2>1 DEF Inv, RoomsSound, LiveRooms
  <2> QED
    BY <1>1, <1>2, <1>4, <1>5, <2>1, <2>2, <2>3 DEF Inv, TypeOK
<1> QED
  BY <1>6, <1>7

-----------------------------------------------------------------------------
(* The server's own operations *)

\* When every live room is replaced by a sound one with the same members and game
\* id, everything that was said about users and rooms still holds.
LEMMA ReplaceRooms ==
  ASSUME Inv, NEW new,
         rooms' = [r \in RoomIds |-> IF r \in LiveRooms THEN new[r] ELSE rooms[r]],
         \A r \in LiveRooms : /\ GoodRoom(new[r])
                              /\ new[r].members = rooms[r].members
                              /\ new[r].gameId = rooms[r].gameId,
         UNCHANGED <<users, byNickname, lastRoomId, lastGameId>>
  PROVE  TypesButQueue' /\ NicknamesAgree' /\ MembersAgree' /\ LobbyMeansNoRoom' /\ RoomsSound'
<1>1. \A r \in LiveRooms : new[r] \in Rooms /\ new[r] # NoRoom /\ r \in RoomIds
  BY ManagerConstants DEF GoodRoom, LiveRooms
<1>2. \A r \in RoomIds : rooms'[r] = IF r \in LiveRooms THEN new[r] ELSE NoRoom
  BY DEF LiveRooms
<1>3. LiveRooms' = LiveRooms
  BY <1>1, <1>2 DEF LiveRooms
<1>4. rooms' \in [RoomIds -> Rooms \cup {NoRoom}]
  BY <1>1 DEF LiveRooms
<1>5. TypesButQueue'
  BY <1>4 DEF Inv, TypeOK, TypesButQueue
<1>6. NicknamesAgree' /\ LobbyMeansNoRoom'
  BY DEF Inv, NicknamesAgree, LobbyMeansNoRoom, LoggedIn
<1>7. MembersAgree'
  <2>1. SUFFICES ASSUME NEW t \in Sessions, NEW q \in RoomIds
                 PROVE  LoggedIn(t)' /\ users'[t].state = "InRoom" /\ users'[t].room = q
                          <=> RoomExists(q)' /\ t \in rooms'[q].members
    BY DEF MembersAgree
  <2>2. LoggedIn(t) /\ users[t].state = "InRoom" /\ users[t].room = q
          <=> RoomExists(q) /\ t \in rooms[q].members
    BY DEF Inv, MembersAgree
  <2> QED
    BY <1>1, <1>2, <2>2 DEF LoggedIn, RoomExists, LiveRooms
<1>8. RoomsSound'
  BY <1>1, <1>2, <1>3 DEF Inv, RoomsSound, GoodRoom
<1> QED
  BY <1>5, <1>6, <1>7, <1>8

\* The clock.
LEMMA TickInv ==
  ASSUME Inv, Tick
  PROVE  Inv'
<1> DEFINE new == [r \in RoomIds |-> IF rooms[r].left > 0
                                     THEN [rooms[r] EXCEPT !.left = @ - 1] ELSE rooms[r]]
<1>1. /\ rooms' = [r \in RoomIds |-> IF r \in LiveRooms /\ rooms[r].left > 0
                                 THEN [rooms[r] EXCEPT !.left = @ - 1] ELSE rooms[r]]
      /\ UNCHANGED <<users, byNickname, lastRoomId, lastGameId, finished>>
  BY DEF Tick
<1>2. rooms' = [r \in RoomIds |-> IF r \in LiveRooms THEN new[r] ELSE rooms[r]]
  BY <1>1
<1>3. ASSUME NEW r \in LiveRooms
      PROVE  GoodRoom(new[r]) /\ new[r].members = rooms[r].members
             /\ new[r].gameId = rooms[r].gameId
  <2>1. r \in RoomIds /\ GoodRoom(rooms[r])
    BY LiveRoomsGood
  <2>2. CASE rooms[r].left > 0
    BY <2>1, <2>2, TickedGood
  <2>3. CASE ~(rooms[r].left > 0)
    BY <2>1, <2>3
  <2> QED
    BY <2>2, <2>3
<1> HIDE DEF new
<1>4. TypesButQueue' /\ NicknamesAgree' /\ MembersAgree' /\ LobbyMeansNoRoom' /\ RoomsSound'
  BY <1>1, <1>2, <1>3, ReplaceRooms
<1> QED
  BY <1>1, <1>4, TypesJoin DEF Inv, TypeOK

\* RoomManager::UpdateTimeouts: all the expired rooms finish, in any order.
LEMMA UpdateTimeoutsInv ==
  ASSUME Inv, UpdateTimeouts
  PROVE  Inv'
<1> DEFINE new == [r \in RoomIds |-> Expire(rooms[r])]
<1>1. PICK q \in Orders(ExpiredRooms) :
        finished' = finished \o [i \in DOMAIN q |-> ExpiryEnding(q[i], rooms[q[i]])]
  BY DEF UpdateTimeouts
<1>2. /\ rooms' = [r \in RoomIds |-> IF r \in ExpiredRooms THEN Expire(rooms[r]) ELSE rooms[r]]
      /\ UNCHANGED <<users, byNickname, lastRoomId, lastGameId>>
  BY DEF UpdateTimeouts
<1>3. ASSUME NEW r \in RoomIds
      PROVE  (IF r \in ExpiredRooms THEN Expire(rooms[r]) ELSE rooms[r])
               = (IF r \in LiveRooms THEN new[r] ELSE rooms[r])
  BY DEF ExpiredRooms, Expire
<1>4. rooms' = [r \in RoomIds |-> IF r \in LiveRooms THEN new[r] ELSE rooms[r]]
  BY <1>2, <1>3
<1>5. ASSUME NEW r \in LiveRooms, TurnExpired(rooms[r])
      PROVE  JustOver(Forfeit(rooms[r], rooms[r].game.next))
             /\ Forfeit(rooms[r], rooms[r].game.next).members = rooms[r].members
             /\ Forfeit(rooms[r], rooms[r].game.next).gameId = rooms[r].gameId
  BY <1>5, LiveRoomsGood, PlayersHaveStones, ForfeitIsOver DEF TurnExpired
<1>6. ASSUME NEW r \in LiveRooms
      PROVE  GoodRoom(new[r]) /\ new[r].members = rooms[r].members
             /\ new[r].gameId = rooms[r].gameId
  <2>1. r \in RoomIds /\ GoodRoom(rooms[r])
    BY LiveRoomsGood
  <2>2. CASE TurnExpired(rooms[r])
    BY <1>5, <2>1, <2>2, FinishedGood DEF Expire
  <2>3. CASE ~TurnExpired(rooms[r])
    BY <2>1, <2>3 DEF Expire
  <2> QED
    BY <2>2, <2>3
<1> HIDE DEF new
<1>7. TypesButQueue' /\ NicknamesAgree' /\ MembersAgree' /\ LobbyMeansNoRoom' /\ RoomsSound'
  BY <1>2, <1>4, <1>6, ReplaceRooms
<1>8. finished' \in Seq(FinishedGames)
  <2> DEFINE n == Cardinality(ExpiredRooms)
             added == [i \in DOMAIN q |-> ExpiryEnding(q[i], rooms[q[i]])]
  <2>1. q \in [1..n -> ExpiredRooms]
    BY DEF Orders
  <2>2. IsFiniteSet(ExpiredRooms)
    <3>1. IsFiniteSet(RoomIds) /\ ExpiredRooms \in SUBSET RoomIds
      BY FS_Interval, ManagerConstants DEF RoomIds, ExpiredRooms, LiveRooms
    <3> QED
      BY <3>1, FS_Subset
  <2>3. n \in Nat
    BY <2>2, FS_CardinalityType
  <2>4. \A i \in 1..n : ExpiryEnding(q[i], rooms[q[i]]) \in FinishedGames
    <3>1. SUFFICES ASSUME NEW i \in 1..n
                   PROVE  ExpiryEnding(q[i], rooms[q[i]]) \in FinishedGames
      OBVIOUS
    <3>2. q[i] \in LiveRooms /\ TurnExpired(rooms[q[i]])
      BY <2>1 DEF ExpiredRooms
    <3> QED
      BY <1>5, <3>2, LiveRoomsGood, EndingType DEF ExpiryEnding, Reasons
  <2>5. added \in Seq(FinishedGames)
    <3>1. added \in [1..n -> FinishedGames]
      BY <2>1, <2>4
    <3> QED
      BY <2>3, <3>1
  <2>6. finished \in Seq(FinishedGames)
    BY DEF Inv, TypeOK
  <2> HIDE DEF added
  <2> QED
    BY <1>1, <2>5, <2>6 DEF added
<1> QED
  BY <1>7, <1>8, TypesJoin

\* RoomManager::TryPopFinishedGame.
LEMMA PopFinishedGameInv ==
  ASSUME Inv, PopFinishedGame
  PROVE  Inv'
<1>1. finished' \in Seq(FinishedGames)
  BY DEF PopFinishedGame, Inv, TypeOK
<1>2. UNCHANGED <<users, byNickname, rooms, lastRoomId, lastGameId>>
  BY DEF PopFinishedGame
<1> QED
  BY <1>1, <1>2
     DEF Inv, TypeOK, NicknamesAgree, MembersAgree, LobbyMeansNoRoom, RoomsSound,
         LoggedIn, RoomExists, LiveRooms

-----------------------------------------------------------------------------
(* The theorems *)

\* Nobody is logged in, there are no rooms and no results.
LEMMA InitInv == Init => Inv
<1> SUFFICES ASSUME Init PROVE Inv
  OBVIOUS
<1>1. LiveRooms = {} /\ \A s \in Sessions : ~LoggedIn(s)
  BY DEF Init, LiveRooms, LoggedIn
<1>2. TypeOK
  BY RoomConstants, ManagerConstants DEF Init, TypeOK, NoRoomId
<1>3. NicknamesAgree
  BY <1>1, RoomConstants DEF Init, NicknamesAgree
<1>4. MembersAgree
  BY <1>1 DEF Init, MembersAgree, RoomExists
<1> QED
  BY <1>1, <1>2, <1>3, <1>4 DEF Inv, LobbyMeansNoRoom, RoomsSound

\* Every operation of the managers preserves the invariant.
LEMMA NextInv == Inv /\ [Next]_vars => Inv'
<1> SUFFICES ASSUME Inv, [Next]_vars PROVE Inv'
  OBVIOUS
<1>1. CASE \E s \in Sessions : Request(s)
  <2>1. PICK s \in Sessions : Request(s)
    BY <1>1
  <2>2. CASE \E nick \in Nicknames : Login(s, nick)
    BY <2>2, LoginInv
  <2>3. CASE CreateRoom(s)
    BY <2>3, CreateRoomInv
  <2>4. CASE \E r \in RoomIds : EnterRoom(s, r)
    BY <2>4, EnterRoomInv
  <2>5. CASE LeaveRoom(s, "LeftRoom")
    BY <2>5, LeaveRoomInv DEF Reasons
  <2>6. CASE \E ready \in BOOLEAN : SetReady(s, ready)
    BY <2>6, SetReadyInv
  <2>7. CASE StartGame(s)
    BY <2>7, StartGameInv
  <2>8. CASE \E r \in RoomIds, g \in 0..MaxGameId : Resign(s, r, g)
    BY <2>8, ResignInv
  <2>9. CASE \E r \in RoomIds, g \in 0..MaxGameId :
               \E cell \in Cell(r), line \in Line(r) : PlaceStone(s, r, g, cell, line)
    <3>1. PICK r \in RoomIds, g \in 0..MaxGameId :
            \E cell \in Cell(r), line \in Line(r) : PlaceStone(s, r, g, cell, line)
      BY <2>9
    <3>2. PICK cell \in Cell(r), line \in Line(r) : PlaceStone(s, r, g, cell, line)
      BY <3>1
    <3>3. line \in BOOLEAN
      BY DEF Line, LineOutcomes
    <3> QED
      BY <3>2, <3>3, PlaceStoneInv
  <2> QED
    BY <2>1, <2>2, <2>3, <2>4, <2>5, <2>6, <2>7, <2>8, <2>9 DEF Request
<1>2. CASE \E s \in Sessions : LeaveAndRemove(s)
  BY <1>2, LeaveAndRemoveInv
<1>3. CASE UpdateTimeouts
  BY <1>3, UpdateTimeoutsInv
<1>4. CASE PopFinishedGame
  BY <1>4, PopFinishedGameInv
<1>5. CASE Tick
  BY <1>5, TickInv
<1>6. CASE UNCHANGED vars
  BY <1>6 DEF vars, Inv, TypeOK, NicknamesAgree, MembersAgree, LobbyMeansNoRoom, RoomsSound,
              LoggedIn, RoomExists, LiveRooms
<1> QED
  BY <1>1, <1>2, <1>3, <1>4, <1>5, <1>6 DEF Next

\* The inductive invariant holds in every reachable state of the managers.
THEOREM Invariance == Spec => []Inv
<1> QED
  BY InitInv, NextInv, PTL DEF Spec

\* Every variable of the managers keeps its type; that every record in the queue of
\* results is complete needs the rest of Inv.
THEOREM TypesCorrect == Spec => []TypeOK
<1>1. Inv => TypeOK
  BY DEF Inv
<1> QED
  BY <1>1, Invariance, PTL

\* UserManager's two maps stay inverse to each other.
THEOREM NicknamesCorrect == Spec => []NicknamesAgree
<1>1. Inv => NicknamesAgree
  BY DEF Inv
<1> QED
  BY <1>1, Invariance, PTL

\* Users and rooms agree on who is where.
THEOREM MembersCorrect == Spec => []MembersAgree
<1>1. Inv => MembersAgree
  BY DEF Inv
<1> QED
  BY <1>1, Invariance, PTL

\* Every room is sound: never empty, never overfull, with a host of its own, and it
\* plays exactly as long as its game does, between its two members.
THEOREM RoomsCorrect == Spec => []RoomsSound
<1>1. Inv => RoomsSound
  BY DEF Inv
<1> QED
  BY <1>1, Invariance, PTL
-----------------------------------------------------------------------------
(* No contradiction is ever found *)

\* With sound rooms none of the branches that answer StateMismatch is reached.
LEMMA NeverMismatch == Inv => NoStateMismatch
<1> SUFFICES ASSUME Inv PROVE NoStateMismatch
  OBVIOUS
<1>1. ASSUME NEW s \in Sessions
      PROVE  "StateMismatch" \notin {CreateResult(s), LeaveResult(s), ReadyResult(s), StartResult(s)}
  <2>1. CreateResult(s) # "StateMismatch"
    <3>1. ~RoomExists(lastRoomId + 1)
      BY ManagerConstants DEF Inv, TypeOK, RoomsSound, LiveRooms, RoomExists, RoomIds
    <3>2. LoggedIn(s) /\ users[s].state = "Lobby" => users[s].room = NoRoomId
      BY DEF Inv, LobbyMeansNoRoom
    <3> QED
      BY <3>1, <3>2 DEF CreateResult
  <2>2. MemberResult(s) # "StateMismatch"
    BY MembersRoom DEF MemberResult, RoomExists, LiveRooms
  <2>3. LeaveResult(s) # "StateMismatch"
    BY LeaveNeverFails DEF LeaveResult, MemberResult
  <2> QED
    BY <2>1, <2>2, <2>3 DEF ReadyResult, StartResult
<1>2. ASSUME NEW s \in Sessions, NEW r \in RoomIds
      PROVE  EnterResult(s, r) # "StateMismatch"
  <2>1. LoggedIn(s) /\ users[s].state = "Lobby" => users[s].room = NoRoomId
    BY DEF Inv, LobbyMeansNoRoom
  <2>2. LoggedIn(s) /\ users[s].state = "Lobby" /\ RoomExists(r) => s \notin rooms[r].members
    BY DEF Inv, MembersAgree
  <2>3. RoomExists(r) => rooms[r].phase \in {"Waiting", "Playing"}
    BY DEF Inv, TypeOK, RoomExists, Rooms
  <2>4. RoomExists(r) => Cardinality(rooms[r].members) \in Nat
    BY LiveRoomsGood, MembersFinite DEF RoomExists, LiveRooms
  <2> QED
    BY <2>1, <2>2, <2>3, <2>4 DEF EnterResult, CanAdd, Capacity
<1>3. ASSUME NEW s \in Sessions, NEW r \in RoomIds, NEW g
      PROVE  /\ AddressResult(s, r, g) # "StateMismatch"
             /\ AddressResult(s, r, g) = "Success" => r \in LiveRooms /\ s \in rooms[r].members
  BY MembersRoom DEF AddressResult, RoomExists, LiveRooms
<1>4. ASSUME NEW s \in Sessions, NEW r \in LiveRooms, s \in rooms[r].members
      PROVE  rooms[r].phase = "Playing" => StoneOf(rooms[r], s) \in Players
  BY <1>4, LiveRoomsGood, PlayersHaveStones
<1>5. ASSUME NEW s \in Sessions, NEW r \in RoomIds, NEW g
      PROVE  ResignResult(s, r, g) # "StateMismatch"
  BY <1>3, <1>4 DEF ResignResult, CanForfeit
<1>6. ASSUME NEW s \in Sessions, NEW r \in RoomIds, NEW g, NEW cell
      PROVE  StoneResult(s, r, g, cell) # "StateMismatch"
  BY <1>3, <1>4 DEF StoneResult, PlaceResult, MoveResult, Players
<1> QED
  BY <1>1, <1>2, <1>5, <1>6 DEF NoStateMismatch

\* No request is ever answered with StateMismatch.
THEOREM MismatchNever == Spec => []NoStateMismatch
  BY NeverMismatch, Invariance, PTL

-----------------------------------------------------------------------------
(* A game ends once *)

\* The strengthening that makes GameEndsOnce inductive: the games in the queue were
\* all given an id before, so that a new game cannot be one of them.
QueueIsOld == \A i \in DOMAIN finished : finished[i].game <= lastGameId

OnceInv == Inv /\ GameEndsOnce /\ QueueIsOld

\* Steps that queue nothing and start no game.
LEMMA NothingEnds ==
  ASSUME OnceInv, Inv', UNCHANGED <<finished, lastGameId>>,
         \A r \in LiveRooms' : \/ /\ r \in LiveRooms
                                  /\ rooms'[r].gameId = rooms[r].gameId
                                  /\ rooms'[r].phase = "Playing" => rooms[r].phase = "Playing"
                               \/ rooms'[r].gameId = 0 /\ rooms'[r].phase = "Waiting"
  PROVE  OnceInv'
<1>1. QueueIsOld'
  BY DEF OnceInv, QueueIsOld
<1>2. \A i, j \in DOMAIN finished' : finished'[i].game = finished'[j].game => i = j
  BY DEF OnceInv, GameEndsOnce
<1>3. ASSUME NEW r \in LiveRooms', rooms'[r].phase = "Playing"
      PROVE  /\ \A i \in DOMAIN finished' : finished'[i].game # rooms'[r].gameId
             /\ \A q \in LiveRooms' : rooms'[q].gameId = rooms'[r].gameId => q = r
  <2>1. r \in LiveRooms /\ rooms'[r].gameId = rooms[r].gameId /\ rooms[r].phase = "Playing"
    BY <1>3
  <2>2. rooms'[r].gameId # 0
    BY <2>1 DEF OnceInv, Inv, RoomsSound, PlayingSound
  <2> QED
    BY <2>1, <2>2 DEF OnceInv, GameEndsOnce
<1> QED
  BY <1>1, <1>2, <1>3 DEF OnceInv, GameEndsOnce

\* Steps that end the games of the rooms E and queue each of them once.
LEMMA TheseEnd ==
  ASSUME OnceInv, Inv', UNCHANGED lastGameId,
         NEW n \in Nat, NEW ids \in [1..n -> LiveRooms], NEW added \in Seq(FinishedGames),
         Len(added) = n,
         \A i \in 1..n : added[i].game = rooms[ids[i]].gameId /\ rooms[ids[i]].phase = "Playing",
         \A i, j \in 1..n : ids[i] = ids[j] => i = j,
         finished' = finished \o added,
         \A r \in LiveRooms' : /\ r \in LiveRooms
                               /\ rooms'[r].gameId = rooms[r].gameId
                               /\ rooms'[r].phase = "Playing" =>
                                    rooms[r].phase = "Playing" /\ \A i \in 1..n : ids[i] # r
  PROVE  OnceInv'
<1>1. finished \in Seq(FinishedGames) /\ Len(finished) \in Nat
  BY DEF OnceInv, Inv, TypeOK
<1>2. DOMAIN finished' = 1..(Len(finished) + n)
  BY <1>1
<1>3. ASSUME NEW i \in DOMAIN finished'
      PROVE  \/ i \in DOMAIN finished /\ finished'[i] = finished[i]
             \/ i - Len(finished) \in 1..n /\ finished'[i] = added[i - Len(finished)]
  BY <1>1, <1>2
<1>4. \A i \in DOMAIN finished, k \in 1..n : finished[i].game # added[k].game
  BY DEF OnceInv, GameEndsOnce
<1>5. \A k, m \in 1..n : added[k].game = added[m].game => k = m
  BY DEF OnceInv, GameEndsOnce
<1>6. QueueIsOld'
  <2>1. \A k \in 1..n : added[k].game <= lastGameId
    BY DEF OnceInv, Inv, RoomsSound
  <2> QED
    BY <1>3, <2>1 DEF OnceInv, QueueIsOld
<1>7. ASSUME NEW i \in DOMAIN finished', NEW j \in DOMAIN finished',
             finished'[i].game = finished'[j].game
      PROVE  i = j
  <2>1. i \in Int /\ j \in Int
    BY <1>1, <1>2
  <2>2. CASE i \in DOMAIN finished /\ finished'[i] = finished[i]
    BY <1>3, <1>4, <1>7, <2>2 DEF OnceInv, GameEndsOnce
  <2>3. CASE i - Len(finished) \in 1..n /\ finished'[i] = added[i - Len(finished)]
    <3>1. j - Len(finished) \in 1..n /\ finished'[j] = added[j - Len(finished)]
      BY <1>3, <1>4, <1>7, <2>3
    <3>2. i - Len(finished) = j - Len(finished)
      BY <1>5, <1>7, <2>3, <3>1
    <3> QED
      BY <1>1, <2>1, <3>2
  <2> QED
    BY <1>3, <2>2, <2>3
<1>8. ASSUME NEW r \in LiveRooms', rooms'[r].phase = "Playing"
      PROVE  /\ \A i \in DOMAIN finished' : finished'[i].game # rooms'[r].gameId
             /\ \A q \in LiveRooms' : rooms'[q].gameId = rooms'[r].gameId => q = r
  <2>1. /\ r \in LiveRooms /\ rooms'[r].gameId = rooms[r].gameId
        /\ rooms[r].phase = "Playing" /\ \A i \in 1..n : ids[i] # r
    BY <1>8
  <2>2. \A k \in 1..n : added[k].game # rooms[r].gameId
    BY <2>1 DEF OnceInv, GameEndsOnce
  <2> QED
    BY <1>3, <2>1, <2>2 DEF OnceInv, GameEndsOnce
<1> QED
  BY <1>6, <1>7, <1>8 DEF OnceInv, GameEndsOnce

\* Room r ends its game.
LEMMA OneEnds ==
  ASSUME OnceInv, Inv', UNCHANGED lastGameId,
         NEW r \in LiveRooms, rooms[r].phase = "Playing",
         NEW e \in FinishedGames, e.game = rooms[r].gameId, finished' = finished \o <<e>>,
         \A q \in LiveRooms' : /\ q \in LiveRooms
                               /\ rooms'[q].gameId = rooms[q].gameId
                               /\ rooms'[q].phase = "Playing" => q # r /\ rooms[q].phase = "Playing"
  PROVE  OnceInv'
<1>1. <<r>> \in [1..1 -> LiveRooms] /\ <<e>> \in Seq(FinishedGames) /\ Len(<<e>>) = 1
  OBVIOUS
<1>2. \A i \in 1..1 : <<e>>[i] = e /\ <<r>>[i] = r
  OBVIOUS
<1>3. \A i, j \in 1..1 : i = j
  OBVIOUS
<1> DEFINE ids == <<r>>
           added == <<e>>
<1>4. /\ ids \in [1..1 -> LiveRooms] /\ added \in Seq(FinishedGames) /\ Len(added) = 1
      /\ \A i \in 1..1 : added[i] = e /\ ids[i] = r
      /\ finished' = finished \o added
  BY <1>1, <1>2
<1> HIDE DEF ids, added
<1>5. \A i \in 1..1 : added[i].game = rooms[ids[i]].gameId /\ rooms[ids[i]].phase = "Playing"
  BY <1>4
<1>6. \A i, j \in 1..1 : ids[i] = ids[j] => i = j
  BY <1>3
<1>7. \A q \in LiveRooms' : /\ q \in LiveRooms
                            /\ rooms'[q].gameId = rooms[q].gameId
                            /\ rooms'[q].phase = "Playing" =>
                                 rooms[q].phase = "Playing" /\ \A i \in 1..1 : ids[i] # q
  BY <1>4
<1>8. 1 \in Nat
  OBVIOUS
<1> QED
  BY <1>4, <1>5, <1>6, <1>7, <1>8, TheseEnd
\* The games of the rooms before and after a step that replaces one room.
LEMMA OneRoomChanges ==
  ASSUME Inv, NEW r \in LiveRooms, NEW room, rooms' = [rooms EXCEPT ![r] = room]
  PROVE  /\ rooms'[r] = room
         /\ \A q \in LiveRooms' : q \in LiveRooms /\ (q # r => rooms'[q] = rooms[q])
BY DEF LiveRooms, Inv, TypeOK

\* The expiry ends one game that was running.
LEMMA ExpireBeforeRequestOnce ==
  ASSUME OnceInv, Inv', NEW r \in LiveRooms, ExpireBeforeRequest(r), UNCHANGED lastGameId
  PROVE  OnceInv'
<1> DEFINE over == Forfeit(rooms[r], rooms[r].game.next)
           e == ExpiryEnding(r, rooms[r])
<1>1. /\ r \in RoomIds /\ GoodRoom(rooms[r]) /\ rooms[r].phase = "Playing"
      /\ rooms' = [rooms EXCEPT ![r] = Finished(over)]
  BY LiveRoomsGood DEF ExpireBeforeRequest, TurnExpired, Expire, OnceInv
<1>2. JustOver(over) /\ over.gameId = rooms[r].gameId
  BY <1>1, PlayersHaveStones, ForfeitIsOver
<1>3. Finished(over).phase = "Waiting" /\ Finished(over).gameId = rooms[r].gameId
  BY <1>2, FinishedGood
<1>4. e \in FinishedGames /\ e.game = rooms[r].gameId
  BY <1>1, <1>2, EndingType DEF ExpiryEnding, Reasons, Ending
<1>5. finished' = finished \o <<e>>
  BY <1>4, QueueGrows DEF ExpireBeforeRequest, OnceInv, Inv
<1>6. \A q \in LiveRooms' : /\ q \in LiveRooms
                            /\ rooms'[q].gameId = rooms[q].gameId
                            /\ rooms'[q].phase = "Playing" => q # r /\ rooms[q].phase = "Playing"
  BY ZenonT(60), <1>1, <1>3, OneRoomChanges DEF OnceInv
<1> HIDE DEF e
<1> QED
  BY <1>1, <1>4, <1>5, <1>6, OneEnds

\* A resignation ends the one game it names.
LEMMA ResignOnce ==
  ASSUME OnceInv, Inv', NEW s \in Sessions, NEW r \in RoomIds, NEW g, Resign(s, r, g)
  PROVE  OnceInv'
<1>1. /\ AddressResult(s, r, g) = "Success" /\ UNCHANGED lastGameId
  BY DEF Resign, ResignResult
<1>2. r \in LiveRooms /\ s \in rooms[r].members
  BY <1>1 DEF AddressResult, RoomExists, LiveRooms
<1>3. CASE ExpireBeforeRequest(r)
  BY <1>1, <1>2, <1>3, ExpireBeforeRequestOnce
<1>4. CASE ResignResult(s, r, g) = "Success" /\ ~ExpireBeforeRequest(r)
  <2> DEFINE over == Forfeit(rooms[r], StoneOf(rooms[r], s))
             e == Ending(r, over, "Resigned")
  <2>1. /\ rooms[r].phase = "Playing" /\ StoneOf(rooms[r], s) \in Players
        /\ rooms' = [rooms EXCEPT ![r] = Finished(over)]
        /\ finished' = Append(finished, e)
    BY <1>1, <1>4 DEF Resign, ResignResult, CanForfeit
  <2>2. GoodRoom(rooms[r])
    BY <1>2, LiveRoomsGood DEF OnceInv
  <2>3. JustOver(over) /\ over.gameId = rooms[r].gameId
    BY <2>1, <2>2, ForfeitIsOver
  <2>4. Finished(over).phase = "Waiting" /\ Finished(over).gameId = rooms[r].gameId
    BY <2>3, FinishedGood
  <2>5. e \in FinishedGames /\ e.game = rooms[r].gameId
    BY <2>3, EndingType DEF Reasons, Ending
  <2>6. finished' = finished \o <<e>>
    BY <2>1, <2>5, QueueGrows DEF OnceInv, Inv
  <2>7. \A q \in LiveRooms' : /\ q \in LiveRooms
                              /\ rooms'[q].gameId = rooms[q].gameId
                              /\ rooms'[q].phase = "Playing" => q # r /\ rooms[q].phase = "Playing"
    BY ZenonT(60), <1>2, <2>1, <2>4, OneRoomChanges DEF OnceInv
  <2> HIDE DEF e
  <2> QED
    BY <1>1, <1>2, <2>1, <2>5, <2>6, <2>7, OneEnds
<1> QED
  BY <1>1, <1>3, <1>4 DEF Resign

\* A move ends at most the game it is made in.
LEMMA PlaceStoneOnce ==
  ASSUME OnceInv, Inv', NEW s \in Sessions, NEW r \in RoomIds, NEW g, NEW cell,
         NEW line \in BOOLEAN, PlaceStone(s, r, g, cell, line)
  PROVE  OnceInv'
<1>1. /\ AddressResult(s, r, g) = "Success" /\ UNCHANGED lastGameId
  BY DEF PlaceStone, StoneResult
<1>2. r \in LiveRooms /\ s \in rooms[r].members
  BY <1>1 DEF AddressResult, RoomExists, LiveRooms
<1>3. CASE ExpireBeforeRequest(r)
  BY <1>1, <1>2, <1>3, ExpireBeforeRequestOnce
<1>4. CASE StoneResult(s, r, g, cell) = "Success" /\ ~ExpireBeforeRequest(r)
  <2> DEFINE moved == Moved(rooms[r], s, line)
             reason == EndingReason(moved.game.status)
             e == Ending(r, moved, reason)
  <2>1. GoodRoom(rooms[r])
    BY <1>2, LiveRoomsGood DEF OnceInv
  <2>2. PlaceResult(rooms[r], s, cell) = "Success"
    BY <1>1, <1>4 DEF StoneResult
  <2>3. /\ moved.game.status # "Playing" => JustOver(moved)
        /\ moved.gameId = rooms[r].gameId
    BY <1>2, <2>1, <2>2, MovedGood
  <2>4. IF moved.game.status = "Playing"
        THEN rooms' = [rooms EXCEPT ![r] = moved] /\ UNCHANGED finished
        ELSE /\ rooms' = [rooms EXCEPT ![r] = Finished(moved)]
             /\ finished' = Append(finished, e)
    BY <1>1, <1>4 DEF PlaceStone
  <2>5. rooms[r].phase = "Playing" /\ reason \in Reasons
    BY <2>2 DEF PlaceResult, EndingReason, Reasons
  <2>6. CASE moved.game.status = "Playing"
    <3> HIDE DEF moved
    <3>1. \A q \in LiveRooms' : /\ q \in LiveRooms
                                /\ rooms'[q].gameId = rooms[q].gameId
                                /\ rooms'[q].phase = "Playing" => rooms[q].phase = "Playing"
      BY <1>2, <2>3, <2>4, <2>5, <2>6, OneRoomChanges DEF OnceInv
    <3> QED
      BY <1>1, <2>4, <2>6, <3>1, NothingEnds
  <2>7. CASE moved.game.status # "Playing"
    <3>1. /\ Finished(moved).phase = "Waiting"
          /\ Finished(moved).gameId = rooms[r].gameId
      BY <2>3, <2>7, FinishedGood
    <3>2. e \in FinishedGames /\ e.game = rooms[r].gameId
      BY <2>3, <2>5, <2>7, EndingType DEF Ending
    <3> HIDE DEF moved, e
    <3>3. finished' = finished \o <<e>>
      BY <2>4, <2>7, <3>2, QueueGrows DEF OnceInv, Inv
    <3>4. \A q \in LiveRooms' : /\ q \in LiveRooms
                                /\ rooms'[q].gameId = rooms[q].gameId
                                /\ rooms'[q].phase = "Playing" =>
                                     q # r /\ rooms[q].phase = "Playing"
      BY ZenonT(60), <1>2, <2>4, <2>7, <3>1, OneRoomChanges DEF OnceInv
    <3> QED
      BY <1>1, <1>2, <2>5, <3>2, <3>3, <3>4, OneEnds
  <2> QED
    BY <2>6, <2>7
<1> QED
  BY <1>1, <1>3, <1>4 DEF PlaceStone

\* A new room has no game.
LEMMA CreateRoomOnce ==
  ASSUME OnceInv, Inv', NEW s \in Sessions, CreateRoom(s)
  PROVE  OnceInv'
<1> DEFINE r == lastRoomId + 1
<1>1. /\ rooms' = [rooms EXCEPT ![r] = NewRoom(s)]
      /\ UNCHANGED <<finished, lastGameId>>
  BY DEF CreateRoom
<1>2. NewRoom(s).gameId = 0 /\ NewRoom(s).phase = "Waiting"
  BY DEF NewRoom
<1> HIDE DEF r
<1>3. \A q \in LiveRooms' : \/ q \in LiveRooms /\ rooms'[q] = rooms[q]
                            \/ rooms'[q] = NewRoom(s)
  BY <1>1 DEF LiveRooms, OnceInv, Inv, TypeOK
<1> QED
  BY <1>1, <1>2, <1>3, NothingEnds

\* Entering touches neither the game of the room nor any result.
LEMMA EnterRoomOnce ==
  ASSUME OnceInv, Inv', NEW s \in Sessions, NEW r \in RoomIds, EnterRoom(s, r)
  PROVE  OnceInv'
<1>1. /\ RoomExists(r) /\ CanAdd(rooms[r], s)
      /\ rooms' = [rooms EXCEPT ![r] = Added(rooms[r], s)]
      /\ UNCHANGED <<finished, lastGameId>>
  BY DEF EnterRoom, EnterResult
<1>2. r \in LiveRooms /\ GoodRoom(rooms[r])
  BY <1>1, LiveRoomsGood DEF RoomExists, LiveRooms, OnceInv
<1>3. Added(rooms[r], s).gameId = rooms[r].gameId /\ Added(rooms[r], s).phase = rooms[r].phase
  BY <1>1, <1>2, AddedGood
<1> DEFINE room == Added(rooms[r], s)
<1> HIDE DEF room
<1>4. rooms' = [rooms EXCEPT ![r] = room]
  BY <1>1 DEF room
<1>5. rooms'[r] = room /\ \A q \in LiveRooms' : q \in LiveRooms /\ (q # r => rooms'[q] = rooms[q])
  BY <1>2, <1>4, OneRoomChanges DEF OnceInv
<1> QED
  BY <1>1, <1>3, <1>5, NothingEnds DEF room

\* Getting ready touches neither the game of the room nor any result.
LEMMA SetReadyOnce ==
  ASSUME OnceInv, Inv', NEW s \in Sessions, NEW ready \in BOOLEAN, SetReady(s, ready)
  PROVE  OnceInv'
<1> DEFINE r == users[s].room
           room == WithReady(rooms[r], s, ready)
<1>1. /\ LoggedIn(s) /\ users[s].state = "InRoom"
      /\ rooms[r].phase # "Playing" /\ rooms[r].host # s
      /\ rooms' = [rooms EXCEPT ![r] = room]
      /\ UNCHANGED <<finished, lastGameId>>
  BY DEF SetReady, ReadyResult, MemberResult
<1>2. r \in LiveRooms /\ s \in rooms[r].members /\ GoodRoom(rooms[r])
  BY <1>1, MembersRoom, LiveRoomsGood DEF OnceInv
<1>3. room.gameId = rooms[r].gameId /\ room.phase = rooms[r].phase
  BY <1>1, <1>2, WithReadyGood
<1> HIDE DEF r, room
<1>4. rooms'[r] = room /\ \A q \in LiveRooms' : q \in LiveRooms /\ (q # r => rooms'[q] = rooms[q])
  BY <1>1, <1>2, OneRoomChanges DEF OnceInv
<1> QED
  BY <1>1, <1>3, <1>4, NothingEnds

\* A new game has an id that no room and no result has.
LEMMA StartGameOnce ==
  ASSUME OnceInv, Inv', NEW s \in Sessions, StartGame(s)
  PROVE  OnceInv'
<1> DEFINE r == users[s].room
           id == lastGameId + 1
           room == Started(rooms[r], id)
<1>1. /\ LoggedIn(s) /\ users[s].state = "InRoom"
      /\ Cardinality(rooms[r].members) = Capacity
      /\ lastGameId # MaxGameId
      /\ rooms' = [rooms EXCEPT ![r] = room]
      /\ lastGameId' = id
      /\ UNCHANGED finished
  BY DEF StartGame, StartResult, MemberResult
<1>2. r \in LiveRooms /\ GoodRoom(rooms[r])
  BY <1>1, MembersRoom, LiveRoomsGood DEF OnceInv
<1>3. id \in GameIds /\ lastGameId \in Int /\ lastGameId < id
  BY <1>1, RoomConstants DEF OnceInv, Inv, TypeOK, GameIds
<1>4. room.gameId = id
  BY <1>1, <1>2, <1>3, StartedGood
<1> HIDE DEF r, id, room
<1>5. rooms'[r] = room /\ \A q \in LiveRooms' : q \in LiveRooms /\ (q # r => rooms'[q] = rooms[q])
  BY <1>1, <1>2, OneRoomChanges DEF OnceInv
<1>6. \A q \in LiveRooms : rooms[q].gameId \in Int /\ rooms[q].gameId < id
  <2>1. SUFFICES ASSUME NEW q \in LiveRooms
                 PROVE  rooms[q].gameId \in Int /\ rooms[q].gameId < id
    OBVIOUS
  <2>2. rooms[q].gameId \in Int /\ rooms[q].gameId <= lastGameId
    BY LiveRoomsGood, RoomConstants DEF OnceInv, Inv, RoomsSound, Rooms
  <2>3. id \in Int
    BY <1>3, RoomConstants DEF GameIds
  <2> QED
    BY <1>3, <2>2, <2>3
<1>7. \A i \in DOMAIN finished : finished[i].game \in Int /\ finished[i].game < id
  <2>1. SUFFICES ASSUME NEW i \in DOMAIN finished
                 PROVE  finished[i].game \in Int /\ finished[i].game < id
    OBVIOUS
  <2>2. finished[i] \in FinishedGames
    BY DEF OnceInv, Inv, TypeOK
  <2>3. finished[i].game \in Int /\ id \in Int
    BY <1>3, <2>2, RoomConstants DEF FinishedGames, GameIds
  <2> QED
    BY <1>3, <2>3 DEF OnceInv, QueueIsOld
<1>8. QueueIsOld'
  <2>1. id \in Int
    BY <1>3, RoomConstants DEF GameIds
  <2> QED
    BY <1>1, <1>7, <2>1 DEF QueueIsOld
<1>9. ASSUME NEW q \in LiveRooms', rooms'[q].phase = "Playing"
      PROVE  /\ \A i \in DOMAIN finished' : finished'[i].game # rooms'[q].gameId
             /\ \A p \in LiveRooms' : rooms'[p].gameId = rooms'[q].gameId => p = q
  <2>1. CASE q = r
    BY <1>1, <1>4, <1>5, <1>6, <1>7, <2>1
  <2>2. CASE q # r
    <3>1. q \in LiveRooms /\ rooms'[q] = rooms[q] /\ rooms[q].phase = "Playing"
      BY <1>5, <1>9, <2>2
    <3>2. /\ \A i \in DOMAIN finished : finished[i].game # rooms[q].gameId
          /\ \A p \in LiveRooms : rooms[p].gameId = rooms[q].gameId => p = q
      BY <3>1 DEF OnceInv, GameEndsOnce
    <3> QED
      BY <1>1, <1>4, <1>5, <1>6, <3>1, <3>2
  <2> QED
    BY <2>1, <2>2
<1> QED
  BY <1>1, <1>8, <1>9 DEF OnceInv, GameEndsOnce

\* LeaveRoom and HandleDisconnected: a game that runs in the room ends, nothing else.
LEMMA LeavingOnce ==
  ASSUME OnceInv, Inv', NEW s \in Sessions, NEW reason \in Reasons,
         LeaveResult(s) = "Success", rooms' = RoomsWithout(s),
         finished' = finished \o LeaveEndings(s, reason),
         UNCHANGED lastGameId
  PROVE  OnceInv'
<1> DEFINE r == users[s].room
           room == IF rooms[r].members = {s} THEN NoRoom ELSE Removed(rooms[r], s)
<1>1. LoggedIn(s) /\ users[s].state = "InRoom"
  BY DEF LeaveResult, MemberResult
<1>2. /\ r \in LiveRooms /\ s \in rooms[r].members
      /\ r \in RoomIds /\ rooms[r] \in Rooms /\ GoodRoom(rooms[r])
  BY <1>1, MembersRoom, LiveRoomsGood DEF OnceInv
<1>3. rooms' = [rooms EXCEPT ![r] = room]
  BY DEF RoomsWithout
<1>4. room # NoRoom => room.phase = "Waiting" /\ room.gameId = rooms[r].gameId
  BY <1>2, RemovedGood DEF GoodRoom
<1>5. LeaveEndings(s, reason) =
        IF TurnExpired(rooms[r]) THEN <<ExpiryEnding(r, rooms[r])>>
        ELSE IF rooms[r].phase = "Playing"
             THEN <<Ending(r, Forfeit(rooms[r], StoneOf(rooms[r], s)), reason)>>
             ELSE << >>
  BY DEF LeaveEndings
<1> HIDE DEF r, room
<1>6. \A q \in LiveRooms' : /\ q \in LiveRooms
                            /\ rooms'[q].gameId = rooms[q].gameId
                            /\ rooms'[q].phase = "Playing" => q # r /\ rooms[q].phase = "Playing"
  <2>1. rooms'[r] = room /\ \A q \in LiveRooms' : q \in LiveRooms /\ (q # r => rooms'[q] = rooms[q])
    BY <1>2, <1>3, OneRoomChanges DEF OnceInv
  <2> QED
    BY <1>4, <2>1 DEF LiveRooms
<1>7. CASE rooms[r].phase = "Playing"
  <2>1. PICK loser \in Players, why \in Reasons :
          LeaveEndings(s, reason) = <<Ending(r, Forfeit(rooms[r], loser), why)>>
    <3>1. rooms[r].game.next \in Players /\ StoneOf(rooms[r], s) \in Players
      BY <1>2, <1>7, PlayersHaveStones
    <3>2. "TurnTimeout" \in Reasons
      BY DEF Reasons
    <3> QED
      BY <1>5, <1>7, <3>1, <3>2 DEF ExpiryEnding
  <2> DEFINE e == Ending(r, Forfeit(rooms[r], loser), why)
  <2>2. e \in FinishedGames /\ e.game = rooms[r].gameId
    BY <1>2, <1>7, ForfeitIsOver, EndingType DEF Ending
  <2> HIDE DEF e
  <2>3. finished' = finished \o <<e>>
    BY <2>1 DEF e
  <2> QED
    BY <1>2, <1>6, <1>7, <2>2, <2>3, OneEnds
<1>8. CASE rooms[r].phase # "Playing"
  <2>1. finished' = finished
    BY <1>5, <1>8 DEF TurnExpired, OnceInv, Inv, TypeOK
  <2> QED
    BY <1>6, <2>1, NothingEnds
<1> QED
  BY <1>7, <1>8

\* A disconnection ends at most the game of the room that is left.
LEMMA LeaveAndRemoveOnce ==
  ASSUME OnceInv, Inv', NEW s \in Sessions, LeaveAndRemove(s)
  PROVE  OnceInv'
<1>1. LoggedIn(s) /\ UNCHANGED lastGameId
  BY DEF LeaveAndRemove
<1>2. CASE LeaveResult(s) = "Success"
  BY <1>1, <1>2, LeavingOnce DEF LeaveAndRemove, Reasons
<1>3. CASE LeaveResult(s) # "Success"
  BY <1>1, <1>3, NothingEnds DEF LeaveAndRemove, LiveRooms
<1> QED
  BY <1>2, <1>3

\* All the games whose turn has expired end, each of them once.
LEMMA UpdateTimeoutsOnce ==
  ASSUME OnceInv, Inv', UpdateTimeouts
  PROVE  OnceInv'
<1> DEFINE n == Cardinality(ExpiredRooms)
<1>1. PICK q \in Orders(ExpiredRooms) :
        finished' = finished \o [i \in DOMAIN q |-> ExpiryEnding(q[i], rooms[q[i]])]
  BY DEF UpdateTimeouts
<1> DEFINE added == [i \in DOMAIN q |-> ExpiryEnding(q[i], rooms[q[i]])]
<1>2. /\ rooms' = [r \in RoomIds |-> IF r \in ExpiredRooms THEN Expire(rooms[r]) ELSE rooms[r]]
      /\ UNCHANGED lastGameId
  BY DEF UpdateTimeouts
<1>3. IsFiniteSet(ExpiredRooms)
  <2>1. IsFiniteSet(RoomIds) /\ ExpiredRooms \in SUBSET RoomIds
    BY FS_Interval, ManagerConstants DEF RoomIds, ExpiredRooms, LiveRooms
  <2> QED
    BY <2>1, FS_Subset
<1>4. /\ n \in Nat
      /\ q \in [1..n -> ExpiredRooms] /\ DOMAIN q = 1..n
      /\ \A i, j \in 1..n : q[i] = q[j] => i = j
  BY <1>3, FS_CardinalityType DEF Orders
<1>5. q \in [1..n -> LiveRooms]
  BY <1>4 DEF ExpiredRooms
<1>6. ASSUME NEW r \in ExpiredRooms
      PROVE  /\ r \in LiveRooms /\ rooms[r].phase = "Playing"
             /\ ExpiryEnding(r, rooms[r]) \in FinishedGames
             /\ ExpiryEnding(r, rooms[r]).game = rooms[r].gameId
             /\ Expire(rooms[r]).phase = "Waiting" /\ Expire(rooms[r]).gameId = rooms[r].gameId
  <2>1. /\ r \in LiveRooms /\ rooms[r].phase = "Playing" /\ TurnExpired(rooms[r])
        /\ r \in RoomIds /\ GoodRoom(rooms[r])
    BY LiveRoomsGood DEF ExpiredRooms, TurnExpired, OnceInv
  <2>2. /\ JustOver(Forfeit(rooms[r], rooms[r].game.next))
        /\ Forfeit(rooms[r], rooms[r].game.next).gameId = rooms[r].gameId
    BY <2>1, PlayersHaveStones, ForfeitIsOver
  <2> QED
    BY <2>1, <2>2, FinishedGood, EndingType DEF Expire, ExpiryEnding, Ending, Reasons
<1>7. \A i \in 1..n : /\ added[i] \in FinishedGames
                       /\ added[i].game = rooms[q[i]].gameId
                       /\ rooms[q[i]].phase = "Playing"
  BY <1>4, <1>6
<1>8. added \in Seq(FinishedGames) /\ Len(added) = n
  <2>1. added \in [1..n -> FinishedGames]
    BY <1>4, <1>7
  <2> QED
    BY <1>4, <2>1
<1>9. \A r \in ExpiredRooms : \E i \in 1..n : q[i] = r
  <2>1. IsFiniteSet(1..n) /\ Cardinality(1..n) = n
    BY <1>4, FS_Interval
  <2>2. q \in Injection(1..n, ExpiredRooms)
    BY <1>4 DEF Injection, IsInjective
  <2>3. q \in Surjection(1..n, ExpiredRooms)
    BY <1>3, <2>1, <2>2, FS_Injection
  <2> QED
    BY <2>3 DEF Surjection
<1>10. \A r \in LiveRooms' : /\ r \in LiveRooms
                             /\ rooms'[r].gameId = rooms[r].gameId
                             /\ rooms'[r].phase = "Playing" =>
                                  rooms[r].phase = "Playing" /\ \A i \in 1..n : q[i] # r
  <2>1. SUFFICES ASSUME NEW r \in LiveRooms'
                 PROVE  /\ r \in LiveRooms
                        /\ rooms'[r].gameId = rooms[r].gameId
                        /\ rooms'[r].phase = "Playing" =>
                             rooms[r].phase = "Playing" /\ \A i \in 1..n : q[i] # r
    OBVIOUS
  <2>2. CASE r \in ExpiredRooms
    BY <1>2, <1>6, <2>2 DEF LiveRooms
  <2>3. CASE r \notin ExpiredRooms
    <3>1. rooms'[r] = rooms[r] /\ r \in LiveRooms
      BY <1>2, <2>3 DEF LiveRooms
    <3>2. \A i \in 1..n : q[i] \in ExpiredRooms
      BY <1>4
    <3> QED
      BY <2>3, <3>1, <3>2
  <2> QED
    BY <2>2, <2>3
<1>11. finished' = finished \o added
  BY <1>1
<1>12. \A i \in 1..n : added[i].game = rooms[q[i]].gameId /\ rooms[q[i]].phase = "Playing"
  BY <1>7
<1>13. n \in Nat /\ \A i, j \in 1..n : q[i] = q[j] => i = j
  BY <1>4
<1>14. UNCHANGED lastGameId
  BY <1>2
<1> HIDE DEF n, added
<1> QED
  BY <1>5, <1>8, <1>10, <1>11, <1>12, <1>13, <1>14, TheseEnd

\* What is popped is gone from the queue; what stays was there.
LEMMA PopFinishedGameOnce ==
  ASSUME OnceInv, Inv', PopFinishedGame
  PROVE  OnceInv'
<1>1. /\ finished \in Seq(FinishedGames) /\ finished # << >> /\ finished' = Tail(finished)
      /\ UNCHANGED <<rooms, lastGameId>>
  BY DEF PopFinishedGame, OnceInv, Inv, TypeOK
<1>2. \A i \in DOMAIN finished' : i \in Nat /\ i + 1 \in DOMAIN finished /\ finished'[i] = finished[i + 1]
  BY <1>1
<1>3. QueueIsOld'
  BY <1>1, <1>2 DEF OnceInv, QueueIsOld
<1>4. \A i, j \in DOMAIN finished' : finished'[i].game = finished'[j].game => i = j
  <2>1. SUFFICES ASSUME NEW i \in DOMAIN finished', NEW j \in DOMAIN finished',
                        finished'[i].game = finished'[j].game
                 PROVE  i = j
    OBVIOUS
  <2>2. i + 1 = j + 1
    BY <1>2, <2>1 DEF OnceInv, GameEndsOnce
  <2> QED
    BY <1>2, <2>2
<1>5. ASSUME NEW r \in LiveRooms', rooms'[r].phase = "Playing"
      PROVE  /\ \A i \in DOMAIN finished' : finished'[i].game # rooms'[r].gameId
             /\ \A q \in LiveRooms' : rooms'[q].gameId = rooms'[r].gameId => q = r
  BY <1>1, <1>2, <1>5 DEF OnceInv, GameEndsOnce, LiveRooms
<1> QED
  BY <1>3, <1>4, <1>5 DEF OnceInv, GameEndsOnce

\* The clock ends no game by itself.
LEMMA TickOnce ==
  ASSUME OnceInv, Inv', Tick
  PROVE  OnceInv'
<1>1. /\ rooms' = [r \in RoomIds |-> IF r \in LiveRooms /\ rooms[r].left > 0
                                 THEN [rooms[r] EXCEPT !.left = @ - 1] ELSE rooms[r]]
      /\ UNCHANGED <<finished, lastGameId>>
  BY DEF Tick
<1>2. ASSUME NEW r \in LiveRooms'
      PROVE  r \in LiveRooms /\ rooms'[r].gameId = rooms[r].gameId /\ rooms'[r].phase = rooms[r].phase
  <2>1. r \in RoomIds
    BY DEF LiveRooms
  <2>2. CASE r \in LiveRooms /\ rooms[r].left > 0
    BY <1>1, <2>1, <2>2, LiveRoomsGood, TickedGood DEF OnceInv
  <2>3. CASE ~(r \in LiveRooms /\ rooms[r].left > 0)
    BY <1>1, <2>1, <2>3 DEF LiveRooms
  <2> QED
    BY <2>2, <2>3
<1> QED
  BY <1>1, <1>2, NothingEnds

\* Every operation of the managers preserves this invariant.
LEMMA NextOnce == OnceInv /\ [Next]_vars => OnceInv'
<1> SUFFICES ASSUME OnceInv, [Next]_vars PROVE OnceInv'
  OBVIOUS
<1>0. Inv'
  BY NextInv DEF OnceInv
<1>1. CASE \E s \in Sessions : Request(s)
  <2>1. PICK s \in Sessions : Request(s)
    BY <1>1
  <2>2. CASE \E nick \in Nicknames : Login(s, nick)
    BY <1>0, <2>2, NothingEnds DEF Login, LiveRooms
  <2>3. CASE CreateRoom(s)
    BY <1>0, <2>3, CreateRoomOnce
  <2>4. CASE \E r \in RoomIds : EnterRoom(s, r)
    BY <1>0, <2>4, EnterRoomOnce
  <2>5. CASE LeaveRoom(s, "LeftRoom")
    BY <1>0, <2>5, LeavingOnce DEF LeaveRoom, Reasons
  <2>6. CASE \E ready \in BOOLEAN : SetReady(s, ready)
    BY <1>0, <2>6, SetReadyOnce
  <2>7. CASE StartGame(s)
    BY <1>0, <2>7, StartGameOnce
  <2>8. CASE \E r \in RoomIds, g \in 0..MaxGameId : Resign(s, r, g)
    BY <1>0, <2>8, ResignOnce
  <2>9. CASE \E r \in RoomIds, g \in 0..MaxGameId :
               \E cell \in Cell(r), line \in Line(r) : PlaceStone(s, r, g, cell, line)
    <3>1. PICK r \in RoomIds, g \in 0..MaxGameId :
            \E cell \in Cell(r), line \in Line(r) : PlaceStone(s, r, g, cell, line)
      BY <2>9
    <3>2. PICK cell \in Cell(r), line \in Line(r) : PlaceStone(s, r, g, cell, line)
      BY <3>1
    <3>3. line \in BOOLEAN
      BY DEF Line, LineOutcomes
    <3> QED
      BY <1>0, <3>2, <3>3, PlaceStoneOnce
  <2> QED
    BY <2>1, <2>2, <2>3, <2>4, <2>5, <2>6, <2>7, <2>8, <2>9 DEF Request
<1>2. CASE \E s \in Sessions : LeaveAndRemove(s)
  BY <1>0, <1>2, LeaveAndRemoveOnce
<1>3. CASE UpdateTimeouts
  BY <1>0, <1>3, UpdateTimeoutsOnce
<1>4. CASE PopFinishedGame
  BY <1>0, <1>4, PopFinishedGameOnce
<1>5. CASE Tick
  BY <1>0, <1>5, TickOnce
<1>6. CASE UNCHANGED vars
  BY <1>0, <1>6, NothingEnds DEF vars, LiveRooms
<1> QED
  BY <1>1, <1>2, <1>3, <1>4, <1>5, <1>6 DEF Next

\* No game is ever ended twice, and none that has a result is still played.
THEOREM GamesEndOnce == Spec => []GameEndsOnce
<1>1. Init => OnceInv
  BY InitInv DEF Init, OnceInv, GameEndsOnce, QueueIsOld, LiveRooms
<1>2. OnceInv => GameEndsOnce
  BY DEF OnceInv
<1> QED
  BY <1>1, <1>2, NextOnce, PTL DEF Spec

-----------------------------------------------------------------------------
(* What a step does to a room and to the queue *)

\* The ways a running game gets its result e: its turn has expired, a player gives
\* it up (or is gone), or a move completes a line or fills the board.
Expires(room, r, e) ==
  /\ TurnExpired(room)
  /\ e = ExpiryEnding(r, room)

GivenUp(room, r, e) ==
  /\ room.phase = "Playing" /\ ~TurnExpired(room)
  /\ \E s \in room.members, reason \in {"Resigned", "LeftRoom", "Disconnected"} :
       e = Ending(r, Forfeit(room, StoneOf(room, s)), reason)

PlayedOut(room, r, e) ==
  /\ room.phase = "Playing" /\ ~TurnExpired(room)
  /\ \E s \in room.members, line \in LineOutcomes(room.game) :
       LET moved == Moved(room, s, line)
       IN /\ StoneOf(room, s) = room.game.next
          /\ moved.game.status # "Playing"
          /\ e = Ending(r, moved, EndingReason(moved.game.status))

EndsWith(room, r, e) == Expires(room, r, e) \/ GivenUp(room, r, e) \/ PlayedOut(room, r, e)

\* What may happen to a room whose game does not end.
Entered(room, after) == \E s \in Sessions : CanAdd(room, s) /\ after = Added(room, s)

Readied(room, after) ==
  /\ room.phase # "Playing"
  /\ \E s \in room.members \ {room.host}, ready \in BOOLEAN : after = WithReady(room, s, ready)

Begun(room, after) ==
  /\ room.phase # "Playing"
  /\ Cardinality(room.members) = Capacity
  /\ room.members \ {room.host} \subseteq room.ready
  /\ lastGameId # MaxGameId
  /\ after = Started(room, lastGameId + 1)

PlayedOn(room, after) ==
  /\ room.phase = "Playing" /\ ~TurnExpired(room)
  /\ \E s \in room.members, line \in LineOutcomes(room.game) :
       /\ StoneOf(room, s) = room.game.next
       /\ after = Moved(room, s, line)
       /\ after.game.status = "Playing"

Ticked(room, after) == room.left > 0 /\ after = [room EXCEPT !.left = @ - 1]

\* Waiting again after its game, or with one member less; or there is no room left.
Closed(room, after) ==
  \/ after = NoRoom
  \/ /\ after \in Rooms
     /\ after.phase = "Waiting" /\ after.left = 0 /\ after.gameId = room.gameId

\* The places of the queue that a step has added.
NewEndings == {i \in DOMAIN finished' : i > Len(finished)}

RoomStep(r) ==
  LET room == rooms[r]
      after == rooms'[r]
  IN \/ after = room
     \/ Entered(room, after) \/ Readied(room, after) \/ Begun(room, after)
     \/ PlayedOn(room, after) \/ Ticked(room, after)
     \/ room.phase # "Playing" /\ Closed(room, after)
     \/ /\ room.phase = "Playing" /\ Closed(room, after)
        /\ \E i \in NewEndings : EndsWith(room, r, finished'[i])

NewRoomStep(r) ==
  rooms'[r] = NoRoom \/ \E s \in Sessions : rooms'[r] = NewRoom(s)

QueueStep ==
  \/ finished' = finished
  \/ finished # <<>> /\ finished' = Tail(finished)
  \/ /\ Len(finished') > Len(finished)
     /\ \A i \in DOMAIN finished : finished'[i] = finished[i]
     /\ \A i \in NewEndings : \E r \in LiveRooms : EndsWith(rooms[r], r, finished'[i])

StepShape ==
  /\ QueueStep
  /\ \A r \in LiveRooms : RoomStep(r)
  /\ \A r \in RoomIds \ LiveRooms : NewRoomStep(r)

-----------------------------------------------------------------------------
(* Every operation is such a step *)

\* A result appended to the queue is its only new place.
LEMMA OneEnding ==
  ASSUME Inv, NEW r \in LiveRooms, NEW e, finished' = Append(finished, e),
         EndsWith(rooms[r], r, e)
  PROVE  /\ QueueStep
         /\ \E i \in NewEndings : EndsWith(rooms[r], r, finished'[i])
<1>1. finished \in Seq(FinishedGames) /\ Len(finished) \in Nat
  BY DEF Inv, TypeOK
<1>2. /\ DOMAIN finished' = 1..(Len(finished) + 1)
      /\ Len(finished') = Len(finished) + 1
      /\ finished'[Len(finished) + 1] = e
      /\ \A i \in DOMAIN finished : finished'[i] = finished[i]
  BY <1>1
<1>3. NewEndings = {Len(finished) + 1}
  BY <1>1, <1>2 DEF NewEndings
<1>4. Len(finished') > Len(finished)
  BY <1>1, <1>2
<1> QED
  BY <1>2, <1>3, <1>4 DEF QueueStep

\* A step that stores one room anew.
LEMMA OneRoomStep ==
  ASSUME Inv, QueueStep, NEW r \in RoomIds, NEW room,
         rooms' = [rooms EXCEPT ![r] = room],
         r \in LiveRooms => RoomStep(r),
         r \notin LiveRooms => NewRoomStep(r)
  PROVE  StepShape
<1>1. \A q \in RoomIds : q # r => rooms'[q] = rooms[q]
  BY DEF Inv, TypeOK
<1>2. ASSUME NEW q \in LiveRooms PROVE RoomStep(q)
  BY <1>1, <1>2 DEF RoomStep, LiveRooms
<1>3. ASSUME NEW q \in RoomIds \ LiveRooms PROVE NewRoomStep(q)
  BY <1>1, <1>3 DEF NewRoomStep, LiveRooms
<1> QED
  BY <1>2, <1>3 DEF StepShape

\* A step that stores no room and queues nothing.
LEMMA NoRoomSteps ==
  ASSUME QueueStep, UNCHANGED rooms
  PROVE  StepShape
BY DEF StepShape, RoomStep, NewRoomStep, LiveRooms

\* The room is closed together with its result.
LEMMA FinishedCloses ==
  ASSUME NEW room, NEW over, JustOver(over), over.gameId = room.gameId
  PROVE  Closed(room, Finished(over))
<1>1. Finished(over) \in Rooms /\ Finished(over).phase = "Waiting"
      /\ Finished(over).gameId = room.gameId
  BY FinishedGood DEF GoodRoom
<1>2. Finished(over).left = 0
  BY DEF Finished, JustOver, Rooms
<1> QED
  BY <1>1, <1>2 DEF Closed

\* RoomManager::SetReady
LEMMA SetReadyStep ==
  ASSUME Inv, NEW s \in Sessions, NEW ready \in BOOLEAN, SetReady(s, ready)
  PROVE  StepShape
<1> DEFINE r == users[s].room
<1>1. /\ LoggedIn(s) /\ users[s].state = "InRoom"
      /\ rooms[r].phase # "Playing" /\ rooms[r].host # s
      /\ rooms' = [rooms EXCEPT ![r] = WithReady(rooms[r], s, ready)]
      /\ finished' = finished
  BY DEF SetReady, ReadyResult, MemberResult
<1>2. r \in LiveRooms /\ s \in rooms[r].members /\ r \in RoomIds
  BY <1>1, MembersRoom DEF LiveRooms
<1>3. rooms'[r] = WithReady(rooms[r], s, ready)
  BY <1>1, <1>2 DEF Inv, TypeOK
<1> HIDE DEF r
<1>4. RoomStep(r)
  BY <1>1, <1>2, <1>3 DEF RoomStep, Readied, r
<1>5. QueueStep
  BY <1>1 DEF QueueStep
<1> QED
  BY <1>1, <1>2, <1>4, <1>5, OneRoomStep DEF r

\* RoomManager::StartGame
LEMMA StartGameStep ==
  ASSUME Inv, NEW s \in Sessions, StartGame(s)
  PROVE  StepShape
<1> DEFINE r == users[s].room
           after == Started(rooms[r], lastGameId + 1)
<1>1. /\ LoggedIn(s) /\ users[s].state = "InRoom"
      /\ rooms[r].phase # "Playing"
      /\ Cardinality(rooms[r].members) = Capacity
      /\ rooms[r].members \ {rooms[r].host} \subseteq rooms[r].ready
      /\ lastGameId # MaxGameId
      /\ rooms' = [rooms EXCEPT ![r] = after]
      /\ finished' = finished
  BY DEF StartGame, StartResult, MemberResult
<1>2. r \in LiveRooms /\ r \in RoomIds
  BY <1>1, MembersRoom DEF LiveRooms
<1>3. rooms'[r] = after
  BY <1>1, <1>2 DEF Inv, TypeOK
<1>4. Begun(rooms[r], rooms'[r])
  BY <1>1, <1>3 DEF Begun
<1> HIDE DEF r, after
<1>5. RoomStep(r) /\ QueueStep
  BY <1>1, <1>4 DEF RoomStep, QueueStep
<1> QED
  BY <1>1, <1>2, <1>5, OneRoomStep

\* RoomManager::CreateRoom
LEMMA CreateRoomStep ==
  ASSUME Inv, NEW s \in Sessions, CreateRoom(s)
  PROVE  StepShape
<1> DEFINE r == lastRoomId + 1
<1>1. /\ lastRoomId # MaxRoomId /\ ~RoomExists(r)
      /\ rooms' = [rooms EXCEPT ![r] = NewRoom(s)]
      /\ finished' = finished
  BY DEF CreateRoom, CreateResult
<1>2. r \in RoomIds /\ r \notin LiveRooms
  BY <1>1, ManagerConstants DEF Inv, TypeOK, RoomIds, RoomExists, LiveRooms
<1>3. rooms'[r] = NewRoom(s)
  BY <1>1, <1>2 DEF Inv, TypeOK
<1> HIDE DEF r
<1>4. NewRoomStep(r) /\ QueueStep
  BY <1>1, <1>3 DEF NewRoomStep, QueueStep
<1> QED
  BY <1>1, <1>2, <1>4, OneRoomStep

\* RoomManager::EnterRoom
LEMMA EnterRoomStep ==
  ASSUME Inv, NEW s \in Sessions, NEW r \in RoomIds, EnterRoom(s, r)
  PROVE  StepShape
<1>1. /\ RoomExists(r) /\ CanAdd(rooms[r], s)
      /\ rooms' = [rooms EXCEPT ![r] = Added(rooms[r], s)]
      /\ finished' = finished
  BY DEF EnterRoom, EnterResult
<1>2. r \in LiveRooms
  BY <1>1 DEF RoomExists, LiveRooms
<1>3. rooms'[r] = Added(rooms[r], s)
  BY <1>1 DEF Inv, TypeOK
<1>4. RoomStep(r) /\ QueueStep
  BY <1>1, <1>3 DEF RoomStep, Entered, QueueStep
<1> QED
  BY <1>1, <1>2, <1>4, OneRoomStep

\* FinishRoom: one game ends, its result enters the queue.
LEMMA FinishRoomStep ==
  ASSUME Inv, NEW r \in LiveRooms, NEW over, JustOver(over), over.gameId = rooms[r].gameId,
         NEW e, EndsWith(rooms[r], r, e), rooms[r].phase = "Playing",
         rooms' = [rooms EXCEPT ![r] = Finished(over)],
         finished' = Append(finished, e)
  PROVE  StepShape
<1>1. r \in RoomIds /\ rooms'[r] = Finished(over)
  BY DEF LiveRooms, Inv, TypeOK
<1>2. Closed(rooms[r], rooms'[r])
  BY <1>1, FinishedCloses
<1>3. QueueStep /\ \E i \in NewEndings : EndsWith(rooms[r], r, finished'[i])
  BY OneEnding
<1>4. RoomStep(r)
  BY <1>2, <1>3 DEF RoomStep
<1> QED
  BY <1>1, <1>3, <1>4, OneRoomStep

\* ExpireRoom, called at the head of PlaceStone and Resign
LEMMA ExpireBeforeRequestStep ==
  ASSUME Inv, NEW r \in LiveRooms, ExpireBeforeRequest(r)
  PROVE  StepShape
<1> DEFINE over == Forfeit(rooms[r], rooms[r].game.next)
           e == ExpiryEnding(r, rooms[r])
<1>1. GoodRoom(rooms[r]) /\ rooms[r].phase = "Playing"
  BY LiveRoomsGood DEF ExpireBeforeRequest, TurnExpired
<1>2. JustOver(over) /\ over.gameId = rooms[r].gameId
  BY <1>1, PlayersHaveStones, ForfeitIsOver
<1>3. /\ rooms' = [rooms EXCEPT ![r] = Finished(over)]
      /\ finished' = Append(finished, e)
      /\ EndsWith(rooms[r], r, e)
  BY DEF ExpireBeforeRequest, Expire, EndsWith, Expires
<1> HIDE DEF over, e
<1> QED
  BY <1>1, <1>2, <1>3, FinishRoomStep

\* RoomManager::Resign
LEMMA ResignStep ==
  ASSUME Inv, NEW s \in Sessions, NEW r \in RoomIds, NEW g, Resign(s, r, g)
  PROVE  StepShape
<1>1. AddressResult(s, r, g) = "Success"
  BY DEF Resign, ResignResult
<1>2. r \in LiveRooms /\ s \in rooms[r].members
  BY <1>1 DEF AddressResult, RoomExists, LiveRooms
<1>3. CASE ExpireBeforeRequest(r)
  BY <1>2, <1>3, ExpireBeforeRequestStep
<1>4. CASE ResignResult(s, r, g) = "Success" /\ ~ExpireBeforeRequest(r)
  <2> DEFINE over == Forfeit(rooms[r], StoneOf(rooms[r], s))
             e == Ending(r, over, "Resigned")
  <2>1. /\ rooms[r].phase = "Playing" /\ ~TurnExpired(rooms[r])
        /\ StoneOf(rooms[r], s) \in Players
        /\ rooms' = [rooms EXCEPT ![r] = Finished(over)]
        /\ finished' = Append(finished, e)
    BY <1>1, <1>4 DEF Resign, ResignResult, CanForfeit
  <2>2. JustOver(over) /\ over.gameId = rooms[r].gameId
    BY <1>2, <2>1, LiveRoomsGood, ForfeitIsOver
  <2>3. EndsWith(rooms[r], r, e)
    BY <1>2, <2>1 DEF EndsWith, GivenUp
  <2> HIDE DEF over, e
  <2> QED
    BY <1>2, <2>1, <2>2, <2>3, FinishRoomStep
<1> QED
  BY <1>3, <1>4 DEF Resign

\* RoomManager::PlaceStone: who moves is the one whose turn it is.
LEMMA PlaceStoneStep ==
  ASSUME Inv, NEW s \in Sessions, NEW r \in RoomIds, NEW g, NEW cell, NEW line \in Line(r),
         PlaceStone(s, r, g, cell, line)
  PROVE  StepShape
<1>1. AddressResult(s, r, g) = "Success"
  BY DEF PlaceStone, StoneResult
<1>2. r \in LiveRooms /\ s \in rooms[r].members /\ line \in LineOutcomes(rooms[r].game)
  BY <1>1 DEF AddressResult, RoomExists, LiveRooms, Line
<1>3. CASE ExpireBeforeRequest(r)
  BY <1>2, <1>3, ExpireBeforeRequestStep
<1>4. CASE StoneResult(s, r, g, cell) = "Success" /\ ~ExpireBeforeRequest(r)
  <2> DEFINE moved == Moved(rooms[r], s, line)
             e == Ending(r, moved, EndingReason(moved.game.status))
  <2>1. PlaceResult(rooms[r], s, cell) = "Success" /\ ~TurnExpired(rooms[r])
    BY <1>1, <1>4 DEF StoneResult
  <2>2. rooms[r].phase = "Playing" /\ StoneOf(rooms[r], s) = rooms[r].game.next
    BY <2>1 DEF PlaceResult, MoveResult
  <2>3. GoodRoom(rooms[r]) /\ line \in BOOLEAN
    BY <1>2, LiveRoomsGood DEF LineOutcomes
  <2>4. /\ moved.game.status # "Playing" => JustOver(moved)
        /\ moved.gameId = rooms[r].gameId
    BY <1>2, <2>1, <2>3, MovedGood
  <2>5. IF moved.game.status = "Playing"
        THEN rooms' = [rooms EXCEPT ![r] = moved] /\ finished' = finished
        ELSE /\ rooms' = [rooms EXCEPT ![r] = Finished(moved)]
             /\ finished' = Append(finished, e)
    BY <1>1, <1>4 DEF PlaceStone
  <2>6. moved.game.status = "Playing" => PlayedOn(rooms[r], moved)
    BY <1>2, <2>1, <2>2 DEF PlayedOn
  <2>7. moved.game.status # "Playing" => EndsWith(rooms[r], r, e)
    BY <1>2, <2>1, <2>2 DEF EndsWith, PlayedOut
  <2> HIDE DEF moved, e
  <2>8. CASE moved.game.status = "Playing"
    <3>1. rooms'[r] = moved
      BY <2>5, <2>8 DEF Inv, TypeOK
    <3>2. RoomStep(r) /\ QueueStep
      BY <2>5, <2>6, <2>8, <3>1 DEF RoomStep, QueueStep
    <3> QED
      BY <1>2, <2>5, <2>8, <3>2, OneRoomStep
  <2>9. CASE moved.game.status # "Playing"
    BY <1>2, <2>2, <2>4, <2>5, <2>7, <2>9, FinishRoomStep
  <2> QED
    BY <2>8, <2>9
<1> QED
  BY <1>3, <1>4 DEF PlaceStone

\* RoomManager::LeaveRoom, called by a request and by HandleDisconnected
LEMMA LeavingStep ==
  ASSUME Inv, NEW s \in Sessions, NEW reason \in {"LeftRoom", "Disconnected"},
         LeaveResult(s) = "Success", rooms' = RoomsWithout(s),
         finished' = finished \o LeaveEndings(s, reason)
  PROVE  StepShape
<1> DEFINE r == users[s].room
           after == IF rooms[r].members = {s} THEN NoRoom ELSE Removed(rooms[r], s)
<1>1. LoggedIn(s) /\ users[s].state = "InRoom"
  BY DEF LeaveResult, MemberResult
<1>2. /\ r \in LiveRooms /\ s \in rooms[r].members
      /\ r \in RoomIds /\ rooms[r] \in Rooms /\ GoodRoom(rooms[r])
  BY <1>1, MembersRoom, LiveRoomsGood
<1>3. rooms' = [rooms EXCEPT ![r] = after]
  BY DEF RoomsWithout
<1>4. Closed(rooms[r], after)
  <2>1. CASE rooms[r].members = {s}
    BY <2>1 DEF Closed
  <2>2. CASE rooms[r].members # {s}
    <3>1. /\ Removed(rooms[r], s) \in Rooms
          /\ Removed(rooms[r], s).phase = "Waiting"
          /\ Removed(rooms[r], s).gameId = rooms[r].gameId
      BY <1>2, <2>2, RemovedGood DEF GoodRoom
    <3>2. Removed(rooms[r], s).left = 0
      BY <1>2 DEF Removed, Rooms
    <3> QED
      BY <2>2, <3>1, <3>2 DEF Closed
  <2> QED
    BY <2>1, <2>2
<1>5. LeaveEndings(s, reason) =
        IF TurnExpired(rooms[r]) THEN <<ExpiryEnding(r, rooms[r])>>
        ELSE IF rooms[r].phase = "Playing"
             THEN <<Ending(r, Forfeit(rooms[r], StoneOf(rooms[r], s)), reason)>>
             ELSE << >>
  BY DEF LeaveEndings
<1> HIDE DEF r, after
<1>6. rooms'[r] = after
  BY <1>2, <1>3 DEF Inv, TypeOK
<1>7. finished \in Seq(FinishedGames)
  BY DEF Inv, TypeOK
<1>8. CASE rooms[r].phase = "Playing"
  <2>1. PICK e : LeaveEndings(s, reason) = <<e>> /\ EndsWith(rooms[r], r, e)
    BY <1>2, <1>5, <1>8 DEF EndsWith, Expires, GivenUp
  <2>2. finished' = Append(finished, e)
    BY <1>7, <2>1
  <2>3. QueueStep /\ \E i \in NewEndings : EndsWith(rooms[r], r, finished'[i])
    BY <1>2, <2>1, <2>2, OneEnding
  <2>4. RoomStep(r)
    BY <1>4, <1>6, <1>8, <2>3 DEF RoomStep
  <2> QED
    BY <1>2, <1>3, <2>3, <2>4, OneRoomStep
<1>9. CASE rooms[r].phase # "Playing"
  <2>1. finished' = finished
    BY <1>5, <1>7, <1>9 DEF TurnExpired
  <2>2. RoomStep(r) /\ QueueStep
    BY <1>4, <1>6, <1>9, <2>1 DEF RoomStep, QueueStep
  <2> QED
    BY <1>2, <1>3, <2>2, OneRoomStep
<1> QED
  BY <1>8, <1>9

\* HandleDisconnected
LEMMA LeaveAndRemoveStep ==
  ASSUME Inv, NEW s \in Sessions, LeaveAndRemove(s)
  PROVE  StepShape
<1>1. CASE LeaveResult(s) = "Success"
  BY <1>1, LeavingStep DEF LeaveAndRemove
<1>2. CASE LeaveResult(s) # "Success"
  BY <1>2, NoRoomSteps DEF LeaveAndRemove, QueueStep
<1> QED
  BY <1>1, <1>2

\* What is behind and in front of the seam when results are added to the queue.
LEMMA JoinedQueue ==
  ASSUME NEW S, NEW queue \in Seq(S), NEW added \in Seq(S)
  PROVE  LET joined == queue \o added
         IN /\ DOMAIN joined = 1..(Len(queue) + Len(added))
            /\ Len(joined) = Len(queue) + Len(added)
            /\ \A i \in DOMAIN queue : joined[i] = queue[i]
            /\ \A i \in 1..Len(added) : joined[Len(queue) + i] = added[i]
<1>1. Len(queue) \in Nat /\ Len(added) \in Nat
  OBVIOUS
<1> QED
  BY <1>1

\* RoomManager::UpdateTimeouts: every room whose turn has expired is closed and has a
\* result of its own.
LEMMA UpdateTimeoutsStep ==
  ASSUME Inv, UpdateTimeouts
  PROVE  StepShape
<1> DEFINE n == Cardinality(ExpiredRooms)
<1>1. PICK q \in Orders(ExpiredRooms) :
        finished' = finished \o [i \in DOMAIN q |-> ExpiryEnding(q[i], rooms[q[i]])]
  BY DEF UpdateTimeouts
<1>2. /\ rooms' = [r \in RoomIds |-> IF r \in ExpiredRooms THEN Expire(rooms[r]) ELSE rooms[r]]
      /\ ExpiredRooms # {}
  BY DEF UpdateTimeouts
<1>3. IsFiniteSet(ExpiredRooms)
  <2>1. IsFiniteSet(RoomIds) /\ ExpiredRooms \in SUBSET RoomIds
    BY FS_Interval, ManagerConstants DEF RoomIds, ExpiredRooms, LiveRooms
  <2> QED
    BY <2>1, FS_Subset
<1>4. /\ n \in Nat /\ n > 0
      /\ q \in [1..n -> ExpiredRooms] /\ DOMAIN q = 1..n
      /\ \A i, j \in 1..n : q[i] = q[j] => i = j
  <2>1. n \in Nat /\ n # 0
    BY <1>2, <1>3, FS_CardinalityType, FS_EmptySet
  <2> QED
    BY <2>1 DEF Orders
<1>5. \A r \in ExpiredRooms : \E i \in 1..n : q[i] = r
  <2>1. IsFiniteSet(1..n) /\ Cardinality(1..n) = n
    BY <1>4, FS_Interval
  <2>2. q \in Injection(1..n, ExpiredRooms)
    BY <1>4 DEF Injection, IsInjective
  <2>3. q \in Surjection(1..n, ExpiredRooms)
    BY <1>3, <2>1, <2>2, FS_Injection
  <2> QED
    BY <2>3 DEF Surjection
<1> DEFINE added == [i \in DOMAIN q |-> ExpiryEnding(q[i], rooms[q[i]])]
           k == Len(finished)
<1>6. finished \in Seq(FinishedGames) /\ k \in Nat
  BY DEF Inv, TypeOK
<1>7. added \in Seq({ExpiryEnding(r, rooms[r]) : r \in ExpiredRooms}) /\ Len(added) = n
  <2>1. added \in [1..n -> {ExpiryEnding(r, rooms[r]) : r \in ExpiredRooms}]
    BY <1>4
  <2> QED
    BY <1>4, <2>1
<1>8. \A i \in 1..n : added[i] = ExpiryEnding(q[i], rooms[q[i]]) /\ q[i] \in ExpiredRooms
  BY <1>4
<1>9. finished' = finished \o added
  BY <1>1
<1>10. ASSUME NEW r \in ExpiredRooms
       PROVE  /\ r \in LiveRooms /\ rooms[r].phase = "Playing"
              /\ EndsWith(rooms[r], r, ExpiryEnding(r, rooms[r]))
              /\ rooms'[r] = Expire(rooms[r]) /\ Closed(rooms[r], rooms'[r])
  <2>1. /\ r \in LiveRooms /\ rooms[r].phase = "Playing" /\ TurnExpired(rooms[r])
        /\ r \in RoomIds /\ GoodRoom(rooms[r])
    BY LiveRoomsGood DEF ExpiredRooms, TurnExpired
  <2>2. /\ JustOver(Forfeit(rooms[r], rooms[r].game.next))
        /\ Forfeit(rooms[r], rooms[r].game.next).gameId = rooms[r].gameId
    BY <2>1, PlayersHaveStones, ForfeitIsOver
  <2>3. rooms'[r] = Finished(Forfeit(rooms[r], rooms[r].game.next))
    BY <1>2, <2>1 DEF Expire
  <2> QED
    BY <1>2, <2>1, <2>2, <2>3, FinishedCloses DEF EndsWith, Expires
<1> HIDE DEF added, n
<1>11. /\ DOMAIN finished' = 1..(k + n) /\ Len(finished') = k + n
       /\ \A i \in DOMAIN finished : finished'[i] = finished[i]
       /\ \A i \in 1..n : finished'[k + i] = added[i]
  <2> DEFINE F == FinishedGames \cup {ExpiryEnding(r, rooms[r]) : r \in ExpiredRooms}
  <2>1. finished \in Seq(F) /\ added \in Seq(F)
    BY <1>6, <1>7
  <2> HIDE DEF F
  <2>2. /\ DOMAIN (finished \o added) = 1..(Len(finished) + Len(added))
        /\ Len(finished \o added) = Len(finished) + Len(added)
        /\ \A i \in DOMAIN finished : (finished \o added)[i] = finished[i]
        /\ \A i \in 1..Len(added) : (finished \o added)[Len(finished) + i] = added[i]
    BY SMTT(30), <2>1, JoinedQueue
  <2> QED
    BY <1>7, <1>9, <2>2
<1>12. QueueStep
  <2>1. Len(finished') > Len(finished)
    BY <1>4, <1>6, <1>11
  <2>2. ASSUME NEW i \in NewEndings
        PROVE  \E r \in LiveRooms : EndsWith(rooms[r], r, finished'[i])
    <3>1. i - k \in 1..n /\ k + (i - k) = i
      BY <1>4, <1>6, <1>11 DEF NewEndings
    <3>2. finished'[i] = added[i - k]
      BY <1>11, <3>1
    <3> QED
      BY <1>8, <1>10, <3>1, <3>2
  <2> QED
    BY <1>11, <2>1, <2>2 DEF QueueStep
<1>13. ASSUME NEW r \in ExpiredRooms
       PROVE  \E i \in NewEndings : EndsWith(rooms[r], r, finished'[i])
  <2>1. PICK i \in 1..n : q[i] = r
    BY <1>5
  <2>2. finished'[k + i] = ExpiryEnding(r, rooms[r])
    BY <1>8, <1>11, <2>1
  <2>3. k + i \in NewEndings
    BY <1>4, <1>6, <1>11 DEF NewEndings
  <2> QED
    BY <1>10, <2>2, <2>3
<1>14. ASSUME NEW r \in LiveRooms PROVE RoomStep(r)
  <2>1. CASE r \in ExpiredRooms
    BY <1>10, <1>13, <2>1 DEF RoomStep
  <2>2. CASE r \notin ExpiredRooms
    BY <1>2, <2>2 DEF RoomStep, LiveRooms
  <2> QED
    BY <2>1, <2>2
<1>15. ASSUME NEW r \in RoomIds \ LiveRooms PROVE NewRoomStep(r)
  BY <1>2 DEF NewRoomStep, LiveRooms, ExpiredRooms
<1> QED
  BY <1>12, <1>14, <1>15 DEF StepShape

\* The clock
LEMMA TickStep ==
  ASSUME Inv, Tick
  PROVE  StepShape
<1>1. /\ rooms' = [r \in RoomIds |-> IF r \in LiveRooms /\ rooms[r].left > 0
                                 THEN [rooms[r] EXCEPT !.left = @ - 1] ELSE rooms[r]]
      /\ finished' = finished
  BY DEF Tick
<1>2. ASSUME NEW r \in LiveRooms PROVE RoomStep(r)
  BY <1>1 DEF RoomStep, Ticked, LiveRooms
<1>3. ASSUME NEW r \in RoomIds \ LiveRooms PROVE NewRoomStep(r)
  BY <1>1 DEF NewRoomStep, LiveRooms
<1> QED
  BY <1>1, <1>2, <1>3 DEF StepShape, QueueStep

\* Whatever operation a step is, rooms and queue change in the ways listed above.
LEMMA StepIs ==
  ASSUME Inv, [Next]_vars
  PROVE  StepShape
<1>1. CASE \E s \in Sessions : Request(s)
  <2>1. PICK s \in Sessions : Request(s)
    BY <1>1
  <2>2. CASE \E nick \in Nicknames : Login(s, nick)
    BY <2>2, NoRoomSteps DEF Login, QueueStep
  <2>3. CASE CreateRoom(s)
    BY <2>3, CreateRoomStep
  <2>4. CASE \E r \in RoomIds : EnterRoom(s, r)
    BY <2>4, EnterRoomStep
  <2>5. CASE LeaveRoom(s, "LeftRoom")
    BY <2>5, LeavingStep DEF LeaveRoom
  <2>6. CASE \E ready \in BOOLEAN : SetReady(s, ready)
    BY <2>6, SetReadyStep
  <2>7. CASE StartGame(s)
    BY <2>7, StartGameStep
  <2>8. CASE \E r \in RoomIds, g \in 0..MaxGameId : Resign(s, r, g)
    BY <2>8, ResignStep
  <2>9. CASE \E r \in RoomIds, g \in 0..MaxGameId :
               \E cell \in Cell(r), line \in Line(r) : PlaceStone(s, r, g, cell, line)
    BY <2>9, PlaceStoneStep
  <2> QED
    BY <2>1, <2>2, <2>3, <2>4, <2>5, <2>6, <2>7, <2>8, <2>9 DEF Request
<1>2. CASE \E s \in Sessions : LeaveAndRemove(s)
  BY <1>2, LeaveAndRemoveStep
<1>3. CASE UpdateTimeouts
  BY <1>3, UpdateTimeoutsStep
<1>4. CASE PopFinishedGame
  BY <1>4, NoRoomSteps DEF PopFinishedGame, QueueStep
<1>5. CASE Tick
  BY <1>5, TickStep
<1>6. CASE UNCHANGED vars
  BY <1>6, NoRoomSteps DEF vars, QueueStep
<1> QED
  BY <1>1, <1>2, <1>3, <1>4, <1>5, <1>6 DEF Next

-----------------------------------------------------------------------------
(* Results are explained by their games *)

\* Black moves first and the players take turns, so the number of moves says whose
\* turn it is.  This is what makes EndingsSound inductive.
InTurn(room) ==
  room.phase = "Playing" =>
    room.game.next = IF room.game.moves % 2 = 0 THEN "Black" ELSE "White"

MovesInTurn == \A r \in LiveRooms : InTurn(rooms[r])

EndingsInv == Inv /\ MovesInTurn /\ EndingsSound

\* One move more, and the other player is to move.
LEMMA TurnsAlternate ==
  ASSUME NEW n \in Nat
  PROVE  (n + 1) % 2 = IF n % 2 = 0 THEN 1 ELSE 0
OBVIOUS

\* What the board allows is a truth value, and a line only from FirstWin on.
LEMMA LinesAreLate ==
  ASSUME NEW game, NEW line \in LineOutcomes(game)
  PROVE  line \in BOOLEAN /\ (line => game.moves + 1 >= FirstWin)
BY DEF LineOutcomes

\* A timeout or a player who gives up: the game has moves left, and a timeout is lost
\* by the player whose turn it is.
LEMMA ForfeitExplained ==
  ASSUME NEW room, GoodRoom(room), InTurn(room), room.phase = "Playing", NEW r,
         NEW loser \in Players, NEW reason \in Reasons \ {"FiveInRow", "BoardFull"},
         reason = "TurnTimeout" => loser = room.game.next
  PROVE  LET e == Ending(r, Forfeit(room, loser), reason)
         IN /\ EndingSound(e)
            /\ e.game = room.gameId /\ e.targets = room.members
            /\ e.status = WonBy(Opponent(loser))
<1> DEFINE e == Ending(r, Forfeit(room, loser), reason)
<1>1. room \in Rooms /\ room.game \in Games /\ room.game.moves < Cells /\ room.game.moves \in Nat
  BY GameConstants DEF GoodRoom, PlayingSound, Rooms, Games
<1>2. /\ e.reason = reason /\ e.moves = room.game.moves
      /\ e.game = room.gameId /\ e.targets = room.members
      /\ e.status = WonBy(Opponent(loser))
  BY <1>1 DEF Ending, Forfeit, Forfeited, Rooms, Games
<1>3. Cardinality(e.targets) = Capacity
  BY <1>2, PlayersHaveStones
<1>4. e.status # "Draw"
  BY <1>2 DEF WonBy
<1> HIDE DEF e
<1>5. reason = "TurnTimeout" =>
        e.status = WonBy(IF e.moves % 2 = 1 THEN "Black" ELSE "White")
  <2>1. room.game.moves % 2 \in {0, 1}
    BY <1>1
  <2> QED
    BY <1>2, <2>1 DEF InTurn, Opponent
<1> QED
  BY <1>1, <1>2, <1>3, <1>4, <1>5 DEF EndingSound, e

\* A move that ends the game: it is a line of the player who made it, not before
\* FirstWin, or the board is full.
LEMMA LastMoveExplained ==
  ASSUME NEW room, GoodRoom(room), InTurn(room), NEW r, NEW e, PlayedOut(room, r, e)
  PROVE  EndingSound(e) /\ e.game = room.gameId /\ e.targets = room.members
<1>1. PICK s \in room.members, line \in LineOutcomes(room.game) :
        LET moved == Moved(room, s, line)
        IN /\ StoneOf(room, s) = room.game.next
           /\ moved.game.status # "Playing"
           /\ e = Ending(r, moved, EndingReason(moved.game.status))
  BY DEF PlayedOut
<1> DEFINE moved == Moved(room, s, line)
           n == room.game.moves
           mover == room.game.next
<1>2. room.phase = "Playing" /\ room \in Rooms /\ room.game \in Games
  BY DEF PlayedOut, GoodRoom, Rooms
<1>3. /\ n \in Nat /\ n < Cells /\ Cells \in Nat /\ mover \in Players
      /\ Cardinality(room.members) = Capacity
  BY <1>2, PlayersHaveStones, GameConstants DEF GoodRoom, PlayingSound, Games
<1>4. /\ moved.game = Placed(room.game, mover, line)
      /\ moved.members = room.members /\ moved.gameId = room.gameId
  BY <1>1, <1>2 DEF Moved, Rooms
<1>5. /\ e.status = moved.game.status /\ e.moves = moved.game.moves
      /\ e.reason = EndingReason(moved.game.status)
      /\ e.targets = moved.members /\ e.game = moved.gameId
  BY <1>1 DEF Ending
<1>6. /\ moved.game.moves = n + 1
      /\ moved.game.status = IF line THEN WonBy(mover) ELSE IF n + 1 = Cells THEN "Draw" ELSE "Playing"
  BY <1>3, <1>4 DEF Placed
<1>7. line \in BOOLEAN /\ (line => n + 1 >= FirstWin)
  BY <1>1, LinesAreLate
<1>8. mover = IF (n + 1) % 2 = 1 THEN "Black" ELSE "White"
  BY <1>2, <1>3, TurnsAlternate DEF InTurn
<1> HIDE DEF moved, n, mover
<1>9. CASE line
  <2>1. e.status = WonBy(mover) /\ e.reason = "FiveInRow" /\ e.moves = n + 1 /\ e.status # "Draw"
    BY <1>5, <1>6, <1>9 DEF EndingReason, WonBy
  <2> QED
    BY <1>3, <1>4, <1>5, <1>7, <1>8, <1>9, <2>1 DEF EndingSound
<1>10. CASE ~line
  <2>1. e.status = "Draw" /\ e.reason = "BoardFull" /\ e.moves = Cells
    BY <1>1, <1>5, <1>6, <1>10 DEF EndingReason, moved
  <2> QED
    BY <1>3, <1>4, <1>5, <2>1 DEF EndingSound
<1> QED
  BY <1>9, <1>10

\* Every way to end a running game leaves a result its game explains; if the turn had
\* expired, it is the timeout of the player to move.
LEMMA ResultExplained ==
  ASSUME NEW room, GoodRoom(room), InTurn(room), NEW r, NEW e, EndsWith(room, r, e)
  PROVE  /\ room.phase = "Playing"
         /\ EndingSound(e) /\ e.game = room.gameId /\ e.targets = room.members
         /\ TurnExpired(room) => /\ e.reason = "TurnTimeout"
                                 /\ e.status = WonBy(Opponent(room.game.next))
<1>1. CASE Expires(room, r, e)
  <2>1. room.phase = "Playing" /\ e = Ending(r, Forfeit(room, room.game.next), "TurnTimeout")
    BY <1>1 DEF Expires, TurnExpired, ExpiryEnding
  <2>2. room.game.next \in Players /\ "TurnTimeout" \in Reasons \ {"FiveInRow", "BoardFull"}
    BY <2>1, PlayersHaveStones DEF Reasons
  <2>3. e.reason = "TurnTimeout"
    BY <2>1 DEF Ending
  <2> QED
    BY <2>1, <2>2, <2>3, ForfeitExplained
<1>2. CASE GivenUp(room, r, e)
  <2>1. PICK s \in room.members, reason \in {"Resigned", "LeftRoom", "Disconnected"} :
          e = Ending(r, Forfeit(room, StoneOf(room, s)), reason)
    BY <1>2 DEF GivenUp
  <2>2. room.phase = "Playing" /\ ~TurnExpired(room)
    BY <1>2 DEF GivenUp
  <2>3. StoneOf(room, s) \in Players /\ reason \in Reasons \ {"FiveInRow", "BoardFull"}
        /\ reason # "TurnTimeout"
    BY <2>2, PlayersHaveStones DEF Reasons
  <2> QED
    BY <2>1, <2>2, <2>3, ForfeitExplained
<1>3. CASE PlayedOut(room, r, e)
  BY <1>3, LastMoveExplained DEF PlayedOut
<1> QED
  BY <1>1, <1>2, <1>3 DEF EndsWith

\* Games start with black, and every accepted move passes the turn on.
LEMMA StepInTurn ==
  ASSUME Inv, NEW r \in LiveRooms, InTurn(rooms[r]), RoomStep(r), rooms'[r] # NoRoom
  PROVE  InTurn(rooms'[r])
<1> DEFINE room == rooms[r]
           after == rooms'[r]
<1>1. room \in Rooms /\ GoodRoom(room) /\ room.game \in Games
  BY LiveRoomsGood DEF Rooms
<1>2. CASE Begun(room, after)
  BY <1>1, <1>2, GameTypes DEF Begun, Started, Rooms, InTurn
<1>3. CASE PlayedOn(room, after)
  <2>1. PICK s \in room.members, line \in LineOutcomes(room.game) :
          /\ StoneOf(room, s) = room.game.next
          /\ after = Moved(room, s, line)
          /\ after.game.status = "Playing"
    BY <1>3 DEF PlayedOn
  <2> DEFINE n == room.game.moves
  <2>2. room.phase = "Playing" /\ n \in Nat /\ room.game.next \in Players
    BY <1>1, <1>3, PlayersHaveStones, GameConstants DEF PlayedOn, Games
  <2>3. after.game = Placed(room.game, room.game.next, line)
    BY <1>1, <2>1 DEF Moved, Rooms
  <2>4. after.game.next = Opponent(room.game.next) /\ after.game.moves = n + 1
    BY <2>1, <2>2, <2>3 DEF Placed, WonBy
  <2>5. room.game.next = IF n % 2 = 0 THEN "Black" ELSE "White"
    BY <2>2 DEF InTurn
  <2> HIDE DEF n
  <2>6. after.game.next = IF (n + 1) % 2 = 0 THEN "Black" ELSE "White"
    BY <2>2, <2>4, <2>5, TurnsAlternate DEF Opponent
  <2> QED
    BY <2>4, <2>6 DEF InTurn
<1>4. CASE Entered(room, after) \/ Readied(room, after) \/ Ticked(room, after)
  BY <1>1, <1>4 DEF Entered, Readied, Ticked, CanAdd, Added, WithReady, Rooms, InTurn
<1>5. CASE Closed(room, after)
  BY <1>5 DEF Closed, InTurn
<1>6. CASE after = room
  BY <1>6
<1> QED
  BY <1>2, <1>3, <1>4, <1>5, <1>6 DEF RoomStep

\* Every step keeps the results explained.
LEMMA NextEndings == EndingsInv /\ [Next]_vars => EndingsInv'
<1> SUFFICES ASSUME EndingsInv, [Next]_vars PROVE EndingsInv'
  OBVIOUS
<1>1. Inv /\ MovesInTurn /\ EndingsSound
  BY DEF EndingsInv
<1>2. Inv' /\ StepShape
  BY <1>1, NextInv, StepIs
<1>3. MovesInTurn'
  <2>1. SUFFICES ASSUME NEW r \in RoomIds, rooms'[r] # NoRoom PROVE InTurn(rooms'[r])
    BY DEF MovesInTurn, LiveRooms
  <2>2. CASE r \in LiveRooms
    BY <1>1, <1>2, <2>1, <2>2, StepInTurn DEF StepShape, MovesInTurn
  <2>3. CASE r \notin LiveRooms
    <3>1. PICK s \in Sessions : rooms'[r] = NewRoom(s)
      BY <1>2, <2>1, <2>3 DEF StepShape, NewRoomStep
    <3>2. rooms'[r].phase = "Waiting"
      BY <3>1 DEF NewRoom
    <3> QED
      BY <3>2 DEF InTurn
  <2> QED
    BY <2>2, <2>3
<1>4. EndingsSound'
  <2>1. SUFFICES ASSUME NEW i \in DOMAIN finished' PROVE EndingSound(finished'[i])
    BY DEF EndingsSound
  <2>2. finished \in Seq(FinishedGames) /\ finished' \in Seq(FinishedGames)
    BY <1>1, <1>2 DEF Inv, TypeOK
  <2>3. CASE finished' = finished
    BY <1>1, <2>3 DEF EndingsSound
  <2>4. CASE finished # <<>> /\ finished' = Tail(finished)
    <3>1. i + 1 \in DOMAIN finished /\ finished'[i] = finished[i + 1]
      BY <2>2, <2>4
    <3> QED
      BY <1>1, <3>1 DEF EndingsSound
  <2>5. CASE /\ Len(finished') > Len(finished)
             /\ \A j \in DOMAIN finished : finished'[j] = finished[j]
             /\ \A j \in NewEndings : \E r \in LiveRooms : EndsWith(rooms[r], r, finished'[j])
    <3>1. i \in DOMAIN finished \/ i \in NewEndings
      BY <2>2 DEF NewEndings
    <3>2. CASE i \in DOMAIN finished
      BY <1>1, <2>5, <3>2 DEF EndingsSound
    <3>3. CASE i \in NewEndings
      BY <1>1, <2>5, <3>3, LiveRoomsGood, ResultExplained DEF MovesInTurn
    <3> QED
      BY <3>1, <3>2, <3>3
  <2> QED
    BY <1>2, <2>3, <2>4, <2>5 DEF StepShape, QueueStep
<1> QED
  BY <1>2, <1>3, <1>4 DEF EndingsInv

\* The invariant holds in every reachable state.
LEMMA EndingsInvariance == Spec => []EndingsInv
<1>1. Init => EndingsInv
  BY InitInv DEF Init, EndingsInv, MovesInTurn, EndingsSound, LiveRooms
<1> QED
  BY <1>1, NextEndings, PTL DEF Spec

\* Every result waiting for the players can be explained by its game: who moved last
\* has the line, who was to move lost by the timeout, a draw fills the board.
THEOREM ResultsExplained == Spec => []EndingsSound
<1>1. EndingsInv => EndingsSound
  BY DEF EndingsInv
<1> QED
  BY <1>1, EndingsInvariance, PTL

-----------------------------------------------------------------------------
(* What a step may do to a game *)

\* A room whose turn has run out changes only together with the timeout.
THEOREM TimeoutsComeFirst == Spec => TimeoutComesFirst
<1> DEFINE Body(r) ==
       TurnExpired(rooms[r]) /\ rooms'[r] # rooms[r]
         => /\ Len(finished') > Len(finished)
            /\ \E i \in (Len(finished) + 1)..Len(finished') :
                 /\ finished'[i].game = rooms[r].gameId
                 /\ finished'[i].reason = "TurnTimeout"
                 /\ finished'[i].status = WonBy(Opponent(rooms[r].game.next))
<1>1. ASSUME EndingsInv, [Next]_vars, NEW r \in LiveRooms
      PROVE  Body(r)
  <2>1. SUFFICES ASSUME TurnExpired(rooms[r]), rooms'[r] # rooms[r]
                 PROVE  /\ Len(finished') > Len(finished)
                        /\ \E i \in (Len(finished) + 1)..Len(finished') :
                             /\ finished'[i].game = rooms[r].gameId
                             /\ finished'[i].reason = "TurnTimeout"
                             /\ finished'[i].status = WonBy(Opponent(rooms[r].game.next))
    OBVIOUS
  <2>2. RoomStep(r) /\ Inv' /\ Inv
    BY <1>1, NextInv, StepIs DEF StepShape, EndingsInv
  <2>3. rooms[r].phase = "Playing" /\ ~(rooms[r].left > 0)
    BY <2>1 DEF TurnExpired
  <2>4. \E i \in NewEndings : EndsWith(rooms[r], r, finished'[i])
    BY <2>1, <2>2, <2>3
       DEF RoomStep, Entered, CanAdd, Readied, Begun, PlayedOn, Ticked
  <2>5. PICK i \in NewEndings : EndsWith(rooms[r], r, finished'[i])
    BY <2>4
  <2>6. /\ finished'[i].game = rooms[r].gameId
        /\ finished'[i].reason = "TurnTimeout"
        /\ finished'[i].status = WonBy(Opponent(rooms[r].game.next))
    BY <1>1, <2>1, <2>2, <2>5, LiveRoomsGood, ResultExplained DEF EndingsInv, MovesInTurn
  <2>7. /\ i \in (Len(finished) + 1)..Len(finished')
        /\ Len(finished') > Len(finished)
    BY <2>2 DEF NewEndings, Inv, TypeOK
  <2> QED
    BY <2>6, <2>7
<1>2. EndingsInv /\ [Next]_vars => [\A r \in LiveRooms : Body(r)]_vars
  BY <1>1
<1> QED
  BY <1>2, EndingsInvariance, PTL DEF Spec, TimeoutComesFirst

\* While a game runs its players stay, and it stops running only with its result in
\* the queue, addressed to both of them.
THEOREM RunningGamesUndisturbed == Spec => GameRunsUndisturbed
<1> DEFINE same(r) == Running(r)' /\ rooms'[r].gameId = rooms[r].gameId
           Body(r) ==
             Running(r) =>
               /\ same(r) => /\ rooms'[r].members = rooms[r].members
                             /\ rooms'[r].host = rooms[r].host
                             /\ StoneOf(rooms'[r], rooms[r].white) = "White"
               /\ same(r) \/ \E i \in DOMAIN finished' :
                                /\ finished'[i].game = rooms[r].gameId
                                /\ finished'[i].targets = rooms[r].members
<1>1. ASSUME EndingsInv, [Next]_vars, NEW r \in LiveRooms
      PROVE  Body(r)
  <2> DEFINE room == rooms[r]
             after == rooms'[r]
  <2>1. SUFFICES ASSUME room.phase = "Playing" PROVE Body(r)
    BY DEF Running
  <2>2. RoomStep(r) /\ Inv /\ r \in RoomIds
    BY <1>1, StepIs DEF StepShape, EndingsInv, LiveRooms
  <2>3. /\ GoodRoom(room) /\ room \in Rooms /\ room # NoRoom
        /\ room.black # room.white
    BY <2>1, <2>2, LiveRoomsGood, ManagerConstants DEF GoodRoom, PlayingSound
  <2>4. CASE after = room \/ PlayedOn(room, after) \/ Ticked(room, after)
    <3>1. /\ after \in Rooms
          /\ after.members = room.members /\ after.host = room.host
          /\ after.black = room.black /\ after.white = room.white
          /\ after.phase = "Playing" /\ after.gameId = room.gameId
      <4>1. CASE after = room
        BY <2>1, <2>3, <4>1
      <4>2. CASE PlayedOn(room, after)
        <5>1. PICK s \in room.members, line \in LineOutcomes(room.game) :
                StoneOf(room, s) = room.game.next /\ after = Moved(room, s, line)
          BY <4>2 DEF PlayedOn
        <5>2. Placed(room.game, StoneOf(room, s), line) \in Games /\ TurnTime \in 0..TurnTime
          BY <2>1, <2>3, <5>1, LinesAreLate, PlayersHaveStones, PlacedIsGame, RoomConstants
             DEF GoodRoom, PlayingSound, Rooms
        <5> QED
          BY <2>1, <2>3, <5>1, <5>2 DEF Moved, Rooms
      <4>3. CASE Ticked(room, after)
        BY <2>1, <2>3, <4>3, TickedGood DEF Ticked, Rooms, GoodRoom
      <4> QED
        BY <2>4, <4>1, <4>2, <4>3
    <3>2. after # NoRoom
      BY <3>1, ManagerConstants
    <3>3. same(r)
      BY <2>2, <3>1, <3>2 DEF Running, RoomExists
    <3>4. StoneOf(after, room.white) = "White"
      BY <2>3, <3>1 DEF StoneOf
    <3> QED
      BY <3>1, <3>3, <3>4
  <2>5. CASE Closed(room, after) /\ \E i \in NewEndings : EndsWith(room, r, finished'[i])
    <3>1. ~Running(r)'
      BY <2>5 DEF Closed, Running, RoomExists
    <3>2. PICK i \in NewEndings : EndsWith(room, r, finished'[i])
      BY <2>5
    <3>3. finished'[i].game = room.gameId /\ finished'[i].targets = room.members
      BY <1>1, <2>3, <3>2, ResultExplained DEF EndingsInv, MovesInTurn
    <3> QED
      BY <3>1, <3>2, <3>3 DEF NewEndings
  <2> QED
    BY <2>1, <2>2, <2>4, <2>5 DEF RoomStep, Entered, CanAdd, Readied, Begun
<1>2. EndingsInv /\ [Next]_vars => [\A r \in LiveRooms : Body(r)]_vars
  BY <1>1
<1> QED
  BY <1>2, EndingsInvariance, PTL DEF Spec, GameRunsUndisturbed

\* Nothing but a new game and an accepted move gives a player time.
THEOREM TimeMustBeEarned == Spec => TimeIsEarned
<1> DEFINE Body(r) ==
             rooms'[r].left > rooms[r].left
               => \/ rooms'[r].gameId > rooms[r].gameId
                  \/ rooms'[r].game.moves = rooms[r].game.moves + 1
<1>1. ASSUME EndingsInv, [Next]_vars, NEW r \in LiveRooms \cap LiveRooms'
      PROVE  Body(r)
  <2> DEFINE room == rooms[r]
             after == rooms'[r]
  <2>1. /\ RoomStep(r) /\ GoodRoom(room) /\ room \in Rooms /\ after # NoRoom
        /\ room.left \in Nat /\ room.gameId \in Nat
        /\ room.gameId <= lastGameId /\ lastGameId \in Nat
    <3>1. RoomStep(r) /\ GoodRoom(room) /\ after # NoRoom /\ room.gameId <= lastGameId
          /\ lastGameId \in Nat
      BY <1>1, StepIs, LiveRoomsGood, RoomConstants
         DEF StepShape, EndingsInv, LiveRooms, Inv, RoomsSound, TypeOK
    <3> QED
      BY <3>1, RoomConstants DEF GoodRoom, Rooms
  <2>2. CASE Begun(room, after)
    <3>1. after.gameId = lastGameId + 1
      BY <2>1, <2>2 DEF Begun, Started, Rooms
    <3> QED
      BY <2>1, <3>1
  <2>3. CASE PlayedOn(room, after)
    <3>1. PICK s \in room.members, line \in LineOutcomes(room.game) : after = Moved(room, s, line)
      BY <2>3 DEF PlayedOn
    <3>2. after.game = Placed(room.game, StoneOf(room, s), line)
      BY <2>1, <3>1 DEF Moved, Rooms
    <3> QED
      BY <3>2 DEF Placed
  <2>4. CASE Entered(room, after) \/ Readied(room, after) \/ Ticked(room, after)
    <3>1. after.left = room.left \/ after.left = room.left - 1
      BY <2>1, <2>4 DEF Entered, Readied, Ticked, Added, WithReady, Rooms
    <3> QED
      BY <2>1, <3>1
  <2>5. CASE Closed(room, after) \/ after = room
    BY <2>1, <2>5 DEF Closed
  <2> QED
    BY <2>1, <2>2, <2>3, <2>4, <2>5 DEF RoomStep
<1>2. EndingsInv /\ [Next]_vars => [\A r \in LiveRooms \cap LiveRooms' : Body(r)]_vars
  BY <1>1
<1> QED
  BY <1>2, EndingsInvariance, PTL DEF Spec, TimeIsEarned

\* A game begins with a guest who is ready, and under an id no room had before.
THEOREM GamesStartReady == Spec => GameStartsReady
<1> DEFINE Body(r) ==
             ~Running(r) /\ Running(r)' =>
               /\ rooms[r].members \ {rooms[r].host} = rooms[r].ready
               /\ rooms[r].ready # {}
               /\ \A q \in LiveRooms : rooms[q].gameId < rooms'[r].gameId
<1>1. ASSUME EndingsInv, [Next]_vars, NEW r \in LiveRooms
      PROVE  Body(r)
  <2> DEFINE room == rooms[r]
             after == rooms'[r]
  <2>1. SUFFICES ASSUME ~Running(r), Running(r)' PROVE Body(r)
    OBVIOUS
  <2>2. /\ RoomStep(r) /\ GoodRoom(room) /\ room \in Rooms
        /\ room.phase # "Playing" /\ after.phase = "Playing" /\ after # NoRoom
    BY <1>1, <2>1, StepIs, LiveRoomsGood
       DEF StepShape, EndingsInv, Running, RoomExists, LiveRooms
  <2>3. Begun(room, after)
    <3>1. ~Entered(room, after) /\ ~Readied(room, after) /\ ~Ticked(room, after)
      BY <2>2 DEF Entered, Readied, Ticked, Added, WithReady, Rooms
    <3> QED
      BY <2>2, <3>1 DEF RoomStep, PlayedOn, Closed
  <2>4. room.members \ {room.host} = room.ready
    BY <2>2, <2>3 DEF Begun, GoodRoom, RoomSound
  <2>5. room.ready # {}
    <3>1. room.host \in room.members /\ Cardinality(room.members) = 2
      BY <2>2, <2>3 DEF Begun, GoodRoom, RoomSound, Capacity
    <3>2. TheOne(room.members \ {room.host}) \in room.members \ {room.host}
      BY <2>2, <3>1, MembersFinite, TwoMembers
    <3> QED
      BY <2>4, <3>2
  <2>6. after.gameId = lastGameId + 1
    BY <2>2, <2>3 DEF Begun, Started, Rooms
  <2>7. ASSUME NEW q \in LiveRooms PROVE rooms[q].gameId < after.gameId
    <3>1. rooms[q].gameId \in Nat /\ rooms[q].gameId <= lastGameId /\ lastGameId \in Nat
      BY <1>1, LiveRoomsGood, RoomConstants DEF EndingsInv, Inv, RoomsSound, TypeOK, Rooms
    <3> QED
      BY <2>6, <3>1
  <2> QED
    BY <2>4, <2>5, <2>7
<1>2. EndingsInv /\ [Next]_vars => [\A r \in LiveRooms : Body(r)]_vars
  BY <1>1
<1> QED
  BY <1>2, EndingsInvariance, PTL DEF Spec, GameStartsReady
================================================================================
