--------------------------------- MODULE Room ---------------------------------
(***************************************************************************)
(* One Room as a value: what each of its operations makes of it.  A Room   *)
(* is only changed by RoomManager, which stores it (RoomManager.tla).      *)
(*                                                                         *)
(* m_members is a set here: the constructor of RoomManager insists on a    *)
(* capacity of two, so "the first member left" and "the first member that  *)
(* is not the host" name the only candidate.  m_turnDeadline is kept as    *)
(* the time left, which the clock counts down to 0.                        *)
(***************************************************************************)
EXTENDS GameRules, FiniteSets

CONSTANTS
  Sessions,    \* connected sessions that may log in
  NoSession,   \* session id 0
  MaxGameId,   \* the largest GameId (2^32 - 1 in the code)
  TurnTime     \* RoomConfig::TurnTime

Capacity == 2     \* ROOM_PLAYER_COUNT

ASSUME RoomConstants ==
  /\ IsFiniteSet(Sessions) /\ NoSession \notin Sessions
  /\ MaxGameId \in Nat
  /\ TurnTime \in Nat \ {0}

GameIds == 1..MaxGameId

Rooms == [members : SUBSET Sessions,
          host    : Sessions \cup {NoSession},
          phase   : {"Waiting", "Playing"},
          ready   : SUBSET Sessions,
          game    : Games,
          black   : Sessions \cup {NoSession},
          white   : Sessions \cup {NoSession},
          left    : 0..TurnTime,
          gameId  : 0..MaxGameId]

NewRoom(creator) ==
  [members |-> {creator}, host |-> creator, phase |-> "Waiting", ready |-> {},
   game |-> ResetGame, black |-> NoSession, white |-> NoSession,
   left |-> 0, gameId |-> 0]

StoneOf(room, s) ==
  IF s = room.black THEN "Black" ELSE IF s = room.white THEN "White" ELSE "Empty"

TurnExpired_Late(room) ==
  room.phase = "Playing" /\ room.game.status = "Playing" /\ room.left = 0 /\ room.game.moves > 0

TurnExpired(room) ==
  room.phase = "Playing" /\ room.game.status = "Playing" /\ room.left = 0

\* Any member of a set of at most one, and nobody of none.
TheOne(S) == IF S = {} THEN NoSession ELSE CHOOSE s \in S : TRUE

\* RemoveMember: whoever leaves, the room goes back to waiting with no game.
Removed_HostStays(room, s) ==
  [room EXCEPT !.members = @ \ {s}, !.phase = "Waiting", !.ready = {},
               !.game = ResetGame, !.black = NoSession, !.white = NoSession,
               !.left = 0]

Removed(room, s) ==
  [room EXCEPT !.members = @ \ {s}, !.phase = "Waiting", !.ready = {},
               !.game = ResetGame, !.black = NoSession, !.white = NoSession,
               !.left = 0,
               !.host = IF room.host = s \/ room.members \ {s} = {}
                        THEN TheOne(room.members \ {s}) ELSE @]

\* AddMember: the members change, so everybody has to get ready again.
CanAdd(room, s) ==
  /\ room.phase = "Waiting"
  /\ s \notin room.members
  /\ Cardinality(room.members) < Capacity

Added(room, s) == [room EXCEPT !.members = @ \cup {s}, !.ready = {}]

WithReady(room, s, ready) ==
  [room EXCEPT !.ready = IF ready THEN @ \cup {s} ELSE @ \ {s}]

\* StartGame: the host plays black, the other member white.
Started(room, id) ==
  [room EXCEPT !.gameId = id, !.black = room.host,
               !.white = TheOne(room.members \ {room.host}),
               !.game = StartedGame, !.phase = "Playing", !.ready = {},
               !.left = TurnTime]

\* PlaceStone, when the game accepts the move: the deadline moves only if the
\* game goes on.
Moved(room, s, line) ==
  LET game == Placed(room.game, StoneOf(room, s), line)
  IN [room EXCEPT !.game = game,
                  !.left = IF game.status = "Playing" THEN TurnTime ELSE @]

PlaceResult(room, s, cell) ==
  IF room.phase # "Playing" THEN "GameNotRunning"
  ELSE IF StoneOf(room, s) = "Empty" THEN "InvalidStone"
  ELSE MoveResult(room.game, StoneOf(room, s), cell)

Forfeit(room, loser) == [room EXCEPT !.game = Forfeited(@, loser)]

\* FinishGame: the result, the players and the game id stay for latecomers.
Finished(room) == [room EXCEPT !.phase = "Waiting", !.ready = {}, !.left = 0]

-----------------------------------------------------------------------------
(* What is true of every Room between two operations *)

\* A room never stands empty, never overflows and always has a host who is in it;
\* only guests are ready.
RoomSound(room) ==
  /\ Cardinality(room.members) <= Capacity
  /\ room.host \in room.members
  /\ room.ready \subseteq room.members \ {room.host}

\* A room plays exactly as long as its game does; then both seats are taken by its
\* two members, the host is black, and nobody is ready: what the encoding of a
\* ROOM_STATE_NTF refuses never happens.
PlayingSound(room) ==
  /\ room.phase = "Playing" <=> room.game.status = "Playing"
  /\ room.phase = "Playing" =>
       /\ room.black = room.host
       /\ room.white \in room.members \ {room.host}
       /\ room.members = {room.black, room.white}
       /\ room.ready = {}
       /\ room.gameId # 0
       /\ room.game.next \in Players
       /\ room.game.moves < Cells
=============================================================================
