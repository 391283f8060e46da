---------------------------- MODULE MCRoomManager ----------------------------
(***************************************************************************)
(* RoomManager on small instances:                                         *)
(*   MCRoomManager.cfg  three sessions from the empty server: somebody     *)
(*                      knocks at a full room, nicknames and rooms come    *)
(*                      and go; the room and game ids run out, as 2^32     *)
(*                      would;                                             *)
(*   MCTwoTables.cfg    four sessions, seated in two rooms: two games at a *)
(*                      time, two turns that expire together, each to its  *)
(*                      end.                                               *)
(* Games have at most Cells moves, of which the second may already win.    *)
(***************************************************************************)
EXTENDS RoomManager, TLC

CONSTANTS s1, s2, s3, s4, n1, n2, n3, n4

Symmetry == Permutations(Sessions) \cup Permutations(Nicknames)

\* Two rooms with two members each, the guest of the first one ready.
Seated ==
  LET in(n, r) == [nick |-> n, state |-> "InRoom", room |-> r]
  IN /\ users = (s1 :> in(n1, 1)) @@ (s2 :> in(n2, 1)) @@ (s3 :> in(n3, 2)) @@ (s4 :> in(n4, 2))
     /\ byNickname = (n1 :> s1) @@ (n2 :> s2) @@ (n3 :> s3) @@ (n4 :> s4)
     /\ rooms = <<WithReady(Added(NewRoom(s1), s2), s2, TRUE), Added(NewRoom(s3), s4)>>
     /\ lastRoomId = 2
     /\ lastGameId = 0
     /\ finished = <<>>

\* From there on nobody logs in or enters a room again, so that the tables only empty.
SeatedNext ==
  /\ Next
  /\ \A s \in Sessions : LoggedIn(s)' =>
       /\ LoggedIn(s)
       /\ users'[s].state = "InRoom" => users[s].room = users'[s].room

SeatedSpec == Seated /\ [][SeatedNext]_vars /\ Fairness
=============================================================================
