-------------------------- MODULE MCPacketProcessor --------------------------
(***************************************************************************)
(* The server on small instances:                                          *)
(*   MCGate.cfg   two sessions that connect, log in or do not, chat and    *)
(*                disconnect; either may be too slow to read its answers;  *)
(*   MCTable.cfg  two players at a table: games, moves, resignations,      *)
(*                departures, timeouts, up to two requests in a batch.     *)
(***************************************************************************)
EXTENDS PacketProcessor, TLC

CONSTANTS s1, s2, n1, n2

Symmetry == Permutations(Sessions) \cup Permutations(Nicknames)

\* Room 1 with its host s1 and its guest s2, ready, and what both know of it.
Seated ==
  LET in(n) == [nick |-> n, state |-> "InRoom", room |-> 1]
  IN /\ users = (s1 :> in(n1)) @@ (s2 :> in(n2))
     /\ byNickname = (n1 :> s1) @@ (n2 :> s2)
     /\ rooms = [r \in RoomIds |-> IF r = 1
                                   THEN WithReady(Added(NewRoom(s1), s2), s2, TRUE) ELSE NoRoom]
     /\ lastRoomId = 1
     /\ lastGameId = 0
     /\ finished = <<>>
     /\ clients = {s1, s2} /\ events = <<>> /\ agenda = <<>>
     /\ deadlines = [s \in {} |-> 0]
     /\ views = [s \in Sessions |-> ResetView(1)]

SeatedNext == ServerNext /\ clients' \subseteq clients

SeatedSpec == Seated /\ [][SeatedNext]_serverVars
==============================================================================
