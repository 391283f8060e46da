------------------------------ MODULE MCRoomList ------------------------------
(***************************************************************************)
(* One user who walks through the rooms that three others, and he himself, *)
(* create, enter and leave.  Nobody gets ready, so that no game is played, *)
(* and nobody logs out.                                                    *)
(***************************************************************************)
EXTENDS RoomList, TLC

CONSTANTS s1, s2, s3, s4, n1, n2, n3, n4

\* The three others may be exchanged, together with their nicknames.
NickOf == (s2 :> n2) @@ (s3 :> n3) @@ (s4 :> n4)

Symmetry ==
  {p @@ [n \in {n2, n3, n4} |-> NickOf[p[CHOOSE s \in DOMAIN p : NickOf[s] = n]]] :
     p \in Permutations({s2, s3, s4})}

SomeTexts == UNION {[1..k -> 0..(Base - 1)] : k \in 0..2}

\* Everybody is logged in and the walk has not begun.
Lobby ==
  LET in(n) == [nick |-> n, state |-> "Lobby", room |-> 0]
  IN /\ users = (s1 :> in(n1)) @@ (s2 :> in(n2)) @@ (s3 :> in(n3)) @@ (s4 :> in(n4))
     /\ byNickname = (n1 :> s1) @@ (n2 :> s2) @@ (n3 :> s3) @@ (n4 :> s4)
     /\ rooms = [r \in RoomIds |-> NoRoom]
     /\ lastRoomId = 0 /\ lastGameId = 0 /\ finished = <<>>
     /\ ListInit

LobbyNext ==
  /\ ListNext
  /\ UNCHANGED byNickname
  /\ \A r \in RoomIds : RoomExists(r)' => rooms'[r].ready = {}

LobbySpec == Lobby /\ [][LobbyNext]_listVars
=============================================================================
