------------------------------ MODULE ClientView ------------------------------
(***************************************************************************)
(* What a client makes of the packets the server sends about rooms and     *)
(* games: ClientGameView and the cases of ProcessResponse that change it.  *)
(* A view is kept as it will be once the client has read all that was sent *)
(* to it: packets arrive in the order they were sent, and a client changes *)
(* its view for no other reason.  Cells is left out, it follows the moves. *)
(*                                                                         *)
(* A packet that contradicts the view makes ProcessResponse return false:  *)
(* the client stops, and reads nothing any more.  The view keeps the       *)
(* reason in "error".                                                      *)
(***************************************************************************)
EXTENDS GameRules

Errors == {"None", "MoveOutOfSync", "EndOutOfSync", "BackToPlaying"}

\* ClientGameView::Reset
ResetView(room) ==
  [room |-> room, playing |-> FALSE, state |-> "NotStarted", next |-> "Empty",
   moves |-> 0, game |-> 0, error |-> "None"]

\* ClientGameView::Begin
BegunView(room, game) ==
  [room |-> room, playing |-> TRUE, state |-> "Playing", next |-> "Black",
   moves |-> 0, game |-> game, error |-> "None"]

Failed(view, error) == [view EXCEPT !.error = error]

\* ROOM_STATE_NTF.  The final board of the game just played stays on show.
ReadRoomState_ForgetsGame(view, m) ==
  IF m.phase # "Playing"
  THEN IF view.room = m.room /\ view.game = m.game /\ view.state \in FinalStatus
       THEN [view EXCEPT !.playing = FALSE]
       ELSE ResetView(m.room)
  ELSE IF ~(view.room = m.room /\ view.game = m.game) THEN BegunView(m.room, m.game)
  ELSE IF ~view.playing THEN Failed(view, "BackToPlaying")
  ELSE view

ReadRoomState_SameRoomGoesOn(view, m) ==
  IF m.phase # "Playing"
  THEN IF view.room = m.room /\ view.game = m.game /\ view.state \in FinalStatus
       THEN [view EXCEPT !.playing = FALSE]
       ELSE [ResetView(m.room) EXCEPT !.game = m.game]
  ELSE IF view.room # m.room \/ view.game = 0 THEN BegunView(m.room, m.game)
  ELSE IF ~view.playing THEN Failed(view, "BackToPlaying")
  ELSE view

ReadRoomState(view, m) ==
  LET sameGame == view.room = m.room /\ view.game = m.game
  IN IF m.phase # "Playing"
     THEN IF sameGame /\ view.state \in FinalStatus
          THEN [view EXCEPT !.playing = FALSE]
          ELSE [ResetView(m.room) EXCEPT !.game = m.game]
     ELSE IF ~sameGame THEN BegunView(m.room, m.game)
     ELSE IF ~view.playing THEN Failed(view, "BackToPlaying")
     ELSE view

\* ClientGameView::Apply: the next stone of the game on show.
CanApply(view, m) ==
  /\ view.playing
  /\ view.state = "Playing"
  /\ m.moves = view.moves + 1
  /\ m.stone = view.next

\* GAME_MOVE_NTF.  A move of another game is ignored.
ReadMove(view, m) ==
  IF m.room # view.room \/ m.game # view.game THEN view
  ELSE IF ~CanApply(view, m) THEN Failed(view, "MoveOutOfSync")
  ELSE [view EXCEPT !.state = m.state, !.next = m.next, !.moves = m.moves]

\* GAME_END_NTF
ReadEnd(view, m) ==
  IF m.room # view.room \/ m.game # view.game THEN view
  ELSE IF ~view.playing \/ m.moves # view.moves THEN Failed(view, "EndOutOfSync")
  ELSE [view EXCEPT !.state = m.state, !.next = "Empty", !.playing = FALSE]

\* Packets the view does not depend on (answers, chat, members) are not modelled;
\* of the answers, ROOM_LEAVE_RES Success alone matters.
Read(view, m) ==
  IF view.error # "None" THEN view
  ELSE CASE m.type = "ROOM_STATE_NTF" -> ReadRoomState(view, m)
         [] m.type = "GAME_MOVE_NTF"  -> ReadMove(view, m)
         [] m.type = "GAME_END_NTF"   -> ReadEnd(view, m)
         [] m.type = "ROOM_LEAVE_RES" -> ResetView(0)
===============================================================================
