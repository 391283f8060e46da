------------------------------ MODULE GameTurns ------------------------------
(***************************************************************************)
(* What OmokGame promises the room that owns it: a game is played in       *)
(* alternate moves and ends by a line, a full board or a forfeit.          *)
(***************************************************************************)
EXTENDS GameRules

VARIABLE game

Init == game = ResetGame

Reset == game' = ResetGame
Start == game' = StartedGame

Move ==
  \E stone \in Players, cell \in CellsOf(game), line \in LineOutcomes(game) :
     /\ MoveResult(game, stone, cell) = "Success"
     /\ game' = Placed(game, stone, line)

Forfeit ==
  \E loser \in Players :
     /\ CanForfeit(game, loser)
     /\ game' = Forfeited(game, loser)

Next == Reset \/ Start \/ Move \/ Forfeit

Spec == Init /\ [][Next]_game
=============================================================================
