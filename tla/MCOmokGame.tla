----------------------------- MODULE MCOmokGame -----------------------------
(***************************************************************************)
(* OmokGame on two boards that are small enough for every game:            *)
(*   MCOmokGame.cfg  3 by 3, three in a row: games run until the board is  *)
(*                   full, so wins, draws and their precedence all happen; *)
(*   MCOmokLine.cfg  4 by 4, two in a row: a stone between two others      *)
(*                   makes a line longer than needed.                      *)
(***************************************************************************)
EXTENDS OmokGame
=============================================================================
