------------------------------ MODULE GameRules ------------------------------
(***************************************************************************)
(* The part of OmokGame that its owners see: the status, the stone to move *)
(* and the number of moves.  The board is left out, so what depends on it  *)
(* (whether a cell is free, whether a stone completes a line) is a         *)
(* parameter.  OmokGame.tla keeps the board and implements this module.    *)
(***************************************************************************)
EXTENDS Naturals

CONSTANTS
  Cells,     \* cells of the board (15 * 15 in the code)
  FirstWin   \* the earliest move that can complete a line (the 9th in the code)

ASSUME GameConstants == Cells \in Nat \ {0} /\ FirstWin \in 1..Cells

Players    == {"Black", "White"}
Stones     == Players \cup {"Empty"}
FinalStatus == {"BlackWon", "WhiteWon", "Draw"}
GameStatus == {"NotStarted", "Playing"} \cup FinalStatus

Games == [status : GameStatus, next : Stones, moves : 0..Cells]

Opponent(stone) == IF stone = "Black" THEN "White" ELSE "Black"
WonBy(stone)    == IF stone = "Black" THEN "BlackWon" ELSE "WhiteWon"

\* OmokGame::Reset and the state of a new OmokGame
ResetGame == [status |-> "NotStarted", next |-> "Empty", moves |-> 0]

\* OmokGame::Start
StartedGame == [status |-> "Playing", next |-> "Black", moves |-> 0]

(***************************************************************************)
(* OmokGame::TryPlaceStone.  A cell is "outside" the board, "taken" or     *)
(* "free"; the first check that fails names the result.                    *)
(***************************************************************************)
MoveResult(game, stone, cell) ==
  IF game.status # "Playing" THEN "GameNotRunning"
  ELSE IF stone \notin Players THEN "InvalidStone"
  ELSE IF cell = "outside"    THEN "OutOfBounds"
  ELSE IF stone # game.next   THEN "NotYourTurn"
  ELSE IF cell = "taken"      THEN "Occupied"
  ELSE "Success"

\* The game after an accepted move.  A line is looked for before a full board.
Placed(game, stone, line) ==
  LET n    == game.moves + 1
      over == line \/ n = Cells
  IN [status |-> IF line THEN WonBy(stone) ELSE IF over THEN "Draw" ELSE "Playing",
      next   |-> IF over THEN "Empty" ELSE Opponent(stone),
      moves  |-> n]

\* What the board allows of a move of a game: the cells a client can name, and
\* whether the stone may complete a line.
CellsOf(game)      == {"outside", "free"} \cup (IF game.moves > 0 THEN {"taken"} ELSE {})
LineOutcomes(game) == IF game.moves + 1 >= FirstWin THEN BOOLEAN ELSE {FALSE}

\* OmokGame::Forfeit: its guard and its effect
CanForfeit(game, loser) == game.status = "Playing" /\ loser \in Players
Forfeited(game, loser)  ==
  [game EXCEPT !.status = WonBy(Opponent(loser)), !.next = "Empty"]
=============================================================================
