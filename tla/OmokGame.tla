------------------------------ MODULE OmokGame ------------------------------
(***************************************************************************)
(* OmokGame with its board: five in a row (WinLength) on a square board    *)
(* (BoardSize), a longer line wins too.  The winning line is looked for    *)
(* around the last stone only.                                             *)
(***************************************************************************)
EXTENDS Integers, FiniteSets

CONSTANTS BoardSize, WinLength

ASSUME BoardConstants ==
  /\ BoardSize \in Nat \ {0}
  /\ WinLength \in Nat \ {0}
  /\ 2 * WinLength - 1 <= BoardSize * BoardSize

Rules == INSTANCE GameRules WITH Cells <- BoardSize * BoardSize,
                                 FirstWin <- 2 * WinLength - 1

VARIABLES
  board,       \* [Coords \X Coords -> Stones], m_board
  status,      \* m_status
  nextTurn,    \* m_nextTurn
  moveCount    \* m_moveCount

vars == <<board, status, nextTurn, moveCount>>

Coords   == 0..(BoardSize - 1)
Points   == Coords \X Coords
NoStones == [p \in Points |-> "Empty"]

\* The four directions HasWinningLine looks in; each is followed both ways.
Directions == {<<1, 0>>, <<0, 1>>, <<1, 1>>, <<1, -1>>}
Along(p, d, k) == <<p[1] + k * d[1], p[2] + k * d[2]>>

-----------------------------------------------------------------------------
(* Winning lines *)

\* CountDirection: how many stones follow p without a gap in direction d (or,
\* with way = -1, against it).
CountDirection(b, stone, p, d, way) ==
  Cardinality({k \in 1..BoardSize :
                 \A j \in 1..k : /\ Along(p, d, way * j) \in Points
                                 /\ b[Along(p, d, way * j)] = stone})

HasWinningLine_OneWay(b, stone, p) ==
  \E d \in Directions : 1 + CountDirection(b, stone, p, d, 1) >= WinLength

HasWinningLine_Exactly(b, stone, p) ==
  \E d \in Directions :
     1 + CountDirection(b, stone, p, d, 1) + CountDirection(b, stone, p, d, -1)
       = WinLength

HasWinningLine(b, stone, p) ==
  \E d \in Directions :
     1 + CountDirection(b, stone, p, d, 1) + CountDirection(b, stone, p, d, -1)
       >= WinLength

\* The reference: some WinLength stones of one colour in a row, anywhere.
LineOn(b, stone) ==
  \E p \in Points, d \in Directions :
     \A k \in 0..(WinLength - 1) : /\ Along(p, d, k) \in Points
                                   /\ b[Along(p, d, k)] = stone

-----------------------------------------------------------------------------
(* The operations *)

Init ==
  /\ board = NoStones
  /\ status = "NotStarted"
  /\ nextTurn = "Empty"
  /\ moveCount = 0

Reset ==
  /\ board' = NoStones
  /\ status' = "NotStarted"
  /\ nextTurn' = "Empty"
  /\ moveCount' = 0

Start ==
  /\ board' = NoStones
  /\ status' = "Playing"
  /\ nextTurn' = "Black"
  /\ moveCount' = 0

\* The checks TryPlaceStone makes before it changes anything.
MayPlace(stone, p) ==
  /\ status = "Playing"
  /\ stone \in Rules!Players
  /\ p \in Points
  /\ stone = nextTurn
  /\ board[p] = "Empty"

TryPlaceStone(stone, p) ==
  LET after == [board EXCEPT ![p] = stone]
      n     == moveCount + 1
      wins  == HasWinningLine(after, stone, p)
      full  == n = BoardSize * BoardSize
  IN /\ MayPlace(stone, p)
     /\ board' = after
     /\ moveCount' = n
     /\ status' = IF wins THEN Rules!WonBy(stone)
                  ELSE IF full THEN "Draw" ELSE "Playing"
     /\ nextTurn' = IF wins \/ full THEN "Empty" ELSE Rules!Opponent(stone)

Forfeit_KeepsTurn(loser) ==
  /\ status = "Playing"
  /\ loser \in Rules!Players
  /\ status' = Rules!WonBy(Rules!Opponent(loser))
  /\ UNCHANGED <<board, nextTurn, moveCount>>

Forfeit(loser) ==
  /\ status = "Playing"
  /\ loser \in Rules!Players
  /\ status' = Rules!WonBy(Rules!Opponent(loser))
  /\ nextTurn' = "Empty"
  /\ UNCHANGED <<board, moveCount>>

Next ==
  \/ Reset
  \/ Start
  \/ \E stone \in Rules!Players, p \in Points : TryPlaceStone(stone, p)
  \/ \E loser \in Rules!Players : Forfeit(loser)

Spec == Init /\ [][Next]_vars

-----------------------------------------------------------------------------
(* Properties *)

TypeOK ==
  /\ board \in [Points -> Rules!Stones]
  /\ [status |-> status, next |-> nextTurn, moves |-> moveCount] \in Rules!Games

\* Looking around the last stone never misses a line: a game that is still being
\* played, or was drawn, has no WinLength stones of one colour in a row anywhere.
NoLineMissed ==
  status \in {"Playing", "Draw"} => \A stone \in Rules!Players : ~LineOn(board, stone)

\* A move wins if and only if it makes a line (of WinLength or more) for its own
\* colour, also on the last free cell, where the board is full as well.
MoveWinsIffLine ==
  [][\A stone \in Rules!Players :
       (moveCount' = moveCount + 1 /\ nextTurn = stone)
         => (status' = Rules!WonBy(stone) <=> LineOn(board', stone))]_vars

\* The game with its board does what its owner is promised: GameTurns, where the
\* first line is possible no sooner than the move that brings WinLength stones.
Turns == INSTANCE GameTurns WITH
           Cells    <- BoardSize * BoardSize,
           FirstWin <- 2 * WinLength - 1,
           game     <- [status |-> status, next |-> nextTurn, moves |-> moveCount]

ImplementsTurns == Turns!Spec
=============================================================================
