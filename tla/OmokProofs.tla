------------------------------ MODULE OmokProofs ------------------------------
(***************************************************************************)
(* Theorems about OmokGame for boards and lines of every size: looking     *)
(* around the last stone only never misses a line, a move wins if and only *)
(* if it makes one, and the game with its board does what its owner is     *)
(* promised (GameTurns).                                                   *)
(*                                                                         *)
(* The first part is about the board alone: what CountDirection counts,    *)
(* and that a line which was not there before goes through the new stone.  *)
(* The second is about the counts of the stones, which the promise rests   *)
(* on: no line is possible before its colour has enough of them.           *)
(***************************************************************************)
EXTENDS OmokGame, FiniteSetTheorems, TLAPS

-----------------------------------------------------------------------------
(* Points in a row *)

\* Whether there is a stone of this colour at q, which may be off the board.
Holds(b, stone, q) == q \in Points /\ b[q] = stone

\* Going along a direction is adding steps.
LEMMA Steps ==
  ASSUME NEW p \in Int \X Int, NEW d \in Directions, NEW i \in Int, NEW j \in Int
  PROVE  /\ Along(p, d, i) \in Int \X Int
         /\ Along(Along(p, d, i), d, j) = Along(p, d, i + j)
         /\ Along(p, d, 0) = p
         /\ Along(p, d, i) = Along(p, d, j) => i = j
<1>1. PICK x \in Int, y \in Int : p = <<x, y>>
  OBVIOUS
<1>2. CASE d = <<1, 0>>
  BY <1>1, <1>2 DEF Along
<1>3. CASE d = <<0, 1>>
  BY <1>1, <1>3 DEF Along
<1>4. CASE d = <<1, 1>>
  BY <1>1, <1>4 DEF Along
<1>5. CASE d = <<1, -1>>
  BY <1>1, <1>5 DEF Along
<1> QED
  BY <1>2, <1>3, <1>4, <1>5 DEF Directions

\* A board ends: as many steps as it is wide lead off it.
LEMMA OffBoard ==
  ASSUME NEW p \in Points, NEW d \in Directions, NEW way \in {1, -1}
  PROVE  Along(p, d, way * BoardSize) \notin Points
<1>1. PICK x \in Coords, y \in Coords : p = <<x, y>>
  BY DEF Points
<1>2. /\ BoardSize \in Nat /\ x \in Int /\ y \in Int
      /\ 0 <= x /\ x < BoardSize /\ 0 <= y /\ y < BoardSize
  BY BoardConstants DEF Coords
<1>3. \A z \in Coords : z \in Int /\ 0 <= z /\ z < BoardSize
  BY BoardConstants DEF Coords
<1>4. CASE way = 1
  <2>1. x + BoardSize \notin Coords /\ y + BoardSize \notin Coords
    BY <1>2, <1>3
  <2>2. Along(p, d, way * BoardSize) \in
          {<<x + BoardSize, y>>, <<x, y + BoardSize>>, <<x + BoardSize, y + BoardSize>>,
           <<x + BoardSize, y - BoardSize>>}
    BY <1>1, <1>2, <1>4 DEF Along, Directions
  <2> QED
    BY <2>1, <2>2 DEF Points
<1>5. CASE way = -1
  <2>1. x - BoardSize \notin Coords /\ y - BoardSize \notin Coords
    BY <1>2, <1>3
  <2>2. Along(p, d, way * BoardSize) \in
          {<<x - BoardSize, y>>, <<x, y - BoardSize>>, <<x - BoardSize, y - BoardSize>>,
           <<x - BoardSize, y + BoardSize>>}
    BY <1>1, <1>2, <1>5 DEF Along, Directions
  <2> QED
    BY <2>1, <2>2 DEF Points
<1> QED
  BY <1>4, <1>5

\* A set of numbers that holds with each number all smaller ones from 1 on has as many
\* elements as its largest says.
LEMMA InitialSegment ==
  ASSUME NEW N \in Nat, NEW S \in SUBSET (1..N), \A k \in S : 1..k \subseteq S
  PROVE  Cardinality(S) \in 0..N /\ S = 1..Cardinality(S)
<1>1. IsFiniteSet(1..N) /\ Cardinality(1..N) = N
  BY FS_Interval
<1>2. IsFiniteSet(S) /\ Cardinality(S) \in Nat /\ Cardinality(S) <= N
  <2>1. IsFiniteSet(S) /\ Cardinality(S) <= Cardinality(1..N)
    BY <1>1, FS_Subset
  <2> QED
    BY <1>1, <2>1, FS_CardinalityType
<1> DEFINE n == Cardinality(S)
<1>3. ASSUME NEW k \in S PROVE k \in 1..n
  <2>1. k \in Nat /\ k >= 1
    OBVIOUS
  <2>2. Cardinality(1..k) = k
    BY <2>1, FS_Interval
  <2>3. Cardinality(1..k) <= Cardinality(S)
    BY <1>2, FS_Subset
  <2> HIDE DEF n
  <2> QED
    BY <1>2, <2>1, <2>2, <2>3 DEF n
<1>4. S \subseteq 1..n
  BY <1>3
<1>5. IsFiniteSet(1..n) /\ Cardinality(1..n) = n
  BY <1>2, FS_Interval
<1>6. S = 1..n
  BY <1>4, <1>5, FS_Subset
<1> QED
  BY <1>2, <1>6

\* CountDirection: the stones up to the first gap, and that there is a gap.
LEMMA CountIs ==
  ASSUME NEW b, NEW stone, NEW p \in Points, NEW d \in Directions, NEW way \in {1, -1}
  PROVE  LET n == CountDirection(b, stone, p, d, way)
         IN /\ n \in Nat
            /\ \A k \in 1..n : Holds(b, stone, Along(p, d, way * k))
            /\ ~Holds(b, stone, Along(p, d, way * (n + 1)))
<1> DEFINE S == {k \in 1..BoardSize : \A j \in 1..k : Holds(b, stone, Along(p, d, way * j))}
           n == CountDirection(b, stone, p, d, way)
<1>1. BoardSize \in Nat /\ BoardSize # 0
  BY BoardConstants
<1>2. n = Cardinality(S)
  BY DEF CountDirection, Holds
<1>3. ASSUME NEW k \in S, NEW m \in 1..k PROVE m \in S
  <2>1. m \in 1..BoardSize /\ 1..m \subseteq 1..k
    BY <1>1
  <2> QED
    BY <2>1
<1>4. n \in 0..BoardSize /\ S = 1..n
  <2>1. S \in SUBSET (1..BoardSize) /\ \A k \in S : 1..k \subseteq S
    BY <1>3
  <2> HIDE DEF S, n
  <2> QED
    BY <1>1, <1>2, <2>1, InitialSegment
<1>5. ASSUME NEW k \in 1..n PROVE Holds(b, stone, Along(p, d, way * k))
  <2>1. k \in S /\ k \in 1..k
    BY <1>4
  <2> QED
    BY <2>1
<1>6. ASSUME Holds(b, stone, Along(p, d, way * (n + 1))) PROVE FALSE
  <2>1. CASE n = BoardSize
    <3>1. BoardSize \in 1..n
      BY <1>1, <2>1
    <3>2. Holds(b, stone, Along(p, d, way * BoardSize))
      BY <1>5, <3>1
    <3> QED
      BY <3>2, OffBoard DEF Holds
  <2>2. CASE n # BoardSize
    <3>1. n + 1 \in 1..BoardSize /\ n + 1 \notin 1..n
      BY <1>1, <1>4, <2>2
    <3>2. \A j \in 1..(n + 1) : j \in 1..n \/ j = n + 1
      BY <1>4
    <3>3. \A j \in 1..(n + 1) : Holds(b, stone, Along(p, d, way * j))
      BY <1>5, <1>6, <3>2
    <3>4. n + 1 \in S
      BY <3>1, <3>3
    <3> QED
      BY <1>4, <3>1, <3>4
  <2> QED
    BY <2>1, <2>2
<1> HIDE DEF n
<1>7. n \in Nat
  BY <1>1, <1>4
<1> QED
  BY <1>5, <1>6, <1>7 DEF n

\* As many stones as lie next to each other are counted.
LEMMA CountsAll ==
  ASSUME NEW b, NEW stone, NEW p \in Points, NEW d \in Directions, NEW way \in {1, -1},
         NEW m \in Nat, \A k \in 1..m : Holds(b, stone, Along(p, d, way * k))
  PROVE  CountDirection(b, stone, p, d, way) >= m
<1> DEFINE n == CountDirection(b, stone, p, d, way)
<1>1. n \in Nat /\ ~Holds(b, stone, Along(p, d, way * (n + 1)))
  BY CountIs
<1> HIDE DEF n
<1>2. n + 1 \notin 1..m
  BY <1>1
<1> QED
  BY <1>1, <1>2 DEF n

\* The stones counted both ways, and the one between them, are a row.
LEMMA RowAround ==
  ASSUME NEW b, NEW stone, NEW p \in Points, NEW d \in Directions, Holds(b, stone, p),
         NEW i \in Int,
         -CountDirection(b, stone, p, d, -1) <= i, i <= CountDirection(b, stone, p, d, 1)
  PROVE  Holds(b, stone, Along(p, d, i))
<1> DEFINE after  == CountDirection(b, stone, p, d, 1)
           before == CountDirection(b, stone, p, d, -1)
<1>1. /\ after \in Nat /\ before \in Nat
      /\ \A k \in 1..after : Holds(b, stone, Along(p, d, 1 * k))
      /\ \A k \in 1..before : Holds(b, stone, Along(p, d, (-1) * k))
  BY CountIs
<1>2. p \in Int \X Int
  BY BoardConstants DEF Points, Coords
<1> HIDE DEF after, before
<1>3. CASE i = 0
  BY <1>2, <1>3, Steps
<1>4. CASE i > 0
  <2>1. i \in 1..after /\ 1 * i = i
    BY <1>1, <1>4 DEF after
  <2> QED
    BY <1>1, <2>1
<1>5. CASE i < 0
  <2>1. -i \in 1..before /\ (-1) * (-i) = i
    BY <1>1, <1>5 DEF before
  <2> QED
    BY <1>1, <2>1
<1> QED
  BY <1>3, <1>4, <1>5

\* A line as LineOn has it.
LineFrom(b, stone, q, d) == \A k \in 0..(WinLength - 1) : Holds(b, stone, Along(q, d, k))

\* LineOn says that there is one.
LEMMA LinesAre ==
  ASSUME NEW b, NEW stone
  PROVE  LineOn(b, stone) <=> \E q \in Points, d \in Directions : LineFrom(b, stone, q, d)
BY DEF LineOn, LineFrom, Holds

\* What HasWinningLine finds is a line.
LEMMA FoundIsLine ==
  ASSUME NEW b, NEW stone, NEW p \in Points, Holds(b, stone, p), HasWinningLine(b, stone, p)
  PROVE  LineOn(b, stone)
<1>1. PICK d \in Directions :
        1 + CountDirection(b, stone, p, d, 1) + CountDirection(b, stone, p, d, -1) >= WinLength
  BY DEF HasWinningLine
<1> DEFINE after  == CountDirection(b, stone, p, d, 1)
           before == CountDirection(b, stone, p, d, -1)
           back   == IF before < WinLength THEN before ELSE WinLength - 1
           q      == Along(p, d, -back)
<1>2. after \in Nat /\ before \in Nat /\ WinLength \in Nat \ {0}
  BY CountIs, BoardConstants
<1>3. \A i \in Int : -before <= i /\ i <= after => Holds(b, stone, Along(p, d, i))
  BY RowAround
<1>4. p \in Int \X Int
  BY BoardConstants DEF Points, Coords
<1> HIDE DEF after, before
<1>5. back \in Nat /\ back <= before /\ back <= WinLength - 1 /\ WinLength - 1 - back <= after
  BY <1>1, <1>2 DEF after, before
<1> HIDE DEF back
<1>6. ASSUME NEW k \in 0..(WinLength - 1) PROVE Holds(b, stone, Along(q, d, k))
  <2>1. -back + k \in Int /\ -before <= -back + k /\ -back + k <= after
    BY <1>2, <1>5
  <2>2. Along(q, d, k) = Along(p, d, -back + k)
    BY <1>2, <1>4, <1>5, Steps
  <2> QED
    BY <1>3, <2>1, <2>2
<1>7. q \in Points
  <2>1. -back \in Int /\ -before <= -back /\ -back <= after
    BY <1>2, <1>5
  <2> QED
    BY <1>3, <2>1 DEF Holds
<1> HIDE DEF q
<1> QED
  BY <1>6, <1>7, LinesAre DEF LineFrom

\* A line through p is found around p.
LEMMA LineIsFound ==
  ASSUME NEW b, NEW stone, NEW p \in Points, NEW q \in Points, NEW d \in Directions,
         LineFrom(b, stone, q, d), NEW i \in 0..(WinLength - 1), Along(q, d, i) = p
  PROVE  HasWinningLine(b, stone, p)
<1> DEFINE after  == CountDirection(b, stone, p, d, 1)
           before == CountDirection(b, stone, p, d, -1)
<1>1. after \in Nat /\ before \in Nat /\ WinLength \in Nat \ {0} /\ i \in Nat
  BY CountIs, BoardConstants
<1>2. q \in Int \X Int
  BY BoardConstants DEF Points, Coords
<1>3. \A j \in Int : i + j \in 0..(WinLength - 1) => Holds(b, stone, Along(p, d, j))
  BY <1>1, <1>2, Steps DEF LineFrom
<1>4. after >= WinLength - 1 - i
  <2>1. \A k \in 1..(WinLength - 1 - i) : 1 * k \in Int /\ i + 1 * k \in 0..(WinLength - 1)
    BY <1>1
  <2>2. WinLength - 1 - i \in Nat
    BY <1>1
  <2> QED
    BY <1>3, <2>1, <2>2, CountsAll
<1>5. before >= i
  <2>1. \A k \in 1..i : (-1) * k \in Int /\ i + (-1) * k \in 0..(WinLength - 1)
    BY <1>1
  <2> QED
    BY <1>1, <1>3, <2>1, CountsAll
<1> HIDE DEF after, before
<1>6. 1 + after + before >= WinLength
  BY <1>1, <1>4, <1>5
<1> QED
  BY <1>6 DEF HasWinningLine, after, before

\* A line made by a stone goes through it, so it is found there.
LEMMA NewLineIsFound ==
  ASSUME NEW b \in [Points -> Rules!Stones], NEW stone \in Rules!Players, NEW p \in Points,
         b[p] = "Empty"
  PROVE  LET after == [b EXCEPT ![p] = stone]
         IN /\ HasWinningLine(after, stone, p) => LineOn(after, stone)
            /\ ~LineOn(b, stone) => (LineOn(after, stone) => HasWinningLine(after, stone, p))
            /\ \A other \in Rules!Players \ {stone} : LineOn(after, other) => LineOn(b, other)
<1> DEFINE after == [b EXCEPT ![p] = stone]
<1>1. /\ after[p] = stone
      /\ \A q \in Points : q # p => after[q] = b[q]
      /\ Holds(after, stone, p)
  BY DEF Holds
<1> HIDE DEF after
<1>2. HasWinningLine(after, stone, p) => LineOn(after, stone)
  BY <1>1, FoundIsLine
<1>3. ASSUME ~LineOn(b, stone), LineOn(after, stone) PROVE HasWinningLine(after, stone, p)
  <2>1. PICK q \in Points, d \in Directions : LineFrom(after, stone, q, d)
    BY <1>3, LinesAre
  <2>2. PICK i \in 0..(WinLength - 1) : ~Holds(b, stone, Along(q, d, i))
    BY <1>3, <2>1, LinesAre DEF LineFrom
  <2>3. Holds(after, stone, Along(q, d, i))
    BY <2>1 DEF LineFrom
  <2>4. Along(q, d, i) = p
    BY <1>1, <2>2, <2>3 DEF Holds
  <2> QED
    BY <2>1, <2>4, LineIsFound
<1>4. ASSUME NEW other \in Rules!Players \ {stone}, LineOn(after, other) PROVE LineOn(b, other)
  <2>1. PICK q \in Points, d \in Directions : LineFrom(after, other, q, d)
    BY <1>4, LinesAre
  <2>2. LineFrom(b, other, q, d)
    BY <1>1, <2>1 DEF LineFrom, Holds
  <2> QED
    BY <2>1, <2>2, LinesAre
<1> QED
  BY <1>2, <1>3, <1>4 DEF after

\* There is no line on an empty board.
LEMMA NoLineAtFirst ==
  ASSUME NEW stone \in Rules!Players
  PROVE  ~LineOn(NoStones, stone)
<1> SUFFICES ASSUME NEW q \in Points, NEW d \in Directions, LineFrom(NoStones, stone, q, d)
             PROVE  FALSE
  BY LinesAre
<1>1. 0 \in 0..(WinLength - 1)
  BY BoardConstants
<1>2. Holds(NoStones, stone, Along(q, d, 0))
  BY <1>1 DEF LineFrom
<1> QED
  BY <1>2 DEF Holds, NoStones, Rules!Players

-----------------------------------------------------------------------------
(* Counting stones *)

StonesOf(b, stone) == {p \in Points : b[p] = stone}

\* While a game runs, the stones on the board tell whose turn it is and how many moves
\* were made, and there is room for another one.
TurnsAgree ==
  LET black == Cardinality(StonesOf(board, "Black"))
      white == Cardinality(StonesOf(board, "White"))
  IN status = "Playing" =>
       /\ moveCount < BoardSize * BoardSize
       /\ \/ nextTurn = "Black" /\ black = white /\ moveCount = 2 * white
          \/ nextTurn = "White" /\ black = white + 1 /\ moveCount = 2 * white + 1

OmokInv == TypeOK /\ NoLineMissed /\ TurnsAgree

\* A board has cells, and room for the moves a first line takes.
LEMMA BoardArea ==
  /\ BoardSize * BoardSize \in Nat \ {0}
  /\ 2 * WinLength - 1 \in 1..(BoardSize * BoardSize)
<1>1. BoardSize * BoardSize \in Nat /\ 2 * WinLength - 1 \in Nat \ {0}
  BY BoardConstants
<1> QED
  BY <1>1, BoardConstants

\* The stones of a board can be counted.
LEMMA StonesFinite ==
  ASSUME NEW b, NEW stone
  PROVE  IsFiniteSet(StonesOf(b, stone)) /\ Cardinality(StonesOf(b, stone)) \in Nat
<1>1. IsFiniteSet(Coords)
  BY BoardConstants, FS_Interval DEF Coords
<1>2. IsFiniteSet(Points)
  BY <1>1, FS_Product DEF Points
<1>3. StonesOf(b, stone) \in SUBSET Points
  BY DEF StonesOf
<1> QED
  BY <1>2, <1>3, FS_Subset, FS_CardinalityType

\* A stone counts for its colour.
LEMMA StoneCounts ==
  ASSUME NEW b \in [Points -> Rules!Stones], NEW stone \in Rules!Players, NEW p \in Points,
         b[p] = "Empty"
  PROVE  LET after == [b EXCEPT ![p] = stone]
         IN /\ Cardinality(StonesOf(after, stone)) = Cardinality(StonesOf(b, stone)) + 1
            /\ \A other \in Rules!Players \ {stone} : StonesOf(after, other) = StonesOf(b, other)
<1> DEFINE after == [b EXCEPT ![p] = stone]
<1>1. after[p] = stone /\ (\A q \in Points : q # p => after[q] = b[q]) /\ stone # "Empty"
  BY DEF Rules!Players
<1> HIDE DEF after
<1>2. StonesOf(after, stone) = StonesOf(b, stone) \cup {p} /\ p \notin StonesOf(b, stone)
  BY <1>1 DEF StonesOf
<1>3. Cardinality(StonesOf(after, stone)) = Cardinality(StonesOf(b, stone)) + 1
  BY <1>2, StonesFinite, FS_AddElement
<1>4. \A other \in Rules!Players \ {stone} : StonesOf(after, other) = StonesOf(b, other)
  BY <1>1 DEF StonesOf, Rules!Players
<1> QED
  BY <1>3, <1>4 DEF after

\* A line needs as many stones as it is long.
LEMMA LineNeedsStones ==
  ASSUME NEW b, NEW stone, LineOn(b, stone)
  PROVE  Cardinality(StonesOf(b, stone)) >= WinLength
<1>1. PICK q \in Points, d \in Directions : LineFrom(b, stone, q, d)
  BY LinesAre
<1> DEFINE places == 0..(WinLength - 1)
           line == [k \in places |-> Along(q, d, k)]
<1>2. q \in Int \X Int /\ places \subseteq Int
  BY BoardConstants DEF Points, Coords
<1>3. \A k \in places : Along(q, d, k) \in StonesOf(b, stone)
  BY <1>1 DEF LineFrom, Holds, StonesOf
<1>4. \A i, j \in places : Along(q, d, i) = Along(q, d, j) => i = j
  BY <1>2, Steps
<1>5. line \in Injection(places, StonesOf(b, stone))
  BY <1>3, <1>4 DEF Injection, IsInjective
<1>6. IsFiniteSet(StonesOf(b, stone)) /\ Cardinality(StonesOf(b, stone)) \in Nat
  BY StonesFinite
<1>7. Cardinality(places) <= Cardinality(StonesOf(b, stone))
  BY <1>5, <1>6, FS_Injection
<1>8. Cardinality(places) = WinLength
  BY BoardConstants, FS_Interval
<1> QED
  BY <1>6, <1>7, <1>8, BoardConstants

-----------------------------------------------------------------------------
(* The invariant *)

\* What an accepted move does, with the stones counted: a line is possible only when
\* its colour has enough of them.
LEMMA MoveDoes ==
  ASSUME OmokInv, NEW stone \in Rules!Players, NEW p \in Points, TryPlaceStone(stone, p)
  PROVE  LET n == moveCount + 1
             line == LineOn(board', stone)
             full == n = BoardSize * BoardSize
         IN /\ status = "Playing" /\ nextTurn = stone /\ moveCount \in Nat /\ moveCount < BoardSize * BoardSize
            /\ board' = [board EXCEPT ![p] = stone] /\ board' \in [Points -> Rules!Stones]
            /\ moveCount' = n /\ n \in 1..(BoardSize * BoardSize)
            /\ status' = IF line THEN Rules!WonBy(stone) ELSE IF full THEN "Draw" ELSE "Playing"
            /\ nextTurn' = IF line \/ full THEN "Empty" ELSE Rules!Opponent(stone)
            /\ \A other \in Rules!Players \ {stone} : ~LineOn(board', other)
            /\ line => n >= 2 * WinLength - 1
            /\ status' = "Playing" => TurnsAgree'
<1> DEFINE n == moveCount + 1
           area == BoardSize * BoardSize
<1>1. /\ status = "Playing" /\ stone = nextTurn /\ board[p] = "Empty"
      /\ board' = [board EXCEPT ![p] = stone] /\ moveCount' = n
      /\ status' = IF HasWinningLine(board', stone, p) THEN Rules!WonBy(stone)
                   ELSE IF n = area THEN "Draw" ELSE "Playing"
      /\ nextTurn' = IF HasWinningLine(board', stone, p) \/ n = area
                     THEN "Empty" ELSE Rules!Opponent(stone)
  BY DEF TryPlaceStone, MayPlace
<1>2. board \in [Points -> Rules!Stones] /\ moveCount \in Nat /\ area \in Nat
  BY BoardArea DEF OmokInv, TypeOK, Rules!Games
<1>3. board' \in [Points -> Rules!Stones]
  BY <1>1, <1>2 DEF Rules!Stones
<1>4. \A other \in Rules!Players : ~LineOn(board, other)
  BY <1>1 DEF OmokInv, NoLineMissed
<1>5. /\ HasWinningLine(board', stone, p) <=> LineOn(board', stone)
      /\ \A other \in Rules!Players \ {stone} : ~LineOn(board', other)
  BY <1>1, <1>2, <1>4, NewLineIsFound
<1> DEFINE black == Cardinality(StonesOf(board, "Black"))
           white == Cardinality(StonesOf(board, "White"))
           blackNow == Cardinality(StonesOf(board', "Black"))
           whiteNow == Cardinality(StonesOf(board', "White"))
<1>6. /\ moveCount < area
      /\ \/ nextTurn = "Black" /\ black = white /\ moveCount = 2 * white
         \/ nextTurn = "White" /\ black = white + 1 /\ moveCount = 2 * white + 1
  BY <1>1 DEF OmokInv, TurnsAgree
<1>7. /\ stone = "Black" => blackNow = black + 1 /\ whiteNow = white
      /\ stone = "White" => whiteNow = white + 1 /\ blackNow = black
  <2>1. /\ Cardinality(StonesOf(board', stone)) = Cardinality(StonesOf(board, stone)) + 1
        /\ \A other \in Rules!Players \ {stone} :
             StonesOf(board', other) = StonesOf(board, other)
    BY ZenonT(60), <1>1, <1>2, StoneCounts
  <2>2. CASE stone = "Black"
    BY <2>1, <2>2 DEF Rules!Players
  <2>3. CASE stone = "White"
    BY <2>1, <2>3 DEF Rules!Players
  <2> QED
    BY <2>2, <2>3 DEF Rules!Players
<1>8. black \in Nat /\ white \in Nat
  BY StonesFinite
<1>9. LineOn(board', stone) => (IF stone = "Black" THEN blackNow ELSE whiteNow) >= WinLength
  BY LineNeedsStones DEF Rules!Players
<1>10. n \in 1..area
  <2> HIDE DEF area
  <2> QED
    BY <1>2, <1>6
<1> HIDE DEF black, white, blackNow, whiteNow
<1>11. LineOn(board', stone) => n >= 2 * WinLength - 1
  BY <1>1, <1>6, <1>7, <1>8, <1>9, BoardConstants
<1>12. ASSUME status' = "Playing" PROVE TurnsAgree'
  <2>1. nextTurn' = Rules!Opponent(stone) /\ n # area
    BY <1>1, <1>12 DEF Rules!WonBy
  <2>2. n < area
    <3> HIDE DEF area
    <3> QED
      BY <1>2, <1>6, <2>1
  <2>3. \/ nextTurn' = "Black" /\ blackNow = whiteNow /\ n = 2 * whiteNow
        \/ nextTurn' = "White" /\ blackNow = whiteNow + 1 /\ n = 2 * whiteNow + 1
    BY <1>1, <1>6, <1>7, <1>8, <2>1 DEF Rules!Opponent
  <2> QED
    BY <1>1, <2>2, <2>3 DEF TurnsAgree, blackNow, whiteNow
<1> QED
  BY <1>1, <1>2, <1>3, <1>5, <1>6, <1>10, <1>11, <1>12

\* Starting and resetting clear the board.
LEMMA ClearedBoard ==
  ASSUME Reset \/ Start
  PROVE  OmokInv'
<1>1. board' = NoStones /\ moveCount' = 0
  BY DEF Reset, Start
<1>2. TypeOK'
  BY <1>1, BoardArea DEF Reset, Start, TypeOK, NoStones, Rules!Stones, Rules!Games,
                         Rules!GameStatus, Rules!Players
<1>3. NoLineMissed'
  BY <1>1, NoLineAtFirst DEF NoLineMissed
<1>4. TurnsAgree'
  <2>1. StonesOf(NoStones, "Black") = {} /\ StonesOf(NoStones, "White") = {}
    BY DEF StonesOf, NoStones
  <2>2. Cardinality({}) = 0 /\ 0 < BoardSize * BoardSize
    BY BoardArea, FS_EmptySet
  <2> QED
    BY <1>1, <2>1, <2>2 DEF Reset, Start, TurnsAgree
<1> QED
  BY <1>2, <1>3, <1>4 DEF OmokInv

\* Every operation preserves the invariant.
LEMMA NextOmok == OmokInv /\ [Next]_vars => OmokInv'
<1> SUFFICES ASSUME OmokInv, [Next]_vars PROVE OmokInv'
  OBVIOUS
<1>1. CASE Reset \/ Start
  BY <1>1, ClearedBoard
<1>2. ASSUME NEW stone \in Rules!Players, NEW p \in Points, TryPlaceStone(stone, p)
      PROVE  OmokInv'
  <2>1. /\ status' \in {Rules!WonBy(stone), "Draw", "Playing"}
        /\ nextTurn' \in {"Empty", Rules!Opponent(stone)}
        /\ moveCount' \in 1..(BoardSize * BoardSize) /\ board' \in [Points -> Rules!Stones]
        /\ status' = "Playing" => TurnsAgree'
    BY <1>2, MoveDoes
  <2>2. TypeOK'
    <3>1. moveCount' \in 0..(BoardSize * BoardSize)
      BY <2>1, BoardArea
    <3> QED
      BY <2>1, <3>1 DEF TypeOK, Rules!Games, Rules!GameStatus, Rules!FinalStatus, Rules!Stones,
                        Rules!Players, Rules!WonBy, Rules!Opponent
  <2>3. NoLineMissed'
    BY <1>2, MoveDoes DEF NoLineMissed, Rules!WonBy
  <2>4. TurnsAgree'
    BY <2>1 DEF TurnsAgree
  <2> QED
    BY <2>2, <2>3, <2>4 DEF OmokInv
<1>3. ASSUME NEW loser \in Rules!Players, Forfeit(loser) PROVE OmokInv'
  <2>1. TypeOK'
    BY <1>3 DEF OmokInv, Forfeit, TypeOK, Rules!Games, Rules!GameStatus, Rules!FinalStatus,
                Rules!Stones, Rules!WonBy
  <2>2. status' \notin {"Playing", "Draw"}
    BY <1>3 DEF Forfeit, Rules!WonBy
  <2> QED
    BY <2>1, <2>2 DEF OmokInv, NoLineMissed, TurnsAgree
<1>4. CASE UNCHANGED vars
  BY <1>4 DEF vars, OmokInv, TypeOK, NoLineMissed, TurnsAgree
<1> QED
  BY <1>1, <1>2, <1>3, <1>4 DEF Next

\* A new game has an empty board.
LEMMA InitOmok == Init => OmokInv
<1> SUFFICES ASSUME Init PROVE OmokInv
  OBVIOUS
<1>1. TypeOK
  BY BoardArea DEF Init, TypeOK, NoStones, Rules!Stones, Rules!Games, Rules!GameStatus
<1> QED
  BY <1>1 DEF Init, OmokInv, NoLineMissed, TurnsAgree

\* The inductive invariant holds in every reachable state of a game.
LEMMA OmokInvariance == Spec => []OmokInv
BY InitOmok, NextOmok, PTL DEF Spec

\* Looking around the last stone never misses a line: a game that goes on, or was drawn,
\* has no line of either colour anywhere on its board, whatever the size of the board.
THEOREM NoLineIsMissed == Spec => []NoLineMissed
<1>1. OmokInv => NoLineMissed
  BY DEF OmokInv
<1> QED
  BY <1>1, OmokInvariance, PTL

\* A move wins if and only if it makes a line, also on the last free cell.
THEOREM MovesWinByLines == Spec => MoveWinsIffLine
<1>1. ASSUME OmokInv, [Next]_vars, NEW stone \in Rules!Players,
             moveCount' = moveCount + 1, nextTurn = stone
      PROVE  status' = Rules!WonBy(stone) <=> LineOn(board', stone)
  <2>1. moveCount \in Nat
    BY <1>1, BoardArea DEF OmokInv, TypeOK, Rules!Games
  <2>2. \E mover \in Rules!Players, p \in Points : TryPlaceStone(mover, p)
    BY <1>1, <2>1 DEF Next, Reset, Start, Forfeit, vars
  <2>3. PICK p \in Points : TryPlaceStone(stone, p)
    BY <1>1, <2>2 DEF TryPlaceStone, MayPlace
  <2>4. status' = IF LineOn(board', stone) THEN Rules!WonBy(stone)
                  ELSE IF moveCount + 1 = BoardSize * BoardSize THEN "Draw" ELSE "Playing"
    BY <1>1, <2>3, MoveDoes
  <2> QED
    BY <2>4 DEF Rules!WonBy
<1>2. OmokInv /\ [Next]_vars =>
        [\A stone \in Rules!Players : (moveCount' = moveCount + 1 /\ nextTurn = stone)
           => (status' = Rules!WonBy(stone) <=> LineOn(board', stone))]_vars
  BY <1>1
<1> QED
  BY <1>2, OmokInvariance, PTL DEF Spec, MoveWinsIffLine

-----------------------------------------------------------------------------
(* The game with its board implements the game in turns *)

\* What a forfeit makes of a game.
LEMMA ForfeitedIs ==
  ASSUME NEW s, NEW n, NEW m, NEW loser
  PROVE  Turns!Forfeited([status |-> s, next |-> n, moves |-> m], loser)
           = [status |-> Turns!WonBy(Turns!Opponent(loser)), next |-> "Empty", moves |-> m]
<1> DEFINE game == [status |-> s, next |-> n, moves |-> m]
           ended == Turns!WonBy(Turns!Opponent(loser))
           over == [game EXCEPT !.status = ended]
<1>1. Turns!Forfeited(game, loser) = [over EXCEPT !.next = "Empty"]
  BY Zenon DEF Turns!Forfeited
<1> HIDE DEF ended
<1>2. over = [status |-> ended, next |-> n, moves |-> m]
  OBVIOUS
<1> HIDE DEF over
<1>3. [over EXCEPT !.next = "Empty"] = [status |-> ended, next |-> "Empty", moves |-> m]
  BY <1>2
<1> QED
  BY <1>1, <1>3 DEF ended

\* The board never changes what the owner of the game is promised: alternate moves, an
\* end by a line, a full board or a forfeit, and no line before its colour has the stones.
THEOREM BoardImplementsTurns == Spec => ImplementsTurns
<1> DEFINE g == [status |-> status, next |-> nextTurn, moves |-> moveCount]
<1>1. Init => Turns!Init
  BY DEF Init, Turns!Init, Turns!ResetGame
<1>2. ASSUME OmokInv, [Next]_vars PROVE [Turns!Next]_g
  <2>1. CASE Reset
    BY <2>1 DEF Reset, Turns!Next, Turns!Reset, Turns!ResetGame
  <2>2. CASE Start
    BY <2>2 DEF Start, Turns!Next, Turns!Start, Turns!StartedGame
  <2>3. ASSUME NEW stone \in Rules!Players, NEW p \in Points, TryPlaceStone(stone, p)
        PROVE  Turns!Move
    <3> DEFINE n == moveCount + 1
               line == LineOn(board', stone)
               full == n = BoardSize * BoardSize
    <3>1. /\ status = "Playing" /\ nextTurn = stone
          /\ status' = IF line THEN Turns!WonBy(stone) ELSE IF full THEN "Draw" ELSE "Playing"
          /\ nextTurn' = IF line \/ full THEN "Empty" ELSE Turns!Opponent(stone)
          /\ moveCount' = n /\ (line => n >= 2 * WinLength - 1) /\ line \in BOOLEAN
      BY <1>2, <2>3, MoveDoes DEF Rules!WonBy, Rules!Opponent, Turns!WonBy, Turns!Opponent, LineOn
    <3> HIDE DEF line
    <3>2. line \in Turns!LineOutcomes(g)
      BY <3>1 DEF Turns!LineOutcomes
    <3>3. "free" \in Turns!CellsOf(g) /\ stone \in Turns!Players
      BY DEF Turns!CellsOf, Turns!Players, Rules!Players
    <3>4. Turns!MoveResult(g, stone, "free") = "Success"
      BY <3>1, <3>3 DEF Turns!MoveResult
    <3>5. g' = Turns!Placed(g, stone, line)
      BY <3>1 DEF Turns!Placed
    <3> QED
      BY <3>2, <3>3, <3>4, <3>5 DEF Turns!Move
  <2>4. ASSUME NEW loser \in Rules!Players, Forfeit(loser) PROVE Turns!Forfeit
    <3>1. /\ status = "Playing" /\ loser \in Turns!Players /\ UNCHANGED moveCount
          /\ status' = Turns!WonBy(Turns!Opponent(loser)) /\ nextTurn' = "Empty"
      BY <2>4 DEF Forfeit, Turns!WonBy, Turns!Opponent, Turns!Players, Rules!Players,
                  Rules!WonBy, Rules!Opponent
    <3>2. Turns!CanForfeit(g, loser)
      BY <3>1 DEF Turns!CanForfeit
    <3>3. g' = [status |-> Turns!WonBy(Turns!Opponent(loser)), next |-> "Empty",
                moves |-> moveCount]
      BY <3>1
    <3>4. g' = Turns!Forfeited(g, loser)
      BY <3>3, ForfeitedIs
    <3> QED
      BY <3>1, <3>2, <3>4 DEF Turns!Forfeit
  <2>5. CASE UNCHANGED vars
    BY <2>5 DEF vars
  <2> QED
    BY <1>2, <2>1, <2>2, <2>3, <2>4, <2>5 DEF Next, Turns!Next
<1> QED
  BY <1>1, <1>2, OmokInvariance, PTL DEF Spec, ImplementsTurns, Turns!Spec
=============================================================================
