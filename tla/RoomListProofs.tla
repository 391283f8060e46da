---------------------------- MODULE RoomListProofs ----------------------------
(***************************************************************************)
(* Theorems about RoomList: whoever walks through the pages of the rooms   *)
(* sees every room that was there all along, in order and none twice; no   *)
(* page is too much for the codec; and no number is read for another one.  *)
(* They hold for every page size, every largest room id, numbers of every  *)
(* length in every base, and however rooms come and go between two pages.  *)
(*                                                                         *)
(* Three facts carry the walk.  GetRoomsAfterIs: a page leaves no room out *)
(* between its first and its last.  ParseRoomIdIs: the digits are refused  *)
(* exactly when their number is too large, because the test before each    *)
(* step is as strict as the step would be.  PrintedIsRead: the id printed  *)
(* under a page is read as that id.  The inductive invariant WalkInv adds  *)
(* that a walk goes upwards; that rooms are sound comes from the managers. *)
(***************************************************************************)
EXTENDS RoomList, RoomManagerProofs, Recursion

-----------------------------------------------------------------------------
(* Arithmetic *)

\* Division with a remainder.
LEMMA Division ==
  ASSUME NEW n \in Nat, NEW b \in Nat, b >= 1
  PROVE  /\ n \div b \in Nat /\ n % b \in 0..(b - 1)
         /\ n = (n \div b) * b + (n % b)
         /\ b >= 2 /\ n >= b => n \div b < n
OBVIOUS

LEMMA Times ==
  ASSUME NEW a \in Nat, NEW c \in Nat, NEW b \in Nat, a <= c
  PROVE  a * b <= c * b /\ a * b \in Nat
OBVIOUS

\* The quotient is the largest number whose multiple still fits.
LEMMA QuotientLess ==
  ASSUME NEW v \in Nat, NEW m \in Nat, NEW b \in Nat, b >= 1
  PROVE  v > m \div b <=> v * b > m
<1>1. PICK q \in Nat : \E r \in 0..(b - 1) : q = m \div b /\ m = q * b + r
  BY Division
<1>2. PICK r \in 0..(b - 1) : q = m \div b /\ m = q * b + r
  BY <1>1
<1>3. CASE v <= q
  <2>1. v * b <= q * b
    BY <1>3, Times
  <2> QED
    BY <1>2, <1>3, <2>1
<1>4. CASE q + 1 <= v
  <2>1. (q + 1) * b <= v * b
    BY <1>4, Times
  <2>2. (q + 1) * b = q * b + b
    OBVIOUS
  <2> QED
    BY <1>2, <1>4, <2>1, <2>2
<1> QED
  BY <1>3, <1>4

-----------------------------------------------------------------------------
(* Rooms in the order of their ids *)

Enumerates(q, U) ==
  q \in [1..Cardinality(U) -> U] /\ \A i, j \in DOMAIN q : i < j => q[i] < q[j]

\* Finitely many numbers can be put in order: the least one before the others.
LEMMA EnumerationExists ==
  ASSUME NEW S \in SUBSET Nat, IsFiniteSet(S)
  PROVE  \E q : Enumerates(q, S)
<1> DEFINE N == Cardinality(S)
           All(n) == \A U \in SUBSET S : Cardinality(U) = n => \E q : Enumerates(q, U)
           T == {n \in 0..N : All(n)}
<1>1. N \in Nat
  BY FS_CardinalityType
<1>2. \A U \in SUBSET S : IsFiniteSet(U) /\ Cardinality(U) \in Nat
  BY FS_Subset, FS_CardinalityType
<1> HIDE DEF N
<1>3. 0 \in T
  <2> SUFFICES ASSUME NEW U \in SUBSET S, Cardinality(U) = 0 PROVE \E q : Enumerates(q, U)
    BY <1>1
  <2>1. U = {}
    BY <1>2, FS_EmptySet
  <2>2. Enumerates(<<>>, U)
    BY <2>1 DEF Enumerates
  <2> QED
    BY <2>2
<1>4. ASSUME NEW n \in 0..N, n < N, n \in T PROVE n + 1 \in T
  <2>1. ASSUME NEW U \in SUBSET S, Cardinality(U) = n + 1 PROVE \E q : Enumerates(q, U)
    <3>1. U # {}
      BY <1>1, <2>1, FS_EmptySet
    <3>2. PICK m \in U : \A k \in U : m <= k
      BY <3>1, NatLeast
    <3> DEFINE V == U \ {m}
    <3>3. Cardinality(V) = n
      BY <1>1, <1>2, <2>1, FS_RemoveElement
    <3>4. PICK e : Enumerates(e, V)
      BY <1>4, <3>3
    <3>5. e \in [1..n -> V] /\ \A i, j \in 1..n : i < j => e[i] < e[j]
      BY <3>3, <3>4 DEF Enumerates
    <3> DEFINE q == [i \in 1..(n + 1) |-> IF i = 1 THEN m ELSE e[i - 1]]
    <3>6. \A i \in 1..(n + 1) : i # 1 => i - 1 \in 1..n /\ e[i - 1] \in V
      BY <1>1, <3>5
    <3>7. q \in [1..(n + 1) -> U]
      BY <3>6
    <3>8. ASSUME NEW i \in 1..(n + 1), NEW j \in 1..(n + 1), i < j PROVE q[i] < q[j]
      <4>1. j # 1 /\ q[j] = e[j - 1] /\ j - 1 \in 1..n /\ e[j - 1] \in V
        BY <1>1, <3>6, <3>8
      <4>2. CASE i = 1
        <5>1. m \in Nat /\ e[j - 1] \in Nat /\ m <= e[j - 1] /\ m # e[j - 1]
          BY <3>2, <4>1
        <5> QED
          BY <4>1, <4>2, <5>1
      <4>3. CASE i # 1
        <5>1. i - 1 \in 1..n /\ q[i] = e[i - 1] /\ i - 1 < j - 1
          BY <1>1, <3>6, <3>8, <4>3
        <5> HIDE DEF q
        <5> QED
          BY <3>5, <4>1, <5>1
      <4> QED
        BY <4>2, <4>3
    <3> HIDE DEF q
    <3> QED
      BY <2>1, <3>7, <3>8 DEF Enumerates
  <2>2. All(n + 1)
    BY <2>1
  <2> HIDE DEF All
  <2> QED
    BY <1>1, <1>4, <2>2
<1>5. 0..N \subseteq T
  <2> HIDE DEF T
  <2> QED
    BY <1>1, <1>3, <1>4, UpTo
<1>6. N \in T
  BY <1>1, <1>5
<1> QED
  BY <1>6 DEF N

\* std::sort: the rooms in order, each of them somewhere.
LEMMA SortedIs ==
  ASSUME NEW S \in SUBSET Nat, IsFiniteSet(S)
  PROVE  /\ Cardinality(S) \in Nat /\ Sorted(S) \in [1..Cardinality(S) -> S]
         /\ \A i, j \in 1..Cardinality(S) : i < j => Sorted(S)[i] < Sorted(S)[j]
         /\ \A r \in S : \E i \in 1..Cardinality(S) : Sorted(S)[i] = r
<1> DEFINE n == Cardinality(S)
           q == Sorted(S)
<1>1. n \in Nat
  BY FS_CardinalityType
<1>2. Enumerates(q, S)
  BY EnumerationExists DEF Sorted, Enumerates
<1>3. q \in [1..n -> S] /\ \A i, j \in 1..n : i < j => q[i] < q[j]
  BY <1>2 DEF Enumerates
<1> HIDE DEF q
<1>4. {q[i] : i \in 1..n} = S
  <2> DEFINE R == {q[i] : i \in 1..n}
  <2>1. q \in Bijection(1..n, R)
    <3>1. \A i, j \in 1..n : i # j => q[i] # q[j]
      <4> SUFFICES ASSUME NEW i \in 1..n, NEW j \in 1..n, i # j PROVE q[i] # q[j]
        OBVIOUS
      <4>1. i < j \/ j < i
        BY <1>1
      <4>2. q[i] \in Nat /\ q[j] \in Nat
        BY <1>3
      <4> QED
        BY <1>3, <4>1, <4>2
    <3>2. q \in [1..n -> R] /\ \A r \in R : \E i \in 1..n : q[i] = r
      BY <1>3
    <3>3. IsInjective(q)
      BY <1>3, <3>1 DEF IsInjective
    <3> HIDE DEF R
    <3> QED
      BY <3>2, <3>3 DEF Bijection, Injection, Surjection
  <2>2. IsFiniteSet(1..n) /\ Cardinality(1..n) = n
    BY <1>1, FS_Interval
  <2>3. R \subseteq S
    BY <1>3
  <2> HIDE DEF R
  <2>4. ExistsBijection(1..n, R)
    BY <2>1 DEF ExistsBijection
  <2>5. Cardinality(R) = n
    BY <2>2, <2>4, FS_Bijection
  <2>6. R = S
    BY <2>3, <2>5, FS_Subset
  <2> QED
    BY <2>6 DEF R
<1> QED
  BY <1>1, <1>3, <1>4 DEF q

-----------------------------------------------------------------------------
(* One page *)

\* A page of the rooms after an id, and whether there is another.
PageOf(ids, k, after, more) ==
  /\ ids \in [1..k -> {r \in LiveRooms : r > after}]
  /\ \A i, j \in 1..k : i < j => ids[i] < ids[j]
  /\ more => k >= 1 /\ \A r \in LiveRooms : r > after /\ r <= ids[k] => \E i \in 1..k : ids[i] = r
  /\ ~more => \A r \in LiveRooms : r > after => \E i \in 1..k : ids[i] = r

\* GetRoomsAfter leaves no room out between the first and the last of a page, and none at
\* all on the last page.
LEMMA GetRoomsAfterIs ==
  ASSUME NEW after \in Nat
  PROVE  \E k \in 0..PageSize : \E ids :
           /\ GetRoomsAfter(after).rooms = [i \in 1..k |-> RoomInfo(ids[i])]
           /\ GetRoomsAfter(after).hasMore \in BOOLEAN
           /\ PageOf(ids, k, after, GetRoomsAfter(after).hasMore)
<1> DEFINE L == {r \in LiveRooms : r > after}
           n == Cardinality(L)
           all == Sorted(L)
           k == IF n > PageSize THEN PageSize ELSE n
           ids == [i \in 1..k |-> all[i]]
           more == n > PageSize
<1>1. IsFiniteSet(L) /\ L \in SUBSET Nat
  <2>1. IsFiniteSet(RoomIds) /\ L \subseteq RoomIds /\ RoomIds \subseteq Nat
    BY ManagerConstants, FS_Interval DEF RoomIds, LiveRooms
  <2> QED
    BY <2>1, FS_Subset
<1> HIDE DEF L
<1>2. /\ n \in Nat /\ all \in [1..n -> L]
      /\ \A i, j \in 1..n : i < j => all[i] < all[j]
      /\ \A r \in L : \E i \in 1..n : all[i] = r
  BY <1>1, SortedIs
<1>3. Len(all) = n
  BY <1>2
<1>4. /\ GetRoomsAfter(after).rooms = [i \in 1..k |-> RoomInfo(all[i])]
      /\ GetRoomsAfter(after).hasMore = more
  BY <1>3 DEF GetRoomsAfter, L
<1> HIDE DEF n, all
<1>5. k \in 0..PageSize /\ k <= n /\ (more => k >= 1) /\ (~more => k = n)
  BY <1>2, ListConstants
<1> HIDE DEF k
<1>6. ids \in [1..k -> L] /\ \A i, j \in 1..k : i < j => ids[i] < ids[j]
  BY <1>2, <1>5
<1>7. ASSUME more, NEW r \in L, r <= ids[k] PROVE \E i \in 1..k : ids[i] = r
  <2>1. PICK j \in 1..n : all[j] = r
    BY <1>2
  <2>2. k \in 1..n /\ ids[k] = all[k]
    BY <1>2, <1>5, <1>7
  <2>3. all[k] \in Nat /\ r \in Nat
    BY <1>1, <1>2, <2>2
  <2>4. ~(k < j)
    BY <1>2, <1>7, <2>1, <2>2, <2>3
  <2>5. j \in 1..k
    BY <1>2, <1>5, <2>4
  <2> QED
    BY <2>1, <2>5
<1>8. ASSUME ~more, NEW r \in L PROVE \E i \in 1..k : ids[i] = r
  BY <1>2, <1>5, <1>8
<1>9. GetRoomsAfter(after).rooms = [i \in 1..k |-> RoomInfo(ids[i])]
  BY <1>4
<1> HIDE DEF ids, more
<1>10. PageOf(ids, k, after, more)
  BY <1>5, <1>6, <1>7, <1>8 DEF PageOf, L
<1>11. more \in BOOLEAN
  BY DEF more
<1> QED
  BY <1>4, <1>5, <1>9, <1>10, <1>11

\* What HandleRoomList answers passes the codec's tests, and names the rooms of a page.
LEMMA AnswerIs ==
  ASSUME Inv, NEW s \in Sessions, NEW after \in Nat, NEW m, m = RoomListResponse(s, after)
  PROVE  /\ IsValidRoomList(m, PageSize)
         /\ m.result = "Success" => \E k \in 0..PageSize : \E ids :
              /\ [i \in DOMAIN m.rooms |-> m.rooms[i].room] = ids
              /\ m.hasMore \in BOOLEAN
              /\ PageOf(ids, k, after, m.hasMore)
<1>1. CASE m.result # "Success"
  <2>1. m.rooms = <<>> /\ m.hasMore = FALSE
    BY <1>1 DEF RoomListResponse
  <2>2. Len(m.rooms) = 0 /\ DOMAIN m.rooms = {}
    BY <2>1
  <2> QED
    BY <1>1, <2>1, <2>2, ListConstants DEF IsValidRoomList
<1>2. CASE m.result = "Success"
  <2>1. m.rooms = GetRoomsAfter(after).rooms /\ m.hasMore = GetRoomsAfter(after).hasMore
    BY <1>2 DEF RoomListResponse
  <2> DEFINE Answer(k, ids) == /\ m.rooms = [i \in 1..k |-> RoomInfo(ids[i])]
                               /\ m.hasMore \in BOOLEAN
                               /\ PageOf(ids, k, after, m.hasMore)
  <2>2. \E k \in 0..PageSize : \E ids : Answer(k, ids)
    BY <2>1, GetRoomsAfterIs
  <2>3. PICK k \in 0..PageSize : \E ids : Answer(k, ids)
    BY <2>2
  <2>4. PICK ids : Answer(k, ids)
    BY <2>3
  <2>5. k \in Nat /\ Len(m.rooms) = k /\ DOMAIN m.rooms = 1..k
    BY <2>4, ListConstants
  <2>6. ids \in [1..k -> {r \in LiveRooms : r > after}]
    BY <2>4 DEF PageOf
  <2>7. ASSUME NEW i \in 1..k
        PROVE  /\ ids[i] \in Nat /\ ids[i] > after /\ m.rooms[i].room = ids[i]
               /\ m.rooms[i].capacity # 0 /\ m.rooms[i].users <= m.rooms[i].capacity
    <3>1. ids[i] \in LiveRooms /\ ids[i] > after
      BY <2>6
    <3>2. Cardinality(rooms[ids[i]].members) <= Capacity
      BY <3>1, LiveRoomsGood DEF GoodRoom, RoomSound
    <3>3. m.rooms[i] = RoomInfo(ids[i])
      BY <2>4
    <3> QED
      BY <3>1, <3>2, <3>3 DEF RoomInfo, Capacity, LiveRooms, RoomIds
  <2>8. ASSUME NEW i \in 1..k, i # 1 PROVE m.rooms[i].room > m.rooms[i - 1].room
    <3>1. i - 1 \in 1..k /\ i - 1 < i
      BY <2>5, <2>8
    <3>2. ids[i - 1] < ids[i]
      BY <2>4, <3>1 DEF PageOf
    <3> QED
      BY <2>7, <3>1, <3>2
  <2>9. m.hasMore => m.rooms # <<>>
    <3>1. m.hasMore => k >= 1
      BY <2>4 DEF PageOf
    <3> QED
      BY <2>5, <3>1
  <2>10. IsValidRoomList(m, PageSize)
    <3>1. Len(m.rooms) <= PageSize
      BY <2>5, ListConstants
    <3>2. \A i \in DOMAIN m.rooms : m.rooms[i].room > (IF i = 1 THEN 0 ELSE m.rooms[i - 1].room)
      BY <2>5, <2>7, <2>8
    <3> QED
      BY <1>2, <2>5, <2>7, <2>9, <3>1, <3>2 DEF IsValidRoomList
  <2>11. [i \in DOMAIN m.rooms |-> m.rooms[i].room] = ids
    BY <2>5, <2>6, <2>7
  <2> QED
    BY <2>4, <2>10, <2>11
<1> QED
  BY <1>1, <1>2

-----------------------------------------------------------------------------
(* Numbers *)

Digits == 0..(Base - 1)

\* The values on the way through the digits of a text, and what the parser makes of them.
Values(text, v) ==
  /\ v \in [0..Len(text) -> Nat] /\ v[0] = 0
  /\ \A k \in 1..Len(text) : v[k] = v[k - 1] * Base + text[k]

Parsed(text, p) ==
  /\ p \in [0..Len(text) -> 0..Overflow] /\ p[0] = 0
  /\ \A k \in 1..Len(text) : p[k] = NextDigit(p[k - 1], text[k])

\* A number, or that it is too large.
Clip(value) == IF value <= MaxRoomId THEN value ELSE Overflow

\* A digit more, and its value stays that of the digits or is found too large.
LEMMA NextDigitIs ==
  ASSUME NEW value \in Nat, NEW digit \in Digits
  PROVE  /\ value * Base + digit \in Nat
         /\ NextDigit(Clip(value), digit) = Clip(value * Base + digit)
<1> DEFINE m == MaxRoomId - digit
           next == value * Base + digit
<1>1. Base \in Nat /\ Base >= 2 /\ MaxRoomId \in Nat /\ digit \in Nat /\ m \in Nat
  BY ListConstants, ManagerConstants DEF Digits
<1>2. value * Base \in Nat /\ value <= value * Base
  <2>1. value * Base \in Nat
    BY <1>1, Times
  <2>2. value <= value * Base
    BY <1>1
  <2> QED
    BY <2>1, <2>2
<1>3. value > m \div Base <=> next > MaxRoomId
  BY <1>1, <1>2, QuotientLess
<1>4. CASE value > MaxRoomId
  <2>1. next > MaxRoomId
    BY <1>1, <1>2, <1>4
  <2> QED
    BY <1>1, <1>2, <1>4, <2>1 DEF Clip, NextDigit
<1>5. CASE value <= MaxRoomId
  <2>1. Clip(value) = value /\ value # Overflow
    BY <1>1, <1>5 DEF Clip, Overflow
  <2>2. CASE next > MaxRoomId
    BY <1>1, <1>3, <2>1, <2>2 DEF Clip, NextDigit
  <2>3. CASE next <= MaxRoomId
    <3>1. next % (MaxRoomId + 1) = next
      BY <1>1, <1>2, <2>3
    <3> QED
      BY <1>1, <1>3, <2>1, <2>3, <3>1 DEF Clip, NextDigit
  <2> QED
    BY <1>1, <1>2, <2>2, <2>3
<1> QED
  BY <1>1, <1>2, <1>4, <1>5

\* The parser's function, which ParseRoomId defines.
Parsing(text) ==
  CHOOSE f : f = [k \in 0..Len(text) |-> IF k = 0 THEN 0 ELSE NextDigit(f[k - 1], text[k])]

LEMMA ParsingIs ==
  ASSUME NEW text \in Seq(Digits)
  PROVE  /\ Parsed(text, Parsing(text))
         /\ ParseRoomId(text) = IF text = <<>> THEN Overflow ELSE Parsing(text)[Len(text)]
<1> DEFINE n == Len(text)
           V == 0..Overflow
           step == [k \in 1..n |-> [x \in V |-> NextDigit(x, text[k])]]
           Eq(f) == f = [k \in 0..n |-> IF k = 0 THEN 0 ELSE NextDigit(f[k - 1], text[k])]
           p == Parsing(text)
<1>1. n \in Nat /\ 0 \in V /\ \A k \in 1..n : text[k] \in Digits
  BY ManagerConstants DEF Overflow
<1>2. \A x \in V, d \in Digits : NextDigit(x, d) \in V
  <2> SUFFICES ASSUME NEW x \in V, NEW d \in Digits, NextDigit(x, d) # Overflow
               PROVE  NextDigit(x, d) \in V
    BY ManagerConstants DEF Overflow
  <2>1. x \in Nat /\ Base \in Nat /\ d \in Nat /\ MaxRoomId \in Nat
    BY ListConstants, ManagerConstants DEF Overflow, Digits
  <2>2. x * Base + d \in Nat
    BY <2>1, Times
  <2>3. (x * Base + d) % (MaxRoomId + 1) \in 0..MaxRoomId
    BY <2>1, <2>2, Division
  <2> QED
    BY <2>1, <2>3 DEF NextDigit, Overflow
<1>3. step \in [1..n -> [V -> V]]
  BY <1>1, <1>2
<1> HIDE DEF n, V
<1>4. PICK f : Iterates(f, V, 0, n, step)
  <2> HIDE DEF step
  <2> QED
    BY <1>1, <1>3, Recursive
<1>5. Eq(f)
  <2>1. \A k \in 1..n : k - 1 \in 0..n
    BY <1>1
  <2>2. \A k \in 1..n : f[k] = NextDigit(f[k - 1], text[k])
    BY <1>4, <2>1 DEF Iterates
  <2>3. \A k \in 0..n : k # 0 => k \in 1..n
    BY <1>1
  <2> HIDE DEF step
  <2> QED
    BY <1>4, <2>2, <2>3 DEF Iterates
<1>6. Eq(p)
  BY <1>5 DEF Parsing, n
<1> HIDE DEF p
<1>7. p[0] = 0 /\ \A k \in 1..n : p[k] = NextDigit(p[k - 1], text[k])
  BY <1>1, <1>6
<1>8. \A k \in 0..n : p[k] \in V
  BY <1>1, <1>2, <1>7, StaysIn
<1>9. Parsed(text, p)
  BY <1>6, <1>7, <1>8 DEF Parsed, n, V
<1> QED
  BY <1>9 DEF ParseRoomId, Parsing, p

\* The function of ValueOf.
Valuing(text) ==
  CHOOSE f : f = [k \in 0..Len(text) |-> IF k = 0 THEN 0 ELSE f[k - 1] * Base + text[k]]

LEMMA ValuingIs ==
  ASSUME NEW text \in Seq(Digits)
  PROVE  /\ Values(text, Valuing(text))
         /\ ValueOf(text) = Valuing(text)[Len(text)] /\ ValueOf(text) \in Nat
<1> DEFINE n == Len(text)
           step == [k \in 1..n |-> [x \in Nat |-> x * Base + text[k]]]
           Eq(f) == f = [k \in 0..n |-> IF k = 0 THEN 0 ELSE f[k - 1] * Base + text[k]]
           v == Valuing(text)
<1>1. n \in Nat /\ \A k \in 1..n : text[k] \in Digits
  OBVIOUS
<1>2. \A x \in Nat, d \in Digits : x * Base + d \in Nat
  BY ListConstants, Times DEF Digits
<1>3. step \in [1..n -> [Nat -> Nat]]
  BY <1>1, <1>2
<1> HIDE DEF n
<1>4. PICK f : Iterates(f, Nat, 0, n, step)
  <2> HIDE DEF step
  <2> QED
    BY <1>1, <1>3, Recursive
<1>5. Eq(f)
  <2>1. \A k \in 1..n : k - 1 \in 0..n
    BY <1>1
  <2>2. \A k \in 1..n : f[k] = f[k - 1] * Base + text[k]
    BY <1>4, <2>1 DEF Iterates
  <2>3. \A k \in 0..n : k # 0 => k \in 1..n
    BY <1>1
  <2> HIDE DEF step
  <2> QED
    BY <1>4, <2>2, <2>3 DEF Iterates
<1>6. Eq(v)
  BY <1>5 DEF Valuing, n
<1> HIDE DEF v
<1>7. v[0] = 0 /\ \A k \in 1..n : v[k] = v[k - 1] * Base + text[k]
  BY <1>1, <1>6
<1>8. \A k \in 0..n : v[k] \in Nat
  <2>1. \A k \in 1..n : v[k - 1] \in Nat => v[k] \in Nat
    BY <1>1, <1>2, <1>7
  <2>2. v[0] \in Nat
    BY <1>7
  <2> QED
    BY <1>1, <2>1, <2>2, StaysIn
<1>9. Values(text, v)
  BY <1>6, <1>7, <1>8 DEF Values, n
<1>10. v[n] \in Nat
  BY <1>1, <1>8
<1> QED
  BY <1>9, <1>10 DEF ValueOf, Valuing, v, n

\* TryParseRoomId: the number of the digits, or a refusal if there are none or no room can
\* have it.
LEMMA ParseRoomIdIs ==
  ASSUME NEW text \in Seq(Digits)
  PROVE  ParseRoomId(text) = IF text = <<>> THEN Overflow ELSE Clip(ValueOf(text))
<1> DEFINE n == Len(text)
           v == Valuing(text)
           p == Parsing(text)
           T == {k \in 0..n : p[k] = Clip(v[k])}
<1>1. n \in Nat /\ \A k \in 1..n : text[k] \in Digits
  OBVIOUS
<1>2. /\ v \in [0..n -> Nat] /\ v[0] = 0
      /\ \A k \in 1..n : v[k] = v[k - 1] * Base + text[k]
  BY ValuingIs DEF Values
<1>3. p[0] = 0 /\ \A k \in 1..n : p[k] = NextDigit(p[k - 1], text[k])
  BY ParsingIs DEF Parsed
<1> HIDE DEF n, v, p
<1>4. 0 \in T
  BY <1>1, <1>2, <1>3, ManagerConstants DEF Clip
<1>5. ASSUME NEW k \in 0..n, k < n, k \in T PROVE k + 1 \in T
  <2>1. k + 1 \in 1..n /\ k + 1 \in 0..n /\ (k + 1) - 1 = k
    BY <1>1, <1>5
  <2>2. p[k + 1] = NextDigit(p[k], text[k + 1]) /\ v[k + 1] = v[k] * Base + text[k + 1]
    BY <1>2, <1>3, <2>1
  <2>3. v[k] \in Nat /\ p[k] = Clip(v[k])
    BY <1>2, <1>5
  <2>4. p[k + 1] = Clip(v[k + 1])
    BY <1>1, <2>1, <2>2, <2>3, NextDigitIs
  <2> QED
    BY <2>1, <2>4
<1>6. 0..n \subseteq T
  <2> HIDE DEF T
  <2> QED
    BY <1>1, <1>4, <1>5, UpTo
<1>7. p[n] = Clip(v[n])
  BY <1>1, <1>6
<1> QED
  BY <1>7, ParsingIs, ValuingIs DEF n, v, p

\* A digit written after others.
LEMMA ValueAppend ==
  ASSUME NEW text \in Seq(Digits), NEW d \in Digits
  PROVE  ValueOf(Append(text, d)) = ValueOf(text) * Base + d
<1> DEFINE n == Len(text)
           a == Append(text, d)
           v == Valuing(text)
           w == Valuing(a)
           T == {k \in 0..n : w[k] = v[k]}
<1>1. /\ a \in Seq(Digits) /\ Len(a) = n + 1 /\ n \in Nat
      /\ \A k \in 1..n : a[k] = text[k]
      /\ a[n + 1] = d
  BY AppendProperties
<1> HIDE DEF a
<1>2. v[0] = 0 /\ \A k \in 1..n : v[k] = v[k - 1] * Base + text[k]
  BY ValuingIs DEF Values
<1>3. w[0] = 0 /\ \A k \in 1..(n + 1) : w[k] = w[k - 1] * Base + a[k]
  BY <1>1, ValuingIs DEF Values
<1>4. ValueOf(text) = v[n] /\ ValueOf(a) = w[n + 1]
  BY <1>1, ValuingIs
<1> HIDE DEF n, v, w
<1>5. 0 \in T
  BY <1>1, <1>2, <1>3
<1>6. ASSUME NEW k \in 0..n, k < n, k \in T PROVE k + 1 \in T
  <2>1. k + 1 \in 1..n /\ k + 1 \in 1..(n + 1) /\ k + 1 \in 0..n /\ (k + 1) - 1 = k
    BY <1>1, <1>6
  <2>2. w[k + 1] = w[k] * Base + a[k + 1] /\ v[k + 1] = v[k] * Base + text[k + 1]
    BY <1>2, <1>3, <2>1
  <2> QED
    BY <1>1, <1>6, <2>1, <2>2
<1>7. 0..n \subseteq T
  <2> HIDE DEF T
  <2> QED
    BY <1>1, <1>5, <1>6, UpTo
<1>8. w[n] = v[n]
  BY <1>1, <1>7
<1>9. n + 1 \in 1..(n + 1) /\ (n + 1) - 1 = n
  BY <1>1
<1>10. w[n + 1] = v[n] * Base + d
  BY <1>1, <1>3, <1>8, <1>9
<1> QED
  BY <1>4, <1>10 DEF a

\* Below the base a number is one digit; another is its quotient's text and a digit.
WrittenWith(f, r) == IF r < Base THEN <<r>> ELSE Append(f[r \div Base], r % Base)

Writing(f, m) == \A r \in 0..m : f[r] = WrittenWith(f, r)

\* The quotient is a smaller number.
LEMMA QuotientIs ==
  ASSUME NEW r \in Nat
  PROVE  /\ r < Base => r \in Digits
         /\ r >= Base => /\ r \div Base \in 0..(r - 1) /\ r % Base \in Digits
                         /\ r = (r \div Base) * Base + (r % Base)
<1>1. Base \in Nat /\ Base >= 1 /\ Base >= 2
  BY ListConstants
<1>2. /\ r \div Base \in Nat /\ r % Base \in 0..(Base - 1)
      /\ r = (r \div Base) * Base + (r % Base)
      /\ r >= Base => r \div Base < r
  BY <1>1, Division
<1> DEFINE q == r \div Base
           d == r % Base
<1>3. q \in Nat /\ d \in Digits /\ r = q * Base + d /\ (r >= Base => q < r)
  BY <1>2 DEF Digits
<1>4. r < Base => r \in Digits
  BY <1>1 DEF Digits
<1> HIDE DEF q, d
<1>5. r >= Base => q \in 0..(r - 1)
  BY <1>3
<1> QED
  BY <1>3, <1>4, <1>5 DEF q, d

\* The text of a number, when those of the smaller ones are texts.
LEMMA WrittenWithIs ==
  ASSUME NEW r \in Nat, NEW f, \A q \in 0..(r - 1) : f[q] \in Seq(Digits) \ {<<>>}
  PROVE  WrittenWith(f, r) \in Seq(Digits) \ {<<>>}
<1>1. CASE r < Base
  <2>1. r \in Digits
    BY <1>1, QuotientIs
  <2>2. <<r>> \in Seq(Digits) \ {<<>>}
    BY <2>1
  <2> QED
    BY <1>1, <2>2 DEF WrittenWith
<1>2. CASE ~(r < Base)
  <2>1. r \div Base \in 0..(r - 1) /\ r % Base \in Digits
    <3>1. r >= Base
      BY <1>2, ListConstants
    <3> QED
      BY <3>1, QuotientIs
  <2>2. Append(f[r \div Base], r % Base) \in Seq(Digits) \ {<<>>}
    <3>1. \A t \in Seq(Digits), d \in Digits : Append(t, d) \in Seq(Digits) \ {<<>>}
      BY AppendProperties
    <3> QED
      BY <2>1, <3>1
  <2> QED
    BY <1>2, <2>2 DEF WrittenWith
<1> QED
  BY <1>1, <1>2

\* It depends on the texts of the smaller ones only.
LEMMA WrittenWithSame ==
  ASSUME NEW r \in Nat, NEW f, NEW g, \A q \in 0..(r - 1) : f[q] = g[q]
  PROVE  WrittenWith(f, r) = WrittenWith(g, r)
<1>1. ~(r < Base) => f[r \div Base] = g[r \div Base]
  <2>1. ~(r < Base) => r >= Base
    BY ListConstants
  <2> QED
    BY <2>1, QuotientIs
<1> QED
  BY <1>1 DEF WrittenWith

\* What is written is a text of digits.
LEMMA TextOfIs ==
  /\ Writing(TextOf, MaxRoomId)
  /\ \A r \in 0..MaxRoomId : TextOf[r] \in Seq(Digits) \ {<<>>}
<1> DEFINE N == MaxRoomId
           D == Seq(Digits) \ {<<>>}
           Has(m) == \E f \in [0..m -> D] : Writing(f, m)
           T == {m \in 0..N : Has(m)}
           Eq(f) == f = [r \in 0..N |-> WrittenWith(f, r)]
<1>1. N \in Nat
  BY ManagerConstants
<1> HIDE DEF N
<1>2. 0 \in T
  <2> DEFINE f == [r \in 0..0 |-> WrittenWith(<<>>, 0)]
  <2>1. WrittenWith(<<>>, 0) \in D
    BY WrittenWithIs
  <2>2. WrittenWith(f, 0) = WrittenWith(<<>>, 0)
    BY WrittenWithSame
  <2>3. f \in [0..0 -> D] /\ \A r \in 0..0 : f[r] = WrittenWith(f, r)
    BY <2>1, <2>2
  <2> HIDE DEF f
  <2> QED
    BY <1>1, <2>3 DEF Writing
<1>3. ASSUME NEW m \in 0..N, m < N, m \in T PROVE m + 1 \in T
  <2>1. PICK f \in [0..m -> D] : Writing(f, m)
    BY <1>3
  <2> DEFINE g == [r \in 0..(m + 1) |-> IF r = m + 1 THEN WrittenWith(f, r) ELSE f[r]]
  <2>2. WrittenWith(f, m + 1) \in D
    <3>1. m + 1 \in Nat /\ (m + 1) - 1 = m
      BY <1>3
    <3> QED
      BY <2>1, <3>1, WrittenWithIs
  <2>3. g \in [0..(m + 1) -> D]
    BY <1>3, <2>2
  <2>4. ASSUME NEW r \in 0..(m + 1) PROVE g[r] = WrittenWith(g, r)
    <3>1. g[r] = WrittenWith(f, r)
      <4>1. CASE r = m + 1
        BY <4>1
      <4>2. CASE r # m + 1
        <5>1. r \in 0..m
          BY <1>3, <4>2
        <5> QED
          BY <2>1, <4>2, <5>1 DEF Writing
      <4> QED
        BY <4>1, <4>2
    <3>2. \A q \in 0..(r - 1) : f[q] = g[q]
      BY <1>3
    <3>3. r \in Nat
      BY <1>3
    <3> HIDE DEF g
    <3> QED
      BY <3>1, <3>2, <3>3, WrittenWithSame
  <2>5. Has(m + 1)
    <3> HIDE DEF g
    <3> QED
      BY <2>3, <2>4 DEF Writing
  <2> HIDE DEF Has
  <2> QED
    BY <1>1, <1>3, <2>5
<1>4. 0..N \subseteq T
  <2> HIDE DEF T
  <2> QED
    BY <1>1, <1>2, <1>3, UpTo
<1>5. PICK f \in [0..N -> D] : Writing(f, N)
  <2>1. N \in T
    <3> HIDE DEF T
    <3> QED
      BY <1>1, <1>4
  <2> HIDE DEF D
  <2> QED
    BY <2>1
<1>6. Eq(f)
  BY <1>5 DEF Writing
<1>7. Eq(TextOf)
  BY <1>6 DEF TextOf, N, WrittenWith
<1>8. Writing(TextOf, N)
  BY <1>7 DEF Writing
<1> DEFINE S == {m \in 0..N : \A r \in 0..m : TextOf[r] \in D}
<1>9. ASSUME NEW m \in 0..N, \A q \in 0..(m - 1) : TextOf[q] \in D PROVE TextOf[m] \in D
  <2>1. WrittenWith(TextOf, m) \in D
    BY <1>1, <1>9, WrittenWithIs
  <2> QED
    BY <1>8, <2>1 DEF Writing
<1>10. 0 \in S
  BY <1>1, <1>9
<1>11. ASSUME NEW m \in 0..N, m < N, m \in S PROVE m + 1 \in S
  <2>1. m + 1 \in 0..N /\ (m + 1) - 1 = m
    BY <1>1, <1>11
  <2>2. TextOf[m + 1] \in D
    BY <1>9, <1>11, <2>1
  <2>3. \A r \in 0..(m + 1) : r \in 0..m \/ r = m + 1
    BY <1>11
  <2> QED
    BY <1>11, <2>1, <2>2, <2>3
<1>12. 0..N \subseteq S
  <2> HIDE DEF S
  <2> QED
    BY <1>1, <1>10, <1>11, UpTo
<1>13. \A r \in 0..N : TextOf[r] \in D
  BY <1>1, <1>12
<1> QED
  BY <1>8, <1>13 DEF N

\* The id printed under a page is read as that id.
LEMMA PrintedIsRead ==
  ASSUME NEW r \in 0..MaxRoomId
  PROVE  ParseRoomId(TextOf[r]) = r
<1> DEFINE N == MaxRoomId
           T == {m \in 0..N : \A q \in 0..m : ValueOf(TextOf[q]) = q}
<1>1. N \in Nat
  BY ManagerConstants
<1>2. \A d \in Digits : ValueOf(<<d>>) = d
  <2> SUFFICES ASSUME NEW d \in Digits PROVE ValueOf(<<d>>) = d
    OBVIOUS
  <2>1. <<>> \in Seq(Digits) /\ Append(<<>>, d) = <<d>> /\ Len(<<>>) = 0
    OBVIOUS
  <2>2. ValueOf(<<>>) = 0
    BY <2>1, ValuingIs DEF Values
  <2>3. ValueOf(<<d>>) = 0 * Base + d
    BY <2>1, <2>2, ValueAppend
  <2>4. Base \in Nat /\ d \in Nat
    BY ListConstants DEF Digits
  <2> QED
    BY <2>3, <2>4
<1>3. \A q \in 0..N : TextOf[q] = WrittenWith(TextOf, q) /\ TextOf[q] \in Seq(Digits) \ {<<>>}
  BY TextOfIs DEF Writing
<1> HIDE DEF N
<1>4. ASSUME NEW q \in 0..N, \A k \in 0..(q - 1) : ValueOf(TextOf[k]) = k
      PROVE  ValueOf(TextOf[q]) = q
  <2>1. CASE q < Base
    <3>1. TextOf[q] = <<q>>
      BY <1>3, <2>1 DEF WrittenWith
    <3>2. q \in Digits
      BY <1>1, <2>1, QuotientIs
    <3> QED
      BY <1>2, <3>1, <3>2
  <2>2. CASE ~(q < Base)
    <3> DEFINE k == q \div Base
               d == q % Base
    <3>1. TextOf[q] = Append(TextOf[k], d)
      BY <1>3, <2>2 DEF WrittenWith
    <3>2. q >= Base
      BY <1>1, <2>2, ListConstants
    <3>3. k \in 0..(q - 1) /\ d \in Digits /\ q = k * Base + d
      BY <1>1, <3>2, QuotientIs
    <3> HIDE DEF k, d
    <3>4. ValueOf(TextOf[k]) = k
      BY <1>4, <3>3
    <3>5. k \in 0..N
      BY <1>1, <3>3
    <3> QED
      BY <1>3, <3>1, <3>3, <3>4, <3>5, ValueAppend
  <2> QED
    BY <2>1, <2>2
<1>5. 0 \in T
  BY <1>1, <1>4
<1>6. ASSUME NEW m \in 0..N, m < N, m \in T PROVE m + 1 \in T
  <2>1. m + 1 \in 0..N /\ (m + 1) - 1 = m
    BY <1>1, <1>6
  <2>2. ValueOf(TextOf[m + 1]) = m + 1
    BY <1>4, <1>6, <2>1
  <2>3. \A k \in 0..(m + 1) : k \in 0..m \/ k = m + 1
    BY <1>6
  <2> QED
    BY <1>6, <2>1, <2>2, <2>3
<1>7. 0..N \subseteq T
  <2> HIDE DEF T
  <2> QED
    BY <1>1, <1>5, <1>6, UpTo
<1>8. ValueOf(TextOf[r]) = r
  BY <1>1, <1>7 DEF N
<1>9. TextOf[r] \in Seq(Digits) /\ TextOf[r] # <<>>
  BY <1>3 DEF N
<1> QED
  BY <1>1, <1>8, <1>9, ParseRoomIdIs DEF Clip

-----------------------------------------------------------------------------
(* The walk *)

WalkType ==
  /\ walk \in [typed : Seq(Digits), after : 0..MaxRoomId, shown : Seq(RoomIds),
               since : SUBSET LiveRooms,
               step : {"idle", "asking", "usage", "refused", "done"}]

\* A walk goes upwards from what was typed: what was shown lies behind where the next page
\* begins.
Upwards ==
  /\ walk.step \in {"idle", "usage"} => walk.shown = <<>>
  /\ walk.step = "usage" => walk.typed = <<>> \/ ValueOf(walk.typed) > MaxRoomId
  /\ walk.step \notin {"idle", "usage"} =>
       walk.typed # <<>> /\ ValueOf(walk.typed) <= walk.after
  /\ \A i \in DOMAIN walk.shown : walk.shown[i] > ValueOf(walk.typed)
  /\ walk.step = "asking" => \A i \in DOMAIN walk.shown : walk.shown[i] <= walk.after

\* The inductive invariant of the walk, beside that of the rooms.
WalkInv == WalkType /\ Upwards /\ WalkSound

LEMMA BeginWalkInv ==
  ASSUME Inv, WalkInv, NEW text \in Texts, BeginWalk(text)
  PROVE  WalkInv'
<1> DEFINE id == ParseRoomId(text)
<1>1. /\ text \in Seq(Digits) /\ ValueOf(text) \in Nat /\ MaxRoomId \in Nat
      /\ id = IF text = <<>> THEN Overflow ELSE Clip(ValueOf(text))
  BY ListConstants, ManagerConstants, ParseRoomIdIs, ValuingIs DEF Digits
<1>2. LiveRooms' = LiveRooms
  BY DEF BeginWalk, vars, LiveRooms
<1>3. walk.step = "idle" /\ walk.shown = <<>> /\ WalkType
  BY DEF BeginWalk, WalkInv, Upwards
<1>4. CASE id = Overflow
  <2>1. text = <<>> \/ ValueOf(text) > MaxRoomId
    BY <1>1, <1>4 DEF Clip, Overflow
  <2>2. walk' = [walk EXCEPT !.typed = text, !.step = "usage"]
    BY <1>4 DEF BeginWalk
  <2>3. walk'.typed = text /\ walk'.step = "usage" /\ walk'.shown = <<>>
    BY <1>3, <2>2 DEF WalkType
  <2>4. WalkType'
    BY <1>1, <1>2, <1>3, <2>2 DEF WalkType
  <2> QED
    BY <2>1, <2>3, <2>4 DEF WalkInv, Upwards, WalkSound
<1>5. CASE id # Overflow
  <2>1. text # <<>> /\ id = ValueOf(text) /\ id \in 0..MaxRoomId
    BY <1>1, <1>5 DEF Clip, Overflow
  <2> HIDE DEF id
  <2>2. walk' = [walk EXCEPT !.typed = text, !.after = id, !.step = "asking",
                             !.since = {r \in LiveRooms : r > id}]
    BY <1>5 DEF BeginWalk, id
  <2>3. /\ walk'.typed = text /\ walk'.after = id /\ walk'.step = "asking"
        /\ walk'.since = {r \in LiveRooms : r > id} /\ walk'.shown = <<>>
    BY <1>3, <2>2 DEF WalkType
  <2>4. WalkType'
    BY <1>1, <1>2, <1>3, <2>1, <2>2 DEF WalkType
  <2>5. Upwards'
    BY <2>1, <2>3 DEF Upwards
  <2>6. {r \in walk'.since : r <= walk'.after} = {}
    BY <2>1, <2>3 DEF LiveRooms, RoomIds
  <2> QED
    BY <2>3, <2>4, <2>5, <2>6 DEF WalkInv, WalkSound
<1> QED
  BY <1>4, <1>5

Joins(old, ids, n, shown) == n = Len(old) /\ shown = old \o ids

\* What is shown after a page more.
LEMMA Joined ==
  ASSUME NEW old \in Seq(RoomIds), NEW n \in Nat, NEW k \in Nat,
         NEW ids \in [1..k -> RoomIds], NEW shown, Joins(old, ids, n, shown)
  PROVE  /\ shown \in Seq(RoomIds) /\ DOMAIN shown = 1..(n + k) /\ Len(ids) = k
         /\ \A i \in 1..n : i \in 1..(n + k) /\ shown[i] = old[i]
         /\ \A i \in 1..k : n + i \in 1..(n + k) /\ shown[n + i] = ids[i]
         /\ \A i \in 1..(n + k) : i \in 1..n \/ \E j \in 1..k : i = n + j
<1>1. n = Len(old) /\ shown = old \o ids
  BY DEF Joins
<1>2. ids \in Seq(RoomIds) /\ Len(ids) = k
  OBVIOUS
<1>3. shown \in Seq(RoomIds) /\ Len(shown) = n + k
  BY <1>1, <1>2, ConcatProperties
<1>4. \A i \in 1..n : shown[i] = old[i]
  BY <1>1, <1>2, <1>3, ConcatProperties
<1>5. \A i \in 1..k : n + i \in 1..(n + k) /\ shown[n + i] = ids[i]
  <2> SUFFICES ASSUME NEW i \in 1..k PROVE n + i \in 1..(n + k) /\ shown[n + i] = ids[i]
    OBVIOUS
  <2>1. n + i \in 1..(n + k) /\ n + i > n /\ (n + i) - n = i
    OBVIOUS
  <2> QED
    BY <1>1, <1>2, <2>1, ConcatProperties
<1>6. ASSUME NEW i \in 1..(n + k), i \notin 1..n PROVE \E j \in 1..k : i = n + j
  <2>1. i - n \in 1..k /\ i = n + (i - n)
    BY <1>6
  <2> QED
    BY <2>1
<1> QED
  BY <1>2, <1>3, <1>4, <1>5, <1>6

\* A page more: what was shown before lies before it.
LEMMA PageShown ==
  ASSUME Inv, WalkInv, walk.step = "asking", NEW k \in 0..PageSize, NEW ids, NEW more \in BOOLEAN,
         PageOf(ids, k, walk.after, more),
         NEW shown, Joins(walk.shown, ids, Len(walk.shown), shown)
  PROVE  /\ shown \in Seq(RoomIds)
         /\ \A i, j \in DOMAIN shown : i < j => shown[i] < shown[j]
         /\ \A i \in DOMAIN shown : shown[i] > ValueOf(walk.typed)
         /\ more => /\ k >= 1 /\ Len(ids) = k /\ ids[k] \in RoomIds /\ ids[k] > walk.after
                    /\ \A i \in DOMAIN shown : shown[i] <= ids[k]
                    /\ \A r \in walk.since : r <= ids[k] => \E i \in DOMAIN shown : shown[i] = r
         /\ ~more => \A r \in walk.since : \E i \in DOMAIN shown : shown[i] = r
<1> DEFINE n == Len(walk.shown)
           old == walk.shown
           after == walk.after
           low == ValueOf(walk.typed)
<1>1. /\ n \in Nat /\ k \in Nat /\ old \in Seq(RoomIds) /\ after \in Nat
      /\ low \in Nat /\ low <= after
  <2>1. walk.typed \in Seq(Digits) /\ old \in Seq(RoomIds) /\ after \in 0..MaxRoomId
    BY DEF WalkInv, WalkType
  <2>2. low \in Nat /\ low <= after
    BY <2>1, ValuingIs DEF WalkInv, Upwards
  <2> QED
    BY <2>1, <2>2, ListConstants, ManagerConstants
<1>2. /\ ids \in [1..k -> RoomIds] /\ \A i \in 1..k : ids[i] > after
      /\ \A i, j \in 1..k : i < j => ids[i] < ids[j]
  BY DEF PageOf, LiveRooms
<1>3. /\ shown \in Seq(RoomIds) /\ DOMAIN shown = 1..(n + k) /\ Len(ids) = k
      /\ \A i \in 1..n : i \in 1..(n + k) /\ shown[i] = old[i]
      /\ \A i \in 1..k : n + i \in 1..(n + k) /\ shown[n + i] = ids[i]
      /\ \A i \in 1..(n + k) : i \in 1..n \/ \E j \in 1..k : i = n + j
  <2>1. Joins(old, ids, n, shown)
    OBVIOUS
  <2> HIDE DEF n, old
  <2> QED
    BY <1>1, <1>2, <2>1, Joined
<1>4. /\ DOMAIN old = 1..n
      /\ \A i \in 1..n : old[i] \in RoomIds /\ old[i] > low /\ old[i] <= after
      /\ \A i, j \in 1..n : i < j => old[i] < old[j]
  BY <1>1 DEF WalkInv, Upwards, WalkSound
<1>5. RoomIds \subseteq Nat
  BY DEF RoomIds
<1>6. \A r \in walk.since : r \in LiveRooms /\ r \in Nat
  BY <1>5 DEF WalkInv, WalkType, LiveRooms
<1>7. ASSUME NEW r \in walk.since, r <= after PROVE \E i \in 1..(n + k) : shown[i] = r
  <2>1. \E i \in 1..n : old[i] = r
    BY <1>4, <1>7 DEF WalkInv, WalkSound, Shown
  <2> QED
    BY <1>3, <2>1
<1>8. ASSUME NEW r \in walk.since, \E i \in 1..k : ids[i] = r
      PROVE  \E i \in 1..(n + k) : shown[i] = r
  <2>1. PICK i \in 1..k : ids[i] = r
    BY <1>8
  <2> HIDE DEF n
  <2> QED
    BY <1>1, <1>3, <2>1
<1> HIDE DEF n, old, after, low
<1>9. \A i \in 1..n : shown[i] \in Nat /\ shown[i] > low /\ shown[i] <= after
  BY <1>3, <1>4, <1>5
<1>10. \A j \in 1..k : shown[n + j] \in Nat /\ shown[n + j] > after /\ shown[n + j] > low
  <2> SUFFICES ASSUME NEW j \in 1..k
               PROVE  shown[n + j] \in Nat /\ shown[n + j] > after /\ shown[n + j] > low
    OBVIOUS
  <2>1. shown[n + j] = ids[j] /\ ids[j] \in Nat /\ ids[j] > after
    BY <1>2, <1>3, <1>5
  <2> QED
    BY <1>1, <2>1
<1>11. ASSUME NEW i \in 1..(n + k), NEW j \in 1..(n + k), i < j PROVE shown[i] < shown[j]
  <2>1. CASE i \in 1..n /\ j \in 1..n
    BY <1>3, <1>4, <1>11, <2>1
  <2>2. CASE i \in 1..n /\ \E b \in 1..k : j = n + b
    <3>1. PICK b \in 1..k : j = n + b
      BY <2>2
    <3>2. shown[i] \in Nat /\ shown[i] <= after /\ shown[j] \in Nat /\ shown[j] > after
      BY <1>9, <1>10, <2>2, <3>1
    <3> QED
      BY <1>1, <3>2
  <2>3. CASE (\E a \in 1..k : i = n + a) /\ \E b \in 1..k : j = n + b
    <3>1. PICK a \in 1..k, b \in 1..k : i = n + a /\ j = n + b
      BY <2>3
    <3>2. a < b
      BY <1>1, <1>11, <3>1
    <3> QED
      BY <1>2, <1>3, <3>1, <3>2
  <2>4. CASE (\E a \in 1..k : i = n + a) /\ j \in 1..n
    BY <1>1, <1>11, <2>4
  <2> QED
    BY <1>3, <2>1, <2>2, <2>3, <2>4
<1>12. \A i \in 1..(n + k) : shown[i] > low /\ shown[i] \in Nat
  BY <1>3, <1>9, <1>10
<1>13. ASSUME more
       PROVE  /\ k >= 1 /\ ids[k] \in RoomIds /\ ids[k] > after
              /\ \A i \in 1..(n + k) : shown[i] <= ids[k]
              /\ \A r \in walk.since : r <= ids[k] => \E i \in 1..(n + k) : shown[i] = r
  <2>1. k >= 1 /\ \A r \in LiveRooms : r > after /\ r <= ids[k] => \E i \in 1..k : ids[i] = r
    BY <1>13 DEF PageOf, after
  <2>2. k \in 1..k
    BY <1>1, <2>1
  <2>3. ids[k] \in RoomIds /\ ids[k] \in Nat /\ ids[k] > after
    BY <1>2, <1>5, <2>2
  <2>4. ASSUME NEW i \in 1..(n + k) PROVE shown[i] <= ids[k]
    <3>1. n + k \in 1..(n + k) /\ shown[n + k] = ids[k]
      BY <1>3, <2>2
    <3>2. i < n + k \/ i = n + k
      BY <1>1
    <3>3. CASE i < n + k
      <4>1. shown[i] < ids[k]
        BY <1>11, <3>1, <3>3
      <4> QED
        BY <1>1, <1>12, <2>3, <4>1
    <3>4. CASE i = n + k
      BY <1>1, <2>3, <3>1, <3>4
    <3> QED
      BY <3>2, <3>3, <3>4
  <2>5. ASSUME NEW r \in walk.since, r <= ids[k] PROVE \E i \in 1..(n + k) : shown[i] = r
    <3>1. r <= after \/ r > after
      BY <1>1, <1>6
    <3> QED
      BY <1>6, <1>7, <1>8, <2>1, <2>5, <3>1
  <2> QED
    BY <2>1, <2>3, <2>4, <2>5
<1>14. ASSUME ~more, NEW r \in walk.since PROVE \E i \in 1..(n + k) : shown[i] = r
  <2>1. r <= after \/ r > after
    BY <1>1, <1>6
  <2>2. r > after => \E i \in 1..k : ids[i] = r
    BY <1>6, <1>14 DEF PageOf, after
  <2> QED
    BY <1>7, <1>8, <2>1, <2>2
<1> QED
  BY <1>3, <1>11, <1>12, <1>13, <1>14 DEF after, low

\* A page is handled and the next one asked for.
LEMMA NextPageInv ==
  ASSUME Inv, WalkInv, NextPage
  PROVE  WalkInv'
<1> DEFINE m == RoomListResponse(Walker, walk.after)
           ids == [i \in DOMAIN m.rooms |-> m.rooms[i].room]
           shown == walk.shown \o ids
           next == ParseRoomId(TextOf[ids[Len(ids)]])
<1>1. LiveRooms' = LiveRooms
  BY DEF NextPage, vars, LiveRooms
<1>2. walk.step = "asking" /\ WalkType /\ walk.after \in Nat
  <2>1. walk.step = "asking" /\ WalkType
    BY DEF NextPage, WalkInv
  <2>2. walk.after \in 0..MaxRoomId
    BY <2>1 DEF WalkType
  <2> QED
    BY <2>1, <2>2, ManagerConstants
<1>3. /\ IsValidRoomList(m, PageSize)
      /\ m.result = "Success" => \E k \in 0..PageSize :
           m.hasMore \in BOOLEAN /\ PageOf(ids, k, walk.after, m.hasMore)
  <2> HIDE DEF m
  <2>1. m = RoomListResponse(Walker, walk.after)
    BY DEF m
  <2> QED
    BY <1>2, <2>1, AnswerIs, ListConstants
<1>4. walk' = IF ~IsValidRoomList(m, PageSize) THEN [walk EXCEPT !.step = "cut"]
              ELSE IF m.result # "Success" THEN [walk EXCEPT !.step = "refused"]
              ELSE IF ~m.hasMore THEN [walk EXCEPT !.shown = shown, !.step = "done"]
              ELSE [walk EXCEPT !.shown = shown, !.after = next,
                                !.step = IF next = Overflow THEN "usage" ELSE "asking"]
  BY DEF NextPage
<1> HIDE DEF m
<1>5. CASE m.result # "Success"
  <2>1. walk' = [walk EXCEPT !.step = "refused"]
    BY <1>3, <1>4, <1>5
  <2>2. /\ walk'.step = "refused" /\ walk'.typed = walk.typed /\ walk'.after = walk.after
        /\ walk'.shown = walk.shown
    BY <1>2, <2>1 DEF WalkType
  <2>3. WalkType'
    BY <1>1, <1>2, <2>1 DEF WalkType
  <2> QED
    BY <1>2, <2>2, <2>3 DEF WalkInv, Upwards, WalkSound
<1>6. CASE m.result = "Success"
  <2>1. PICK k \in 0..PageSize :
          m.hasMore \in BOOLEAN /\ PageOf(ids, k, walk.after, m.hasMore)
    BY <1>3, <1>6
  <2>2. Joins(walk.shown, ids, Len(walk.shown), shown)
    BY DEF Joins
  <2> HIDE DEF ids, shown
  <2>3. /\ shown \in Seq(RoomIds)
        /\ \A i, j \in DOMAIN shown : i < j => shown[i] < shown[j]
        /\ \A i \in DOMAIN shown : shown[i] > ValueOf(walk.typed)
        /\ m.hasMore => /\ k >= 1 /\ Len(ids) = k /\ ids[k] \in RoomIds /\ ids[k] > walk.after
                        /\ \A i \in DOMAIN shown : shown[i] <= ids[k]
                        /\ \A r \in walk.since : r <= ids[k] => \E i \in DOMAIN shown : shown[i] = r
        /\ ~m.hasMore => \A r \in walk.since : \E i \in DOMAIN shown : shown[i] = r
    BY <1>2, <2>1, <2>2, PageShown
  <2>4. walk.typed # <<>> /\ ValueOf(walk.typed) \in Nat /\ ValueOf(walk.typed) <= walk.after
    BY <1>2, ValuingIs DEF WalkInv, Upwards, WalkType
  <2>5. CASE ~m.hasMore
    <3>1. walk' = [walk EXCEPT !.shown = shown, !.step = "done"]
      BY <1>3, <1>4, <1>6, <2>5
    <3>2. /\ walk'.step = "done" /\ walk'.typed = walk.typed /\ walk'.after = walk.after
          /\ walk'.shown = shown /\ walk'.since = walk.since
      BY <1>2, <3>1 DEF WalkType
    <3>3. WalkType'
      BY <1>1, <1>2, <2>3, <3>1 DEF WalkType
    <3>4. Upwards'
      BY <2>3, <2>4, <3>2 DEF Upwards
    <3>5. WalkSound'
      BY <2>3, <2>5, <3>2 DEF WalkSound, Shown
    <3> QED
      BY <3>3, <3>4, <3>5 DEF WalkInv
  <2>6. CASE m.hasMore
    <3>1. next = ids[k] /\ ids[k] \in 0..MaxRoomId /\ next # Overflow
      <4>1. ids[k] \in 0..MaxRoomId /\ Len(ids) = k
        BY <2>3, <2>6, ManagerConstants DEF RoomIds
      <4>2. ParseRoomId(TextOf[ids[k]]) = ids[k]
        BY <4>1, PrintedIsRead
      <4> QED
        BY <4>1, <4>2, ManagerConstants DEF Overflow
    <3> HIDE DEF next
    <3>2. walk' = [walk EXCEPT !.shown = shown, !.after = ids[k], !.step = "asking"]
      BY <1>3, <1>4, <1>6, <2>6, <3>1
    <3>3. /\ walk'.step = "asking" /\ walk'.typed = walk.typed /\ walk'.after = ids[k]
          /\ walk'.shown = shown /\ walk'.since = walk.since
      BY <1>2, <3>2 DEF WalkType
    <3>4. WalkType'
      BY <1>1, <1>2, <2>3, <3>1, <3>2 DEF WalkType
    <3>5. ValueOf(walk.typed) <= ids[k]
      BY <1>2, <2>3, <2>4, <2>6, <3>1, ManagerConstants
    <3>6. Upwards'
      BY <2>3, <2>4, <2>6, <3>3, <3>5 DEF Upwards
    <3>7. WalkSound'
      BY <2>3, <2>6, <3>3 DEF WalkSound, Shown
    <3> QED
      BY <3>4, <3>6, <3>7 DEF WalkInv
  <2> QED
    BY <2>5, <2>6
<1> QED
  BY <1>5, <1>6

\* The rooms change under the walk: those that go were not there all along.
LEMMA RoomsChangeInv ==
  ASSUME WalkInv, RoomsChange
  PROVE  WalkInv'
<1>1. WalkType /\ walk' = [walk EXCEPT !.since = @ \cap LiveRooms']
  BY DEF RoomsChange, WalkInv
<1>2. /\ walk'.step = walk.step /\ walk'.typed = walk.typed /\ walk'.after = walk.after
      /\ walk'.shown = walk.shown /\ walk'.since \subseteq walk.since
  BY <1>1 DEF WalkType
<1>3. WalkType'
  BY <1>1 DEF WalkType
<1>4. Upwards'
  BY <1>2 DEF WalkInv, Upwards
<1>5. WalkSound'
  BY <1>2 DEF WalkInv, WalkSound, Shown
<1> QED
  BY <1>3, <1>4, <1>5 DEF WalkInv

\* Before the walk nothing is typed and nothing shown.
LEMMA InitWalk == ListInit => WalkInv
<1> SUFFICES ASSUME ListInit PROVE WalkInv
  OBVIOUS
<1>1. /\ walk.step = "idle" /\ walk.typed = <<>> /\ walk.after = 0 /\ walk.shown = <<>>
      /\ walk.since = {}
  BY DEF ListInit
<1>2. WalkType
  BY ManagerConstants DEF ListInit, WalkType
<1> QED
  BY <1>1, <1>2 DEF WalkInv, Upwards, WalkSound

LEMMA NextWalk == Inv /\ WalkInv /\ [ListNext]_listVars => Inv' /\ WalkInv'
<1> SUFFICES ASSUME Inv, WalkInv, [ListNext]_listVars PROVE Inv' /\ WalkInv'
  OBVIOUS
<1>1. Inv'
  <2>1. [Next]_vars
    BY DEF ListNext, listVars, BeginWalk, NextPage, RoomsChange
  <2> QED
    BY <2>1, NextInv
<1>2. CASE \E text \in Texts : BeginWalk(text)
  BY <1>1, <1>2, BeginWalkInv
<1>3. CASE NextPage
  BY <1>1, <1>3, NextPageInv
<1>4. CASE RoomsChange
  BY <1>1, <1>4, RoomsChangeInv
<1>5. CASE UNCHANGED listVars
  <2>1. walk' = walk /\ LiveRooms' = LiveRooms
    BY <1>5 DEF listVars, vars, LiveRooms
  <2> QED
    BY <1>1, <2>1 DEF WalkInv, WalkType, Upwards, WalkSound, Shown
<1> QED
  BY <1>1, <1>2, <1>3, <1>4, <1>5 DEF ListNext

-----------------------------------------------------------------------------
(* The theorems *)

\* The inductive invariant of the walk holds in every state, whatever happens to the rooms.
THEOREM WalkInvariance == ListSpec => [](Inv /\ WalkInv)
<1> QED
  BY InitInv, InitWalk, NextWalk, PTL DEF ListSpec

\* Every room that was there all along is shown, in the order of the ids and no room twice:
\* GetRoomsAfter (RoomManager.cpp:179) leaves none out between two pages, and the next page
\* begins where the last one ended (ChatClient.cpp:543).
THEOREM WalksShowAll == ListSpec => []WalkSound
<1>1. WalkInv => WalkSound
  BY DEF WalkInv
<1> QED
  BY <1>1, WalkInvariance, PTL

\* What GetRoomsAfter makes of any rooms there can be passes the tests of the codec
\* (PacketProcessor.cpp:343): nobody is cut off for asking.
THEOREM EveryListIsSent == ListSpec => []ListsAreSent
<1>1. WalkInv => ListsAreSent
  BY DEF WalkInv, WalkType, ListsAreSent
<1> QED
  BY <1>1, WalkInvariance, PTL

\* A number of any length is refused exactly when no room can have it and is never taken for
\* another one, and the number printed for the next page is read as it was meant
\* (TryParseRoomId, ChatClient.cpp:44).
THEOREM NumbersAreRead == ListSpec => []AskedAsTyped
<1>1. WalkInv => AskedAsTyped
  <2> SUFFICES ASSUME WalkInv PROVE AskedAsTyped
    OBVIOUS
  <2>1. walk.after <= MaxRoomId /\ walk.after \in Nat /\ ValueOf(walk.typed) \in Nat
    BY ManagerConstants, ValuingIs DEF WalkInv, WalkType
  <2>2. walk.step # "idle" /\ walk.step # "usage" =>
          walk.typed # <<>> /\ ~(ValueOf(walk.typed) > MaxRoomId)
    BY <2>1, ManagerConstants DEF WalkInv, Upwards
  <2>3. walk.step = "usage" => walk.typed = <<>> \/ ValueOf(walk.typed) > MaxRoomId
    BY DEF WalkInv, Upwards
  <2>4. \A r \in Shown : r > ValueOf(walk.typed)
    BY DEF WalkInv, Upwards, Shown
  <2> QED
    BY <2>2, <2>3, <2>4 DEF AskedAsTyped
<1> QED
  BY <1>1, WalkInvariance, PTL
================================================================================
