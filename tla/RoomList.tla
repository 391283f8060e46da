-------------------------------- MODULE RoomList --------------------------------
(***************************************************************************)
(* Listing the rooms, a page at a time, while they come and go.            *)
(*                                                                         *)
(* One user walks through the list: "rooms <id>" asks for the rooms after  *)
(* an id, and the client prints under each page what to type for the next  *)
(* one.  Between two pages anything may happen to the rooms.               *)
(*                                                                         *)
(* A number typed is the sequence of its digits.  Titles are left out:     *)
(* CreateRoom has checked them.                                            *)
(***************************************************************************)
EXTENDS RoomManager, Packets

CONSTANTS
  Walker,      \* the session of the user who walks
  PageSize,    \* ROOM_LIST_PAGE_SIZE
  Base,        \* 10 in the code
  Texts        \* the numbers that may be typed to begin with

ASSUME ListConstants ==
  /\ Walker \in Sessions
  /\ PageSize \in Nat \ {0}
  /\ Base \in Nat /\ Base >= 2 /\ Base <= MaxRoomId
  /\ Texts \subseteq Seq(0..(Base - 1))

VARIABLE
  walk    \* the walk: what was typed, where the next page begins, the rooms shown, the
          \* rooms that were there all along, and how far it has come

listVars == <<vars, walk>>

-----------------------------------------------------------------------------
(* The client: numbers *)

Overflow == MaxRoomId + 1   \* what TryParseRoomId refuses with

\* One digit more: the width of the result is that of a room id.
NextDigit_ChecksTooLate(value, digit) ==
  IF value = Overflow \/ value > MaxRoomId \div Base THEN Overflow
  ELSE (value * Base + digit) % (MaxRoomId + 1)

NextDigit(value, digit) ==
  IF value = Overflow \/ value > (MaxRoomId - digit) \div Base THEN Overflow
  ELSE (value * Base + digit) % (MaxRoomId + 1)

ParseRoomId(text) ==
  LET value[k \in 0..Len(text)] == IF k = 0 THEN 0 ELSE NextDigit(value[k - 1], text[k])
  IN IF text = <<>> THEN Overflow ELSE value[Len(text)]

\* The id of a room as it is printed.
TextOf[r \in 0..MaxRoomId] == IF r < Base THEN <<r>> ELSE Append(TextOf[r \div Base], r % Base)

-----------------------------------------------------------------------------
(* The server *)

RoomInfo(r) == [room |-> r, users |-> Cardinality(rooms[r].members), capacity |-> Capacity]

\* Rooms in the order of their ids.
Sorted(ids) ==
  CHOOSE q \in [1..Cardinality(ids) -> ids] : \A i, j \in DOMAIN q : i < j => q[i] < q[j]

\* The first page of the rooms after an id, and whether there is another.
GetRoomsAfter_FromThere(after) ==
  LET all == Sorted({r \in LiveRooms : r >= after})
  IN [rooms   |-> [i \in 1..(IF Len(all) > PageSize THEN PageSize ELSE Len(all)) |-> RoomInfo(all[i])],
      hasMore |-> Len(all) > PageSize]

GetRoomsAfter_NotCut(after) ==
  LET all == Sorted({r \in LiveRooms : r > after})
  IN [rooms |-> [i \in DOMAIN all |-> RoomInfo(all[i])], hasMore |-> Len(all) > PageSize]

GetRoomsAfter(after) ==
  LET all == Sorted({r \in LiveRooms : r > after})
  IN [rooms   |-> [i \in 1..(IF Len(all) > PageSize THEN PageSize ELSE Len(all)) |-> RoomInfo(all[i])],
      hasMore |-> Len(all) > PageSize]

\* HandleRoomList: its answer.
RoomListResponse(s, after) ==
  LET refused(result) == [result |-> result, hasMore |-> FALSE, rooms |-> <<>>]
      page == GetRoomsAfter(after)
  IN IF ~LoggedIn(s) THEN refused("UserNotFound")
     ELSE IF users[s].state # "Lobby" THEN refused("AlreadyInRoom")
     ELSE [result |-> "Success", hasMore |-> page.hasMore, rooms |-> page.rooms]

-----------------------------------------------------------------------------
(* The walk *)

ListInit == walk = [typed |-> <<>>, after |-> 0, shown |-> <<>>, since |-> {}, step |-> "idle"]

\* "rooms <digits>": no request is sent for what is not a number.
BeginWalk(text) ==
  /\ walk.step = "idle"
  /\ LET id == ParseRoomId(text)
     IN walk' = IF id = Overflow
                THEN [walk EXCEPT !.typed = text, !.step = "usage"]
                ELSE [walk EXCEPT !.typed = text, !.after = id, !.step = "asking",
                                  !.since = {r \in LiveRooms : r > id}]
  /\ UNCHANGED vars

\* The request is handled, and the user has seen the page and asks for the next one.
NextPage ==
  /\ walk.step = "asking"
  /\ LET m   == RoomListResponse(Walker, walk.after)
         ids == [i \in DOMAIN m.rooms |-> m.rooms[i].room]
     IN walk' = IF ~IsValidRoomList(m, PageSize) THEN [walk EXCEPT !.step = "cut"]
                ELSE IF m.result # "Success" THEN [walk EXCEPT !.step = "refused"]
                ELSE IF ~m.hasMore THEN [walk EXCEPT !.shown = @ \o ids, !.step = "done"]
                ELSE LET next == ParseRoomId(TextOf[ids[Len(ids)]])
                     IN [walk EXCEPT !.shown = @ \o ids, !.after = next,
                                     !.step = IF next = Overflow THEN "usage" ELSE "asking"]
  /\ UNCHANGED vars

\* Anything else that happens; rooms that go were not there all along.
RoomsChange == Next /\ walk' = [walk EXCEPT !.since = @ \cap LiveRooms']

ListNext == (\E text \in Texts : BeginWalk(text)) \/ NextPage \/ RoomsChange

ListSpec == Init /\ ListInit /\ [][ListNext]_listVars

-----------------------------------------------------------------------------

Shown == {walk.shown[i] : i \in DOMAIN walk.shown}

\* The number the digits stand for.
ValueOf(text) ==
  LET value[k \in 0..Len(text)] == IF k = 0 THEN 0 ELSE value[k - 1] * Base + text[k]
  IN value[Len(text)]

\* Walking through the pages shows every room that was there all along and none twice, in
\* order, however rooms come and go in between (GetRoomsAfter, RoomManager.cpp:179; the next
\* page, ChatClient.cpp:543).
WalkSound ==
  /\ \A i, j \in DOMAIN walk.shown : i < j => walk.shown[i] < walk.shown[j]
  /\ walk.step = "asking" => {r \in walk.since : r <= walk.after} \subseteq Shown
  /\ walk.step = "done" => walk.since \subseteq Shown

\* A page the server makes can always be sent, so that nobody is cut off for asking
\* (PacketProcessor.cpp:343).
ListsAreSent == walk.step # "cut"

\* What is typed is what is asked for: a number is refused exactly when no room can have
\* it, never taken for another one by overflow, and the number printed for the
\* next page is never refused (TryParseRoomId, ChatClient.cpp:44).
AskedAsTyped ==
  /\ walk.step # "idle" =>
       (walk.step = "usage" <=> walk.typed = <<>> \/ ValueOf(walk.typed) > MaxRoomId)
  /\ walk.step # "usage" => \A r \in Shown : r > ValueOf(walk.typed)
================================================================================
