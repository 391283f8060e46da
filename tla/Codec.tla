--------------------------------- MODULE Codec ---------------------------------
(***************************************************************************)
(* The codecs of Common/: how a packet becomes the bytes of a body, and    *)
(* which bodies are taken for a packet.                                    *)
(*                                                                         *)
(* A packet is the sequence of its fields, laid out by its type.  A byte   *)
(* is a number below Base, and a word has two bytes, the first one worth   *)
(* more (four in the code for ids and counts, two for the length of a      *)
(* chat message).  A character is a byte.                                  *)
(***************************************************************************)
EXTENDS Packets, SequencesExt

CONSTANTS
  Base,                                 \* 256 in the code
  MaxNickname, MaxMessage, MaxTitle,    \* MAX_NICKNAME_BYTES and the like
  PageSize,                             \* ROOM_LIST_PAGE_SIZE
  LastResult,                           \* the last value of each enumeration of results
  BoardSize,                            \* GAME_BOARD_SIZE
  Bytes, Words, Texts, Messages         \* the values sent; Messages are the texts of a chat

ASSUME CodecConstants ==
  /\ Base \in Nat /\ Base > 6 /\ Cells = BoardSize * BoardSize
  /\ {MaxNickname, MaxTitle, PageSize, LastResult} \subseteq 1..(Base - 1)
  /\ MaxMessage \in 1..(Base * Base - 1)
  /\ Bytes \subseteq 0..(Base - 1) /\ Words \subseteq 0..(Base * Base - 1)
  /\ Texts \cup Messages \subseteq Seq(0..(Base - 1))

\* Names of enumerations in the order of their values, from 0.
Named ==
  [Stone  |-> <<"Empty", "Black", "White">>,
   State  |-> <<"NotStarted", "Playing", "BlackWon", "WhiteWon", "Draw">>,
   Phase  |-> <<"Waiting", "Playing">>,
   Change |-> <<"Unknown", "Joined", "Left", "Disconnected">>,
   Reason |-> <<"Unknown", "FiveInRow", "BoardFull", "Resigned", "TurnTimeout", "LeftRoom",
                "Disconnected">>]

\* The fields of each type in order.  "Rest" is all that follows; a list begins with its length.
Layout ==
  [LOGIN_REQ       |-> <<"Rest">>,
   LOGIN_RES       |-> <<"Byte">>,
   CHAT_REQ        |-> <<"Rest">>,
   CHAT_RES        |-> <<"Byte">>,
   CHAT_NTF        |-> <<"Text", "LongText">>,
   ROOM_CREATE_REQ |-> <<"Text">>,
   ROOM_ACTION_RES |-> <<"Byte", "Word">>,
   ROOM_LIST_REQ   |-> <<"Word">>,
   ROOM_LIST_RES   |-> <<"Byte", "Bool", "Rooms">>,
   ROOM_ENTER_REQ  |-> <<"Word">>,
   ROOM_LEAVE_REQ  |-> <<>>,
   ROOM_MEMBER_NTF |-> <<"Word", "Change", "Text">>,
   ROOM_READY_REQ  |-> <<"Bool">>,
   ROOM_START_REQ  |-> <<>>,
   ROOM_STATE_NTF  |-> <<"Word", "Word", "Phase", "Byte", "Text", "Players">>,
   GAME_MOVE_REQ   |-> <<"Word", "Word", "Byte", "Byte">>,
   GAME_MOVE_RES   |-> <<"Byte", "Word">>,
   GAME_MOVE_NTF   |-> <<"Word", "Word", "Byte", "Byte", "Stone", "Stone", "State", "Word">>,
   GAME_RESIGN_REQ |-> <<"Word", "Word">>,
   GAME_END_NTF    |-> <<"Word", "Word", "State", "Reason", "Word">>]

Types == DOMAIN Layout

\* The lists, by the fields of an entry.
Lists == [Rooms |-> <<"Word", "Byte", "Byte", "Text">>, Players |-> <<"Text", "Bool">>]

Bodies == Seq(0..(Base - 1))

-----------------------------------------------------------------------------
(* What the codecs of both ends insist on *)

IsNickname(text) == Len(text) \in 1..MaxNickname

RoomListOf(p) ==
  [result |-> IF p[1] = 0 THEN "Success" ELSE "Refused", hasMore |-> p[2],
   rooms  |-> [i \in DOMAIN p[3] |->
                 [room |-> p[3][i][1], users |-> p[3][i][2], capacity |-> p[3][i][3]]]]

RoomStateOf(p) ==
  [room |-> p[1], game |-> p[2], phase |-> p[3], host |-> p[5],
   players |-> {p[6][i][1] : i \in DOMAIN p[6]},
   ready   |-> {p[6][i][1] : i \in {j \in DOMAIN p[6] : p[6][j][2]}}]

GameMoveOf(p) ==
  [room |-> p[1], game |-> p[2], stone |-> p[5], next |-> p[6], state |-> p[7], moves |-> p[8]]

GameEndOf(p) ==
  [room |-> p[1], game |-> p[2], state |-> p[3], reason |-> p[4], moves |-> p[5]]

IsValid(type, p) ==
  CASE type \in {"LOGIN_RES", "CHAT_RES", "GAME_MOVE_RES"} -> p[1] <= LastResult
    [] type = "ROOM_ACTION_RES" -> p[1] <= LastResult /\ (p[1] = 0 <=> p[2] # 0)
    [] type = "CHAT_NTF"        -> IsNickname(p[1]) /\ Len(p[2]) \in 1..MaxMessage
    [] type = "ROOM_MEMBER_NTF" -> p[1] # 0 /\ p[2] # "Unknown" /\ IsNickname(p[3])
    [] type = "ROOM_LIST_RES"   ->
         /\ p[1] <= LastResult
         /\ IsValidRoomList(RoomListOf(p), PageSize)
         /\ \A i \in DOMAIN p[3] : Len(p[3][i][4]) \in 1..MaxTitle
    [] type = "ROOM_STATE_NTF"  ->
         /\ IsValidRoomState(RoomStateOf(p))
         /\ p[3] # "Unknown" /\ p[4] = 2
         /\ \A i \in DOMAIN p[6] : IsNickname(p[6][i][1])
         /\ Cardinality(RoomStateOf(p).players) = Len(p[6])
    [] type = "GAME_MOVE_NTF"   ->
         IsValidGameMove(GameMoveOf(p)) /\ p[3] < BoardSize /\ p[4] < BoardSize
    [] type = "GAME_END_NTF"    -> p[4] # "Unknown" /\ IsValidGameEnd(GameEndOf(p))
    [] OTHER                    -> TRUE

\* The types of which Encode refuses what Decode would; the others are encoded unseen.
CheckedByEncode ==
  {"CHAT_NTF", "ROOM_LIST_RES", "ROOM_MEMBER_NTF", "ROOM_STATE_NTF", "GAME_MOVE_NTF", "GAME_END_NTF"}

-----------------------------------------------------------------------------
(* Writing *)

Word(n) == <<n \div Base, n % Base>>

\* A chat message may be as long as Base, so that its length needs the first byte.
MessageSize_LowByte(text) == <<0, Len(text) % Base>>

MessageSize(text) == Word(Len(text))

WrittenScalar(kind, v) ==
  CASE kind = "Byte"     -> <<v>>
    [] kind = "Bool"     -> <<IF v THEN 1 ELSE 0>>
    [] kind = "Word"     -> Word(v)
    [] kind = "Text"     -> <<Len(v)>> \o v
    [] kind = "LongText" -> MessageSize(v) \o v
    [] kind = "Rest"     -> v
    [] OTHER             -> <<(CHOOSE i \in DOMAIN Named[kind] : Named[kind][i] = v) - 1>>

WrittenRecord(layout, v) ==
  FlattenSeq([i \in DOMAIN layout |-> WrittenScalar(layout[i], v[i])])

Written(kind, v) ==
  IF kind \in DOMAIN Lists
  THEN <<Len(v)>> \o FlattenSeq([i \in DOMAIN v |-> WrittenRecord(Lists[kind], v[i])])
  ELSE WrittenScalar(kind, v)

AllWritten(layout, p) == FlattenSeq([i \in DOMAIN layout |-> Written(layout[i], p[i])])

\* The body of a packet, if it is one that is encoded.
Encode(type, p) ==
  IF \/ type \in CheckedByEncode /\ ~IsValid(type, p)
     \/ type = "ROOM_CREATE_REQ" /\ Len(p[1]) >= Base
  THEN {} ELSE {AllWritten(Layout[type], p)}

-----------------------------------------------------------------------------
(* Reading: a value and the bytes that follow it, or nothing *)

Read(value, rest) == {[value |-> value, rest |-> rest]}

ReadByte(bytes) == IF bytes = <<>> THEN {} ELSE Read(bytes[1], Tail(bytes))

ReadBool_NotZero(bytes) == IF bytes = <<>> THEN {} ELSE Read(bytes[1] # 0, Tail(bytes))

ReadBool(bytes) == IF bytes = <<>> \/ bytes[1] > 1 THEN {} ELSE Read(bytes[1] # 0, Tail(bytes))

ReadWord(bytes) ==
  IF Len(bytes) < 2 THEN {} ELSE Read(bytes[1] * Base + bytes[2], SubSeq(bytes, 3, Len(bytes)))

ReadText(n, bytes) ==
  IF n > Len(bytes) THEN {} ELSE Read(SubSeq(bytes, 1, n), SubSeq(bytes, n + 1, Len(bytes)))

ReadName(names, n, bytes) == Read(IF n < Len(names) THEN names[n + 1] ELSE "Unknown", bytes)

ReadScalar(kind, bytes) ==
  CASE kind = "Byte"     -> ReadByte(bytes)
    [] kind = "Bool"     -> ReadBool(bytes)
    [] kind = "Word"     -> ReadWord(bytes)
    [] kind = "Text"     -> UNION {ReadText(n.value, n.rest) : n \in ReadByte(bytes)}
    [] kind = "LongText" -> UNION {ReadText(n.value, n.rest) : n \in ReadWord(bytes)}
    [] kind = "Rest"     -> Read(bytes, <<>>)
    [] OTHER             -> UNION {ReadName(Named[kind], n.value, n.rest) : n \in ReadByte(bytes)}

\* One value after the other, each by its reader, a function of the bytes it finds.
InTurn(readers, bytes) ==
  LET read[k \in 0..Len(readers)] ==
        IF k = 0 THEN Read(<<>>, bytes)
        ELSE UNION {{[value |-> Append(some.value, one.value), rest |-> one.rest] :
                       one \in readers[k][some.rest]} : some \in read[k - 1]}
  IN read[Len(readers)]

ReadRecord(layout, bytes) ==
  InTurn([i \in DOMAIN layout |-> [b \in Bodies |-> ReadScalar(layout[i], b)]], bytes)

ReadList(layout, n, bytes) ==
  InTurn([i \in 1..n |-> [b \in Bodies |-> ReadRecord(layout, b)]], bytes)

ReadField(kind, bytes) ==
  IF kind \in DOMAIN Lists
  THEN UNION {ReadList(Lists[kind], n.value, n.rest) : n \in ReadByte(bytes)}
  ELSE ReadScalar(kind, bytes)

ReadAll(layout, bytes) ==
  InTurn([i \in DOMAIN layout |-> [b \in Bodies |-> ReadField(layout[i], b)]], bytes)

\* The packet a body is taken for, if it is taken for one.
Decode_NotDone(type, body) ==
  {read.value : read \in {r \in ReadAll(Layout[type], body) : IsValid(type, r.value)}}

Decode(type, body) ==
  {read.value : read \in {r \in ReadAll(Layout[type], body) :
                            r.rest = <<>> /\ IsValid(type, r.value)}}

-----------------------------------------------------------------------------
(* A packet is encoded, and what is received may be another body.           *)

VARIABLES
  packet,   \* a packet and its type
  body,     \* its body as it is received
  how       \* "unsent", "sent" as it is, "cut", "extended" or "changed" by one byte

vars == <<packet, body, how>>

\* All ways to put one value of each set in a row.
Rows(sets) ==
  LET row[k \in 0..Len(sets)] ==
        IF k = 0 THEN {<<>>} ELSE {Append(w, v) : w \in row[k - 1], v \in sets[k]}
  IN row[Len(sets)]

ScalarValues(kind) ==
  CASE kind = "Byte" -> Bytes
    [] kind = "Bool" -> BOOLEAN
    [] kind = "Word" -> Words
    [] kind = "LongText" -> Messages
    [] kind \in {"Text", "Rest"} -> Texts
    [] OTHER -> Range(Named[kind]) \ {"Unknown"}

Values(kind) ==
  IF kind \in DOMAIN Lists
  THEN BoundedSeq(Rows([i \in DOMAIN Lists[kind] |-> ScalarValues(Lists[kind][i])]), 2)
  ELSE ScalarValues(kind)

Fields(layout) == Rows([i \in DOMAIN layout |-> Values(layout[i])])

Init ==
  /\ \E type \in Types : \E p \in Fields(Layout[type]) : packet = [type |-> type, fields |-> p]
  /\ body = <<>> /\ how = "unsent"

Send ==
  /\ how = "unsent" /\ how' = "sent"
  /\ body' \in Encode(packet.type, packet.fields)
  /\ UNCHANGED packet

CutShort ==
  /\ how = "sent" /\ how' = "cut"
  /\ \E n \in 0..(Len(body) - 1) : body' = SubSeq(body, 1, n)
  /\ UNCHANGED packet

Extend ==
  /\ how = "sent" /\ how' = "extended"
  /\ \E b \in 0..(Base - 1) : body' = Append(body, b)
  /\ UNCHANGED packet

ChangeByte ==
  /\ how = "sent" /\ how' = "changed"
  /\ \E i \in DOMAIN body, b \in 0..(Base - 1) : body' = [body EXCEPT ![i] = b]
  /\ UNCHANGED packet

Next == Send \/ CutShort \/ Extend \/ ChangeByte

Spec == Init /\ [][Next]_vars

-----------------------------------------------------------------------------

\* What is sent is what is received, field by field.  Where Encode looks at nothing it holds of the
\* packets Decode is willing to take.
RoundTrip ==
  how = "sent" /\ IsValid(packet.type, packet.fields)
    => Decode(packet.type, body) = {packet.fields}

\* No packet has two bodies: what a body is taken for is encoded as that body again, so
\* nothing in a body goes unlooked at.
Canonical == \A p \in Decode(packet.type, body) : Encode(packet.type, p) = {body}

\* A body that lost its end or gained a byte is refused, whatever the bytes (CheckPacketCodec,
\* ChatClient.cpp:912-926, tries it on one packet).  Only a type that is all text cannot tell.
WrongLengthRefused ==
  how \in {"cut", "extended"} /\ Layout[packet.type] # <<"Rest">>
    => Decode(packet.type, body) = {}
================================================================================
