# Select_Server in TLA+

A verification project for Select_Server, a chat and omok (gomoku) server in C++:
TLA+ modules of the server's parts, TLC runs that check them on small instances,
and TLAPS proofs of the results that matter most for every instance. Paths are
relative to the repository root, `src/`. `PROJECT.json` maps every definition to
its lines.

## The system

One thread runs everything on the server. `ServerApp::Run`
(ChatServerFolder/ConsoleHost/ServerApp.cpp:63) alternates between
`TcpNetwork::Run`, which does the sockets, and `PacketProcessor::Update`, which
does the logic. What crosses between them is a queue of events (`TryPopEvent`)
one way and `SendPacket`, `Disconnect`, `IsConnected` the other way (`INetwork`).
Concurrency is therefore not of threads: it is of clients, whose packets,
closings and silence meet in one queue; of time, which passes between any two
calls; and of calls inside `Update` that disconnect other clients on the way.

The client has two threads. `main` (ChatClient/ChatClient.cpp:1199-1244) alternates
between the lines typed, `TcpClient::Run` and the packets received; the thread of
`ConsoleLineInput` waits in `ReadConsoleW`. They share a queue under a lock and two
atomic flags.

| Component | State | Operations | Talks to | Correct when |
| --- | --- | --- | --- | --- |
| `OmokGame` | board, status, whose turn, count of moves | Reset, Start, TryPlaceStone, Forfeit | called by Room | exactly the moves that make a line win; turns alternate; the board and the count agree |
| `Room` | members, host, ready guest, phase, the game, its id, who is black and white, the deadline of the turn | AddMember, RemoveMember, SetReady, StartGame, PlaceStone, Forfeit, FinishGame | OmokGame; called by RoomManager | host and guest are members, a game has its two players, readiness belongs to the guest of now |
| `UserManager` | user by session, session by nickname | Login, Remove | called by RoomManager, PacketProcessor | the two maps are inverse |
| `RoomManager` | rooms, last room id, last game id, queue of finished games | CreateRoom, EnterRoom, LeaveRoom, SetReady, StartGame, PlaceStone, Resign, UpdateTimeouts, TryPopFinishedGame, GetRoomsAfter | Room, UserManager | users and rooms agree; a game ends once, for the right reason; a timeout comes before anything that arrives after it |
| `PacketProcessor` | login deadlines | Update: a handler per packet, clean-up of lost connections, notifications, deadlines | INetwork, RoomManager, UserManager | nobody acts without a login, no ghosts, every result and state is told, in order |
| codecs (`Common/`) | none | encode, decode, validity | used by both sides | what the server has to tell can be encoded |
| `TcpNetwork` | clients with receive and send buffers, event queue, last session id | Run (receive, send, accept), TryPopEvent, SendPacket, Disconnect, Release | sockets; PacketProcessor through INetwork | packets whole and in order whatever the chunks; every session's end is told once, last; limits kept |
| `ServerApp`, `ConsoleHost` | running or not | Init, Run, Shutdown | all | alternation; logic goes before network |
| `ChatClient` view | room, game, board, whose turn | every answer and notification | codecs | follows the server and never gives up on a sound one |
| `ChatClient` `TcpClient` | socket, receive and send buffers, queue of packets | Connect, Disconnect, SendPacket, Run (Receive, FlushSend), TryPopPacket | socket; main | packets whole and in order; its limits never stop an honest server |
| `ChatClient` `ConsoleLineInput` | lines read, stop and finished flags, the reader's thread | Start, ReadLines (on its thread), TryPop, Finished, the destructor | Windows console; main | lines whole and in order; the thread can always be joined |
| `ChatClient` main | running | its loop: lines, `Run`, packets | all of the client | serves both sides; ends |

What is hard: a request looked at after the time it should have been in by;
packets of a client that has been disconnected meanwhile; several results in one
batch and their order against the announcements of the room; a member that is
lost while he is told of another's loss; ids and limits at their last value;
packets cut anywhere; a thread inside a call that only a key or a cancellation
ends; a list read in pages while it changes; two codecs that must agree though
written apart. `PROJECT.json` lists these hazards at their lines with the
properties aimed at them.

## The modules

| Module | Models | How |
| --- | --- | --- |
| `GameRules` | a game without its board | operators on a record; whether a move makes a line is an input, possible from the `FirstWin`-th stone on |
| `GameTurns` | what a room relies on | those operators as a specification |
| `OmokGame` | OmokGame.{h,cpp} | the board; an action per method; refines `GameTurns` |
| `Room` | Room.{h,cpp} | an operator per method, from room to room |
| `RoomManager` | RoomManager, UserManager, User | an action per public operation; `...Result` operators give the code that is answered; a refused request changes nothing |
| `Packets` | validity in the codecs | `IsValid...` of a move, an end, a room state, a page of rooms |
| `Codec` | PacketCode.h, RoomPacketCodec.h, GamePacketCodec.h | a layout per type of packet; writing and reading a field; `Encode` and `Decode` yield a set of at most one result |
| `ClientView` | ClientGameView, `ProcessResponse` | what each message does to a client's view; a client that gives up has an `error` |
| `PacketProcessor` | PacketProcessor*.cpp, the loop | `agenda` is what `Update` has still to call; each call is one step and uses the actions of `RoomManager`; every notification is read by the views |
| `RoomList` | GetRoomsAfter, HandleRoomList, the `rooms` command and its next page | a walk through the pages beside any step of `RoomManager` |
| `INetwork` | what the logic is promised | per session, what it is told: connected, packets in order, disconnected last |
| `TcpNetwork` | TcpNetwork.{h,cpp} | an action per thing a socket, the event queue or the logic does; bytes know their packet; refines `INetwork` |
| `TcpClient` | TcpClient.{h,cpp} | its methods as parts of actions, a byte at a time from the network, a chunk at a time into the buffer |
| `ConsoleLineInput` | ConsoleLineInput in ChatClient.cpp | the thread by where it stands, the console it reads from |
| `ChatClient` | main, ProcessCommand and ProcessResponse by their outcome | composes the two; refines `IChatClient` |
| `IChatClient` | what user and server are promised | lines obeyed and packets handled, each once and in order, up to the one that ends it |
| `RoomManagerProofs`, `RoomListProofs` | | theorems about rooms, the managers and their games; about the list of rooms |
| `ServerProofs` | | theorems about the server loop and what clients know |
| `OmokProofs`, `NetworkProofs`, `ClientProofs`, `CodecProofs` | | theorems about the board, the network, the client, the codecs |
| `Recursion` | | induction for the proofs about recursive functions, and lemmas about `FlattenSeq` |
| `MC...` | | instances |

`Room` is built on `GameRules`, `RoomManager` on `Room`, `PacketProcessor` on
`RoomManager`, `ClientView` and `Packets`. `OmokGame` joins them through
`GameTurns`: the managers are checked with games without a board, and the board
is checked to be such a game. In the same way `PacketProcessor` uses only the
sort of queue that `INetwork` promises, and `TcpNetwork` is checked to keep the
promise. `RoomList` adds a walk to `RoomManager`. `Codec` puts bytes
under the conditions of `Packets` that `PacketProcessor` checks what it sends against. `ChatClient` joins `TcpClient`
and `ConsoleLineInput` by main's loop.

Some correspondences a reader may ask about:

- Time. A deadline is a count of the time left (`left` of a room, `deadlines`);
  `Tick` and `PassTime` lower it, at any moment, also between two calls of one
  `Update`. A `Connected` event has its age, because its deadline counts from
  when it was accepted.
- Session ids are never given twice by `TcpNetwork`. In `RoomManager` and
  `PacketProcessor` an id comes back, but only after everything about it is
  forgotten, so that instances are finite.
- `HandleDisconnected` calls `LeaveRoom`, then removes the user, then sends the
  results, then tells the room. In `RoomManager`, which sends nothing, leaving and removing are one
  step, `LeaveAndRemove`; in `PacketProcessor` the result follows as the next
  item of the agenda. Nothing is looked up in between.
- `UpdateTimeouts` goes through an unordered map: the results of rooms that
  expire together enter the queue in any order (`Orders`).
- Invalid nicknames and titles are refused and change nothing; they are left
  out. So is whatever is only printed.
- The views are updated when a message is sent. A client reads what it is sent
  in order and the view depends on nothing else, so reading later gives the same
  sequence of views.
- `GamesAnswerRequests` compares the game a move or a resignation named with the
  games it changed: the request is the head of the agenda, so it is still there to
  be compared with.
- In `ConsoleLineInput` a character carries the number of its line, so that a line
  put together wrongly can be told from a line as typed. The test of `m_stopping`,
  the way to `ReadConsoleW` and the call are three places (`ReaderPlaces`), because
  `CancelSynchronousIo` works at the last one only.
- `TcpClient` fails by returning false, and main then disconnects: failures are a
  reason (`ReceiveFailure`, `Refusal`) that main leaves its loop with (`why`).
- `send` takes any number of bytes, none if it would block; `select` returns
  because of the socket or after 100 ms, so `NothingToReceive` needs no event.
- In `Codec` a word has two bytes below `Base` instead of four below 256; the code
  puts together words of any width in the same way. What Encode does not look at
  (`CheckedByEncode` names the types where it does) is encoded unseen, as in the code.
- `TcpNetwork` serves its clients in any order, a looser rule than the code's,
  and accepts any number of clients in one `Run` (`MaxAcceptsPerRun` left out).

## The runs

| Run | Instance | What it shows |
| --- | --- | --- |
| MCOmokGame | 3 by 3, three in a row | lines are found (`NoLineMissed`); `OmokGame` implements `GameTurns` |
| MCOmokLine | 4 by 4, two in a row | a move wins exactly if it makes a line, also one longer than needed, which arises when a stone closes a gap |
| MCRoomManager | 3 sessions, 2 rooms, 2 games, 2 cells, turns of 2 | users, rooms and nicknames agree; games undisturbed; time is earned; games start ready |
| MCTwoTables | 4 players seated at 2 tables, 3 cells, fair | two games at once: their ids, their results, their timeouts together; a line before the board is full; every game ends |
| MCGate | 2 connections, logins and rubbish, one does not read | deadlines, no late login; connections that do not log in are dropped, users whose connection is lost are removed |
| MCTable | 2 players at a table, 2 events per `Update` | results are sent in the same `Update`; boards do not go out of step; nobody is cut off without reason; requests change only the game they name |
| MCServer | 2 connections, every packet, one event per `Update` | states of rooms and ends of games encode; views agree; the server uses the managers only by their operations |
| MCEndOrder | as MCTable | **violated**, see the finding below |
| MCTcpNetwork | 3 sessions on 2 connections, headers of 2, packets up to 3 bytes, recv of 4, fair | a place in the queue for every end; receive buffers hold less than a packet; `TcpNetwork` implements `INetwork`; every loss of a connection is told |
| MCChatClient | 3 lines, 3 packets with a refused one and a wrong header, chunks of 2, fair | commands go out to the byte and in order; the client stops for a reason and never for its own limits; it implements `IChatClient`; both sides are served; it ends |
| MCRoomList | 4 sessions, 3 rooms, pages of 1, 4 ids, numbers of base 3 | the walk misses nothing that stays; every page encodes; the number typed is the one asked for |
| MCCodec | bytes below 8, every type, texts up to 3 | what is sent is what is read; a packet has one body; wrong lengths are refused |

Bounds. Two players are all a room can have; a third session is a stranger who
wants a nickname, a room or a seat that is taken, and four sessions make two
tables. Two rooms and two games are the fewest for an id to be stale, for
rooms to be re-made, and for the limits of ids to be reached. `Cells` and
`FirstWin` of 2 or 3 let a game end by a line, by a full board, by both at once
(FirstWin = Cells in the two-cell instances), and by neither. `MaxBatch` 2 is the fewest
for one request to change what the next one in the batch finds. On the network,
a chunk of 4 with packets of 2 and 3 holds several packets, parts of one, and a
header cut in two; streams with a length that is too small or too large are
among those sent, and a queue of 4 for two connections fills.

In the client, headers of 1, packets of at most 2 and chunks of 2 stand to the limits
of its buffers exactly as 4, 4096 and 4096 stand to 8192 and 1024
(`ClientLimits`): two packets of a chunk fill the queue, and a rest with a chunk
fills the buffer. The two commands that send do not fit the send buffer together,
so `send` must make room, and the third line quits; lines are read in chunks
that hold a line's end and the next one's beginning. In `RoomList`, pages of one room
make every page but the last have a next one, ids reach their limit, and the
numbers of two digits go beyond it. Codes below 8 hold all values of the
enumerations of games and one more; results are cut at 2. Words have a carry, a full
board and 0 among them, lists up to two entries, texts are empty, too long and in between,
and the changed byte takes every value at every place. The longest message has `Base` bytes,
as in the code (`MAX_CHAT_MESSAGE_BYTES` is 256): it is the one message whose length does not fit
the second byte, and one longer is refused.

Deadlock is checked but where the system stops: `TcpNetwork` after `Release`, the
client when it has ended, a packet that was sent, a table where everybody has gone
(players do not come back in MCTwoTables), and a walk that is over in an empty lobby with no room ids left. The seated instances start with players at their tables, the
state that logging in, creating, entering and getting ready leads to.

Fairness. `GamesEnd`, `SilentAreDropped`, `GhostsAreBuried` and `LossIsTold` need
what `ServerApp::Run` gives: its loop (63-93) never waits for a client (select
has a timeout and the sockets do not block), so `Update` is called again and
again and finishes, and the network's own steps (`Loop`) go on. And they need that time passes
(`WF` of `Tick`, `PassTime`). Nothing is assumed of clients: none has to send,
to read or to go away.

`ClientEnds` and `EveryoneIsServed` need that both threads of the client are scheduled
(`WF` of `Main` and of `Reader`), and nothing of the user, the network or the server. The
reader inside `ReadConsoleW` with nothing typed has no step of its own: what ends it
is the cancellation, which the destructor repeats every time its wait runs out
(ChatClient.cpp:1100).

## What is proved

TLAPS checks, for every value of the constants allowed by the `ASSUME`s (which
TLC evaluates in the runs). `PROJECT.json` lists the theorems; here is how they go.

**The managers** (`RoomManagerProofs`).
`Invariance`: `Spec => []Inv` with
`Inv == TypeOK /\ NicknamesAgree /\ MembersAgree /\ LobbyMeansNoRoom /\ RoomsSound`.
The parts need each other: that a room stays sound when somebody leaves needs
that he is a member, which only his user says (`MembersAgree`); and that needs
lobby users to have no room. From `Inv` follows `NoStateMismatch`, which is not
about what happens but about what the guards would answer. `GameEndsOnce` is
not inductive: a new id must differ from every id in the queue, hence
`OnceInv == Inv /\ GameEndsOnce /\ QueueIsOld`, where `QueueIsOld` bounds those
ids by `lastGameId`. The lemmas about `Room` come first: each method keeps a
good room good; what a forfeit, a move and a departure leave behind.

**The games of the rooms** (the second part of `RoomManagerProofs`). One lemma carries all five theorems:
whatever operation a step is, `StepShape` holds of it, that is, each room changes in one
of a few ways (`RoomStep`) and the queue of results either loses its head or grows by the results of
games that were running. The action properties `TimeoutComesFirst`,
`GameRunsUndisturbed`, `TimeIsEarned` and `GameStartsReady` follow by cases from `Inv`
and that. `EndingsSound` is an invariant of the results and needs one of the games still
running: `EndingsInv == Inv /\ MovesInTurn /\ EndingsSound`, where `MovesInTurn` says
that whose turn it is agrees with the number of moves. Without it a result could not say who
made the last move.

**The server loop** (`ServerProofs`).
`ServerImplementsManagers`: each step of the server is a step of `RoomManager` or leaves
its variables alone, so everything above holds in the whole server (`ServerSound`,
`ServerGamesSound`). The strengthening is `EventsOK`, that the sessions in the queue are
sessions. On that rest:

- `NotificationsEncode` (`EverythingEncodes`): every GAME_END_NTF and ROOM_STATE_NTF is a valid
  packet, from the soundness of rooms and endings, with no further invariant. A move whose
  notification is not encoded cuts off the players, which `CutForReason` excludes. What
  ROOM_MEMBER_NTF and CHAT_NTF hold, nicknames and messages, was tested when it came in.
- `DeadlinesAreExact`, by `DeadlinesInv`. A deadline is right only if the events of a
  session come in order: `QueueInv` says that `Connected` is the first of them and
  `Disconnected` the last, that who is reported gone is no client, and that a connection not
  yet looked at has no user and no more than its age. `ServerShape` lists what a step may do to
  users, queue, clients and deadlines together. `LoginsAreInTime` (`NoLateLogin`) follows:
  `Update` checks the deadlines after the batch, and what keeps a late login out is the test
  before each packet.
- `NobodyIsCutForNothing` (`CutForReason`), by cases on the calls of the agenda.
- `UpdateTellsAll` (`ResultsAreOut`), by `AgendaInv`: as long as results wait, a flush is on
  the agenda, and behind each call that may end games (`UpdateTimeouts`, the next event)
  there is one to come.
- `GamesChangeOnRequest` (`GamesAnswerRequests`), by cases on the handlers.

**What clients know** (the last part of `ServerProofs`). `BoardsStayInSync` (`BoardsInSync`) and
`ViewsAlwaysAgree` (`ViewsAgree`). Both are about views that are right only
between updates; the invariant says what is the case meanwhile. By `ViewsInv` the
view of every client that is connected and has not failed is in one of these states
(`ViewOK`): it agrees with its room (`Agrees`); it shows another room or an earlier game
and a ROOM_STATE_NTF of the room is on the agenda (`Outdated`); it shows a game that is
over, all of whose moves it has, and the result is in the queue with this client among its
targets (`AwaitsEnd`); or its user is in the lobby and it knows of no room, or the
answer to its leave is on the agenda. Three facts keep that up. `NoticesFirst`: what is
to be told of a room or to a leaver stands on the agenda before the next event and the next
look at deadlines, so that a handler finds no view `Outdated` and a move reaches only views
that agree. `LeaversLeft`: whoever is about to be told that he has left is in the
lobby, so that the reset of his view is right when it comes. `OnceInv`: a result in the
queue is of no game that runs, so a GAME_END_NTF never ends the view of a running game. What
others do to a room without a message to its members (expire, resign, leave, tick) is
`Silent`: it leaves the game as it was, or resets one that did not run, or puts a result in
the queue. `EndOutOfSync` is allowed in `ViewsInv`: it is the finding below, after which the
client has stopped.

**The board** (`OmokProofs`). `NoLineIsMissed`: on a board of any size, for lines of any
length, looking around the last stone finds every line. `CountDirection` counts the
stones up to the first other cell, a line that was not there before goes through the new
stone, and the two counts of its direction add up to at least its length. `MovesWinByLines`:
a move wins exactly if it makes a line. `BoardImplementsTurns`: `OmokGame` implements
`GameTurns`. A room's game may make a line only from the `FirstWin`-th move on;
here `FirstWin` is `2 * WinLength - 1`, and `TurnsAgree` counts the stones of each
colour: a line needs `WinLength` of its own, so the other player has made
`WinLength - 1` moves. `OmokInv == TypeOK /\ NoLineMissed /\ TurnsAgree`.

**The list of rooms** (`RoomListProofs`). `WalksShowAll` (`WalkSound`), `EveryListIsSent`
(`ListsAreSent`) and `NumbersAreRead` (`AskedAsTyped`) hold for every page size, every
largest room id and numbers of every length, however rooms come and go between two pages.
`GetRoomsAfterIs`: the rooms of a page increase, and none that is there is left out between
its first and its last, or, on the last page, at all; `EnumerationExists` puts a finite
set of ids in order for that. `ParseRoomIdIs`: `TryParseRoomId` gives the number of the digits or
refuses, exactly if that number exceeds the largest id; the test before each digit,
`value > (MaxRoomId - digit) \div Base`, is as strict as the step behind it (`QuotientLess`).
`PrintedIsRead`: what is printed for the next page is read as that id. The invariant is
`Inv /\ WalkInv`. `WalkInv` adds to `WalkSound` that a walk goes upwards (`Upwards`):
what was shown lies above the number typed and not above the place where the
next page begins; otherwise a page could show again what an earlier one has shown. That no
entry has more users than seats, which the codec tests, is `RoomsSound` of the managers.

**The network** (`NetworkProofs`). `NetInv == TypeOK /\ Progress /\ EventSlotReserved`
gives the types and the limit of the queue that `CloseClient` does not test
(`SlotsReserved`). `Progress` says which clients Run still has before it; without it, a
client closed while its buffer is processed would leave `serving` dangling.
`StoryInv` adds what each session is told. The notes of a session are numbered, Connected
0 and its packets from 1: what was told has the first numbers, its events in the queue go on
with them in the order of the queue (`QueueFits`), and the first packet that
its buffer and its peer still hold is the next one (`BuffersFit`). A client is not told of
its end, nor is that in the queue (`ClientsAreTold`). Popping, receiving, cutting, accepting
and closing each keep this for their session and leave that of every other alone.
From it follow `RestsArePartial` (`RestIsPartial`) and `NetworkImplementsINetwork`:
`TcpNetwork` implements `INetwork`, whatever the clients, chunks and limits are.
The assumption `StreamsAreCut` says nothing of what a peer may send; it is how
the model names bytes. Where a packet with a size that is accepted ends, the next one
begins; behind any other size bytes may be named at will.

**The client** (`ClientProofs`). `LimitsAreEnough`: it never finds its receive buffer or
its queue of packets full, whatever it is sent. It rests on `ClientLimits`, what
TcpClient.h:49-53 says of the constants: 8192 holds the 4095 bytes of a packet that is not
whole and a chunk of 4096, and 1024 headers of 4 bytes fill a chunk. The invariant follows a
chunk through `ProcessRecvBuffer`: `PartialInv`, outside it the buffer holds less than a
packet; `ChunkInv`, inside it the first packet ends in the new chunk and the others
lie in it. Without `PartialInv` the first packet could be all old, and there would be one
packet too many.
`ReasonsAreGood` (`StopsForReason`) adds `PacketsFollow`: the packets handled are 1 to
some k, those in the queue go on with k + 1, and behind them the bytes of the receive buffer,
of the connection and of the server are pieces of `Stream` that follow each other, cut
where the next packet begins. So a size that stops the client is one the server has sent,
and when recv finds the connection closed everything that is whole has been handled.
`LinesFollow` says the same of the console: the lines obeyed, those in the queue, the line
being read and the text the thread or the console still holds follow each other in `Script`,
each character leading from its place to the one behind it. Together they give
`ClientImplementsDialogue`: `ChatClient` implements `IChatClient`, for any script, stream
and limits. `StreamIsCut` is to the client what `StreamsAreCut` is to the network: how bytes
are named, not what a server may send.
`CommandsAreSent` (`CommandsGoOut`) adds `CommandsInv`: outside its loop the client has sent
nothing or is closed, and inside it what was sent and what waits to be sent are the packets of
the lines obeyed. `SendPacket` puts a packet behind the others (`PacketsAppend`), and
`FlushSend` moves the border between sent and waiting, wherever `send` stops (`CutInTwo`).

**The codecs** (`CodecProofs`). `SentIsRead` (`RoundTrip`), `OneBodyEach` (`Canonical`) and
`LengthIsChecked` (`WrongLengthRefused`), for bytes of any size above 6 (the values of the
enumerations), any values sent, and all limits whose lengths have room: a byte for nicknames,
titles and lists, a word for messages (`CodecConstants`, which the code's limits
meet: 16, 48, 20 and 256). A codec (`IsCodec`) writes values and reads
them: what was written is read again, whatever bytes follow it, and a value is read only
where it was written. The second half is what makes an accepted body the only one of its packet. Bytes, words,
texts and enumerations have codecs (`ScalarCodecs`); codecs one after the other make one
(`RowCodec`, by induction), and so do a length and its entries (`ListCodec`); so the layout of every type has
one (`PacketCodec`). A byte beyond the last name of an enumeration is read as "Unknown" and
never written, so `IsCodec` speaks of two sets of values. `Decode` refuses those bytes
(`ValidIsKnown`), and `Encode` refuses what its bytes have no room for (`EncodedFits`): the length
of a text by its limit or, for a title the user typed, by the test in `Text8`. A body cut short is then refused because the
whole body would be read as two packets with different rests (`CutIsRefused`). `CodecInv` says where
a body comes from.

**Induction** (`Recursion`). The induction theorems of the library take the predicate as a
parameter, which no prover here can instantiate. In `UpTo` a set stands for the predicate,
the numbers it holds of. `NatLeast`, that a set of numbers has a least one, comes from a
theorem of the library about finite sets. On these rest `Recursive` (a function defined by
recursion on 0..n exists), `StaysIn` (what its values have in common) and `FlattenAppend`
(`FlattenSeq`, one sequence at a time).

The type invariants (`TypeOK` of RoomManager, OmokGame and TcpNetwork, `ServerTypeOK` of
PacketProcessor) are parts of what is
proved and in no run of their own.

**Only model-checked.** Liveness, which is out of the prover's reach: `GamesEnd`,
`SilentAreDropped`, `GhostsAreBuried`, `LossIsTold`, `ClientEnds`, `EveryoneIsServed`.
Every invariant and action property of a passing run is a theorem.

## The finding

`EndsInSync` is violated. A game that ends by a move or by a resignation puts its
result into the queue, which `Update` sends at its end. If the guest's
ROOM_READY_REQ is in the same batch, `HandleRoomReady` announces the room as
`Waiting` first (PacketProcessor.cpp:508). The client takes that for the end of
its game, and the GAME_END_NTF of the same game that follows is an error to it
(ChatClient.cpp:850): "Game end state is out of sync.", and it quits. After a
resignation it has also wiped the board that ChatClient.cpp:677 means to keep.
MCEndOrder gives the trace. `HandleRoomLeave` and `HandleDisconnected` send the
results before they announce the room.

Noticed on the way, without a run: `HandleChat` answers success twice
(PacketProcessorChat.cpp:75 and :82).

Two things the client does at its end are within what `IChatClient` allows, and
promised otherwise by nobody: the lines that come in between the last `TryPop` and
the test of `Finished` (ChatClient.cpp:1219) are dropped, and so is what still waits
to be sent when the user quits (:1244).

## What is not modelled

- Setting up sockets (`TcpNetwork::Init`, the handshake in `TcpClient::Connect`), ports
  and configuration, the `q` key of the server: calls of the system, once, before
  anything else happens.
- `MaxAcceptsPerRun` and the order in which clients are served: looser in the model.
- The words of commands and all that is printed. A command is what it does: it quits,
  sends a packet, or neither.
- In the codecs, `MAX_PACKET_SIZE`: the largest page of rooms takes about a quarter of it.
- The bytes of the server's send buffers. `TcpNetwork` keeps their sizes and the limit, which is
  part of the proved type invariant; that a packet is queued whole or not at all is
  one assignment there. `PacketProcessor` is given the clients that are too slow (`SlowClients`).
- The tests (`ServerTests`, with `FakeNetwork`), which were read for what they promise.
  Nothing the program does is defined there.

## Plan

1. Done: `GameRules`, `OmokGame`, `Room`, `RoomManager` with their proofs;
   `PacketProcessor` with the clients' views; `TcpNetwork` and `INetwork`.
2. Done: `TcpClient`, `ConsoleLineInput`, `ChatClient` and `IChatClient`; `RoomList`;
   `Codec`; the games that requests may change.
3. Done: the proofs of the games, the server loop, the board, the network and the client,
   with three refinements (`GameTurns`, `INetwork`, `IChatClient`).
4. Done: the proofs that clients' views follow the server, that a walk through the list of
   rooms misses none, that commands go out to the byte, and that the two ends of the codecs agree.
5. Possible compositions: `ChatClient` and `TcpNetwork` joined by a stream of bytes; the
   events of `PacketProcessor` checked against `INetwork`.
