------------------------------- MODULE ChatClient -------------------------------
(***************************************************************************)
(* The client program: main's loop over the lines typed, the connection    *)
(* and the packets received, next to the thread that reads the console.    *)
(*                                                                         *)
(* A line is a command of a kind: it quits, it sends a packet of a size,   *)
(* or the client answers it itself ("local": help, board, a command it     *)
(* does not know, cannot encode or, for the game it shows, cannot send).   *)
(* A packet is one ProcessResponse accepts or one of Refused.              *)
(***************************************************************************)
EXTENDS TcpClient, ConsoleLineInput, SequencesExt

CONSTANTS
  Script,     \* the lines the user types: their kind, and the size of what they send
  Stream,     \* the bytes the server sends
  Refused     \* the packets ProcessResponse returns false for

ASSUME ScriptAssumption ==
  Script \in Seq([kind : {"quit", "send", "local"}, size : Nat, length : Nat \ {0}])

ASSUME StreamAssumption == Stream \in Seq([packet : Nat, at : Nat \ {0}, size : Nat])

\* Its bytes are named by what ProcessRecvBuffer cuts it into: the first packet is number 1,
\* and a packet of a size it accepts begins once and has the next one behind it.
ASSUME StreamIsCut ==
  /\ Stream # <<>> => Stream[1].at = 1 /\ Stream[1].packet = 1
  /\ \A i \in DOMAIN Stream :
       Stream[i].at = 1 /\ Stream[i].size \in HeaderSize..MaxPacketSize =>
         LET next == i + Stream[i].size
         IN /\ \A j \in DOMAIN Stream : i < j /\ j < next => Stream[j].at # 1
            /\ next \in DOMAIN Stream =>
                 Stream[next].at = 1 /\ Stream[next].packet = Stream[i].packet + 1

VARIABLES
  main,       \* where main is, see MainPlaces
  why,        \* why it left its loop
  obeyed,     \* the lines ProcessCommand was called for
  handled,    \* the packets ProcessResponse was called for
  typed       \* how many lines of Script the user has typed

mainVars == <<main, why, obeyed, handled, typed>>
vars == <<tcpVars, readerVars, mainVars>>

InLoop == {"lines", "console", "run", "cut", "packets"}
MainPlaces == {"connect", "disconnect", "waiting", "joining", "ended"} \cup InLoop

Init ==
  /\ TcpInit(Stream) /\ ConsoleInit
  /\ main = "connect" /\ why = "None"
  /\ obeyed = <<>> /\ handled = <<>> /\ typed = 0

Go(place) == main' = place /\ UNCHANGED <<why, obeyed, handled, typed>>

Leave(reason) ==
  /\ main' = "disconnect" /\ why' = reason
  /\ UNCHANGED <<obeyed, handled, typed>>

-----------------------------------------------------------------------------
(* Before the loop *)

ConnectSucceeds == main = "connect" /\ Connect /\ StartReader /\ Go("lines")

ConnectFails == main = "connect" /\ Go("ended") /\ UNCHANGED <<tcpVars, readerVars>>

-----------------------------------------------------------------------------
(* The lines typed *)

\* The number of the line at the front of the queue, 0 if it is not a line as typed.
FirstLine ==
  LET text == Head(lines)
      n    == text[1].line
  IN IF text = LineOf(n, Script[n].length) THEN n ELSE 0

Command == IF FirstLine = 0 THEN [kind |-> "local", size |-> 0] ELSE Script[FirstLine]

\* ProcessCommand's outcome and what becomes of running.
Obey(outcome, reason) ==
  /\ main = "lines" /\ TryPop
  /\ outcome
  /\ obeyed' = Append(obeyed, FirstLine)
  /\ main' = (IF reason = "None" THEN "lines" ELSE "disconnect") /\ why' = reason
  /\ UNCHANGED <<handled, typed>>

ObeyHere ==
  /\ lines # <<>> /\ Command.kind # "send"
  /\ Obey(UNCHANGED tcpVars, IF Command.kind = "quit" THEN "Quit" ELSE "None")

ObeySend ==
  /\ lines # <<>> /\ Command.kind = "send"
  /\ IF CanSend(Command.size)
     THEN Obey(SendPacket(FirstLine, Command.size), "None")
     ELSE Obey(UNCHANGED tcpVars, "CannotSend")

NoLine == main = "lines" /\ lines = <<>> /\ Go("console") /\ UNCHANGED <<tcpVars, readerVars>>

TestFinished ==
  /\ main = "console"
  /\ IF finished THEN Leave("NoConsole") ELSE Go("run")
  /\ UNCHANGED <<tcpVars, readerVars>>

-----------------------------------------------------------------------------
(* Run: select, then Receive, then FlushSend *)

Readable == arrived # <<>> \/ link # "up"

RunReceives == main = "run" /\ Readable /\ Receive /\ Go("cut") /\ UNCHANGED readerVars

RunFails ==
  /\ main = "run"
  /\ \/ link = "broken" /\ Leave("SelectFailed")
     \/ ReceiveFailure # "None" /\ Leave(ReceiveFailure)
  /\ UNCHANGED <<tcpVars, readerVars>>

CutPacket == main = "cut" /\ PushPacket /\ UNCHANGED <<readerVars, mainVars>>

CutFails ==
  /\ main = "cut" /\ Refusal # "None"
  /\ Leave(Refusal) /\ UNCHANGED <<tcpVars, readerVars>>

\* select has returned for a socket that is not readable, or after 100 ms.
NothingToReceive_NoTimeout == main = "run" /\ ~Readable /\ sendBuffer # <<>>

NothingToReceive == main = "run" /\ ~Readable

ReceivedAll == NothingToReceive \/ (main = "cut" /\ NoMorePackets)

\* FlushSend, if the socket is writable and there was something to send.
Flush ==
  /\ ReceivedAll
  /\ \E k \in 0..Len(sendBuffer) : FlushSend(k)
  /\ Go("packets") /\ UNCHANGED readerVars

FlushError ==
  /\ ReceivedAll /\ sendBuffer # <<>>
  /\ FlushFails /\ Leave("SendFailed") /\ UNCHANGED readerVars

-----------------------------------------------------------------------------
(* The packets received *)

HandlePacket ==
  /\ main = "packets" /\ TryPopPacket
  /\ handled' = Append(handled, Head(packets))
  /\ IF Head(packets) \in Refused
     THEN main' = "disconnect" /\ why' = "Refused"
     ELSE UNCHANGED <<main, why>>
  /\ UNCHANGED <<readerVars, obeyed, typed>>

NoPacket == main = "packets" /\ packets = <<>> /\ Go("lines") /\ UNCHANGED <<tcpVars, readerVars>>

-----------------------------------------------------------------------------
(* After the loop: Disconnect, and the destructor of the console's input *)

Stop == main = "disconnect" /\ Disconnect /\ TellToStop /\ Go("waiting")

\* Each time the wait for the thread has timed out.
CancelReader_Once ==
  /\ main = "waiting" /\ reader # "gone"
  /\ CancelRead /\ Go("joining") /\ UNCHANGED tcpVars

CancelReader ==
  /\ main = "waiting" /\ reader # "gone"
  /\ CancelRead /\ UNCHANGED <<tcpVars, mainVars>>

ReaderGone == main = "waiting" /\ reader = "gone" /\ Go("joining") /\ UNCHANGED <<tcpVars, readerVars>>

Join == main = "joining" /\ reader = "gone" /\ Go("ended") /\ UNCHANGED <<tcpVars, readerVars>>

-----------------------------------------------------------------------------

UserTypes ==
  /\ main # "ended" /\ typed < Len(Script) /\ typed' = typed + 1
  /\ TypeLine(typed', Script[typed'].length)
  /\ UNCHANGED <<tcpVars, main, why, obeyed, handled>>

UserCloses == main # "ended" /\ CloseConsole /\ UNCHANGED <<tcpVars, mainVars>>

Network ==
  /\ \/ Deliver
     \/ \E how \in {"closed", "broken"} : LinkEnds(how)
  /\ UNCHANGED <<readerVars, mainVars>>

Reader == ReadLines /\ UNCHANGED <<tcpVars, mainVars>>

Main ==
  \/ ConnectSucceeds \/ ConnectFails
  \/ ObeyHere \/ ObeySend \/ NoLine \/ TestFinished
  \/ RunReceives \/ RunFails \/ CutPacket \/ CutFails \/ Flush \/ FlushError
  \/ HandlePacket \/ NoPacket
  \/ Stop \/ CancelReader \/ ReaderGone \/ Join

Next == Main \/ Reader \/ UserTypes \/ UserCloses \/ Network

Spec == Init /\ [][Next]_vars

\* Both threads are scheduled.  Nobody is obliged to type, to send or to close.
FairSpec == Spec /\ WF_vars(Main) /\ WF_vars(Reader)

-----------------------------------------------------------------------------

TypeOK ==
  /\ main \in MainPlaces /\ reader \in ReaderPlaces
  /\ why \in {"None", "Quit", "CannotSend", "NoConsole", "SelectFailed", "RecvFailed",
              "BufferFull", "ServerClosed", "InvalidSize", "QueueFull", "SendFailed", "Refused"}
  /\ {open, stopping, finished, closed} \subseteq BOOLEAN
  /\ link \in {"up", "closed", "broken"}
  /\ Len(recvBuffer) <= MaxRecvBuffer /\ Len(sendBuffer) <= MaxSendBuffer
  /\ Len(packets) <= MaxPendingPackets
  /\ typed \in 0..Len(Script)

\* The client is IChatClient: the console's chunks and the connection's bytes come out as
\* the lines typed and the packets sent, in order, and not past the one that ends it
\* (main, ChatClient.cpp:1199-1242).
Dialogue == INSTANCE IChatClient WITH
  Quits   <- {n \in DOMAIN Script : Script[n].kind = "quit"},
  running <- main \in {"connect"} \cup InLoop

ImplementsDialogue == Dialogue!Spec

\* What was sent and what waits to be sent are, in order and to the byte, the packets of
\* the commands obeyed, however little each send took (FlushSend, TcpClient.cpp:262).
PacketsOf(numbers) ==
  FlattenSeq([i \in DOMAIN numbers |->
    LET n == numbers[i]
    IN IF Script[n].kind = "send" THEN Bytes(n, Script[n].size) ELSE <<>>])

CommandsGoOut ==
  open /\ why # "CannotSend" => sent \o sendBuffer = PacketsOf(obeyed)

\* What has arrived, and the packets that have arrived whole.
Delivered == SubSeq(Stream, 1, Len(Stream) - Len(toCome))

WholePackets ==
  LET whole == {i \in DOMAIN Delivered :
                  /\ Delivered[i].at = 1 /\ Delivered[i].size \in HeaderSize..MaxPacketSize
                  /\ i + Delivered[i].size - 1 <= Len(Delivered)}
  IN {Delivered[i].packet : i \in whole}

\* The client never runs into the limits of its receive buffer and its packet queue: they
\* are large enough for whatever one recv can bring (TcpClient.h:49-53).
LimitsSuffice == why \notin {"BufferFull", "QueueFull"}

\* The client stops for a reason: not for its limits; for a size only where the server has
\* sent such a header; and when it stops because the server has closed, it has
\* handled all that came before (Receive, TcpClient.cpp:215).
StopsForReason ==
  /\ LimitsSuffice
  /\ why = "InvalidSize" =>
       \E i \in DOMAIN Delivered :
         Delivered[i].at = 1 /\ Delivered[i].size \notin HeaderSize..MaxPacketSize
  /\ why = "ServerClosed" =>
       link = "closed" /\ WholePackets \subseteq {handled[i] : i \in DOMAIN handled}

\* A client that has left its loop ends: the thread that may be anywhere on its way to
\* ReadConsoleW is brought back ("Retry cancellation to cover shutdown immediately before
\* ReadConsoleW", ChatClient.cpp:1100).
ClientEnds == main \in {"disconnect", "waiting", "joining"} ~> main = "ended"

\* The client always catches up: the lines typed are obeyed and the packets that have
\* arrived are handled unless it ends, and neither waits for the other to come (the 100 ms
\* of Run, TcpClient.cpp:102-106).
EveryoneIsServed ==
  []<>(main \in InLoop => Len(obeyed) = typed /\ WholePackets \subseteq {handled[i] : i \in DOMAIN handled})
================================================================================
