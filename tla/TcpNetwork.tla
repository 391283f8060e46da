------------------------------ MODULE TcpNetwork ------------------------------
(***************************************************************************)
(* TcpNetwork: the select loop over the client sockets, the receive buffer *)
(* that packets are cut from, the send buffer, and the queue of events.    *)
(*                                                                         *)
(* The server alternates between Run ("serve" the clients, then "accept"   *)
(* new ones) and Update, which pops events until there are none ("drain")  *)
(* and may still send and disconnect "after" that.  Cutting packets from a *)
(* receive buffer takes one step per packet, with nothing in between.      *)
(*                                                                         *)
(* A byte is named by the packet it belongs to, its place there and the    *)
(* size that packet's header claims.                                       *)
(*                                                                         *)
(* Two things are left looser than they are.  Run serves its clients in    *)
(* the order of m_clients, receiving before it sends; here in any order.   *)
(* MaxAcceptsPerRun is left out: Run may accept any number of clients.     *)
(***************************************************************************)
EXTENDS Naturals, Sequences, FiniteSets

CONSTANTS
  MaxClients, MaxQueuedEvents, MaxRecvBufferBytes, MaxSendBufferBytes,  \* NetworkConfig
  MaxSessionId,    \* the largest SessionId (2^64 - 1 in the code)
  HeaderSize,      \* HEADER_SIZE
  MaxPacketSize,   \* MAX_PACKET_SIZE
  RecvChunk,       \* the bytes one recv takes at most
  Streams,         \* what a peer may have to send, a set of sequences of bytes
  None

\* What TcpNetwork::Init insists on.
ASSUME NetworkConfig ==
  /\ MaxClients \in Nat \ {0}
  /\ MaxQueuedEvents \in Nat /\ MaxQueuedEvents >= 2 * MaxClients
  /\ HeaderSize \in Nat \ {0} /\ MaxPacketSize \in Nat /\ HeaderSize <= MaxPacketSize
  /\ RecvChunk \in Nat \ {0}
  /\ MaxRecvBufferBytes \in Nat /\ MaxRecvBufferBytes >= MaxPacketSize + RecvChunk
  /\ MaxSendBufferBytes \in Nat /\ MaxSendBufferBytes >= MaxPacketSize
  /\ MaxSessionId \in Nat
  /\ None \notin 1..MaxSessionId
  /\ Streams \subseteq Seq([packet : Nat, at : Nat, size : Nat])

\* A byte is named by what its stream is cut into: the first packet is number 1, and behind
\* a packet of a size that ProcessRecvBuffer accepts comes the next one.
ASSUME StreamsAreCut ==
  \A stream \in Streams :
    /\ stream # <<>> => stream[1].at = 1 /\ stream[1].packet = 1
    /\ \A i \in DOMAIN stream :
         LET next == i + stream[i].size
         IN /\ stream[i].at = 1 /\ stream[i].size \in HeaderSize..MaxPacketSize
            /\ next \in DOMAIN stream
            => stream[next].at = 1 /\ stream[next].packet = stream[i].packet + 1

VARIABLES
  phase,           \* "serve", "accept", "drain", "after" or "stopped"
  clients,         \* the Ids in m_clients
  recvBuffer,      \* RecvBuffer of each client
  sendBuffer,      \* the size of SendBuffer of each client
  events,          \* m_events
  lastSessionId,   \* m_lastSessionId
  todo,            \* clients that Run has not yet looked at
  serving,         \* the client whose receive buffer is being processed, or None
  readPos,         \* readPos of ProcessRecvBuffer
  incoming,        \* what each peer has still to send
  told             \* the events popped, by session

net  == <<clients, events, recvBuffer, sendBuffer, incoming>>
vars == <<phase, net, lastSessionId, todo, serving, readPos, told>>

SessionIds == 1..MaxSessionId

Note(type, packet) == [type |-> type, packet |-> packet]
Event(type, s, packet) == [session |-> s, note |-> Note(type, packet)]

-----------------------------------------------------------------------------

\* CloseClient: the place left free among the clients is the event's.
CloseClient_Urgent(s) ==
  /\ clients' = clients \ {s}
  /\ events' = <<Event("Disconnected", s, 0)>> \o events
  /\ recvBuffer' = [recvBuffer EXCEPT ![s] = <<>>]
  /\ sendBuffer' = [sendBuffer EXCEPT ![s] = 0]
  /\ incoming' = [incoming EXCEPT ![s] = <<>>]

CloseClient_Silently(s) ==
  /\ clients' = clients \ {s}
  /\ UNCHANGED events
  /\ recvBuffer' = [recvBuffer EXCEPT ![s] = <<>>]
  /\ sendBuffer' = [sendBuffer EXCEPT ![s] = 0]
  /\ incoming' = [incoming EXCEPT ![s] = <<>>]

CloseClient(s) ==
  /\ clients' = clients \ {s}
  /\ events' = Append(events, Event("Disconnected", s, 0))
  /\ recvBuffer' = [recvBuffer EXCEPT ![s] = <<>>]
  /\ sendBuffer' = [sendBuffer EXCEPT ![s] = 0]
  /\ incoming' = [incoming EXCEPT ![s] = <<>>]

-----------------------------------------------------------------------------
(* Run: the clients there are *)

BeginRun ==
  /\ phase = "after"
  /\ phase' = "serve" /\ todo' = clients
  /\ UNCHANGED <<net, lastSessionId, serving, readPos, told>>

Serve(s) == phase = "serve" /\ serving = None /\ s \in todo

\* ReceiveClient, when recv returns n bytes.
ReceiveClient(s, n) ==
  /\ Serve(s) /\ n <= Len(incoming[s])
  /\ todo' = todo \ {s}
  /\ \/ /\ Len(recvBuffer[s]) + n > MaxRecvBufferBytes
        /\ CloseClient(s)
        /\ UNCHANGED <<serving, readPos>>
     \/ /\ Len(recvBuffer[s]) + n <= MaxRecvBufferBytes
        /\ recvBuffer' = [recvBuffer EXCEPT ![s] = @ \o SubSeq(incoming[s], 1, n)]
        /\ incoming' = [incoming EXCEPT ![s] = SubSeq(@, n + 1, Len(@))]
        /\ serving' = s /\ readPos' = 0
        /\ UNCHANGED <<clients, events, sendBuffer>>
  /\ UNCHANGED <<phase, lastSessionId, told>>

\* recv or send fails, or the peer has closed.
LoseClient(s) ==
  /\ phase = "serve" /\ serving = None /\ s \in clients
  /\ CloseClient(s)
  /\ todo' = todo \ {s}
  /\ UNCHANGED <<phase, lastSessionId, serving, readPos, told>>

\* SendClient: the k bytes sent leave the buffer, the rest waits.
SendClient(s, k) ==
  /\ phase = "serve" /\ serving = None /\ s \in clients
  /\ k \in 1..sendBuffer[s]
  /\ sendBuffer' = [sendBuffer EXCEPT ![s] = @ - k]
  /\ UNCHANGED <<phase, clients, events, recvBuffer, incoming, lastSessionId,
                 todo, serving, readPos, told>>

-----------------------------------------------------------------------------
(* ProcessRecvBuffer, for the client being served *)

Buffer    == recvBuffer[serving]
Available == Len(Buffer) - readPos
HasHeader == Available >= HeaderSize

\* The length field at readPos; anywhere but at the start of a packet it would be
\* some bytes of a body, for which the model takes an invalid length.
TotalSize == IF Buffer[readPos + 1].at = 1 THEN Buffer[readPos + 1].size ELSE 0

ValidSize == TotalSize \in HeaderSize..MaxPacketSize
IsWhole   == HasHeader /\ ValidSize /\ Available >= TotalSize

\* EnqueueReceivedPacket's limit: a place is left for the Disconnected of every client.
QueueFull_NoReserve == Len(events) >= MaxQueuedEvents

QueueFull == Len(events) + Cardinality(clients) >= MaxQueuedEvents

EnqueuePacket ==
  /\ serving # None /\ IsWhole /\ ~QueueFull
  /\ events' = Append(events, Event("Packet", serving, Buffer[readPos + 1].packet))
  /\ readPos' = readPos + TotalSize
  /\ UNCHANGED <<phase, clients, recvBuffer, sendBuffer, incoming, lastSessionId,
                 todo, serving, told>>

\* An incomplete packet waits for the next Run at the front of the buffer.
Kept_AllOfIt == Buffer

Kept == SubSeq(Buffer, readPos + 1, Len(Buffer))

KeepRest ==
  /\ serving # None
  /\ ~HasHeader \/ (HasHeader /\ ValidSize /\ ~IsWhole)
  /\ recvBuffer' = [recvBuffer EXCEPT ![serving] = Kept]
  /\ serving' = None /\ readPos' = 0
  /\ UNCHANGED <<phase, clients, events, sendBuffer, incoming, lastSessionId, todo, told>>

\* An invalid length, or no room in the queue: the client is closed.
RejectPacket ==
  /\ serving # None /\ HasHeader
  /\ ~ValidSize \/ (IsWhole /\ QueueFull)
  /\ CloseClient(serving)
  /\ serving' = None /\ readPos' = 0
  /\ UNCHANGED <<phase, lastSessionId, todo, told>>

-----------------------------------------------------------------------------
(* Run: new clients *)

BeginAccept ==
  /\ phase = "serve" /\ serving = None
  /\ phase' = "accept" /\ todo' = {}
  /\ UNCHANGED <<net, lastSessionId, serving, readPos, told>>

\* A new client needs two places in the queue: for its Connected, and kept for its
\* Disconnected.
CanAccept ==
  /\ Cardinality(clients) < MaxClients
  /\ Len(events) + Cardinality(clients) + 2 <= MaxQueuedEvents
  /\ lastSessionId < MaxSessionId

AcceptClient(stream) ==
  /\ phase = "accept" /\ CanAccept
  /\ LET s == lastSessionId + 1
     IN /\ lastSessionId' = s
        /\ clients' = clients \cup {s}
        /\ events' = Append(events, Event("Connected", s, 0))
        /\ incoming' = [incoming EXCEPT ![s] = stream]
  /\ UNCHANGED <<phase, recvBuffer, sendBuffer, todo, serving, readPos, told>>

EndRun ==
  /\ phase = "accept"
  /\ phase' = "drain"
  /\ UNCHANGED <<net, lastSessionId, todo, serving, readPos, told>>

-----------------------------------------------------------------------------
(* What PacketProcessor::Update calls *)

InUpdate == phase \in {"drain", "after"}

TryPopEvent ==
  /\ phase = "drain" /\ events # <<>>
  /\ events' = Tail(events)
  /\ told' = [told EXCEPT ![Head(events).session] = Append(@, Head(events).note)]
  /\ UNCHANGED <<phase, clients, recvBuffer, sendBuffer, incoming, lastSessionId,
                 todo, serving, readPos>>

NoMoreEvents ==
  /\ phase = "drain" /\ events = <<>>
  /\ phase' = "after"
  /\ UNCHANGED <<net, lastSessionId, todo, serving, readPos, told>>

\* SendPacket, when it returns true.
SendPacket(s, size) ==
  /\ InUpdate /\ s \in clients
  /\ size \in HeaderSize..MaxPacketSize
  /\ sendBuffer[s] + size <= MaxSendBufferBytes
  /\ sendBuffer' = [sendBuffer EXCEPT ![s] = @ + size]
  /\ UNCHANGED <<phase, clients, events, recvBuffer, incoming, lastSessionId,
                 todo, serving, readPos, told>>

Disconnect(s) ==
  /\ InUpdate /\ s \in clients
  /\ CloseClient(s)
  /\ UNCHANGED <<phase, lastSessionId, todo, serving, readPos, told>>

\* Release, from ServerApp::Shutdown once the loop has ended (between two rounds, or
\* because select failed) and the logic is gone: nobody is left to be told anything.
Release ==
  /\ phase = "after"
  /\ phase' = "stopped"
  /\ clients' = {} /\ events' = <<>> /\ incoming' = [s \in SessionIds |-> <<>>]
  /\ recvBuffer' = [s \in SessionIds |-> <<>>] /\ sendBuffer' = [s \in SessionIds |-> 0]
  /\ UNCHANGED <<lastSessionId, todo, serving, readPos, told>>

-----------------------------------------------------------------------------

Init ==
  /\ phase = "after"
  /\ clients = {} /\ events = <<>>
  /\ recvBuffer = [s \in SessionIds |-> <<>>]
  /\ sendBuffer = [s \in SessionIds |-> 0]
  /\ incoming = [s \in SessionIds |-> <<>>]
  /\ lastSessionId = 0
  /\ todo = {} /\ serving = None /\ readPos = 0
  /\ told = [s \in SessionIds |-> <<>>]

\* What the loop does by itself.
Loop ==
  \/ BeginRun \/ BeginAccept \/ EndRun
  \/ EnqueuePacket \/ KeepRest \/ RejectPacket
  \/ TryPopEvent \/ NoMoreEvents

Next ==
  \/ Loop
  \/ \E s \in SessionIds : \/ \E n \in 1..RecvChunk : ReceiveClient(s, n)
                           \/ LoseClient(s)
                           \/ \E k \in 1..MaxSendBufferBytes : SendClient(s, k)
                           \/ \E size \in HeaderSize..MaxPacketSize : SendPacket(s, size)
                           \/ Disconnect(s)
  \/ \E stream \in Streams : AcceptClient(stream)
  \/ Release

Spec == Init /\ [][Next]_vars

\* The server runs on as long as it is not stopped.
FairSpec == Spec /\ WF_vars(Loop)

-----------------------------------------------------------------------------
(* Properties *)

TypeOK ==
  /\ phase \in {"serve", "accept", "drain", "after", "stopped"}
  /\ clients \subseteq SessionIds
  /\ recvBuffer \in [SessionIds -> Seq([packet : Nat, at : Nat, size : Nat])]
  /\ sendBuffer \in [SessionIds -> 0..MaxSendBufferBytes]
  /\ events \in Seq([session : SessionIds,
                     note : [type : {"Connected", "Packet", "Disconnected"}, packet : Nat]])
  /\ lastSessionId \in 0..MaxSessionId
  /\ todo \subseteq clients
  /\ serving \in clients \cup {None}
  /\ readPos \in Nat
  /\ incoming \in [SessionIds -> Seq([packet : Nat, at : Nat, size : Nat])]

\* There is always a free place in the queue for the Disconnected of every client, so
\* that CloseClient, which does not look, never exceeds the limit (TcpNetwork.cpp:334).
EventSlotReserved == Len(events) + Cardinality(clients) <= MaxQueuedEvents

\* Once a buffer has been processed no whole packet waits in it, it starts with the
\* start of a packet, and the next recv fits: no client is cut off for sending fast.
RestIsPartial ==
  serving = None =>
    \A s \in clients :
      LET buffer == recvBuffer[s]
      IN /\ Len(buffer) < MaxPacketSize
         /\ buffer # <<>> => buffer[1].at = 1
         /\ Len(buffer) >= HeaderSize => Len(buffer) < buffer[1].size
         /\ Len(buffer) + RecvChunk <= MaxRecvBufferBytes

\* TcpNetwork is an INetwork.
Contract == INSTANCE INetwork WITH connected <- clients
ImplementsINetwork == Contract!Spec

ToldOfEnd(s) == told[s] # <<>> /\ told[s][Len(told[s])].type = "Disconnected"

\* Whoever was told that a session is connected is told in the end when it is not.
LossIsTold ==
  \A s \in SessionIds :
    (told[s] # <<>> /\ s \notin clients) ~> (ToldOfEnd(s) \/ phase = "stopped")
===============================================================================
