----------------------------- MODULE NetworkProofs -----------------------------
(***************************************************************************)
(* Theorems about TcpNetwork, for every configuration Init accepts.        *)
(*                                                                         *)
(* Its types and the places reserved in the queue of events: NetInv adds   *)
(* to them which clients Run has still before it, none when it is not      *)
(* serving, and never the one whose buffer is being processed.             *)
(*                                                                         *)
(* What is told of each session, and that it is what INetwork promises:    *)
(* StoryInv numbers the notes of a session, from those told over those in  *)
(* the queue to the packets that its buffer and its peer still hold.       *)
(***************************************************************************)
EXTENDS TcpNetwork, FiniteSetTheorems, SequenceTheorems, TLAPS

Bytes  == [packet : Nat, at : Nat, size : Nat]
Events == [session : SessionIds,
           note : [type : {"Connected", "Packet", "Disconnected"}, packet : Nat]]

\* Where Run is in its list of clients.
Progress ==
  /\ phase # "serve" => todo = {} /\ serving = None
  /\ serving \notin todo

NetInv == TypeOK /\ Progress /\ EventSlotReserved

-----------------------------------------------------------------------------

\* Clients are finitely many, so they can be counted.
LEMMA ClientsFinite ==
  ASSUME TypeOK
  PROVE  IsFiniteSet(clients) /\ Cardinality(clients) \in Nat
<1>1. MaxSessionId \in Nat
  BY NetworkConfig
<1>2. IsFiniteSet(1..MaxSessionId)
  BY <1>1, FS_Interval
<1>3. IsFiniteSet(clients)
  BY <1>2, FS_Subset DEF TypeOK, SessionIds
<1> QED
  BY <1>3, FS_CardinalityType

\* None is not a client.
LEMMA NoneIsNobody == ASSUME TypeOK PROVE None \notin clients
BY NetworkConfig DEF TypeOK, SessionIds

\* An event that can be queued makes the queue longer by one.
LEMMA OneMoreEvent ==
  ASSUME TypeOK, NEW s \in SessionIds, NEW type \in {"Connected", "Packet", "Disconnected"},
         NEW packet \in Nat
  PROVE  /\ Append(events, Event(type, s, packet)) \in Seq(Events)
         /\ Len(Append(events, Event(type, s, packet))) = Len(events) + 1
<1>1. Event(type, s, packet) \in Events
  BY DEF Event, Note, Events
<1> QED
  BY <1>1 DEF TypeOK, Events

\* CloseClient: its place among the clients becomes the place of its Disconnected.
LEMMA CloseClientInv ==
  ASSUME NetInv, NEW s \in clients, CloseClient(s), todo' \subseteq todo \ {s},
         phase' = phase, lastSessionId' = lastSessionId, serving' = None, readPos' \in Nat
  PROVE  NetInv'
<1>1. s \in SessionIds /\ 0 \in Nat
  BY DEF NetInv, TypeOK
<1>2. events' \in Seq(Events) /\ Len(events') = Len(events) + 1
  BY <1>1, OneMoreEvent DEF NetInv, CloseClient
<1>3. IsFiniteSet(clients) /\ Cardinality(clients) \in Nat
  BY ClientsFinite DEF NetInv
<1>4. Cardinality(clients') = Cardinality(clients) - 1
  BY <1>3, FS_RemoveElement DEF CloseClient
<1>5. EventSlotReserved'
  <2>1. Len(events) \in Nat /\ MaxQueuedEvents \in Nat
    BY NetworkConfig, LenProperties DEF NetInv, TypeOK
  <2> QED
    BY <1>2, <1>3, <1>4, <2>1 DEF NetInv, EventSlotReserved
<1>6. Progress'
  <2>1. serving' \notin todo'
    BY NoneIsNobody DEF NetInv, TypeOK
  <2> QED
    BY <2>1 DEF NetInv, Progress
<1>7. recvBuffer' \in [SessionIds -> Seq(Bytes)] /\ incoming' \in [SessionIds -> Seq(Bytes)]
  <2>1. <<>> \in Seq(Bytes)
    BY EmptySeq
  <2> QED
    BY <1>1, <2>1 DEF NetInv, TypeOK, Bytes, CloseClient
<1>8. sendBuffer' \in [SessionIds -> 0..MaxSendBufferBytes]
  BY <1>1, NetworkConfig DEF NetInv, TypeOK, CloseClient
<1>9. clients' \subseteq SessionIds /\ todo' \subseteq clients'
  BY DEF NetInv, TypeOK, CloseClient
<1>10. TypeOK'
  BY <1>2, <1>7, <1>8, <1>9 DEF NetInv, TypeOK, Bytes, Events
<1> QED
  BY <1>5, <1>6, <1>10 DEF NetInv

\* A step that changes neither the clients nor the queue reserves as much as before.
LEMMA SameReserve ==
  ASSUME EventSlotReserved, UNCHANGED <<clients, events>>
  PROVE  EventSlotReserved'
BY DEF EventSlotReserved

\* ReceiveClient
LEMMA ReceiveClientInv ==
  ASSUME NetInv, NEW s \in SessionIds, NEW n \in 1..RecvChunk, ReceiveClient(s, n)
  PROVE  NetInv'
<1>1. s \in clients /\ s \in todo /\ serving = None /\ phase = "serve"
  BY DEF NetInv, TypeOK, ReceiveClient, Serve
<1>2. CASE CloseClient(s) /\ UNCHANGED <<serving, readPos>>
  <2>1. /\ todo' \subseteq todo \ {s} /\ phase' = phase /\ lastSessionId' = lastSessionId
        /\ serving' = None /\ readPos' \in Nat
    BY <1>1, <1>2 DEF NetInv, TypeOK, ReceiveClient
  <2> QED
    BY <1>1, <1>2, <2>1, CloseClientInv
<1>3. CASE /\ recvBuffer' = [recvBuffer EXCEPT ![s] = @ \o SubSeq(incoming[s], 1, n)]
           /\ incoming' = [incoming EXCEPT ![s] = SubSeq(@, n + 1, Len(@))]
           /\ serving' = s /\ readPos' = 0
           /\ UNCHANGED <<clients, events, sendBuffer>>
  <2>1. incoming[s] \in Seq(Bytes) /\ recvBuffer[s] \in Seq(Bytes)
    BY DEF NetInv, TypeOK, Bytes
  <2>2. n \in Nat \ {0} /\ n <= Len(incoming[s])
    BY NetworkConfig DEF ReceiveClient
  <2>3. SubSeq(incoming[s], 1, n) \in Seq(Bytes)
    BY <2>1, <2>2
  <2>4. SubSeq(incoming[s], n + 1, Len(incoming[s])) \in Seq(Bytes)
    BY <2>1, <2>2
  <2>5. recvBuffer[s] \o SubSeq(incoming[s], 1, n) \in Seq(Bytes)
    BY <2>1, <2>3
  <2>6. recvBuffer' \in [SessionIds -> Seq(Bytes)]
    BY <1>3, <2>5 DEF NetInv, TypeOK, Bytes
  <2>7. incoming' \in [SessionIds -> Seq(Bytes)]
    BY <1>3, <2>4 DEF NetInv, TypeOK, Bytes
  <2>8. todo' = todo \ {s} /\ phase' = phase /\ lastSessionId' = lastSessionId
    BY DEF ReceiveClient
  <2>9. TypeOK'
    BY <1>1, <1>3, <2>6, <2>7, <2>8 DEF NetInv, TypeOK, Bytes
  <2>10. Progress'
    BY <1>1, <1>3, <2>8 DEF Progress
  <2> QED
    BY <1>3, <2>9, <2>10, SameReserve DEF NetInv
<1> QED
  BY <1>2, <1>3 DEF ReceiveClient

\* The peer is lost while Run serves its clients.
LEMMA LoseClientInv ==
  ASSUME NetInv, NEW s \in SessionIds, LoseClient(s)
  PROVE  NetInv'
<1>1. /\ s \in clients /\ todo' \subseteq todo \ {s} /\ phase' = phase
      /\ lastSessionId' = lastSessionId /\ serving' = None /\ readPos' \in Nat
      /\ CloseClient(s)
  BY DEF NetInv, TypeOK, LoseClient
<1> QED
  BY <1>1, CloseClientInv

\* INetwork::Disconnect, called by Update when Run serves nobody.
LEMMA DisconnectInv ==
  ASSUME NetInv, NEW s \in SessionIds, Disconnect(s)
  PROVE  NetInv'
<1>1. todo = {} /\ serving = None
  BY DEF NetInv, Progress, Disconnect, InUpdate
<1>2. /\ s \in clients /\ todo' \subseteq todo \ {s} /\ phase' = phase
      /\ lastSessionId' = lastSessionId /\ serving' = None /\ readPos' \in Nat
      /\ CloseClient(s)
  BY <1>1 DEF NetInv, TypeOK, Disconnect
<1> QED
  BY <1>2, CloseClientInv

\* SendClient and QueuePacket: the send buffer stays below its limit.
LEMMA SendingInv ==
  ASSUME NetInv, NEW s \in SessionIds,
         \/ \E k \in 1..MaxSendBufferBytes : SendClient(s, k)
         \/ \E size \in HeaderSize..MaxPacketSize : SendPacket(s, size)
  PROVE  NetInv'
<1>1. UNCHANGED <<phase, clients, events, recvBuffer, incoming, lastSessionId, todo,
                  serving, readPos>>
  BY DEF SendClient, SendPacket
<1>2. sendBuffer[s] \in 0..MaxSendBufferBytes /\ MaxSendBufferBytes \in Nat
      /\ HeaderSize \in Nat /\ MaxPacketSize \in Nat
  BY NetworkConfig DEF NetInv, TypeOK
<1>3. sendBuffer' \in [SessionIds -> 0..MaxSendBufferBytes]
  <2>1. CASE \E k \in 1..MaxSendBufferBytes : SendClient(s, k)
    <3>1. PICK k \in 1..MaxSendBufferBytes : SendClient(s, k)
      BY <2>1
    <3>2. sendBuffer[s] - k \in 0..MaxSendBufferBytes
      BY <1>2, <3>1 DEF SendClient
    <3> QED
      BY <3>1, <3>2 DEF NetInv, TypeOK, SendClient
  <2>2. CASE \E size \in HeaderSize..MaxPacketSize : SendPacket(s, size)
    <3>1. PICK size \in HeaderSize..MaxPacketSize : SendPacket(s, size)
      BY <2>2
    <3>2. sendBuffer[s] + size \in 0..MaxSendBufferBytes
      BY <1>2, <3>1 DEF SendPacket
    <3> QED
      BY <3>1, <3>2 DEF NetInv, TypeOK, SendPacket
  <2> QED
    BY <2>1, <2>2
<1>4. TypeOK' /\ Progress'
  BY <1>1, <1>3 DEF NetInv, TypeOK, Progress
<1> QED
  BY <1>1, <1>4, SameReserve DEF NetInv

-----------------------------------------------------------------------------
(* ProcessRecvBuffer *)

\* What the buffer being processed holds are bytes, and its header claims a number.
LEMMA BufferType ==
  ASSUME NetInv, serving # None
  PROVE  /\ serving \in clients /\ serving \in SessionIds
         /\ Buffer \in Seq(Bytes) /\ Len(Buffer) \in Nat
         /\ HasHeader => readPos + 1 \in 1..Len(Buffer) /\ Buffer[readPos + 1] \in Bytes
         /\ HasHeader => TotalSize \in Nat
<1>1. serving \in clients /\ serving \in SessionIds /\ readPos \in Nat
  BY DEF NetInv, TypeOK
<1>2. Buffer \in Seq(Bytes) /\ Len(Buffer) \in Nat
  BY <1>1 DEF NetInv, TypeOK, Bytes, Buffer
<1>3. ASSUME HasHeader
      PROVE  readPos + 1 \in 1..Len(Buffer) /\ Buffer[readPos + 1] \in Bytes
  <2>1. readPos + 1 \in 1..Len(Buffer)
    BY <1>1, <1>2, <1>3, NetworkConfig DEF HasHeader, Available
  <2> QED
    BY <1>2, <2>1
<1>4. HasHeader => TotalSize \in Nat
  BY <1>3 DEF TotalSize, Bytes
<1> QED
  BY <1>1, <1>2, <1>3, <1>4

\* EnqueueReceivedPacket: there was a place that no client's Disconnected needs.
LEMMA EnqueuePacketInv == ASSUME NetInv, EnqueuePacket PROVE NetInv'
<1> DEFINE packet == Buffer[readPos + 1].packet
<1>1. /\ serving \in SessionIds /\ TotalSize \in Nat /\ packet \in Nat
      /\ readPos \in Nat
  BY BufferType DEF NetInv, TypeOK, EnqueuePacket, IsWhole, Bytes
<1>2. events' \in Seq(Events) /\ Len(events') = Len(events) + 1
  BY <1>1, OneMoreEvent DEF NetInv, EnqueuePacket
<1>3. readPos' \in Nat
  BY <1>1 DEF EnqueuePacket
<1>4. UNCHANGED <<phase, clients, recvBuffer, sendBuffer, incoming, lastSessionId,
                  todo, serving>>
  BY DEF EnqueuePacket
<1>5. EventSlotReserved'
  <2>1. Len(events) \in Nat /\ MaxQueuedEvents \in Nat /\ Cardinality(clients) \in Nat
    BY NetworkConfig, LenProperties, ClientsFinite DEF NetInv, TypeOK
  <2>2. Len(events) + Cardinality(clients) < MaxQueuedEvents
    BY <2>1 DEF EnqueuePacket, QueueFull
  <2> QED
    BY <1>2, <1>4, <2>1, <2>2 DEF EventSlotReserved
<1>6. TypeOK' /\ Progress'
  BY <1>2, <1>3, <1>4 DEF NetInv, TypeOK, Progress, Events
<1> QED
  BY <1>5, <1>6 DEF NetInv

\* What stays in the buffer are bytes of it.
LEMMA KeepRestInv == ASSUME NetInv, KeepRest PROVE NetInv'
<1>1. serving # None /\ readPos \in Nat
  BY DEF NetInv, TypeOK, KeepRest
<1>2. serving \in SessionIds /\ Buffer \in Seq(Bytes) /\ Len(Buffer) \in Nat
  BY <1>1, BufferType
<1>3. Kept \in Seq(Bytes)
  BY <1>1, <1>2 DEF Kept
<1>4. recvBuffer' \in [SessionIds -> Seq(Bytes)]
  BY <1>2, <1>3 DEF NetInv, TypeOK, Bytes, KeepRest
<1>5. UNCHANGED <<phase, clients, events, sendBuffer, incoming, lastSessionId, todo>>
      /\ serving' = None /\ readPos' = 0
  BY DEF KeepRest
<1>6. TypeOK'
  BY <1>4, <1>5 DEF NetInv, TypeOK, Bytes
<1>7. Progress'
  BY <1>5, NoneIsNobody DEF NetInv, TypeOK, Progress
<1> QED
  BY <1>5, <1>6, <1>7, SameReserve DEF NetInv

\* A broken frame, or a full queue, closes the client being served.
LEMMA RejectPacketInv == ASSUME NetInv, RejectPacket PROVE NetInv'
<1>1. serving \in clients
  BY BufferType DEF RejectPacket
<1>2. /\ todo' \subseteq todo \ {serving} /\ phase' = phase
      /\ lastSessionId' = lastSessionId /\ serving' = None /\ readPos' \in Nat
      /\ CloseClient(serving)
  BY DEF NetInv, Progress, RejectPacket
<1> QED
  BY <1>1, <1>2, CloseClientInv

-----------------------------------------------------------------------------
(* The rest of the loop *)

\* AcceptClient takes a place for Connected and reserves one.
LEMMA AcceptClientInv ==
  ASSUME NetInv, NEW stream \in Streams, AcceptClient(stream)
  PROVE  NetInv'
<1> DEFINE s == lastSessionId + 1
<1>1. s \in SessionIds /\ s \in 0..MaxSessionId /\ phase = "accept"
  BY NetworkConfig DEF NetInv, TypeOK, AcceptClient, CanAccept, SessionIds
<1>2. /\ lastSessionId' = s /\ clients' = clients \cup {s}
      /\ events' = Append(events, Event("Connected", s, 0))
      /\ incoming' = [incoming EXCEPT ![s] = stream]
      /\ UNCHANGED <<phase, recvBuffer, sendBuffer, todo, serving, readPos>>
  BY DEF AcceptClient
<1>3. events' \in Seq(Events) /\ Len(events') = Len(events) + 1
  BY <1>1, <1>2, OneMoreEvent DEF NetInv
<1>4. incoming' \in [SessionIds -> Seq(Bytes)]
  BY <1>1, <1>2, NetworkConfig DEF NetInv, TypeOK, Bytes
<1>5. EventSlotReserved'
  <2>1. /\ Len(events) \in Nat /\ MaxQueuedEvents \in Nat
        /\ IsFiniteSet(clients) /\ Cardinality(clients) \in Nat
    BY NetworkConfig, LenProperties, ClientsFinite DEF NetInv, TypeOK
  <2>2. Cardinality(clients') \in Nat /\ Cardinality(clients') <= Cardinality(clients) + 1
    <3>1. \/ Cardinality(clients \cup {s}) = Cardinality(clients)
          \/ Cardinality(clients \cup {s}) = Cardinality(clients) + 1
      BY <2>1, FS_AddElement
    <3> QED
      BY <1>2, <2>1, <3>1
  <2>3. Len(events) + Cardinality(clients) + 2 <= MaxQueuedEvents
    BY DEF AcceptClient, CanAccept
  <2> QED
    BY <1>3, <2>1, <2>2, <2>3 DEF EventSlotReserved
<1>6. TypeOK'
  BY <1>1, <1>2, <1>3, <1>4 DEF NetInv, TypeOK, Events, Bytes
<1>7. Progress'
  BY <1>1, <1>2 DEF NetInv, Progress
<1> QED
  BY <1>5, <1>6, <1>7 DEF NetInv

\* TryPopEvent makes room.
LEMMA TryPopEventInv == ASSUME NetInv, TryPopEvent PROVE NetInv'
<1>1. events \in Seq(Events) /\ events # <<>> /\ events' = Tail(events)
  BY DEF NetInv, TypeOK, Events, TryPopEvent
<1>2. events' \in Seq(Events) /\ Len(events') = Len(events) - 1 /\ Len(events) \in Nat
  BY <1>1, HeadTailProperties, LenProperties
<1>3. UNCHANGED <<phase, clients, recvBuffer, sendBuffer, incoming, lastSessionId,
                  todo, serving, readPos>>
  BY DEF TryPopEvent
<1>4. EventSlotReserved'
  <2>1. Cardinality(clients) \in Nat /\ MaxQueuedEvents \in Nat
    BY NetworkConfig, ClientsFinite DEF NetInv
  <2> QED
    BY <1>2, <1>3, <2>1 DEF NetInv, EventSlotReserved
<1>5. TypeOK' /\ Progress'
  BY <1>2, <1>3 DEF NetInv, TypeOK, Progress, Events
<1> QED
  BY <1>4, <1>5 DEF NetInv

\* The steps from one part of the round to the next.
LEMMA TurningInv ==
  ASSUME NetInv, BeginRun \/ BeginAccept \/ EndRun \/ NoMoreEvents
  PROVE  NetInv'
<1>1. UNCHANGED <<clients, events, recvBuffer, sendBuffer, incoming, lastSessionId,
                  serving, readPos>>
  BY DEF BeginRun, BeginAccept, EndRun, NoMoreEvents, net
<1>2. serving = None
  BY DEF NetInv, Progress, BeginRun, BeginAccept, EndRun, NoMoreEvents
<1>3. /\ phase' \in {"serve", "accept", "drain", "after"}
      /\ todo' \subseteq clients
      /\ phase' # "serve" => todo' = {}
  BY DEF NetInv, Progress, BeginRun, BeginAccept, EndRun, NoMoreEvents
<1>4. TypeOK'
  BY <1>1, <1>3 DEF NetInv, TypeOK
<1>5. Progress'
  BY <1>1, <1>2, <1>3, NoneIsNobody DEF NetInv, TypeOK, Progress
<1> QED
  BY <1>1, <1>4, <1>5, SameReserve DEF NetInv

\* Release leaves nothing to count.
LEMMA ReleaseInv == ASSUME NetInv, Release PROVE NetInv'
<1>1. <<>> \in Seq(Bytes) /\ <<>> \in Seq(Events) /\ Len(<<>>) = 0
  BY EmptySeq
<1>2. /\ phase' = "stopped" /\ clients' = {} /\ events' = <<>>
      /\ UNCHANGED <<lastSessionId, todo, serving, readPos>>
      /\ todo = {} /\ serving = None
  BY DEF NetInv, Progress, Release
<1>3. /\ incoming' \in [SessionIds -> Seq(Bytes)]
      /\ recvBuffer' \in [SessionIds -> Seq(Bytes)]
      /\ sendBuffer' \in [SessionIds -> 0..MaxSendBufferBytes]
  BY <1>1, NetworkConfig DEF Release
<1>4. TypeOK'
  BY <1>1, <1>2, <1>3 DEF NetInv, TypeOK, Bytes, Events
<1>5. Progress'
  BY <1>2 DEF Progress
<1>6. EventSlotReserved'
  <2>1. Cardinality({}) = 0
    BY FS_EmptySet
  <2> QED
    BY <1>1, <1>2, <2>1, NetworkConfig DEF EventSlotReserved
<1> QED
  BY <1>4, <1>5, <1>6 DEF NetInv

-----------------------------------------------------------------------------

\* A network that has just been initialised has neither clients nor events.
LEMMA NetInitInv == Init => NetInv
<1> SUFFICES ASSUME Init PROVE NetInv
  OBVIOUS
<1>1. <<>> \in Seq(Bytes) /\ <<>> \in Seq(Events) /\ Len(<<>>) = 0
  BY EmptySeq
<1>2. TypeOK
  BY <1>1, NetworkConfig DEF Init, TypeOK, Bytes, Events
<1>3. Progress
  BY DEF Init, Progress
<1>4. EventSlotReserved
  <2>1. Cardinality({}) = 0
    BY FS_EmptySet
  <2> QED
    BY <1>1, <2>1, NetworkConfig DEF Init, EventSlotReserved
<1> QED
  BY <1>2, <1>3, <1>4 DEF NetInv

\* Every step of the network preserves the invariant.
LEMMA NetNextInv == NetInv /\ [Next]_vars => NetInv'
<1> SUFFICES ASSUME NetInv, [Next]_vars PROVE NetInv'
  OBVIOUS
<1>1. CASE Loop
  BY <1>1, TurningInv, EnqueuePacketInv, KeepRestInv, RejectPacketInv, TryPopEventInv
  DEF Loop
<1>2. ASSUME NEW s \in SessionIds, NEW n \in 1..RecvChunk, ReceiveClient(s, n)
      PROVE  NetInv'
  BY <1>2, ReceiveClientInv
<1>3. ASSUME NEW s \in SessionIds, LoseClient(s) PROVE NetInv'
  BY <1>3, LoseClientInv
<1>4. ASSUME NEW s \in SessionIds,
             \/ \E k \in 1..MaxSendBufferBytes : SendClient(s, k)
             \/ \E size \in HeaderSize..MaxPacketSize : SendPacket(s, size)
      PROVE  NetInv'
  BY <1>4, SendingInv
<1>5. ASSUME NEW s \in SessionIds, Disconnect(s) PROVE NetInv'
  BY <1>5, DisconnectInv
<1>6. ASSUME NEW stream \in Streams, AcceptClient(stream) PROVE NetInv'
  BY <1>6, AcceptClientInv
<1>7. CASE Release
  BY <1>7, ReleaseInv
<1>8. CASE UNCHANGED vars
  BY <1>8 DEF NetInv, TypeOK, Progress, EventSlotReserved, vars, net
<1> QED
  BY <1>1, <1>2, <1>3, <1>4, <1>5, <1>6, <1>7, <1>8 DEF Next

\* The inductive invariant holds in every reachable state of the network.
THEOREM NetInvariance == Spec => []NetInv
<1> QED
  BY NetInitInv, NetNextInv, PTL DEF Spec

\* The data of TcpNetwork keep their types: no send buffer exceeds its limit, and Run
\* never has a client before it that has been closed.
THEOREM NetTypesCorrect == Spec => []TypeOK
<1>1. NetInv => TypeOK
  BY DEF NetInv
<1> QED
  BY <1>1, NetInvariance, PTL

\* However many clients there are and whatever they send, the Disconnected of each of
\* them has its place in the queue (the checks in AcceptClient and EnqueueReceivedPacket).
THEOREM SlotsReserved == Spec => []EventSlotReserved
<1>1. NetInv => EventSlotReserved
  BY DEF NetInv
<1> QED
  BY <1>1, NetInvariance, PTL

-----------------------------------------------------------------------------
(* What is told of a session, and what its peer's bytes become              *)

Notes == [type : {"Connected", "Packet", "Disconnected"}, packet : Nat]

IsEnd(note) == note.type = "Disconnected"

\* The place of a note in its session's story, but for Disconnected.
Number(note) == IF note.type = "Packet" THEN note.packet ELSE 0

IsNumbered(note) == IF note.type = "Packet" THEN note.packet >= 1 ELSE note.packet = 0

IsOver(story) == story # <<>> /\ IsEnd(story[Len(story)])

\* n is the number that comes next for s, behind the story told and the events of s that
\* stand before place k of the queue q.
ComesNext(q, story, s, n, k) ==
  /\ n >= Len(story)
  /\ n > Len(story) =>
       \E i \in 1..(k - 1) : q[i].session = s /\ ~IsEnd(q[i].note) /\ Number(q[i].note) = n - 1
  /\ \A i \in 1..(k - 1) : q[i].session = s => ~IsEnd(q[i].note) /\ Number(q[i].note) < n

\* The same of the end of the story: something was told before it, and no other end.
MayEnd(q, story, s, k) ==
  /\ story # <<>> \/ \E i \in 1..(k - 1) : q[i].session = s
  /\ \A i \in 1..(k - 1) : q[i].session = s => ~IsEnd(q[i].note)

\* The event at place k fits what was told of its session and what stands before it.
FitsAt(q, stories, k) ==
  LET s    == q[k].session
      note == q[k].note
  IN /\ IsNumbered(note)
     /\ ~IsOver(stories[s])
     /\ IF IsEnd(note) THEN MayEnd(q, stories[s], s, k)
        ELSE ComesNext(q, stories[s], s, Number(note), k)

QueueFits(q, stories) == \A k \in DOMAIN q : FitsAt(q, stories, k)

\* Who is a client has begun his story and not ended it.
ClientsAreTold ==
  /\ \A s \in clients : ~IsOver(told[s]) /\ MayEnd(events, told[s], s, Len(events) + 1)
  /\ \A s \in SessionIds : s > lastSessionId =>
       /\ s \notin clients /\ told[s] = <<>>
       /\ \A k \in DOMAIN events : events[k].session # s

\* The bytes of s that were not cut into packets yet: those of the stream from Start on.
Stream(s) == recvBuffer[s] \o incoming[s]
Start(s)  == IF s = serving THEN readPos + 1 ELSE 1

IsCut(bytes) ==
  \A i \in 1..Len(bytes) :
    LET next == i + bytes[i].size
    IN /\ bytes[i].at = 1 /\ bytes[i].size \in HeaderSize..MaxPacketSize
       /\ next <= Len(bytes)
       => bytes[next].at = 1 /\ bytes[next].packet = bytes[i].packet + 1

\* The first of them begins a packet, the one that comes next.
StreamFits(s) ==
  /\ IsCut(Stream(s))
  /\ Start(s) <= Len(Stream(s)) =>
       LET first == Stream(s)[Start(s)]
       IN first.at = 1 /\ first.packet >= 1
          /\ ComesNext(events, told[s], s, first.packet, Len(events) + 1)

IsPartial(buffer) ==
  /\ Len(buffer) < MaxPacketSize
  /\ Len(buffer) >= HeaderSize => Len(buffer) < buffer[1].size

BuffersFit ==
  /\ \A s \in clients : StreamFits(s)
  /\ \A s \in clients \ {serving} : IsPartial(recvBuffer[s])
  /\ \A s \in SessionIds \ clients : recvBuffer[s] = <<>>
  /\ serving # None => readPos <= Len(recvBuffer[serving])

StoryInv ==
  /\ NetInv
  /\ told \in [SessionIds -> Seq(Notes)]
  /\ QueueFits(events, told)
  /\ ClientsAreTold
  /\ BuffersFit

-----------------------------------------------------------------------------
(* The queue of events, as a sequence *)

\* The place of a note is a number.
LEMMA NumberType == \A note \in Notes : Number(note) \in Nat
BY DEF Number, Notes

\* What stands before a place is all that counts for it.
LEMMA PrefixFits ==
  ASSUME NEW q, NEW p, NEW k \in Nat, \A i \in 1..(k - 1) : p[i] = q[i]
  PROVE  /\ \A story, s, n : ComesNext(q, story, s, n, k) => ComesNext(p, story, s, n, k)
         /\ \A story, s : MayEnd(q, story, s, k) => MayEnd(p, story, s, k)
         /\ \A stories : p[k] = q[k] /\ FitsAt(q, stories, k) => FitsAt(p, stories, k)
<1>1. \A story, s, n : ComesNext(q, story, s, n, k) => ComesNext(p, story, s, n, k)
  BY DEF ComesNext
<1>2. \A story, s : MayEnd(q, story, s, k) => MayEnd(p, story, s, k)
  BY DEF MayEnd
<1>3. \A stories : p[k] = q[k] /\ FitsAt(q, stories, k) => FitsAt(p, stories, k)
  BY <1>1, <1>2 DEF FitsAt
<1> QED
  BY <1>1, <1>2, <1>3

\* CloseClient, AcceptClient and EnqueueReceivedPacket: an event that fits at the end of
\* the queue leaves it in order, and the story of every other session as it was.
LEMMA AppendFits ==
  ASSUME NEW q \in Seq(Events), NEW stories, NEW e \in Events, QueueFits(q, stories),
         IsNumbered(e.note), ~IsOver(stories[e.session]),
         IF IsEnd(e.note) THEN MayEnd(q, stories[e.session], e.session, Len(q) + 1)
         ELSE ComesNext(q, stories[e.session], e.session, Number(e.note), Len(q) + 1)
  PROVE  LET p == Append(q, e)
         IN /\ QueueFits(p, stories)
            /\ \A s, story, n : s # e.session /\ ComesNext(q, story, s, n, Len(q) + 1)
                                  => ComesNext(p, story, s, n, Len(p) + 1)
            /\ \A s, story : s # e.session /\ MayEnd(q, story, s, Len(q) + 1)
                               => MayEnd(p, story, s, Len(p) + 1)
<1> DEFINE p == Append(q, e)
           last == Len(q) + 1
<1>1. /\ p \in Seq(Events) /\ Len(p) = last /\ Len(q) \in Nat /\ p[last] = e
      /\ \A i \in 1..(last - 1) : p[i] = q[i]
  BY AppendProperties, LenProperties
<1> HIDE DEF p, last
<1>2. last \in Nat /\ last >= 1 /\ last = Len(q) + 1
  BY <1>1 DEF last
<1>3. ASSUME NEW k \in DOMAIN p PROVE FitsAt(p, stories, k)
  <2>1. k \in 1..last
    BY <1>1, <1>3, LenProperties
  <2>2. CASE k < last
    <3>1. k \in DOMAIN q /\ k \in Nat
      BY <1>1, <1>2, <2>1, <2>2, LenProperties
    <3>2. FitsAt(q, stories, k)
      BY <3>1 DEF QueueFits
    <3>3. p[k] = q[k] /\ \A i \in 1..(k - 1) : p[i] = q[i]
      BY <1>1, <1>2, <2>1, <2>2
    <3> QED
      BY <3>1, <3>2, <3>3, PrefixFits
  <2>3. CASE k = last
    <3>1. IF IsEnd(e.note) THEN MayEnd(p, stories[e.session], e.session, last)
          ELSE ComesNext(p, stories[e.session], e.session, Number(e.note), last)
      <4>1. CASE IsEnd(e.note)
        <5>1. MayEnd(q, stories[e.session], e.session, last)
          BY <4>1 DEF last
        <5> QED
          BY <1>1, <1>2, <4>1, <5>1, PrefixFits
      <4>2. CASE ~IsEnd(e.note)
        <5>1. ComesNext(q, stories[e.session], e.session, Number(e.note), last)
          BY <4>2 DEF last
        <5> QED
          BY <1>1, <1>2, <4>2, <5>1, PrefixFits
      <4> QED
        BY <4>1, <4>2
    <3> QED
      BY <1>1, <2>3, <3>1 DEF FitsAt
  <2> QED
    BY <1>2, <2>1, <2>2, <2>3
<1>4. ASSUME NEW s, s # e.session
      PROVE  /\ \A story, n : ComesNext(q, story, s, n, last) => ComesNext(p, story, s, n, last + 1)
             /\ \A story : MayEnd(q, story, s, last) => MayEnd(p, story, s, last + 1)
  <2>1. \A i \in 1..last : (i \in 1..(last - 1) /\ p[i] = q[i]) \/ p[i].session # s
    BY <1>1, <1>2, <1>4
  <2>2. \A i \in 1..(last - 1) : i \in 1..last /\ p[i] = q[i]
    BY <1>1, <1>2
  <2>3. (last + 1) - 1 = last
    BY <1>2
  <2>4. \A story, n : ComesNext(q, story, s, n, last) => ComesNext(p, story, s, n, last + 1)
    BY <2>1, <2>2, <2>3 DEF ComesNext
  <2>5. \A story : MayEnd(q, story, s, last) => MayEnd(p, story, s, last + 1)
    BY <2>1, <2>2, <2>3 DEF MayEnd
  <2> QED
    BY <2>4, <2>5
<1> QED
  BY <1>1, <1>2, <1>3, <1>4 DEF QueueFits, p, last

\* Behind a note other than the end comes the next number, or the end.
LEMMA NextAfter ==
  ASSUME NEW q \in Seq(Events), NEW e \in Events, NEW story, Len(story) \in Nat, ~IsEnd(e.note),
         ComesNext(q, story, e.session, Number(e.note), Len(q) + 1)
  PROVE  LET p == Append(q, e)
         IN /\ ComesNext(p, story, e.session, Number(e.note) + 1, Len(p) + 1)
            /\ MayEnd(p, story, e.session, Len(p) + 1)
<1> DEFINE p == Append(q, e)
           last == Len(q) + 1
           n == Number(e.note)
<1>1. /\ Len(p) = last /\ Len(q) \in Nat /\ p[last] = e
      /\ \A i \in 1..(last - 1) : p[i] = q[i]
      /\ n \in Nat /\ \A i \in 1..(last - 1) : Number(q[i].note) \in Nat
  <2>1. \A i \in 1..Len(q) : q[i] \in Events
    BY ElementOfSeq
  <2>2. \A i \in 1..Len(q) : Number(q[i].note) \in Nat
    BY <2>1, NumberType DEF Events, Notes
  <2>3. n \in Nat
    BY NumberType DEF Events, Notes
  <2> QED
    BY <2>2, <2>3, AppendProperties, LenProperties
<1> HIDE DEF p, last, n
<1>2. last \in Nat /\ last >= 1 /\ (last + 1) - 1 = last
  BY <1>1 DEF last
<1>3. \A i \in 1..last : (i \in 1..(last - 1) /\ p[i] = q[i]) \/ (i = last /\ p[i] = e)
  BY <1>1, <1>2
<1>4. /\ n >= Len(story)
      /\ \A i \in 1..(last - 1) : q[i].session = e.session => ~IsEnd(q[i].note) /\ Number(q[i].note) < n
  BY DEF ComesNext, n, last
<1>5. \A i \in 1..last : p[i].session = e.session => ~IsEnd(p[i].note) /\ Number(p[i].note) < n + 1
  BY <1>1, <1>3, <1>4 DEF n
<1>6. last \in 1..last /\ p[last].session = e.session /\ ~IsEnd(p[last].note)
      /\ Number(p[last].note) = (n + 1) - 1
  BY <1>1, <1>2 DEF n
<1>7. n + 1 >= Len(story)
  BY <1>1, <1>4
<1>8. ComesNext(p, story, e.session, n + 1, last + 1)
  BY <1>2, <1>5, <1>6, <1>7 DEF ComesNext
<1>9. MayEnd(p, story, e.session, last + 1)
  BY <1>2, <1>5, <1>6 DEF MayEnd
<1> QED
  BY <1>1, <1>8, <1>9 DEF p, n

\* The story of a session with one more note.
LEMMA StoryGrows ==
  ASSUME NEW story \in Seq(Notes), NEW note \in Notes
  PROVE  LET longer == Append(story, note)
         IN /\ longer \in Seq(Notes) /\ longer # <<>> /\ Len(longer) = Len(story) + 1
            /\ Len(story) \in Nat
            /\ IsOver(longer) <=> IsEnd(note)
<1> DEFINE longer == Append(story, note)
<1>1. /\ longer \in Seq(Notes) /\ longer # <<>> /\ Len(longer) = Len(story) + 1
      /\ Len(story) \in Nat /\ longer[Len(story) + 1] = note
  BY AppendProperties, LenProperties
<1> HIDE DEF longer
<1>2. IsOver(longer) <=> IsEnd(note)
  BY <1>1 DEF IsOver
<1> QED
  BY <1>1, <1>2 DEF longer

\* The event at the head of the queue is the next note of its session: Connected first,
\* then the packet whose number is the length of the story so far, or the end of it.
LEMMA HeadIsNext ==
  ASSUME NEW q \in Seq(Events), q # <<>>, NEW story \in Seq(Notes),
         NEW stories, stories[q[1].session] = story, FitsAt(q, stories, 1)
  PROVE  LET note == q[1].note
         IN /\ q[1] \in Events /\ note \in Notes /\ IsNumbered(note)
            /\ ~IsOver(story)
            /\ IsEnd(note) => story # <<>>
            /\ ~IsEnd(note) => Number(note) = Len(story)
<1>1. 1 \in 1..Len(q) /\ q[1] \in Events
  <2>1. 1 \in 1..Len(q)
    BY EmptySeq, LenProperties
  <2> QED
    BY <2>1, ElementOfSeq
<1>2. q[1].note \in Notes /\ Number(q[1].note) \in Nat /\ Len(story) \in Nat
  BY <1>1, NumberType, LenProperties DEF Events, Notes
<1>3. \A i : i \notin 1..(1 - 1)
  OBVIOUS
<1>4. IsNumbered(q[1].note) /\ ~IsOver(story)
  BY DEF FitsAt
<1>5. ASSUME IsEnd(q[1].note) PROVE story # <<>>
  BY <1>3, <1>5 DEF FitsAt, MayEnd
<1>6. ASSUME ~IsEnd(q[1].note) PROVE Number(q[1].note) = Len(story)
  <2>1. ComesNext(q, story, q[1].session, Number(q[1].note), 1)
    BY <1>6 DEF FitsAt
  <2>2. Number(q[1].note) >= Len(story) /\ ~(Number(q[1].note) > Len(story))
    BY <1>3, <2>1 DEF ComesNext
  <2> QED
    BY <1>2, <2>2
<1> QED
  BY <1>1, <1>2, <1>4, <1>5, <1>6

\* Moving the head of the queue to the end of its session's story changes for nobody what
\* comes next.
LEMMA PopKeepsNext ==
  ASSUME NEW q \in Seq(Events), q # <<>>, NEW t, NEW k \in Nat, k >= 2, k <= Len(q) + 1,
         NEW story \in Seq(Notes), NEW longer \in Seq(Notes),
         IF t = q[1].session
         THEN /\ Len(longer) = Len(story) + 1 /\ longer # <<>>
              /\ ~IsEnd(q[1].note) => Number(q[1].note) = Len(story)
         ELSE longer = story
  PROVE  /\ \A n \in Nat : ComesNext(q, story, t, n, k) => ComesNext(Tail(q), longer, t, n, k - 1)
         /\ MayEnd(q, story, t, k) => MayEnd(Tail(q), longer, t, k - 1)
<1> DEFINE p == Tail(q)
<1>1. Len(q) \in Nat /\ \A i \in 1..(Len(q) - 1) : p[i] = q[i + 1]
  BY HeadTailProperties, LenProperties
<1> HIDE DEF p
<1>2. \A i \in 1..((k - 1) - 1) : p[i] = q[i + 1] /\ i + 1 \in 1..(k - 1)
  BY <1>1
<1>3. \A i \in 1..(k - 1) : i = 1 \/ (i - 1 \in 1..((k - 1) - 1) /\ p[i - 1] = q[i])
  <2>1. ASSUME NEW i \in 1..(k - 1), i # 1
        PROVE  i - 1 \in 1..((k - 1) - 1) /\ p[i - 1] = q[i]
    <3>1. i - 1 \in 1..((k - 1) - 1) /\ (i - 1) + 1 = i
      BY <2>1
    <3> QED
      BY <1>2, <3>1
  <2> QED
    BY <2>1
<1>4. 1 \in 1..(k - 1) /\ Len(story) \in Nat
  BY LenProperties
<1>5. ASSUME NEW n \in Nat, ComesNext(q, story, t, n, k) PROVE ComesNext(p, longer, t, n, k - 1)
  <2>1. \A i \in 1..((k - 1) - 1) : p[i].session = t => ~IsEnd(p[i].note) /\ Number(p[i].note) < n
    BY <1>2, <1>5 DEF ComesNext
  <2>2. n >= Len(story) /\ (t = q[1].session => n > Len(story) /\ n >= Len(longer))
    <3>1. n >= Len(story)
      BY <1>5 DEF ComesNext
    <3>2. t = q[1].session => ~IsEnd(q[1].note) /\ Number(q[1].note) < n
      BY <1>4, <1>5 DEF ComesNext
    <3> QED
      BY <1>4, <3>1, <3>2
  <2>3. ASSUME n > Len(longer)
        PROVE  \E i \in 1..((k - 1) - 1) : /\ p[i].session = t /\ ~IsEnd(p[i].note)
                                           /\ Number(p[i].note) = n - 1
    <3>1. n > Len(story)
      BY <1>4, <2>2, <2>3
    <3>2. PICK i \in 1..(k - 1) : q[i].session = t /\ ~IsEnd(q[i].note) /\ Number(q[i].note) = n - 1
      BY <1>5, <3>1 DEF ComesNext
    <3>3. i # 1
      <4>1. SUFFICES ASSUME i = 1 PROVE FALSE
        OBVIOUS
      <4>2. Len(story) = n - 1 /\ n > Len(story) + 1
        BY <2>3, <3>2, <4>1
      <4> QED
        BY <1>4, <4>2
    <3> QED
      BY <1>3, <3>2, <3>3
  <2>4. n >= Len(longer)
    BY <2>2
  <2> QED
    BY <2>1, <2>3, <2>4 DEF ComesNext
<1>6. ASSUME MayEnd(q, story, t, k) PROVE MayEnd(p, longer, t, k - 1)
  <2>1. \A i \in 1..((k - 1) - 1) : p[i].session = t => ~IsEnd(p[i].note)
    BY <1>2, <1>6 DEF MayEnd
  <2>2. longer # <<>> \/ \E i \in 1..((k - 1) - 1) : p[i].session = t
    BY <1>3, <1>6 DEF MayEnd
  <2> QED
    BY <2>1, <2>2 DEF MayEnd
<1> QED
  BY <1>5, <1>6 DEF p

\* TryPopEvent takes the head of the queue to the end of its session's story; the rest of the queue
\* fits what has been told then.
LEMMA TailFits ==
  ASSUME NEW q \in Seq(Events), q # <<>>, NEW stories \in [SessionIds -> Seq(Notes)],
         QueueFits(q, stories)
  PROVE  LET s == q[1].session
             note == q[1].note
             longer == [stories EXCEPT ![s] = Append(@, note)]
         IN /\ s \in SessionIds /\ note \in Notes
            /\ longer \in [SessionIds -> Seq(Notes)]
            /\ QueueFits(Tail(q), longer)
            /\ \A t \in SessionIds, n \in Nat :
                 ComesNext(q, stories[t], t, n, Len(q) + 1)
                   => ComesNext(Tail(q), longer[t], t, n, Len(Tail(q)) + 1)
            /\ \A t \in SessionIds :
                 MayEnd(q, stories[t], t, Len(q) + 1) =>
                   /\ MayEnd(Tail(q), longer[t], t, Len(Tail(q)) + 1)
                   /\ ~IsOver(stories[t]) => ~IsOver(longer[t])
<1> DEFINE s == q[1].session
           note == q[1].note
           longer == [stories EXCEPT ![s] = Append(@, note)]
<1>1. 1 \in DOMAIN q /\ Len(q) \in Nat /\ Len(q) >= 1 /\ DOMAIN q = 1..Len(q)
  BY EmptySeq, LenProperties
<1>2. q[1] \in Events /\ FitsAt(q, stories, 1)
  BY <1>1, ElementOfSeq DEF QueueFits
<1>3. s \in SessionIds /\ note \in Notes /\ stories[s] \in Seq(Notes)
  BY <1>2 DEF Events, Notes
<1>4. ~IsEnd(note) => Number(note) = Len(stories[s])
  BY <1>2, <1>3, HeadIsNext
<1>5. longer[s] = Append(stories[s], note) /\ \A t \in SessionIds : t # s => longer[t] = stories[t]
  BY <1>3
<1>6. /\ longer[s] \in Seq(Notes) /\ longer[s] # <<>> /\ Len(longer[s]) = Len(stories[s]) + 1
      /\ IsOver(longer[s]) <=> IsEnd(note)
  BY <1>3, <1>5, StoryGrows
<1>7. longer \in [SessionIds -> Seq(Notes)]
  BY <1>3, <1>6
<1> HIDE DEF longer
<1>8. ASSUME NEW t \in SessionIds, NEW k \in Nat, k >= 2, k <= Len(q) + 1
      PROVE  /\ \A n \in Nat : ComesNext(q, stories[t], t, n, k)
                                 => ComesNext(Tail(q), longer[t], t, n, k - 1)
             /\ MayEnd(q, stories[t], t, k) => MayEnd(Tail(q), longer[t], t, k - 1)
  <2>1. stories[t] \in Seq(Notes) /\ longer[t] \in Seq(Notes)
    BY <1>7
  <2>2. IF t = q[1].session
        THEN /\ Len(longer[t]) = Len(stories[t]) + 1 /\ longer[t] # <<>>
             /\ ~IsEnd(q[1].note) => Number(q[1].note) = Len(stories[t])
        ELSE longer[t] = stories[t]
    BY <1>4, <1>5, <1>6
  <2> HIDE DEF s, note
  <2> QED
    BY <1>8, <2>1, <2>2, PopKeepsNext
<1>9. ASSUME NEW t \in SessionIds, q[1].session = t => ~IsEnd(q[1].note), ~IsOver(stories[t])
      PROVE  ~IsOver(longer[t])
  BY <1>5, <1>6, <1>9
<1>10. Len(Tail(q)) + 1 = Len(q) /\ \A i \in 1..Len(Tail(q)) : Tail(q)[i] = q[i + 1]
  BY <1>1, HeadTailProperties
<1>11. ASSUME NEW k \in DOMAIN Tail(q) PROVE FitsAt(Tail(q), longer, k)
  <2>1. k \in Nat /\ k + 1 >= 2 /\ k + 1 <= Len(q) + 1 /\ k + 1 \in DOMAIN q
        /\ Tail(q)[k] = q[k + 1] /\ (k + 1) - 1 = k
    <3>1. Tail(q) \in Seq(Events)
      BY HeadTailProperties
    <3>2. k \in 1..Len(Tail(q))
      BY <1>11, <3>1, LenProperties
    <3> QED
      BY <1>1, <1>10, <3>2
  <2>2. FitsAt(q, stories, k + 1) /\ q[k + 1] \in Events
    BY <2>1, ElementOfSeq, <1>1 DEF QueueFits
  <2> DEFINE t == q[k + 1].session
             mine == q[k + 1].note
  <2>3. t \in SessionIds /\ mine \in Notes /\ Number(mine) \in Nat
    BY <2>2, NumberType DEF Events, Notes
  <2>4. /\ IsNumbered(mine) /\ ~IsOver(stories[t])
        /\ IF IsEnd(mine) THEN MayEnd(q, stories[t], t, k + 1)
           ELSE ComesNext(q, stories[t], t, Number(mine), k + 1)
    BY <2>2 DEF FitsAt
  <2> HIDE DEF t, mine, s, note
  <2>5. q[1].session = t => ~IsEnd(q[1].note)
    <3>1. 1 \in 1..((k + 1) - 1)
      BY <2>1
    <3> QED
      BY <2>4, <3>1 DEF MayEnd, ComesNext
  <2>6. ~IsOver(longer[t])
    BY <1>9, <2>3, <2>4, <2>5
  <2>7. IF IsEnd(mine) THEN MayEnd(Tail(q), longer[t], t, k)
        ELSE ComesNext(Tail(q), longer[t], t, Number(mine), k)
    BY <1>8, <2>1, <2>3, <2>4
  <2> QED
    BY <2>1, <2>4, <2>6, <2>7 DEF FitsAt, t, mine
<1>12. ASSUME NEW t \in SessionIds
       PROVE  /\ \A n \in Nat : ComesNext(q, stories[t], t, n, Len(q) + 1)
                                  => ComesNext(Tail(q), longer[t], t, n, Len(Tail(q)) + 1)
              /\ MayEnd(q, stories[t], t, Len(q) + 1) =>
                   /\ MayEnd(Tail(q), longer[t], t, Len(Tail(q)) + 1)
                   /\ ~IsOver(stories[t]) => ~IsOver(longer[t])
  <2>1. Len(q) + 1 \in Nat /\ Len(q) + 1 >= 2 /\ Len(q) + 1 <= Len(q) + 1
        /\ (Len(q) + 1) - 1 = Len(Tail(q)) + 1
    BY <1>1, <1>10
  <2> HIDE DEF s, note
  <2>2. \A n \in Nat : ComesNext(q, stories[t], t, n, Len(q) + 1)
                         => ComesNext(Tail(q), longer[t], t, n, Len(Tail(q)) + 1)
    BY <1>8, <2>1
  <2>3. ASSUME MayEnd(q, stories[t], t, Len(q) + 1)
        PROVE  /\ MayEnd(Tail(q), longer[t], t, Len(Tail(q)) + 1)
               /\ ~IsOver(stories[t]) => ~IsOver(longer[t])
    <3>1. MayEnd(Tail(q), longer[t], t, Len(Tail(q)) + 1)
      BY <1>8, <2>1, <2>3
    <3>2. 1 \in 1..((Len(q) + 1) - 1)
      BY <1>1
    <3>3. q[1].session = t => ~IsEnd(q[1].note)
      BY <2>3, <3>2 DEF MayEnd
    <3> QED
      BY <1>9, <3>1, <3>3
  <2> QED
    BY <2>2, <2>3
<1> QED
  BY <1>3, <1>7, <1>11, <1>12 DEF QueueFits, longer

-----------------------------------------------------------------------------
(* Bytes, between the peer, the receive buffer and the packets              *)

\* Two runs of bytes, one behind the other.
LEMMA OneBehindOther ==
  ASSUME NEW a \in Seq(Bytes), NEW b \in Seq(Bytes), NEW m, NEW n, Len(a) = m, Len(b) = n
  PROVE  /\ a \o b \in Seq(Bytes) /\ Len(a \o b) = m + n /\ m \in Nat /\ n \in Nat
         /\ \A i \in 1..(m + n) : (a \o b)[i] = IF i <= m THEN a[i] ELSE b[i - m]
BY ConcatProperties, LenProperties

\* What recv takes from the peer's stream, it puts behind the receive buffer.
LEMMA ReceivedInOrder ==
  ASSUME NEW a \in Seq(Bytes), NEW b \in Seq(Bytes), NEW n \in Nat, n >= 1, n <= Len(b)
  PROVE  (a \o SubSeq(b, 1, n)) \o SubSeq(b, n + 1, Len(b)) = a \o b
<1> DEFINE front == SubSeq(b, 1, n)
           back  == SubSeq(b, n + 1, Len(b))
<1>1. Len(a) \in Nat /\ Len(b) \in Nat
  BY LenProperties
<1>2. front \in Seq(Bytes) /\ Len(front) = n /\ \A i \in 1..n : front[i] = b[i]
  BY <1>1
<1>3. back \in Seq(Bytes) /\ Len(back) = Len(b) - n /\ \A i \in 1..(Len(b) - n) : back[i] = b[n + i]
  BY <1>1
<1> HIDE DEF front, back
<1> DEFINE mid == a \o front
<1>4. /\ mid \in Seq(Bytes) /\ Len(mid) = Len(a) + n
      /\ \A i \in 1..(Len(a) + n) : mid[i] = IF i <= Len(a) THEN a[i] ELSE front[i - Len(a)]
  BY ZenonT(60), <1>2, ConcatProperties
<1> HIDE DEF mid
<1> DEFINE left  == mid \o back
           right == a \o b
<1>5. /\ left \in Seq(Bytes) /\ Len(left) = Len(a) + Len(b)
      /\ \A i \in 1..(Len(a) + Len(b)) :
           left[i] = IF i <= Len(a) + n THEN mid[i] ELSE back[i - (Len(a) + n)]
  <2>1. (Len(a) + n) + (Len(b) - n) = Len(a) + Len(b)
    BY <1>1
  <2> DEFINE m == Len(a) + n
             r == Len(b) - n
  <2>2. Len(mid) = m /\ Len(back) = r
    BY <1>3, <1>4
  <2> HIDE DEF m, r
  <2>3. /\ left \in Seq(Bytes) /\ Len(left) = m + r
        /\ \A i \in 1..(m + r) : left[i] = IF i <= m THEN mid[i] ELSE back[i - m]
    BY SMTT(60), <1>3, <1>4, <2>2, OneBehindOther
  <2> QED
    BY <2>1, <2>3 DEF m, r
<1>6. /\ right \in Seq(Bytes) /\ Len(right) = Len(a) + Len(b)
      /\ \A i \in 1..(Len(a) + Len(b)) : right[i] = IF i <= Len(a) THEN a[i] ELSE b[i - Len(a)]
  BY ConcatProperties
<1> HIDE DEF left, right
<1>7. ASSUME NEW i \in 1..(Len(a) + Len(b)) PROVE left[i] = right[i]
  <2>1. CASE i <= Len(a)
    BY <1>1, <1>4, <1>5, <1>6, <1>7, <2>1
  <2>2. CASE i > Len(a) /\ i <= Len(a) + n
    <3>1. ~(i <= Len(a)) /\ i - Len(a) \in 1..n /\ i \in 1..(Len(a) + n)
      BY <1>1, <1>7, <2>2
    <3>2. left[i] = front[i - Len(a)]
      BY <1>4, <1>5, <1>7, <2>2, <3>1
    <3>3. right[i] = b[i - Len(a)]
      BY <1>6, <1>7, <3>1
    <3> QED
      BY <1>2, <3>1, <3>2, <3>3
  <2>3. CASE i > Len(a) + n
    <3>1. i - (Len(a) + n) \in 1..(Len(b) - n) /\ n + (i - (Len(a) + n)) = i - Len(a)
      BY <1>1, <1>7, <2>3
    <3>2. back[i - (Len(a) + n)] = b[i - Len(a)]
      BY <1>3, <3>1
    <3> QED
      BY <1>1, <1>5, <1>6, <1>7, <2>3, <3>2
  <2> QED
    BY <1>1, <1>7, <2>1, <2>2, <2>3
<1>8. left = right
  BY <1>5, <1>6, <1>7
<1> QED
  BY <1>8 DEF left, right, mid, front, back

\* Dropping the first k bytes of the buffer drops them from what there is altogether.
LEMMA DroppedInOrder ==
  ASSUME NEW a \in Seq(Bytes), NEW b \in Seq(Bytes), NEW k \in Nat, k <= Len(a)
  PROVE  LET rest == SubSeq(a, k + 1, Len(a)) \o b
         IN /\ Len(rest) = Len(a \o b) - k /\ Len(a \o b) \in Nat
            /\ \A i \in 1..Len(rest) : rest[i] = (a \o b)[k + i] /\ k + i \in 1..Len(a \o b)
<1> DEFINE back == SubSeq(a, k + 1, Len(a))
           rest == back \o b
           whole == a \o b
<1>1. Len(a) \in Nat /\ Len(b) \in Nat
  BY LenProperties
<1>2. back \in Seq(Bytes) /\ Len(back) = Len(a) - k /\ \A i \in 1..(Len(a) - k) : back[i] = a[k + i]
  BY <1>1
<1> HIDE DEF back
<1>3. /\ Len(rest) = (Len(a) - k) + Len(b)
      /\ \A i \in 1..((Len(a) - k) + Len(b)) :
           rest[i] = IF i <= Len(a) - k THEN back[i] ELSE b[i - (Len(a) - k)]
  <2> DEFINE m == Len(a) - k
             r == Len(b)
  <2>1. Len(back) = m /\ Len(b) = r
    BY <1>2
  <2> HIDE DEF m, r
  <2>2. /\ Len(rest) = m + r
        /\ \A i \in 1..(m + r) : rest[i] = IF i <= m THEN back[i] ELSE b[i - m]
    BY SMTT(60), <1>2, <2>1, OneBehindOther
  <2> QED
    BY <2>2 DEF m, r
<1>4. /\ Len(whole) = Len(a) + Len(b)
      /\ \A i \in 1..(Len(a) + Len(b)) : whole[i] = IF i <= Len(a) THEN a[i] ELSE b[i - Len(a)]
  BY ConcatProperties
<1> HIDE DEF rest, whole
<1>5. ASSUME NEW i \in 1..((Len(a) - k) + Len(b))
      PROVE  rest[i] = whole[k + i] /\ k + i \in 1..(Len(a) + Len(b))
  <2>1. k + i \in 1..(Len(a) + Len(b))
    BY <1>1, <1>5
  <2>2. CASE i <= Len(a) - k
    <3>1. i \in 1..(Len(a) - k) /\ k + i <= Len(a)
      BY <1>1, <1>5, <2>2
    <3> QED
      BY <1>2, <1>3, <1>4, <1>5, <2>1, <2>2, <3>1
  <2>3. CASE i > Len(a) - k
    <3>1. ~(i <= Len(a) - k) /\ ~(k + i <= Len(a)) /\ i - (Len(a) - k) = (k + i) - Len(a)
      BY <1>1, <1>5, <2>3
    <3>2. rest[i] = b[i - (Len(a) - k)]
      BY <1>3, <1>5, <3>1
    <3>3. whole[k + i] = b[(k + i) - Len(a)]
      BY <1>4, <2>1, <3>1
    <3> QED
      BY <2>1, <3>1, <3>2, <3>3
  <2> QED
    BY <1>1, <1>5, <2>2, <2>3
<1> QED
  BY <1>1, <1>3, <1>4, <1>5 DEF rest, whole, back

\* What a session's peer has sent and has still to send are bytes.
LEMMA StreamType ==
  ASSUME NetInv, NEW s \in SessionIds
  PROVE  /\ recvBuffer[s] \in Seq(Bytes) /\ incoming[s] \in Seq(Bytes) /\ Stream(s) \in Seq(Bytes)
         /\ Len(recvBuffer[s]) \in Nat /\ Len(Stream(s)) \in Nat
         /\ Len(recvBuffer[s]) <= Len(Stream(s))
         /\ \A i \in 1..Len(recvBuffer[s]) : Stream(s)[i] = recvBuffer[s][i]
         /\ \A i \in 1..Len(Stream(s)) : Stream(s)[i] \in Bytes
<1>1. recvBuffer[s] \in Seq(Bytes) /\ incoming[s] \in Seq(Bytes)
  BY DEF NetInv, TypeOK, Bytes
<1> DEFINE a == recvBuffer[s]
           b == incoming[s]
<1>2. Len(a) \in Nat /\ Len(b) \in Nat
  BY <1>1, LenProperties
<1>3. /\ a \o b \in Seq(Bytes) /\ Len(a \o b) = Len(a) + Len(b)
      /\ \A i \in 1..(Len(a) + Len(b)) : (a \o b)[i] = IF i <= Len(a) THEN a[i] ELSE b[i - Len(a)]
  BY <1>1, ConcatProperties
<1>4. \A i \in 1..Len(a \o b) : (a \o b)[i] \in Bytes
  BY <1>3, ElementOfSeq
<1> HIDE DEF a, b
<1>5. \A i \in 1..Len(a) : (a \o b)[i] = a[i]
  BY <1>2, <1>3
<1>6. Len(a \o b) \in Nat /\ Len(a) <= Len(a \o b)
  BY <1>2, <1>3
<1> QED
  BY <1>1, <1>2, <1>3, <1>4, <1>5, <1>6 DEF Stream, a, b

-----------------------------------------------------------------------------
(* The steps                                                                *)

\* What an event says.
LEMMA EventIs ==
  ASSUME NEW type \in {"Connected", "Packet", "Disconnected"}, NEW s \in SessionIds,
         NEW packet \in Nat
  PROVE  LET e == Event(type, s, packet)
         IN /\ e \in Events /\ e.session = s
            /\ IsEnd(e.note) <=> type = "Disconnected"
            /\ Number(e.note) = IF type = "Packet" THEN packet ELSE 0
            /\ IsNumbered(e.note) <=> IF type = "Packet" THEN packet >= 1 ELSE packet = 0
BY DEF Event, Note, Events, IsEnd, Number, IsNumbered

\* A client's session is one that was given.
LEMMA ClientsAreGiven ==
  ASSUME StoryInv
  PROVE  /\ events \in Seq(Events) /\ Len(events) \in Nat /\ lastSessionId \in Nat
         /\ \A s \in clients : s \in SessionIds /\ ~(s > lastSessionId)
         /\ serving # None => serving \in clients
BY LenProperties DEF StoryInv, NetInv, TypeOK, Events, ClientsAreTold

\* A step that touches neither the queue nor the bytes received.
LEMMA QuietStory ==
  ASSUME StoryInv, NetInv',
         UNCHANGED <<clients, events, recvBuffer, incoming, lastSessionId, serving, readPos, told>>
  PROVE  StoryInv'
<1>1. told' \in [SessionIds -> Seq(Notes)] /\ QueueFits(events', told')
  BY DEF StoryInv
<1>2. ClientsAreTold'
  BY DEF StoryInv, ClientsAreTold
<1>3. BuffersFit'
  BY DEF StoryInv, BuffersFit, StreamFits, Stream, Start
<1> QED
  BY <1>1, <1>2, <1>3 DEF StoryInv

\* CloseClient ends the story of one client, and is nothing to the others.
LEMMA CloseClientStory ==
  ASSUME StoryInv, NetInv', NEW s \in clients, CloseClient(s), UNCHANGED <<told, lastSessionId>>,
         serving \in {None, s}, serving' = None
  PROVE  StoryInv'
<1> DEFINE e == Event("Disconnected", s, 0)
<1>1. /\ s \in SessionIds /\ ~(s > lastSessionId) /\ events \in Seq(Events)
      /\ Len(events) \in Nat
  BY ClientsAreGiven
<1>2. /\ e \in Events /\ e.session = s /\ IsEnd(e.note) /\ IsNumbered(e.note)
  BY <1>1, EventIs
<1>3. /\ clients' = clients \ {s} /\ events' = Append(events, e)
      /\ recvBuffer' = [recvBuffer EXCEPT ![s] = <<>>]
      /\ incoming' = [incoming EXCEPT ![s] = <<>>]
  BY DEF CloseClient
<1>4. ~IsOver(told[s]) /\ MayEnd(events, told[s], s, Len(events) + 1) /\ QueueFits(events, told)
  BY DEF StoryInv, ClientsAreTold
<1> HIDE DEF e
<1>5. /\ QueueFits(events', told)
      /\ \A t, story, n : t # s /\ ComesNext(events, story, t, n, Len(events) + 1)
                            => ComesNext(events', story, t, n, Len(events') + 1)
      /\ \A t, story : t # s /\ MayEnd(events, story, t, Len(events) + 1)
                         => MayEnd(events', story, t, Len(events') + 1)
  BY <1>1, <1>2, <1>3, <1>4, AppendFits
<1>6. ClientsAreTold'
  <2>1. \A t \in clients' : ~IsOver(told[t]) /\ MayEnd(events', told[t], t, Len(events') + 1)
    BY <1>3, <1>5 DEF StoryInv, ClientsAreTold
  <2>2. ASSUME NEW t \in SessionIds, t > lastSessionId
        PROVE  t \notin clients' /\ told[t] = <<>> /\ \A k \in DOMAIN events' : events'[k].session # t
    <3>1. t \notin clients /\ told[t] = <<>> /\ \A k \in DOMAIN events : events[k].session # t
      BY <2>2 DEF StoryInv, ClientsAreTold
    <3>2. t # s
      BY <1>1, <2>2
    <3>3. \A k \in DOMAIN events' : (k \in DOMAIN events /\ events'[k] = events[k]) \/ events'[k] = e
      BY <1>1, <1>2, <1>3
    <3> QED
      BY <1>2, <1>3, <3>1, <3>2, <3>3
  <2> QED
    BY <2>1, <2>2 DEF ClientsAreTold
<1>7. ASSUME NEW t \in clients' PROVE StreamFits(t)' /\ IsPartial(recvBuffer'[t])
  <2>1. t \in clients /\ t # s /\ t # serving /\ t # serving'
    BY <1>3, <1>7, NoneIsNobody DEF StoryInv, NetInv
  <2>2. t \in SessionIds
    BY <2>1, ClientsAreGiven
  <2>3. recvBuffer'[t] = recvBuffer[t] /\ incoming'[t] = incoming[t]
    BY <1>3, <2>1, <2>2 DEF StoryInv, NetInv, TypeOK
  <2>4. Stream(t)' = Stream(t) /\ Start(t)' = Start(t)
    BY <2>1, <2>3 DEF Stream, Start
  <2>5. StreamFits(t) /\ IsPartial(recvBuffer[t])
    BY <2>1 DEF StoryInv, BuffersFit
  <2> QED
    BY <1>5, <2>1, <2>3, <2>4, <2>5 DEF StreamFits
<1>8. \A t \in SessionIds \ clients' : recvBuffer'[t] = <<>>
  BY <1>1, <1>3 DEF StoryInv, NetInv, TypeOK, BuffersFit
<1>9. BuffersFit'
  BY <1>7, <1>8 DEF BuffersFit
<1> QED
  BY <1>5, <1>6, <1>9 DEF StoryInv

\* ReceiveClient takes bytes over; which they are and in which order stays the same.
LEMMA ReceiveClientStory ==
  ASSUME StoryInv, NetInv', NEW s \in SessionIds, NEW n \in 1..RecvChunk, ReceiveClient(s, n)
  PROVE  StoryInv'
<1>1. s \in clients /\ serving = None /\ UNCHANGED <<lastSessionId, told>>
  BY DEF StoryInv, NetInv, TypeOK, ReceiveClient, Serve
<1>2. CASE CloseClient(s) /\ UNCHANGED <<serving, readPos>>
  BY <1>1, <1>2, CloseClientStory
<1>3. CASE /\ recvBuffer' = [recvBuffer EXCEPT ![s] = @ \o SubSeq(incoming[s], 1, n)]
           /\ incoming' = [incoming EXCEPT ![s] = SubSeq(@, n + 1, Len(@))]
           /\ serving' = s /\ readPos' = 0
           /\ UNCHANGED <<clients, events, sendBuffer>>
  <2>1. recvBuffer[s] \in Seq(Bytes) /\ incoming[s] \in Seq(Bytes) /\ n \in Nat /\ n >= 1
        /\ n <= Len(incoming[s])
    BY StreamType, NetworkConfig DEF StoryInv, ReceiveClient
  <2>2. /\ recvBuffer'[s] = recvBuffer[s] \o SubSeq(incoming[s], 1, n)
        /\ incoming'[s] = SubSeq(incoming[s], n + 1, Len(incoming[s]))
        /\ \A t \in SessionIds \ {s} : recvBuffer'[t] = recvBuffer[t] /\ incoming'[t] = incoming[t]
    BY <1>3 DEF StoryInv, NetInv, TypeOK
  <2>3. Stream(s)' = Stream(s)
    <3>1. recvBuffer'[s] \o incoming'[s] = recvBuffer[s] \o incoming[s]
      <4>1. (recvBuffer[s] \o SubSeq(incoming[s], 1, n))
              \o SubSeq(incoming[s], n + 1, Len(incoming[s])) = recvBuffer[s] \o incoming[s]
        BY <2>1, ReceivedInOrder
      <4> QED
        BY <2>2, <4>1
    <3> QED
      BY <3>1 DEF Stream
  <2>4. s # None
    BY <1>1, NoneIsNobody DEF StoryInv, NetInv
  <2>5. ASSUME NEW t \in clients PROVE Stream(t)' = Stream(t) /\ Start(t)' = Start(t) /\ t # serving
    <3>1. t # serving /\ t \in SessionIds
      BY <1>1, ClientsAreGiven, NoneIsNobody DEF StoryInv, NetInv
    <3>2. Stream(t)' = Stream(t)
      BY <2>2, <2>3, <3>1 DEF Stream
    <3>3. Start(t)' = 1 /\ Start(t) = 1
      BY <1>3, <3>1 DEF Start
    <3> QED
      BY <3>1, <3>2, <3>3
  <2>6. \A t \in clients' : StreamFits(t)'
    BY <1>1, <1>3, <2>5 DEF StoryInv, BuffersFit, StreamFits
  <2>7. \A t \in clients' \ {serving'} : IsPartial(recvBuffer'[t])
    BY <1>3, <2>2, <2>5, ClientsAreGiven DEF StoryInv, BuffersFit
  <2>8. \A t \in SessionIds \ clients' : recvBuffer'[t] = <<>>
    BY <1>1, <1>3, <2>2 DEF StoryInv, BuffersFit
  <2>9. readPos' <= Len(recvBuffer'[serving'])
    <3>1. Len(recvBuffer'[s]) \in Nat
      BY LenProperties DEF NetInv, TypeOK
    <3> QED
      BY <1>3, <3>1
  <2>10. BuffersFit'
    BY <2>6, <2>7, <2>8, <2>9 DEF BuffersFit
  <2>11. ClientsAreTold'
    BY <1>1, <1>3 DEF StoryInv, ClientsAreTold
  <2> QED
    BY <1>1, <1>3, <2>10, <2>11 DEF StoryInv
<1> QED
  BY <1>2, <1>3 DEF ReceiveClient

\* The client being served, and where its unread bytes start.
LEMMA ServedFits ==
  ASSUME StoryInv, serving # None
  PROVE  /\ serving \in clients /\ serving \in SessionIds /\ readPos \in Nat
         /\ Buffer \in Seq(Bytes) /\ Len(Buffer) \in Nat /\ readPos <= Len(Buffer)
         /\ Buffer = recvBuffer[serving] /\ StreamFits(serving) /\ Start(serving) = readPos + 1
         /\ HasHeader =>
              /\ readPos + 1 \in 1..Len(Buffer) /\ readPos + 1 \in 1..Len(Stream(serving))
              /\ Stream(serving)[readPos + 1] = Buffer[readPos + 1]
              /\ Buffer[readPos + 1] \in Bytes /\ Buffer[readPos + 1].at = 1
              /\ TotalSize = Buffer[readPos + 1].size
<1>1. /\ serving \in clients /\ serving \in SessionIds /\ readPos \in Nat
      /\ Buffer \in Seq(Bytes) /\ Len(Buffer) \in Nat
  BY BufferType DEF StoryInv, NetInv, TypeOK
<1>2. readPos <= Len(Buffer) /\ Buffer = recvBuffer[serving] /\ StreamFits(serving)
      /\ Start(serving) = readPos + 1
  BY <1>1 DEF StoryInv, BuffersFit, Buffer, Start
<1>3. ASSUME HasHeader
      PROVE  /\ readPos + 1 \in 1..Len(Buffer) /\ readPos + 1 \in 1..Len(Stream(serving))
             /\ Stream(serving)[readPos + 1] = Buffer[readPos + 1]
             /\ Buffer[readPos + 1] \in Bytes /\ Buffer[readPos + 1].at = 1
             /\ TotalSize = Buffer[readPos + 1].size
  <2>1. readPos + 1 \in 1..Len(Buffer) /\ Buffer[readPos + 1] \in Bytes
    BY <1>3, BufferType DEF StoryInv
  <2>2. /\ Len(Buffer) <= Len(Stream(serving)) /\ Len(Stream(serving)) \in Nat
        /\ Stream(serving)[readPos + 1] = Buffer[readPos + 1]
    BY <1>1, <1>2, <2>1, StreamType DEF StoryInv
  <2>3. readPos + 1 \in 1..Len(Stream(serving))
    BY <1>1, <2>1, <2>2
  <2>4. Buffer[readPos + 1].at = 1
    BY <1>1, <1>2, <2>2, <2>3 DEF StreamFits
  <2> QED
    BY <2>1, <2>2, <2>3, <2>4 DEF TotalSize
<1> QED
  BY <1>1, <1>2, <1>3

\* EnqueueReceivedPacket: the packet cut is the one that comes next, and so is the one that
\* starts behind it.
LEMMA EnqueuePacketStory ==
  ASSUME StoryInv, NetInv', EnqueuePacket
  PROVE  StoryInv'
<1> DEFINE s == serving
           first == Buffer[readPos + 1]
           n == first.packet
           e == Event("Packet", s, n)
           stream == Stream(s)
<1>1. /\ serving # None /\ HasHeader /\ ValidSize /\ Available >= TotalSize
      /\ events' = Append(events, e) /\ readPos' = readPos + TotalSize
      /\ UNCHANGED <<clients, recvBuffer, incoming, lastSessionId, serving, told>>
  BY DEF EnqueuePacket, IsWhole
<1>2. /\ s \in clients /\ s \in SessionIds /\ readPos \in Nat /\ Len(Buffer) \in Nat
      /\ Buffer = recvBuffer[s] /\ StreamFits(s) /\ Start(s) = readPos + 1
      /\ readPos + 1 \in 1..Len(stream) /\ stream[readPos + 1] = first
      /\ first \in Bytes /\ first.at = 1 /\ TotalSize = first.size
  BY <1>1, ServedFits
<1>3. first.size \in Nat /\ n \in Nat /\ Len(stream) \in Nat
  BY <1>2, StreamType DEF Bytes, StoryInv
<1>4. n >= 1 /\ ComesNext(events, told[s], s, n, Len(events) + 1)
  BY <1>2 DEF StreamFits
<1>5. /\ e \in Events /\ e.session = s /\ ~IsEnd(e.note) /\ Number(e.note) = n
      /\ IsNumbered(e.note)
  BY <1>2, <1>3, <1>4, EventIs
<1>6. events \in Seq(Events) /\ Len(events) \in Nat /\ ~(s > lastSessionId)
  BY <1>2, ClientsAreGiven
<1>7. QueueFits(events, told) /\ ~IsOver(told[s]) /\ Len(told[s]) \in Nat
  BY <1>2, LenProperties DEF StoryInv, ClientsAreTold
<1> HIDE DEF s, e, first, n, stream
<1>8. /\ QueueFits(events', told)
      /\ \A t, story, m : t # s /\ ComesNext(events, story, t, m, Len(events) + 1)
                            => ComesNext(events', story, t, m, Len(events') + 1)
      /\ \A t, story : t # s /\ MayEnd(events, story, t, Len(events) + 1)
                         => MayEnd(events', story, t, Len(events') + 1)
  BY <1>1, <1>4, <1>5, <1>6, <1>7, AppendFits
<1>9. /\ ComesNext(events', told[s], s, n + 1, Len(events') + 1)
      /\ MayEnd(events', told[s], s, Len(events') + 1)
  BY <1>1, <1>4, <1>5, <1>6, <1>7, NextAfter
<1>10. ClientsAreTold'
  <2>1. \A t \in clients' : ~IsOver(told[t]) /\ MayEnd(events', told[t], t, Len(events') + 1)
    BY <1>1, <1>8, <1>9 DEF StoryInv, ClientsAreTold
  <2>2. ASSUME NEW t \in SessionIds, t > lastSessionId
        PROVE  t \notin clients' /\ told[t] = <<>> /\ \A k \in DOMAIN events' : events'[k].session # t
    <3>1. t \notin clients /\ told[t] = <<>> /\ \A k \in DOMAIN events : events[k].session # t
      BY <2>2 DEF StoryInv, ClientsAreTold
    <3>2. \A k \in DOMAIN events' : (k \in DOMAIN events /\ events'[k] = events[k]) \/ events'[k] = e
      BY <1>1, <1>5, <1>6
    <3> QED
      BY <1>1, <1>5, <1>6, <2>2, <3>1, <3>2
  <2> QED
    BY <1>1, <2>1, <2>2 DEF ClientsAreTold
<1>11. StreamFits(s)'
  <2>1. Stream(s)' = stream /\ Start(s)' = (readPos + 1) + first.size
    <3>1. s' = s /\ s = serving /\ s = serving'
      BY <1>1 DEF s
    <3>2. Stream(s)' = stream
      BY <1>1, <3>1 DEF Stream, stream
    <3>3. readPos' + 1 = (readPos + 1) + first.size
      <4>1. \A a, b \in Nat : (a + b) + 1 = (a + 1) + b
        OBVIOUS
      <4>2. readPos' = readPos + first.size
        BY <1>1, <1>2
      <4> QED
        BY <1>2, <1>3, <4>1, <4>2
    <3> QED
      BY <1>1, <3>1, <3>2, <3>3 DEF Start
  <2>2. IsCut(stream)
    BY <1>2 DEF StreamFits, stream
  <2>3. first.size \in HeaderSize..MaxPacketSize
    BY <1>1, <1>2 DEF ValidSize
  <2>4. ASSUME (readPos + 1) + first.size <= Len(stream)
        PROVE  LET next == stream[(readPos + 1) + first.size]
               IN next.at = 1 /\ next.packet = n + 1
    BY <1>2, <2>2, <2>3, <2>4 DEF IsCut, n
  <2>5. n + 1 >= 1
    BY <1>3
  <2>6. told[s]' = told[s] /\ s' = s
    BY <1>1 DEF s
  <2> QED
    BY <1>9, <2>1, <2>2, <2>4, <2>5, <2>6 DEF StreamFits
<1>12. ASSUME NEW t \in clients, t # s PROVE StreamFits(t)' /\ IsPartial(recvBuffer'[t])
  <2>1. Stream(t)' = Stream(t) /\ Start(t)' = Start(t)
    BY <1>1, <1>12 DEF Stream, Start, s
  <2>2. StreamFits(t) /\ IsPartial(recvBuffer[t])
    BY <1>12 DEF StoryInv, BuffersFit, s
  <2> QED
    BY <1>1, <1>8, <1>12, <2>1, <2>2 DEF StreamFits
<1>13. readPos' <= Len(recvBuffer'[serving'])
  BY <1>1, <1>2, <1>3 DEF Available, s
<1>14. BuffersFit'
  <2>1. \A t \in clients' : StreamFits(t)'
    BY <1>1, <1>11, <1>12 DEF s
  <2>2. \A t \in clients' \ {serving'} : IsPartial(recvBuffer'[t])
    BY <1>1, <1>12 DEF s
  <2>3. \A t \in SessionIds \ clients' : recvBuffer'[t] = <<>>
    BY <1>1 DEF StoryInv, BuffersFit
  <2> QED
    BY <1>13, <2>1, <2>2, <2>3 DEF BuffersFit
<1> QED
  BY <1>1, <1>8, <1>10, <1>14 DEF StoryInv

\* rest is what the buffer a and the peer's b have left of whole, once k bytes of a are gone.
IsRest(rest, whole, a, b, k) ==
  /\ a \in Seq(Bytes) /\ b \in Seq(Bytes) /\ k \in Nat /\ k <= Len(a)
  /\ rest = SubSeq(a, k + 1, Len(a)) \o b
  /\ whole = a \o b

\* The same as DroppedInOrder, of sequences that are given.
LEMMA DroppedFrom ==
  ASSUME NEW a, NEW b, NEW k, NEW rest, NEW whole, IsRest(rest, whole, a, b, k)
  PROVE  /\ Len(rest) = Len(whole) - k /\ Len(whole) \in Nat
         /\ \A i \in 1..Len(rest) : rest[i] = whole[k + i] /\ k + i \in 1..Len(whole)
<1>1. /\ a \in Seq(Bytes) /\ b \in Seq(Bytes) /\ k \in Nat /\ k <= Len(a)
      /\ rest = SubSeq(a, k + 1, Len(a)) \o b
      /\ whole = a \o b
  BY DEF IsRest
<1> QED
  BY ONLY Zenon, <1>1, DroppedInOrder

\* RejectPacket closes the client being served.
LEMMA RejectPacketStory ==
  ASSUME StoryInv, NetInv', RejectPacket
  PROVE  StoryInv'
<1>1. /\ serving \in clients /\ CloseClient(serving) /\ UNCHANGED <<told, lastSessionId>>
      /\ serving' = None
  BY ClientsAreGiven DEF RejectPacket
<1> QED
  BY <1>1, CloseClientStory

\* ProcessRecvBuffer moves what is not a whole packet to the front of the buffer.
LEMMA KeepRestStory ==
  ASSUME StoryInv, NetInv', KeepRest
  PROVE  StoryInv'
<1>1. /\ serving # None /\ (~HasHeader \/ (HasHeader /\ ValidSize /\ ~IsWhole))
      /\ recvBuffer' = [recvBuffer EXCEPT ![serving] = Kept]
      /\ serving' = None /\ readPos' = 0
      /\ UNCHANGED <<clients, events, incoming, lastSessionId, told>>
  BY DEF KeepRest
<1>2. PICK s \in clients : s = serving
  BY <1>1, ClientsAreGiven
<1>3. /\ s \in SessionIds /\ readPos \in Nat /\ s # None
      /\ Buffer \in Seq(Bytes) /\ Len(Buffer) \in Nat /\ readPos <= Len(Buffer)
      /\ Buffer = recvBuffer[s] /\ StreamFits(s) /\ Start(s) = readPos + 1
      /\ HasHeader => /\ readPos + 1 \in 1..Len(Buffer)
                      /\ Buffer[readPos + 1].at = 1 /\ TotalSize = Buffer[readPos + 1].size
  BY <1>1, <1>2, ServedFits
<1>4. /\ Kept \in Seq(Bytes) /\ Len(Kept) = Len(Buffer) - readPos
      /\ \A i \in 1..(Len(Buffer) - readPos) : Kept[i] = Buffer[readPos + i]
  BY <1>3 DEF Kept
<1>5. recvBuffer'[s] = Kept /\ \A t \in SessionIds \ {s} : recvBuffer'[t] = recvBuffer[t]
  BY <1>1, <1>2, <1>3 DEF StoryInv, NetInv, TypeOK
<1>6. IsPartial(Kept)
  <2>1. CASE ~HasHeader
    <3>1. Len(Kept) \in Nat /\ Len(Kept) < HeaderSize
      BY <1>3, <1>4, <2>1, NetworkConfig DEF HasHeader, Available
    <3> QED
      BY <3>1, NetworkConfig DEF IsPartial
  <2>2. CASE HasHeader /\ ValidSize /\ ~IsWhole
    <3>1. TotalSize \in Nat /\ TotalSize <= MaxPacketSize /\ ~(Available >= TotalSize)
      BY <2>2, NetworkConfig DEF ValidSize, IsWhole
    <3>2. Available \in Nat /\ Available = Len(Kept) /\ Available >= 1
      BY <1>3, <1>4, <2>2, NetworkConfig DEF Available, HasHeader
    <3>3. Kept[1] = Buffer[readPos + 1]
      BY <1>4, <3>2 DEF Available
    <3>4. Kept[1].size = TotalSize
      BY <1>3, <2>2, <3>3
    <3>5. Len(Kept) < TotalSize
      BY <3>1, <3>2
    <3>6. Len(Kept) < MaxPacketSize
      BY <3>1, <3>2, <3>5, NetworkConfig
    <3> QED
      BY <3>4, <3>5, <3>6 DEF IsPartial
  <2> QED
    BY <1>1, <2>1, <2>2
<1> DEFINE whole == Stream(s)
           rest  == Stream(s)'
<1>7. /\ Len(rest) = Len(whole) - readPos /\ Len(whole) \in Nat
      /\ \A i \in 1..Len(rest) : rest[i] = whole[readPos + i] /\ readPos + i \in 1..Len(whole)
  <2>1. incoming[s] \in Seq(Bytes)
    BY <1>3, StreamType DEF StoryInv
  <2>2. rest = SubSeq(Buffer, readPos + 1, Len(Buffer)) \o incoming[s]
    BY <1>1, <1>5 DEF Stream, Kept
  <2>3. whole = Buffer \o incoming[s]
    BY <1>3 DEF Stream
  <2> HIDE DEF rest, whole
  <2> QED
    <3>1. IsRest(rest, whole, Buffer, incoming[s], readPos)
      BY <1>3, <2>1, <2>2, <2>3 DEF IsRest
    <3> QED
      BY <3>1, DroppedFrom
<1>8. IsCut(whole) /\ \A i \in 1..Len(whole) : whole[i] \in Bytes
  BY <1>3, StreamType DEF StreamFits, StoryInv
<1>9. /\ Start(s)' = 1
      /\ readPos + 1 <= Len(whole) =>
           LET first == whole[readPos + 1]
           IN first.at = 1 /\ first.packet >= 1
              /\ ComesNext(events, told[s], s, first.packet, Len(events) + 1)
  BY <1>1, <1>3 DEF StreamFits, Start
<1> HIDE DEF whole, rest
<1>10. IsCut(rest)
  <2> SUFFICES ASSUME NEW i \in 1..Len(rest), rest[i].at = 1,
                      rest[i].size \in HeaderSize..MaxPacketSize, i + rest[i].size <= Len(rest)
               PROVE  LET next == i + rest[i].size
                      IN rest[next].at = 1 /\ rest[next].packet = rest[i].packet + 1
    BY DEF IsCut
  <2> DEFINE k == readPos + i
             size == rest[i].size
  <2>1. rest[i] = whole[k] /\ k \in 1..Len(whole) /\ size \in Nat /\ size >= 1
    BY <1>7, <1>8, NetworkConfig DEF Bytes
  <2>2. i + size \in 1..Len(rest) /\ readPos + (i + size) = k + size
    <3>1. Len(rest) \in Int /\ i \in Nat /\ i >= 1
      BY <1>3, <1>7
    <3> HIDE DEF size
    <3>2. i + size <= Len(rest)
      BY DEF size
    <3> QED
      BY <1>3, <2>1, <3>1, <3>2
  <2>3. rest[i + size] = whole[k + size] /\ k + size \in 1..Len(whole)
    <3>1. rest[i + size] = whole[readPos + (i + size)] /\ readPos + (i + size) \in 1..Len(whole)
      BY <1>7, <2>2
    <3> QED
      BY <2>2, <3>1
  <2>4. whole[k].at = 1 /\ whole[k].size = size /\ k + size <= Len(whole)
    BY <1>7, <2>1, <2>3
  <2>5. whole[k + size].at = 1 /\ whole[k + size].packet = whole[k].packet + 1
    BY <1>8, <2>1, <2>4 DEF IsCut
  <2> QED
    BY <2>1, <2>3, <2>5
<1>11. StreamFits(s)'
  <2>1. ASSUME 1 <= Len(rest)
        PROVE  /\ rest[1].at = 1 /\ rest[1].packet >= 1
               /\ ComesNext(events, told[s], s, rest[1].packet, Len(events) + 1)
    <3>1. 1 \in 1..Len(rest)
      BY <1>3, <1>7, <2>1
    <3>2. rest[1] = whole[readPos + 1] /\ readPos + 1 <= Len(whole)
      BY <1>3, <1>7, <3>1
    <3> QED
      BY <1>9, <3>2
  <2> QED
    BY <1>1, <1>9, <1>10, <2>1 DEF StreamFits, rest
<1>12. ASSUME NEW t \in clients, t # s PROVE StreamFits(t)' /\ IsPartial(recvBuffer'[t])
  <2>1. t \in SessionIds /\ recvBuffer'[t] = recvBuffer[t] /\ t # None
    BY <1>5, <1>12, ClientsAreGiven, NoneIsNobody DEF StoryInv, NetInv
  <2>2. Stream(t)' = Stream(t) /\ Start(t)' = Start(t)
    BY <1>1, <1>2, <1>12, <2>1 DEF Stream, Start
  <2>3. StreamFits(t) /\ IsPartial(recvBuffer[t])
    BY <1>2, <1>12 DEF StoryInv, BuffersFit
  <2> QED
    BY <1>1, <2>1, <2>2, <2>3 DEF StreamFits
<1>13. BuffersFit'
  <2>1. \A t \in clients' : StreamFits(t)' /\ IsPartial(recvBuffer'[t])
    BY <1>1, <1>5, <1>6, <1>11, <1>12
  <2>2. \A t \in SessionIds \ clients' : recvBuffer'[t] = <<>>
    BY <1>1, <1>2, <1>5 DEF StoryInv, BuffersFit
  <2> QED
    BY <1>1, <2>1, <2>2 DEF BuffersFit
<1>14. ClientsAreTold' /\ QueueFits(events', told') /\ told' \in [SessionIds -> Seq(Notes)]
  BY <1>1 DEF StoryInv, ClientsAreTold
<1> QED
  BY <1>13, <1>14 DEF StoryInv
\* AcceptClient: the story of a new session begins, with a stream from its first packet.
LEMMA AcceptClientStory ==
  ASSUME StoryInv, NetInv', NEW stream \in Streams, AcceptClient(stream)
  PROVE  StoryInv'
<1>0. PICK s \in SessionIds : s = lastSessionId + 1
  BY ClientsAreGiven, NetworkConfig DEF AcceptClient, CanAccept, SessionIds
<1> DEFINE e == Event("Connected", s, 0)
<1>1. /\ events \in Seq(Events) /\ Len(events) \in Nat /\ lastSessionId \in Nat
      /\ s \in SessionIds /\ s > lastSessionId
      /\ \A t \in clients : t \in SessionIds /\ ~(t > lastSessionId)
  BY <1>0, ClientsAreGiven
<1>2. /\ lastSessionId' = s /\ clients' = clients \cup {s} /\ events' = Append(events, e)
      /\ incoming' = [incoming EXCEPT ![s] = stream]
      /\ UNCHANGED <<recvBuffer, serving, readPos, told>>
      /\ serving = None
  BY <1>0 DEF AcceptClient, StoryInv, NetInv, Progress
<1>3. e \in Events /\ e.session = s /\ ~IsEnd(e.note) /\ IsNumbered(e.note) /\ Number(e.note) = 0
  BY <1>1, EventIs
<1>4. s \notin clients /\ told[s] = <<>> /\ \A k \in DOMAIN events : events[k].session # s
  BY <1>1 DEF StoryInv, ClientsAreTold
<1> HIDE DEF e
<1>5. ~IsOver(told[s]) /\ Len(told[s]) = 0 /\ told[s] \in Seq(Notes)
  BY <1>1, <1>4 DEF IsOver, StoryInv
<1>6. ComesNext(events, told[s], s, 0, Len(events) + 1)
  <2>1. (Len(events) + 1) - 1 = Len(events) /\ DOMAIN events = 1..Len(events)
    BY <1>1, LenProperties
  <2> QED
    BY <1>4, <1>5, <2>1 DEF ComesNext
<1>7. /\ QueueFits(events', told)
      /\ \A t, story, n : t # s /\ ComesNext(events, story, t, n, Len(events) + 1)
                            => ComesNext(events', story, t, n, Len(events') + 1)
      /\ \A t, story : t # s /\ MayEnd(events, story, t, Len(events) + 1)
                         => MayEnd(events', story, t, Len(events') + 1)
  BY <1>1, <1>2, <1>3, <1>5, <1>6, AppendFits DEF StoryInv
<1>8. /\ ComesNext(events', told[s], s, 1, Len(events') + 1)
      /\ MayEnd(events', told[s], s, Len(events') + 1)
  <2>1. 0 + 1 = 1
    OBVIOUS
  <2> QED
    BY <1>1, <1>2, <1>3, <1>5, <1>6, <2>1, NextAfter
<1>9. ClientsAreTold'
  <2>1. \A t \in clients' : ~IsOver(told[t]) /\ MayEnd(events', told[t], t, Len(events') + 1)
    BY <1>2, <1>5, <1>7, <1>8 DEF StoryInv, ClientsAreTold
  <2>2. ASSUME NEW t \in SessionIds, t > s
        PROVE  t \notin clients' /\ told[t] = <<>> /\ \A k \in DOMAIN events' : events'[k].session # t
    <3>1. t > lastSessionId /\ t # s
      BY <1>0, <1>1, <2>2 DEF SessionIds
    <3>2. t \notin clients /\ told[t] = <<>> /\ \A k \in DOMAIN events : events[k].session # t
      BY <3>1 DEF StoryInv, ClientsAreTold
    <3>3. \A k \in DOMAIN events' : (k \in DOMAIN events /\ events'[k] = events[k]) \/ events'[k] = e
      BY <1>1, <1>2, <1>3
    <3> QED
      BY <1>2, <1>3, <3>1, <3>2, <3>3
  <2> QED
    BY <1>2, <2>1, <2>2 DEF ClientsAreTold
<1>10. /\ recvBuffer[s] = <<>> /\ incoming'[s] = stream
       /\ \A t \in SessionIds \ {s} : incoming'[t] = incoming[t]
  BY <1>1, <1>2, <1>4 DEF StoryInv, NetInv, TypeOK, BuffersFit
<1>11. StreamFits(s)' /\ IsPartial(recvBuffer'[s])
  <2>1. Stream(s)' = stream /\ Start(s)' = 1
    <3>1. s # None
      BY <1>1, NetworkConfig DEF SessionIds
    <3>2. stream \in Seq(Bytes)
      BY NetworkConfig DEF Bytes
    <3>3. <<>> \o stream = stream
      BY <3>2, ConcatEmptySeq
    <3>4. Stream(s)' = <<>> \o stream
      BY <1>2, <1>10 DEF Stream
    <3>5. Start(s)' = 1
      BY <1>2, <3>1 DEF Start
    <3> QED
      BY <3>3, <3>4, <3>5
  <2>2. stream \in Seq(Bytes) /\ DOMAIN stream = 1..Len(stream) /\ Len(stream) \in Nat
    BY NetworkConfig, LenProperties DEF Bytes
  <2>3. IsCut(stream)
    <3> SUFFICES ASSUME NEW i \in 1..Len(stream), stream[i].at = 1,
                        stream[i].size \in HeaderSize..MaxPacketSize,
                        i + stream[i].size <= Len(stream)
                 PROVE  LET next == i + stream[i].size
                        IN stream[next].at = 1 /\ stream[next].packet = stream[i].packet + 1
      BY DEF IsCut
    <3>1. PICK k \in Nat : k = stream[i].size
      BY NetworkConfig
    <3>2. i + k \in DOMAIN stream /\ i \in DOMAIN stream
      BY <2>2, <3>1
    <3> QED
      BY <3>1, <3>2, StreamsAreCut
  <2>4. 1 <= Len(stream) => stream[1].at = 1 /\ stream[1].packet = 1
    <3>1. 1 <= Len(stream) => stream # <<>>
      BY <2>2, EmptySeq
    <3> QED
      BY <3>1, StreamsAreCut
  <2>5. StreamFits(s)'
    BY <1>2, <1>8, <2>1, <2>3, <2>4 DEF StreamFits
  <2>6. IsPartial(recvBuffer'[s])
    BY <1>2, <1>10, NetworkConfig DEF IsPartial
  <2> QED
    BY <2>5, <2>6
<1>12. ASSUME NEW t \in clients PROVE StreamFits(t)' /\ IsPartial(recvBuffer'[t])
  <2>1. t # s /\ t \in SessionIds /\ t # serving
    BY <1>1, <1>2, <1>4, <1>12, NoneIsNobody DEF StoryInv, NetInv
  <2>2. Stream(t)' = Stream(t) /\ Start(t)' = Start(t)
    BY <1>2, <1>10, <2>1 DEF Stream, Start
  <2>3. StreamFits(t) /\ IsPartial(recvBuffer[t])
    BY <1>12, <2>1 DEF StoryInv, BuffersFit
  <2> QED
    BY <1>2, <1>7, <2>1, <2>2, <2>3 DEF StreamFits
<1>13. BuffersFit'
  BY <1>2, <1>11, <1>12 DEF StoryInv, BuffersFit
<1> QED
  BY <1>2, <1>7, <1>9, <1>13 DEF StoryInv
\* TryPopEvent moves the head of the queue to the end of its session's story.
LEMMA TryPopEventStory ==
  ASSUME StoryInv, NetInv', TryPopEvent
  PROVE  StoryInv'
<1> DEFINE s == events[1].session
           note == events[1].note
           longer == [told EXCEPT ![s] = Append(@, note)]
<1>1. /\ events # <<>> /\ events' = Tail(events) /\ told' = longer
      /\ UNCHANGED <<clients, recvBuffer, incoming, lastSessionId, serving, readPos>>
  <2>1. events # <<>> /\ Head(events) = events[1]
    BY ClientsAreGiven, HeadTailProperties DEF TryPopEvent
  <2> QED
    BY <2>1 DEF TryPopEvent
<1>2. events \in Seq(Events) /\ told \in [SessionIds -> Seq(Notes)] /\ QueueFits(events, told)
      /\ \A t \in clients : t \in SessionIds
  BY ClientsAreGiven DEF StoryInv
<1>3. /\ s \in SessionIds /\ note \in Notes
      /\ longer \in [SessionIds -> Seq(Notes)]
      /\ QueueFits(Tail(events), longer)
      /\ \A t \in SessionIds, n \in Nat :
           ComesNext(events, told[t], t, n, Len(events) + 1)
             => ComesNext(Tail(events), longer[t], t, n, Len(Tail(events)) + 1)
      /\ \A t \in SessionIds :
           MayEnd(events, told[t], t, Len(events) + 1) =>
             /\ MayEnd(Tail(events), longer[t], t, Len(Tail(events)) + 1)
             /\ ~IsOver(told[t]) => ~IsOver(longer[t])
  BY <1>1, <1>2, TailFits
<1>4. /\ 1 \in DOMAIN events
      /\ \A k \in DOMAIN Tail(events) : k + 1 \in DOMAIN events /\ Tail(events)[k] = events[k + 1]
  BY <1>1, <1>2, EmptySeq, LenProperties, HeadTailProperties
<1>5. \A t \in SessionIds : t # s => longer[t] = told[t]
  BY <1>2, <1>3
<1> HIDE DEF longer, s, note
<1>6. ClientsAreTold'
  <2>1. \A t \in clients' : ~IsOver(told'[t]) /\ MayEnd(events', told'[t], t, Len(events') + 1)
    BY <1>1, <1>2, <1>3 DEF StoryInv, ClientsAreTold
  <2>2. ASSUME NEW t \in SessionIds, t > lastSessionId
        PROVE  t \notin clients' /\ told'[t] = <<>> /\ \A k \in DOMAIN events' : events'[k].session # t
    <3>1. t \notin clients /\ told[t] = <<>> /\ \A k \in DOMAIN events : events[k].session # t
      BY <2>2 DEF StoryInv, ClientsAreTold
    <3>2. t # s
      BY <1>4, <3>1 DEF s
    <3> QED
      BY <1>1, <1>4, <1>5, <3>1, <3>2
  <2> QED
    BY <1>1, <2>1, <2>2 DEF ClientsAreTold
<1>7. ASSUME NEW t \in clients PROVE StreamFits(t)'
  <2>1. StreamFits(t) /\ t \in SessionIds
    BY <1>2, <1>7 DEF StoryInv, BuffersFit
  <2>2. Stream(t)' = Stream(t) /\ Start(t)' = Start(t)
    BY <1>1 DEF Stream, Start
  <2>3. ASSUME Start(t) <= Len(Stream(t))
        PROVE  Stream(t)[Start(t)].packet \in Nat
    <3>1. \A i \in 1..Len(Stream(t)) : Stream(t)[i] \in Bytes
      BY <2>1, StreamType DEF StoryInv
    <3>2. Start(t) \in Nat /\ Start(t) >= 1 /\ Len(Stream(t)) \in Nat
      BY <2>1, StreamType DEF StoryInv, NetInv, TypeOK, Start
    <3>3. Start(t) \in 1..Len(Stream(t))
      BY <2>3, <3>2
    <3> QED
      BY <3>1, <3>3 DEF Bytes
  <2> QED
    BY <1>1, <1>3, <2>1, <2>2, <2>3 DEF StreamFits
<1>8. BuffersFit'
  BY <1>1, <1>7 DEF StoryInv, BuffersFit
<1> QED
  BY <1>1, <1>3, <1>6, <1>8 DEF StoryInv

\* Where there are neither clients, nor events, nor bytes, the stories fit.
LEMMA NobodyHasAStory ==
  ASSUME NetInv, told \in [SessionIds -> Seq(Notes)], clients = {}, events = <<>>,
         recvBuffer = [s \in SessionIds |-> <<>>], serving = None,
         \A s \in SessionIds : s > lastSessionId => told[s] = <<>>
  PROVE  StoryInv
<1>1. DOMAIN events = {}
  OBVIOUS
<1>2. QueueFits(events, told) /\ ClientsAreTold
  BY <1>1 DEF QueueFits, ClientsAreTold
<1>3. BuffersFit
  BY DEF BuffersFit
<1> QED
  BY <1>2, <1>3 DEF StoryInv

\* The server starts with no stories.
LEMMA StoryInit == Init => StoryInv
<1> SUFFICES ASSUME Init PROVE StoryInv
  OBVIOUS
<1>1. NetInv /\ told \in [SessionIds -> Seq(Notes)]
  BY NetInitInv DEF Init
<1> QED
  BY <1>1, NobodyHasAStory DEF Init

\* Every step of the server carries them on.
LEMMA StoryNext == StoryInv /\ [Next]_vars => StoryInv'
<1> SUFFICES ASSUME StoryInv, [Next]_vars PROVE StoryInv'
  OBVIOUS
<1>1. NetInv'
  BY NetNextInv DEF StoryInv
<1>2. CASE Loop
  <2>1. CASE BeginRun \/ BeginAccept \/ EndRun \/ NoMoreEvents
    BY <1>1, <2>1, QuietStory DEF BeginRun, BeginAccept, EndRun, NoMoreEvents, net
  <2>2. CASE EnqueuePacket
    BY <1>1, <2>2, EnqueuePacketStory
  <2>3. CASE KeepRest
    BY <1>1, <2>3, KeepRestStory
  <2>4. CASE RejectPacket
    BY <1>1, <2>4, RejectPacketStory
  <2>5. CASE TryPopEvent
    BY <1>1, <2>5, TryPopEventStory
  <2> QED
    BY <1>2, <2>1, <2>2, <2>3, <2>4, <2>5 DEF Loop
<1>3. ASSUME NEW s \in SessionIds, NEW n \in 1..RecvChunk, ReceiveClient(s, n) PROVE StoryInv'
  BY <1>1, <1>3, ReceiveClientStory
<1>4. ASSUME NEW s \in SessionIds, LoseClient(s) PROVE StoryInv'
  <2>1. s \in clients /\ CloseClient(s) /\ serving = None /\ UNCHANGED <<serving, lastSessionId, told>>
    BY <1>4 DEF LoseClient
  <2> QED
    BY <1>1, <2>1, CloseClientStory
<1>5. ASSUME NEW s \in SessionIds, Disconnect(s) PROVE StoryInv'
  <2>1. s \in clients /\ CloseClient(s) /\ UNCHANGED <<serving, lastSessionId, told>>
    BY <1>5 DEF Disconnect
  <2>2. serving = None
    BY <1>5 DEF Disconnect, InUpdate, StoryInv, NetInv, Progress
  <2> QED
    BY <1>1, <2>1, <2>2, CloseClientStory
<1>6. ASSUME NEW s \in SessionIds, NEW k, SendClient(s, k) \/ SendPacket(s, k) PROVE StoryInv'
  BY <1>1, <1>6, QuietStory DEF SendClient, SendPacket
<1>7. ASSUME NEW stream \in Streams, AcceptClient(stream) PROVE StoryInv'
  BY <1>1, <1>7, AcceptClientStory
<1>8. CASE Release
  <2>1. /\ clients' = {} /\ events' = <<>> /\ recvBuffer' = [s \in SessionIds |-> <<>>]
        /\ UNCHANGED <<lastSessionId, serving, told>> /\ phase = "after"
    BY <1>8 DEF Release
  <2>2. serving' = None /\ told' \in [SessionIds -> Seq(Notes)]
        /\ \A s \in SessionIds : s > lastSessionId' => told'[s] = <<>>
    BY <2>1 DEF StoryInv, NetInv, Progress, ClientsAreTold
  <2>3. QueueFits(events', told')
    BY <2>1 DEF QueueFits
  <2>4. ClientsAreTold'
    BY <2>1, <2>2 DEF ClientsAreTold
  <2>5. BuffersFit'
    BY <2>1, <2>2 DEF BuffersFit
  <2> QED
    BY <1>1, <2>2, <2>3, <2>4, <2>5 DEF StoryInv
<1>9. CASE UNCHANGED vars
  BY <1>1, <1>9, QuietStory DEF vars, net
<1> QED
  BY <1>2, <1>3, <1>4, <1>5, <1>6, <1>7, <1>8, <1>9 DEF Next

\* In every state the queue and the buffers hold what the stories told go on with.
THEOREM StoryInvariance == Spec => []StoryInv
<1> QED
  BY StoryInit, StoryNext, PTL DEF Spec
\* ProcessRecvBuffer leaves less than a packet in every buffer, from the start of a packet
\* on, so that what recv takes next always has room (RestIsPartial).
THEOREM RestsArePartial == Spec => []RestIsPartial
<1>1. StoryInv => RestIsPartial
  <2> SUFFICES ASSUME StoryInv, serving = None, NEW s \in clients
               PROVE  LET buffer == recvBuffer[s]
                      IN /\ Len(buffer) < MaxPacketSize
                         /\ buffer # <<>> => buffer[1].at = 1
                         /\ Len(buffer) >= HeaderSize => Len(buffer) < buffer[1].size
                         /\ Len(buffer) + RecvChunk <= MaxRecvBufferBytes
    BY DEF RestIsPartial
  <2> DEFINE buffer == recvBuffer[s]
  <2>1. s \in SessionIds /\ s # serving
    BY ClientsAreGiven, NoneIsNobody DEF StoryInv, NetInv
  <2>2. /\ buffer \in Seq(Bytes) /\ Len(buffer) \in Nat /\ Len(Stream(s)) \in Nat
        /\ Len(buffer) <= Len(Stream(s))
        /\ \A i \in 1..Len(buffer) : Stream(s)[i] = buffer[i]
    BY <2>1, StreamType DEF StoryInv
  <2>3. StreamFits(s) /\ Start(s) = 1 /\ IsPartial(buffer)
    BY <2>1 DEF StoryInv, BuffersFit, Start
  <2> HIDE DEF buffer
  <2>4. Len(buffer) < MaxPacketSize /\ (Len(buffer) >= HeaderSize => Len(buffer) < buffer[1].size)
    BY <2>3 DEF IsPartial
  <2>5. ASSUME buffer # <<>> PROVE buffer[1].at = 1
    <3>1. 1 \in 1..Len(buffer) /\ 1 <= Len(Stream(s))
      BY <2>2, <2>5, EmptySeq
    <3> QED
      BY <2>2, <2>3, <3>1 DEF StreamFits
  <2>6. Len(buffer) + RecvChunk <= MaxRecvBufferBytes
    BY <2>2, <2>4, NetworkConfig
  <2> QED
    BY <2>4, <2>5, <2>6 DEF buffer
<1> QED
  BY <1>1, StoryInvariance, PTL

-----------------------------------------------------------------------------
(* The network as an INetwork                                               *)

\* Popping the head of the queue tells its session what INetwork says comes next.
LEMMA PopIsTelling ==
  ASSUME StoryInv, TryPopEvent
  PROVE  \E s \in SessionIds : Contract!TellOf(s)
<1> DEFINE s == events[1].session
           note == events[1].note
<1>1. /\ events # <<>> /\ events \in Seq(Events) /\ Head(events) = events[1]
      /\ told \in [SessionIds -> Seq(Notes)]
  BY ClientsAreGiven, HeadTailProperties DEF TryPopEvent, StoryInv
<1>2. /\ told' = [told EXCEPT ![s] = Append(@, note)]
      /\ UNCHANGED <<clients, lastSessionId>>
  BY <1>1 DEF TryPopEvent
<1>3. 1 \in DOMAIN events /\ 1 \in 1..((Len(events) + 1) - 1) /\ events[1] \in Events
  BY <1>1, EmptySeq, LenProperties, ElementOfSeq
<1>4. FitsAt(events, told, 1)
  BY <1>3 DEF StoryInv, QueueFits
<1>5. s \in SessionIds /\ note \in Notes
  BY <1>3 DEF Events, Notes
<1>6. /\ IsNumbered(note) /\ ~IsOver(told[s])
      /\ IsEnd(note) => told[s] # <<>>
      /\ ~IsEnd(note) => Number(note) = Len(told[s])
  BY <1>1, <1>4, <1>5, HeadIsNext
<1>7. s <= lastSessionId
  <2>1. ~(s > lastSessionId)
    BY <1>3, <1>5 DEF StoryInv, ClientsAreTold
  <2>2. s \in Nat /\ lastSessionId \in Nat
    BY <1>5, ClientsAreGiven DEF SessionIds
  <2> HIDE DEF s
  <2> QED
    BY <2>1, <2>2
<1>8. IsEnd(note) => s \notin clients
  BY <1>3 DEF StoryInv, ClientsAreTold, MayEnd
<1> HIDE DEF s, note
<1>9. Len(told[s]) \in Nat /\ (told[s] = <<>> <=> Len(told[s]) = 0)
  BY <1>1, <1>5, EmptySeq, LenProperties
<1>10. ~Contract!Ended(s)
  BY <1>6 DEF Contract!Ended, Contract!DisconnectedNote, IsOver, IsEnd
<1>11. note \in Contract!NextNotes(s)
  <2>1. note = [type |-> note.type, packet |-> note.packet]
        /\ note.type \in {"Connected", "Packet", "Disconnected"} /\ note.packet \in Nat
    BY <1>5 DEF Notes
  <2>2. CASE note.type = "Connected"
    <3>1. Len(told[s]) = 0 /\ note.packet = 0
      BY <1>6, <2>2 DEF IsNumbered, IsEnd, Number
    <3>2. note = Contract!ConnectedNote
      BY <2>1, <2>2, <3>1 DEF Contract!ConnectedNote
    <3> QED
      BY <1>9, <3>1, <3>2 DEF Contract!NextNotes
  <2>3. CASE note.type = "Packet"
    <3>1. Len(told[s]) = note.packet /\ note.packet >= 1
      BY <1>6, <2>3 DEF IsNumbered, IsEnd, Number
    <3>2. told[s] # <<>>
      BY <1>9, <3>1
    <3>3. note = Contract!PacketNote(Len(told[s]))
      BY <2>1, <2>3, <3>1 DEF Contract!PacketNote
    <3> QED
      BY <1>10, <3>2, <3>3 DEF Contract!NextNotes
  <2>4. CASE note.type = "Disconnected"
    <3>1. told[s] # <<>> /\ note.packet = 0 /\ s \notin clients
      BY <1>6, <1>8, <2>4 DEF IsNumbered, IsEnd
    <3>2. note = Contract!DisconnectedNote
      BY <2>1, <2>4, <3>1 DEF Contract!DisconnectedNote
    <3> QED
      BY <1>10, <3>1, <3>2 DEF Contract!NextNotes
  <2> QED
    BY <2>1, <2>2, <2>3, <2>4
<1>12. Contract!TellOf(s)
  BY <1>2, <1>7, <1>11 DEF Contract!TellOf
<1> QED
  BY <1>5, <1>12

\* TcpNetwork is an INetwork: each of its steps is one of the contract's, or none.
THEOREM NetworkImplementsINetwork == Spec => ImplementsINetwork
<1>1. Init => Contract!Init
  BY DEF Init, Contract!Init, SessionIds, Contract!SessionIds
<1>2. StoryInv /\ [Next]_vars => [Contract!Next]_<<clients, told, lastSessionId>>
  <2> SUFFICES ASSUME StoryInv, [Next]_vars
               PROVE  Contract!Next \/ UNCHANGED <<clients, told, lastSessionId>>
    OBVIOUS
  <2>1. ASSUME NEW S \in SUBSET clients, clients' = clients \ S, UNCHANGED <<told, lastSessionId>>
        PROVE  Contract!Next
    BY <2>1 DEF Contract!Next, Contract!Lose
  <2>2. ASSUME NEW s \in clients, CloseClient(s), UNCHANGED <<told, lastSessionId>>
        PROVE  Contract!Next
    <3>1. {s} \in SUBSET clients /\ clients' = clients \ {s}
      BY <2>2 DEF CloseClient
    <3> QED
      BY <2>1, <2>2, <3>1
  <2>3. CASE Loop
    <3>1. CASE BeginRun \/ BeginAccept \/ EndRun \/ NoMoreEvents \/ EnqueuePacket \/ KeepRest
      BY <3>1 DEF BeginRun, BeginAccept, EndRun, NoMoreEvents, EnqueuePacket, KeepRest, net
    <3>2. CASE RejectPacket
      <4>1. serving \in clients /\ CloseClient(serving) /\ UNCHANGED <<told, lastSessionId>>
        BY <3>2, ClientsAreGiven DEF RejectPacket
      <4> QED
        BY <2>2, <4>1
    <3>3. CASE TryPopEvent
      BY <3>3, PopIsTelling DEF Contract!Next, Contract!SessionIds, SessionIds
    <3> QED
      BY <2>3, <3>1, <3>2, <3>3 DEF Loop
  <2>4. ASSUME NEW s \in SessionIds, NEW n \in 1..RecvChunk, ReceiveClient(s, n)
        PROVE  Contract!Next \/ UNCHANGED <<clients, told, lastSessionId>>
    <3>1. s \in clients /\ UNCHANGED <<told, lastSessionId>>
      BY <2>4 DEF StoryInv, NetInv, TypeOK, ReceiveClient, Serve
    <3>2. CloseClient(s) \/ UNCHANGED clients
      BY <2>4 DEF ReceiveClient
    <3> QED
      BY <2>2, <3>1, <3>2
  <2>5. ASSUME NEW s \in SessionIds, LoseClient(s) \/ Disconnect(s) PROVE Contract!Next
    BY <2>2, <2>5 DEF LoseClient, Disconnect
  <2>6. ASSUME NEW s \in SessionIds, NEW k, SendClient(s, k) \/ SendPacket(s, k)
        PROVE  UNCHANGED <<clients, told, lastSessionId>>
    BY <2>6 DEF SendClient, SendPacket
  <2>7. ASSUME NEW stream \in Streams, AcceptClient(stream) PROVE Contract!Next
    <3>1. Contract!Connect
      BY <2>7 DEF AcceptClient, CanAccept, Contract!Connect
    <3> QED
      BY <3>1 DEF Contract!Next
  <2>8. CASE Release
    <3>1. clients' = clients \ clients /\ UNCHANGED <<told, lastSessionId>>
      BY <2>8 DEF Release
    <3> QED
      BY <2>1, <3>1
  <2>9. CASE UNCHANGED vars
    BY <2>9 DEF vars, net
  <2> QED
    BY <2>3, <2>4, <2>5, <2>6, <2>7, <2>8, <2>9 DEF Next
<1> QED
  BY <1>1, <1>2, StoryInvariance, PTL DEF Spec, ImplementsINetwork, Contract!Spec
================================================================================
