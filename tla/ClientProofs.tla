------------------------------ MODULE ClientProofs ------------------------------
(***************************************************************************)
(* Theorems about ChatClient, for every script, every stream of bytes and  *)
(* all limits that stand to each other as ClientLimits says.               *)
(*                                                                         *)
(* The client never stops because its own buffers are too small.  Outside  *)
(* ProcessRecvBuffer the receive buffer holds less than a packet, so a     *)
(* chunk fits behind it.  While packets are cut, the first of them ends    *)
(* inside the chunk just received and every other lies inside it; so a     *)
(* queue for as many headers as fit a chunk takes one packet for each of   *)
(* them and the first one besides only if some byte of it came new.        *)
(*                                                                         *)
(* It stops for a reason, and it implements IChatClient.  The packets      *)
(* handled, those in the queue and the bytes in the receive buffer, on     *)
(* the way and to come follow each other in Stream; so do, in Script, the  *)
(* lines obeyed, those in the queue, the one being read and the text of    *)
(* the chunk and of the console.                                           *)
(*                                                                         *)
(* What the lines obeyed send is, while the client can send, in the send   *)
(* buffer or with the network, packet after packet: nothing is dropped,    *)
(* sent twice or sent by a client that has not connected.                  *)
(***************************************************************************)
EXTENDS ChatClient, Recursion

ByteSet == [packet : Nat, at : Nat \ {0}, size : Nat]

TypesInv ==
  /\ recvBuffer \in Seq(ByteSet) /\ arrived \in Seq(ByteSet) /\ toCome \in Seq(ByteSet)
  /\ packets \in Seq(Nat)

\* Where ProcessRecvBuffer has looked at all there is.
Settled == {"connect", "lines", "console", "run", "packets"}

PartialInv == main \in Settled => NoMorePackets

EmptyInv == main \in {"connect", "lines", "console", "run"} => packets = <<>>

\* What is left of the last chunk while packets are cut.
ChunkInv ==
  main = "cut" =>
    IF packets = <<>>
    THEN IsWhole => Len(recvBuffer) - TotalSize < RecvChunk
    ELSE Len(packets) * HeaderSize + Len(recvBuffer) < RecvChunk + HeaderSize

LimitsInv == TypesInv /\ PartialInv /\ EmptyInv /\ ChunkInv /\ LimitsSuffice

-----------------------------------------------------------------------------

\* What a chunk leaves behind and what it brings have their lengths.
LEMMA CutLengths ==
  ASSUME NEW S, NEW s \in Seq(S), NEW n \in 0..Len(s)
  PROVE  /\ SubSeq(s, 1, n) \in Seq(S) /\ Len(SubSeq(s, 1, n)) = n
         /\ From(s, n + 1) \in Seq(S) /\ Len(From(s, n + 1)) = Len(s) - n
<1>1. Len(s) \in Nat /\ \A i \in 1..Len(s) : s[i] \in S
  BY LenProperties, ElementOfSeq
<1>2. \A i \in 1..n : s[i] \in S
  BY <1>1
<1>3. SubSeq(s, 1, n) \in Seq(S) /\ Len(SubSeq(s, 1, n)) = n
  BY <1>1, <1>2, SubSeqProperties
<1>4. \A i \in n + 1..Len(s) : s[i] \in S
  BY <1>1
<1>5. /\ SubSeq(s, n + 1, Len(s)) \in Seq(S)
      /\ Len(SubSeq(s, n + 1, Len(s))) = IF n + 1 <= Len(s) THEN Len(s) - (n + 1) + 1 ELSE 0
  BY <1>1, <1>4, SubSeqProperties
<1> QED
  BY <1>1, <1>3, <1>5 DEF From

\* A header in the buffer claims a size.
LEMMA SizeIsNat ==
  ASSUME recvBuffer \in Seq(ByteSet), recvBuffer # <<>>
  PROVE  TotalSize \in Nat
<1>1. 1 \in 1..Len(recvBuffer)
  BY EmptySeq, LenProperties
<1>2. recvBuffer[1] \in ByteSet
  BY <1>1, ElementOfSeq
<1> QED
  BY <1>2 DEF TotalSize, ByteSet

\* What is settled is less than a packet.
LEMMA SettledIsPartial ==
  ASSUME recvBuffer \in Seq(ByteSet), NoMorePackets
  PROVE  Len(recvBuffer) \in Nat /\ Len(recvBuffer) < MaxPacketSize
<1>1. Len(recvBuffer) \in Nat
  BY LenProperties
<1>2. CASE ~HasHeader
  BY <1>1, <1>2, ClientLimits DEF HasHeader
<1>3. CASE HasHeader
  <2>1. ValidSize
    BY <1>3 DEF NoMorePackets, Refusal
  <2>2. ~(Len(recvBuffer) >= TotalSize)
    BY <1>3, <2>1 DEF NoMorePackets, IsWhole
  <2>3. TotalSize \in Nat /\ TotalSize <= MaxPacketSize
    BY <2>1, ClientLimits DEF ValidSize
  <2> QED
    BY <1>1, <2>2, <2>3, ClientLimits
<1> QED
  BY <1>2, <1>3

\* Whatever has arrived, a chunk of it fits behind less than a packet.
LEMMA ChunkFits ==
  ASSUME TypesInv, NoMorePackets
  PROVE  Received \in 0..Len(arrived) /\ Received <= RecvChunk /\ ~Overflows
<1>1. Len(arrived) \in Nat
  BY LenProperties DEF TypesInv
<1>2. Received \in 0..Len(arrived) /\ Received <= RecvChunk
  BY <1>1, ClientLimits DEF Received, Min2
<1>3. Len(recvBuffer) \in Nat /\ Len(recvBuffer) < MaxPacketSize
  BY SettledIsPartial DEF TypesInv
<1>4. ~Overflows
  BY <1>1, <1>2, <1>3, ClientLimits DEF Overflows
<1> QED
  BY <1>2, <1>4

\* As many packets as the queue holds have at least as many bytes as a chunk.
LEMMA QueueTakesChunk ==
  ASSUME NEW n \in Nat, n >= MaxPendingPackets
  PROVE  n * HeaderSize \in Nat /\ n * HeaderSize >= RecvChunk
<1>1. PICK k \in Nat : n = MaxPendingPackets + k
  <2>1. n - MaxPendingPackets \in Nat /\ n = MaxPendingPackets + (n - MaxPendingPackets)
    BY ClientLimits
  <2> QED
    BY <2>1
<1>2. n * HeaderSize = MaxPendingPackets * HeaderSize + k * HeaderSize
  BY <1>1, ClientLimits
<1>3. k * HeaderSize \in Nat /\ MaxPendingPackets * HeaderSize \in Nat
  BY ClientLimits
<1> QED
  BY <1>2, <1>3, ClientLimits

\* While packets are cut, one that is whole finds its place.
LEMMA QueueNeverFull ==
  ASSUME TypesInv, ChunkInv, main = "cut", IsWhole
  PROVE  ~QueueFull
<1>1. Len(packets) \in Nat /\ Len(recvBuffer) \in Nat
  BY LenProperties DEF TypesInv
<1>2. SUFFICES ASSUME Len(packets) >= MaxPendingPackets
               PROVE  FALSE
  BY DEF QueueFull
<1>3. Len(packets) * HeaderSize \in Nat /\ Len(packets) * HeaderSize >= RecvChunk
  BY <1>1, <1>2, QueueTakesChunk
<1>4. packets # <<>>
  <2>1. SUFFICES ASSUME packets = <<>> PROVE FALSE
    OBVIOUS
  <2>2. Len(packets) = 0
    BY <2>1
  <2> QED
    BY <1>3, <2>2, ClientLimits
<1>5. Len(packets) * HeaderSize + Len(recvBuffer) < RecvChunk + HeaderSize
  BY <1>4 DEF ChunkInv
<1>6. Len(recvBuffer) >= HeaderSize
  BY DEF IsWhole, HasHeader
<1> QED
  BY <1>1, <1>3, <1>5, <1>6, ClientLimits

-----------------------------------------------------------------------------

\* A step that leaves the buffers alone, and goes from one settled place to another or
\* leaves the loop for a reason other than the limits.
LEMMA NothingReceived ==
  ASSUME LimitsInv, UNCHANGED <<recvBuffer, packets, arrived, toCome>>,
         why' = why \/ why' \notin {"BufferFull", "QueueFull"},
         main' \notin {"cut", "connect"},
         main' \in Settled => main \in Settled,
         main' \in {"lines", "console", "run"} => packets = <<>>
  PROVE  LimitsInv'
<1>1. TypesInv'
  BY DEF LimitsInv, TypesInv
<1>2. PartialInv'
  BY DEF LimitsInv, PartialInv, NoMorePackets, IsWhole, Refusal, HasHeader, ValidSize,
         TotalSize, QueueFull
<1>3. EmptyInv' /\ ChunkInv'
  BY DEF EmptyInv, ChunkInv
<1>4. LimitsSuffice'
  BY DEF LimitsInv, LimitsSuffice
<1> QED
  BY <1>1, <1>2, <1>3, <1>4 DEF LimitsInv

\* A step that changes neither the places of main nor the buffers but for what is still
\* on its way.
LEMMA OnlyArrivals ==
  ASSUME LimitsInv, UNCHANGED <<recvBuffer, packets, main, why>>,
         arrived' \in Seq(ByteSet), toCome' \in Seq(ByteSet)
  PROVE  LimitsInv'
<1>1. TypesInv'
  BY DEF LimitsInv, TypesInv
<1>2. PartialInv' /\ ChunkInv'
  BY DEF LimitsInv, PartialInv, ChunkInv, NoMorePackets, IsWhole, Refusal, HasHeader,
         ValidSize, TotalSize, QueueFull
<1>3. EmptyInv' /\ LimitsSuffice'
  BY DEF LimitsInv, EmptyInv, LimitsSuffice
<1> QED
  BY <1>1, <1>2, <1>3 DEF LimitsInv

\* Receive: the bytes beyond the first packet all came with this chunk.
LEMMA RunReceivesInv ==
  ASSUME LimitsInv, RunReceives
  PROVE  LimitsInv'
<1>1. /\ main = "run" /\ main' = "cut" /\ packets = <<>>
      /\ UNCHANGED <<why, packets, toCome>> /\ NoMorePackets /\ TypesInv
  BY DEF LimitsInv, RunReceives, Receive, Go, PartialInv, EmptyInv, Settled
<1>2. Received \in 0..Len(arrived) /\ Received <= RecvChunk
  BY <1>1, ChunkFits
<1> DEFINE chunkOf == SubSeq(arrived, 1, Received)
<1>3. /\ chunkOf \in Seq(ByteSet) /\ Len(chunkOf) = Received
      /\ From(arrived, Received + 1) \in Seq(ByteSet)
  BY <1>1, <1>2, CutLengths DEF TypesInv
<1>4. recvBuffer' = recvBuffer \o chunkOf /\ arrived' = From(arrived, Received + 1)
  BY DEF RunReceives, Receive
<1> HIDE DEF chunkOf
<1>5. /\ recvBuffer' \in Seq(ByteSet) /\ Len(recvBuffer') = Len(recvBuffer) + Received
      /\ \A i \in 1..Len(recvBuffer) : recvBuffer'[i] = recvBuffer[i]
  <2>1. /\ recvBuffer \o chunkOf \in Seq(ByteSet)
        /\ Len(recvBuffer \o chunkOf) = Len(recvBuffer) + Len(chunkOf)
        /\ \A i \in 1..Len(recvBuffer) + Len(chunkOf) :
             (recvBuffer \o chunkOf)[i] =
               IF i <= Len(recvBuffer) THEN recvBuffer[i] ELSE chunkOf[i - Len(recvBuffer)]
    BY <1>1, <1>3, ConcatProperties DEF TypesInv
  <2>2. Len(recvBuffer) \in Nat /\ Received \in Nat
    BY <1>1, <1>2, LenProperties DEF TypesInv
  <2> QED
    BY <1>3, <1>4, <2>1, <2>2
<1>6. TypesInv'
  BY <1>1, <1>3, <1>4, <1>5 DEF TypesInv
<1>7. IsWhole' => Len(recvBuffer') - TotalSize' < RecvChunk
  <2>1. Len(recvBuffer) \in Nat /\ Received \in Nat
    BY <1>1, <1>2, LenProperties DEF TypesInv
  <2>2. SUFFICES ASSUME IsWhole' PROVE Len(recvBuffer') - TotalSize' < RecvChunk
    OBVIOUS
  <2>3. TotalSize' \in Nat /\ TotalSize' >= HeaderSize
    BY <2>2, ClientLimits DEF IsWhole, ValidSize
  <2>4. CASE recvBuffer = <<>>
    <3>1. Len(recvBuffer) = 0
      BY <2>4
    <3>2. Len(recvBuffer') = Received
      BY <1>5, <2>1, <3>1
    <3>3. TotalSize' > 0
      BY <2>3, ClientLimits
    <3>4. RecvChunk \in Nat /\ Received <= RecvChunk
      BY <1>2, ClientLimits
    <3>5. \A size \in Nat : size > 0 => Received - size < RecvChunk
      BY <2>1, <3>4
    <3> QED
      BY <2>3, <3>2, <3>3, <3>5
  <2>5. CASE recvBuffer # <<>>
    <3>1. 1 \in 1..Len(recvBuffer)
      BY <1>1, <2>1, <2>5, EmptySeq, LenProperties DEF TypesInv
    <3>2. TotalSize' = TotalSize
      BY <1>5, <3>1 DEF TotalSize
    <3>3. Len(recvBuffer) < TotalSize
      <4>1. CASE ~HasHeader
        BY <2>1, <2>3, <3>2, <4>1, ClientLimits DEF HasHeader
      <4>2. CASE HasHeader
        BY <1>1, <2>1, <2>3, <3>2, <4>2 DEF NoMorePackets, IsWhole, Refusal
      <4> QED
        BY <4>1, <4>2
    <3> QED
      BY <1>2, <1>5, <2>1, <2>3, <3>2, <3>3, ClientLimits
  <2> QED
    BY <2>4, <2>5
<1>8. PartialInv' /\ EmptyInv' /\ ChunkInv'
  BY <1>1, <1>7 DEF PartialInv, EmptyInv, ChunkInv, Settled
<1>9. LimitsSuffice'
  BY <1>1 DEF LimitsInv, LimitsSuffice
<1> QED
  BY <1>6, <1>8, <1>9 DEF LimitsInv

\* ProcessRecvBuffer, one packet: the packet after it lies inside the chunk.
LEMMA CutPacketInv ==
  ASSUME LimitsInv, CutPacket
  PROVE  LimitsInv'
<1>1. /\ main = "cut" /\ main' = "cut" /\ IsWhole /\ TypesInv /\ ChunkInv
      /\ UNCHANGED <<why, arrived, toCome>>
      /\ packets' = Append(packets, recvBuffer[1].packet)
      /\ recvBuffer' = From(recvBuffer, TotalSize + 1)
  BY DEF LimitsInv, CutPacket, PushPacket, mainVars, network
<1>2. Len(recvBuffer) \in Nat /\ Len(packets) \in Nat
  BY <1>1, LenProperties DEF TypesInv
<1>3. /\ TotalSize \in Nat /\ TotalSize >= HeaderSize /\ TotalSize <= Len(recvBuffer)
  BY <1>1, ClientLimits DEF IsWhole, ValidSize
<1>4. recvBuffer' \in Seq(ByteSet) /\ Len(recvBuffer') = Len(recvBuffer) - TotalSize
  <2>1. TotalSize \in 0..Len(recvBuffer)
    BY <1>2, <1>3
  <2> QED
    BY <1>1, <2>1, CutLengths DEF TypesInv
<1>5. recvBuffer[1].packet \in Nat
  <2>1. 1 \in 1..Len(recvBuffer)
    BY <1>2, <1>3, ClientLimits
  <2>2. recvBuffer[1] \in ByteSet
    BY <1>1, <2>1, ElementOfSeq DEF TypesInv
  <2> QED
    BY <2>2 DEF ByteSet
<1>6. packets' \in Seq(Nat) /\ Len(packets') = Len(packets) + 1
  BY <1>1, <1>5, AppendProperties DEF TypesInv
<1>7. TypesInv'
  BY <1>1, <1>4, <1>6 DEF TypesInv
<1>8. Len(packets') * HeaderSize = Len(packets) * HeaderSize + HeaderSize
  BY <1>2, <1>6, ClientLimits
<1>9. Len(packets') * HeaderSize + Len(recvBuffer') < RecvChunk + HeaderSize
  <2>1. CASE packets = <<>>
    <3>1. Len(packets) * HeaderSize = 0
      <4>1. Len(packets) = 0
        BY <2>1
      <4> QED
        BY <4>1, ClientLimits
    <3>2. Len(recvBuffer) - TotalSize < RecvChunk
      BY <1>1, <2>1 DEF ChunkInv
    <3> QED
      BY <1>2, <1>3, <1>4, <1>8, <3>1, <3>2, ClientLimits
  <2>2. CASE packets # <<>>
    <3>1. Len(packets) * HeaderSize + Len(recvBuffer) < RecvChunk + HeaderSize
      BY <1>1, <2>2 DEF ChunkInv
    <3>2. Len(packets) * HeaderSize \in Nat
      BY <1>2, ClientLimits
    <3> QED
      BY <1>2, <1>3, <1>4, <1>8, <3>1, <3>2, ClientLimits
  <2> QED
    BY <2>1, <2>2
<1>10. packets' # <<>>
  BY <1>2, <1>6
<1>11. PartialInv' /\ EmptyInv' /\ ChunkInv'
  BY <1>1, <1>9, <1>10 DEF PartialInv, EmptyInv, ChunkInv, Settled
<1>12. LimitsSuffice'
  BY <1>1 DEF LimitsInv, LimitsSuffice
<1> QED
  BY <1>7, <1>11, <1>12 DEF LimitsInv

\* Disconnect empties the buffers.
LEMMA StopInv ==
  ASSUME LimitsInv, Stop
  PROVE  LimitsInv'
<1>1. /\ recvBuffer' = <<>> /\ packets' = <<>> /\ arrived' = <<>> /\ toCome' = toCome
      /\ main' = "waiting" /\ why' = why
  BY DEF Stop, Disconnect, Go
<1>2. TypesInv'
  BY <1>1 DEF LimitsInv, TypesInv
<1>3. PartialInv' /\ EmptyInv' /\ ChunkInv' /\ LimitsSuffice'
  BY <1>1 DEF LimitsInv, PartialInv, EmptyInv, ChunkInv, LimitsSuffice, Settled
<1> QED
  BY <1>2, <1>3 DEF LimitsInv

\* HandlePacket takes a packet out of the queue, which nothing is added to meanwhile.
LEMMA HandlePacketInv ==
  ASSUME LimitsInv, HandlePacket
  PROVE  LimitsInv'
<1>1. /\ UNCHANGED <<recvBuffer, arrived, toCome>>
      /\ main = "packets" /\ main' \in {"packets", "disconnect"}
      /\ why' = why \/ why' = "Refused"
      /\ packets # <<>> /\ packets' = Tail(packets)
  BY DEF HandlePacket, TryPopPacket, network
<1>2. TypesInv'
  BY <1>1, HeadTailProperties DEF LimitsInv, TypesInv
<1>3. NoMorePackets
  BY <1>1 DEF LimitsInv, PartialInv, Settled
<1>4. ~IsWhole' /\ (HasHeader' => ValidSize')
  BY <1>1, <1>3 DEF NoMorePackets, Refusal, IsWhole, HasHeader, ValidSize, TotalSize
<1>5. PartialInv'
  BY <1>4 DEF PartialInv, NoMorePackets, Refusal
<1>6. EmptyInv' /\ ChunkInv' /\ LimitsSuffice'
  BY <1>1 DEF LimitsInv, EmptyInv, ChunkInv, LimitsSuffice
<1> QED
  BY <1>2, <1>5, <1>6 DEF LimitsInv

\* Leaving the loop in Run: not because the buffer is full, since a chunk fits.
LEMMA RunFailsInv ==
  ASSUME LimitsInv, RunFails
  PROVE  LimitsInv'
<1>1. /\ UNCHANGED <<recvBuffer, packets, arrived, toCome>>
      /\ main = "run" /\ main' = "disconnect" /\ why' \in {"SelectFailed", ReceiveFailure}
  BY DEF RunFails, Leave, tcpVars, buffers, network
<1>2. ~Overflows
  BY <1>1, ChunkFits DEF LimitsInv, PartialInv, Settled
<1>3. ReceiveFailure \notin {"BufferFull", "QueueFull"}
  BY <1>2 DEF ReceiveFailure
<1> QED
  BY <1>1, <1>3, NothingReceived DEF Settled

\* Leaving the loop in ProcessRecvBuffer: not because the queue is full.
LEMMA CutFailsInv ==
  ASSUME LimitsInv, CutFails
  PROVE  LimitsInv'
<1>1. /\ UNCHANGED <<recvBuffer, packets, arrived, toCome>>
      /\ main = "cut" /\ main' = "disconnect" /\ why' = Refusal
  BY DEF CutFails, Leave, tcpVars, buffers, network
<1>2. IsWhole => ~QueueFull
  BY <1>1, QueueNeverFull DEF LimitsInv
<1>3. Refusal \notin {"BufferFull", "QueueFull"}
  BY <1>2 DEF Refusal
<1> QED
  BY <1>1, <1>3, NothingReceived DEF Settled

\* Once all that was received is cut, main goes on with what is less than a packet.
LEMMA FlushInv ==
  ASSUME LimitsInv, Flush \/ FlushError
  PROVE  LimitsInv'
<1>1. UNCHANGED <<recvBuffer, packets, arrived, toCome>>
  BY DEF Flush, FlushError, FlushSend, FlushFails, tcpVars, buffers, network
<1>2. \/ main' = "packets" /\ why' = why
      \/ main' = "disconnect" /\ why' = "SendFailed"
  BY DEF Flush, FlushError, Go, Leave
<1>3. NoMorePackets
  BY DEF Flush, FlushError, ReceivedAll, NothingToReceive, LimitsInv, PartialInv, Settled
<1>4. NoMorePackets'
  BY <1>1, <1>3 DEF NoMorePackets, Refusal, IsWhole, HasHeader, ValidSize, TotalSize, QueueFull
<1>5. TypesInv'
  BY <1>1 DEF LimitsInv, TypesInv
<1>6. PartialInv' /\ EmptyInv' /\ ChunkInv' /\ LimitsSuffice'
  BY <1>2, <1>4 DEF LimitsInv, PartialInv, EmptyInv, ChunkInv, LimitsSuffice
<1> QED
  BY <1>5, <1>6 DEF LimitsInv

\* A client that has just started has empty buffers.
LEMMA InitLimits == Init => LimitsInv
<1> SUFFICES ASSUME Init PROVE LimitsInv
  OBVIOUS
<1>1. /\ recvBuffer = <<>> /\ arrived = <<>> /\ packets = <<>> /\ toCome = Stream
      /\ main = "connect" /\ why = "None"
  BY DEF Init, TcpInit
<1>2. TypesInv
  BY <1>1, StreamAssumption DEF TypesInv, ByteSet
<1>3. ~HasHeader
  <2>1. Len(recvBuffer) = 0
    BY <1>1
  <2> QED
    BY <2>1, ClientLimits DEF HasHeader
<1>4. PartialInv
  BY <1>3 DEF PartialInv, NoMorePackets, IsWhole, Refusal
<1> QED
  BY <1>1, <1>2, <1>4 DEF LimitsInv, EmptyInv, ChunkInv, LimitsSuffice

\* Every step of the client preserves the invariant.
LEMMA NextLimits == LimitsInv /\ [Next]_vars => LimitsInv'
<1> SUFFICES ASSUME LimitsInv, [Next]_vars PROVE LimitsInv'
  OBVIOUS
<1>1. CASE ConnectSucceeds \/ ConnectFails
  <2>1. /\ UNCHANGED <<recvBuffer, packets, arrived, toCome, why>>
        /\ main = "connect" /\ main' \in {"lines", "ended"}
    BY <1>1 DEF ConnectSucceeds, ConnectFails, Connect, Go, tcpVars, buffers, network
  <2> QED
    BY <2>1, NothingReceived DEF LimitsInv, EmptyInv, Settled
<1>2. CASE ObeyHere \/ ObeySend
  <2>1. /\ UNCHANGED <<recvBuffer, packets, arrived, toCome>>
        /\ main = "lines" /\ main' \in {"lines", "disconnect"}
        /\ why' \in {"None", "Quit", "CannotSend"}
    BY <1>2 DEF ObeyHere, ObeySend, Obey, SendPacket, tcpVars, buffers, network
  <2> QED
    BY <2>1, NothingReceived DEF LimitsInv, EmptyInv, Settled
<1>3. CASE NoLine \/ TestFinished
  <2>1. /\ UNCHANGED <<recvBuffer, packets, arrived, toCome>>
        /\ main \in {"lines", "console"} /\ main' \in {"console", "run", "disconnect"}
        /\ why' = why \/ why' = "NoConsole"
    BY <1>3 DEF NoLine, TestFinished, Go, Leave, tcpVars, buffers, network
  <2> QED
    BY <2>1, NothingReceived DEF LimitsInv, EmptyInv, Settled
<1>4. CASE RunReceives
  BY <1>4, RunReceivesInv
<1>5. CASE RunFails
  BY <1>5, RunFailsInv
<1>6. CASE CutPacket
  BY <1>6, CutPacketInv
<1>7. CASE CutFails
  BY <1>7, CutFailsInv
<1>8. CASE Flush \/ FlushError
  BY <1>8, FlushInv
<1>9. CASE HandlePacket
  BY <1>9, HandlePacketInv
<1>10. CASE NoPacket
  <2>1. /\ UNCHANGED <<recvBuffer, packets, arrived, toCome, why>>
        /\ main = "packets" /\ main' = "lines" /\ packets = <<>>
    BY <1>10 DEF NoPacket, Go, tcpVars, buffers, network
  <2> QED
    BY <2>1, NothingReceived DEF Settled
<1>11. CASE Stop
  BY <1>11, StopInv
<1>12. CASE CancelReader \/ ReaderGone \/ Join
  <2>1. /\ UNCHANGED <<recvBuffer, packets, arrived, toCome, why>>
        /\ main \in {"waiting", "joining"} /\ main' \in {"waiting", "joining", "ended"}
    BY <1>12 DEF CancelReader, ReaderGone, Join, Go, tcpVars, buffers, network, mainVars
  <2> QED
    BY <2>1, NothingReceived DEF Settled
<1>13. CASE Reader \/ UserTypes \/ UserCloses
  <2>1. UNCHANGED <<recvBuffer, packets, arrived, toCome, main, why>>
    BY <1>13 DEF Reader, UserTypes, UserCloses, tcpVars, buffers, network, mainVars
  <2> QED
    BY <2>1, OnlyArrivals DEF LimitsInv, TypesInv
<1>14. CASE Network
  <2>1. UNCHANGED <<recvBuffer, packets, main, why>>
    BY <1>14 DEF Network, Deliver, LinkEnds, buffers, mainVars
  <2>2. arrived' \in Seq(ByteSet) /\ toCome' \in Seq(ByteSet)
    <3>1. CASE Deliver
      BY <3>1, HeadTailProperties, AppendProperties DEF Deliver, LimitsInv, TypesInv
    <3>2. CASE \E how \in {"closed", "broken"} : LinkEnds(how)
      BY <3>2 DEF LinkEnds, LimitsInv, TypesInv
    <3> QED
      BY <1>14, <3>1, <3>2 DEF Network
  <2> QED
    BY <2>1, <2>2, OnlyArrivals
<1>15. CASE UNCHANGED vars
  <2>1. UNCHANGED <<recvBuffer, packets, arrived, toCome, main, why>>
    BY <1>15 DEF vars, tcpVars, buffers, network, mainVars
  <2> QED
    BY <2>1, OnlyArrivals DEF LimitsInv, TypesInv
<1> QED
  BY <1>1, <1>2, <1>3, <1>4, <1>5, <1>6, <1>7, <1>8, <1>9, <1>10, <1>11, <1>12, <1>13, <1>14,
     <1>15 DEF Next, Main

\* The client never stops because its receive buffer or its packet queue is full
\* (Receive and ProcessRecvBuffer, TcpClient.cpp:226 and :326).
THEOREM LimitsAreEnough == Spec => []LimitsSuffice
<1>1. LimitsInv => LimitsSuffice
  BY DEF LimitsInv
<1> QED
  BY InitLimits, NextLimits, <1>1, PTL DEF Spec

-----------------------------------------------------------------------------
(* What the client does with the bytes: the invariant                       *)

\* The place in Stream behind which the bytes lie that are to come, that have arrived, and
\* that are in the receive buffer.
ToComeAt  == Len(Stream) - Len(toCome)
ArrivedAt == ToComeAt - Len(arrived)
BufferAt  == ArrivedAt - Len(recvBuffer)

\* seq is what lies in Stream behind place n.
IsPiece(seq, n) ==
  /\ n \in Nat /\ n + Len(seq) <= Len(Stream)
  /\ \A i \in 1..Len(seq) : seq[i] = Stream[n + i]

\* The packets that end before place n are those from 1 to k, and the next begins there.
CutAt(n, k) ==
  /\ \A i \in 1..n : Stream[i].at = 1 => Stream[i].packet \in 1..k
  /\ n < Len(Stream) => Stream[n + 1].at = 1 /\ Stream[n + 1].packet = k + 1

\* Before Disconnect.
Connected == main \in {"connect", "disconnect"} \cup InLoop

\* The packets handled, those in the queue and the bytes behind them follow each other.
PacketsFollow ==
  /\ handled \in Seq(Nat)
  /\ \A i \in 1..Len(handled) : handled[i] = i
  /\ IsPiece(toCome, ToComeAt)
  /\ Connected =>
       /\ IsPiece(arrived, ArrivedAt) /\ IsPiece(recvBuffer, BufferAt)
       /\ \A i \in 1..Len(packets) : packets[i] = Len(handled) + i
       /\ CutAt(BufferAt, Len(handled) + Len(packets))

Handled == {handled[i] : i \in DOMAIN handled}

BytesInv == LimitsInv /\ PacketsFollow /\ StopsForReason

-----------------------------------------------------------------------------
(* Pieces of the stream                                                     *)

\* The stream is a sequence of bytes.
LEMMA StreamIsBytes ==
  Stream \in Seq(ByteSet) /\ Len(Stream) \in Nat /\ DOMAIN Stream = 1..Len(Stream)
BY StreamAssumption, LenProperties DEF ByteSet

\* What recv takes and what it leaves.
LEMMA PieceSplit ==
  ASSUME NEW x \in Seq(ByteSet), NEW n \in Nat, NEW k \in 0..Len(x), IsPiece(x, n)
  PROVE  IsPiece(SubSeq(x, 1, k), n) /\ IsPiece(From(x, k + 1), n + k)
<1> DEFINE front == SubSeq(x, 1, k)
           back == From(x, k + 1)
<1>1. Len(x) \in Nat /\ n + Len(x) <= Len(Stream) /\ Len(Stream) \in Nat
      /\ k \in Nat /\ k <= Len(x)
  BY LenProperties, StreamIsBytes DEF IsPiece
<1>2. Len(front) = k /\ Len(back) = Len(x) - k
  BY CutLengths
<1>3. \A i \in 1..k : front[i] = x[i] /\ i \in 1..Len(x)
  BY <1>1
<1>4. \A i \in 1..(Len(x) - k) : back[i] = x[k + i] /\ k + i \in 1..Len(x)
  BY <1>1 DEF From
<1> HIDE DEF front, back
<1>5. \A i \in 1..k : front[i] = Stream[n + i]
  BY <1>3 DEF IsPiece
<1>6. \A i \in 1..(Len(x) - k) : back[i] = Stream[(n + k) + i]
  <2> SUFFICES ASSUME NEW i \in 1..(Len(x) - k) PROVE back[i] = Stream[(n + k) + i]
    OBVIOUS
  <2>1. back[i] = Stream[n + (k + i)]
    BY <1>4 DEF IsPiece
  <2>2. n + (k + i) = (n + k) + i
    BY <1>1
  <2> QED
    BY <2>1, <2>2
<1>7. n + Len(front) <= Len(Stream) /\ (n + k) + Len(back) <= Len(Stream) /\ n + k \in Nat
  BY <1>1, <1>2
<1>8. IsPiece(front, n)
  BY <1>2, <1>5, <1>7 DEF IsPiece
<1>9. IsPiece(back, n + k)
  BY <1>2, <1>6, <1>7 DEF IsPiece
<1> QED
  BY <1>8, <1>9 DEF front, back

\* Two pieces, one behind the other.
LEMMA PieceJoin ==
  ASSUME NEW x \in Seq(ByteSet), NEW y \in Seq(ByteSet), NEW n \in Nat, NEW m \in Nat,
         m = n + Len(x), IsPiece(x, n), IsPiece(y, m)
  PROVE  x \o y \in Seq(ByteSet) /\ Len(x \o y) = Len(x) + Len(y) /\ IsPiece(x \o y, n)
<1> DEFINE xy == x \o y
<1>1. /\ xy \in Seq(ByteSet) /\ Len(xy) = Len(x) + Len(y)
      /\ \A i \in 1..(Len(x) + Len(y)) : xy[i] = IF i <= Len(x) THEN x[i] ELSE y[i - Len(x)]
  BY ConcatProperties
<1> HIDE DEF xy
<1>2. Len(x) \in Nat /\ Len(y) \in Nat /\ m + Len(y) <= Len(Stream) /\ Len(Stream) \in Nat
  BY LenProperties, StreamIsBytes DEF IsPiece
<1>3. ASSUME NEW i \in 1..(Len(x) + Len(y)) PROVE xy[i] = Stream[n + i]
  <2>1. CASE i <= Len(x)
    <3>1. i \in 1..Len(x)
      BY <1>2, <2>1
    <3> QED
      BY <1>1, <2>1, <3>1 DEF IsPiece
  <2>2. CASE i > Len(x)
    <3>1. i - Len(x) \in 1..Len(y) /\ m + (i - Len(x)) = n + i /\ ~(i <= Len(x))
      BY <1>2, <2>2
    <3>2. y[i - Len(x)] = Stream[m + (i - Len(x))]
      BY <3>1 DEF IsPiece
    <3> QED
      BY <1>1, <3>1, <3>2
  <2> QED
    BY <1>2, <2>1, <2>2
<1>4. n + Len(xy) <= Len(Stream)
  BY <1>1, <1>2
<1>5. IsPiece(xy, n)
  BY <1>1, <1>3, <1>4 DEF IsPiece
<1> QED
  BY <1>1, <1>5 DEF xy

\* The next byte of the stream, behind a piece.
LEMMA PieceGrows ==
  ASSUME NEW x \in Seq(ByteSet), NEW y \in Seq(ByteSet), NEW n \in Nat, NEW m \in Nat,
         m = n + Len(x), IsPiece(x, n), IsPiece(y, m), y # <<>>
  PROVE  /\ Append(x, Head(y)) \in Seq(ByteSet) /\ Len(Append(x, Head(y))) = Len(x) + 1
         /\ Tail(y) \in Seq(ByteSet) /\ Len(Tail(y)) = Len(y) - 1
         /\ IsPiece(Append(x, Head(y)), n) /\ IsPiece(Tail(y), m + 1)
<1> DEFINE more == Append(x, Head(y))
           rest == Tail(y)
<1>1. /\ Len(x) \in Nat /\ Len(y) \in Nat /\ Len(y) >= 1 /\ Len(Stream) \in Nat
      /\ m + Len(y) <= Len(Stream)
  BY EmptySeq, LenProperties, StreamIsBytes DEF IsPiece
<1>2. Head(y) = y[1] /\ Head(y) \in ByteSet /\ y[1] = Stream[m + 1]
  <2>1. 1 \in 1..Len(y)
    BY <1>1
  <2> QED
    BY <2>1, HeadTailProperties DEF IsPiece
<1>3. /\ more \in Seq(ByteSet) /\ Len(more) = Len(x) + 1 /\ more[Len(x) + 1] = y[1]
      /\ \A i \in 1..Len(x) : more[i] = x[i]
  BY <1>2, AppendProperties
<1>4. rest \in Seq(ByteSet) /\ Len(rest) = Len(y) - 1 /\ \A i \in 1..(Len(y) - 1) : rest[i] = y[i + 1]
  BY <1>1, HeadTailProperties
<1> HIDE DEF more, rest
<1>5. ASSUME NEW i \in 1..(Len(x) + 1) PROVE more[i] = Stream[n + i]
  <2>1. CASE i \in 1..Len(x)
    BY <1>3, <2>1 DEF IsPiece
  <2>2. CASE i = Len(x) + 1
    <3>1. n + i = m + 1
      BY <1>1, <2>2
    <3> QED
      BY <1>2, <1>3, <2>2, <3>1
  <2> QED
    BY <1>1, <2>1, <2>2
<1>6. ASSUME NEW i \in 1..(Len(y) - 1) PROVE rest[i] = Stream[(m + 1) + i]
  <2>1. i + 1 \in 1..Len(y) /\ m + (i + 1) = (m + 1) + i
    BY <1>1
  <2>2. y[i + 1] = Stream[m + (i + 1)]
    BY <2>1 DEF IsPiece
  <2> QED
    BY <1>4, <2>1, <2>2
<1>7. n + Len(more) <= Len(Stream) /\ (m + 1) + Len(rest) <= Len(Stream) /\ m + 1 \in Nat
  BY <1>1, <1>3, <1>4
<1>8. IsPiece(more, n)
  BY <1>3, <1>5, <1>7 DEF IsPiece
<1>9. IsPiece(rest, m + 1)
  BY <1>4, <1>6, <1>7 DEF IsPiece
<1> QED
  BY <1>3, <1>4, <1>8, <1>9 DEF more, rest

\* Behind a packet of a size that ProcessRecvBuffer accepts begins the next one, and none
\* has begun in between.
LEMMA CutNext ==
  ASSUME NEW n \in Nat, NEW k \in Nat, CutAt(n, k), NEW size \in HeaderSize..MaxPacketSize,
         n + size <= Len(Stream), Stream[n + 1].size = size
  PROVE  Stream[n + 1].at = 1 /\ Stream[n + 1].packet = k + 1 /\ CutAt(n + size, k + 1)
<1>1. size \in Nat /\ size >= 1 /\ Len(Stream) \in Nat /\ n + 1 \in DOMAIN Stream
      /\ DOMAIN Stream = 1..Len(Stream)
  BY StreamIsBytes, ClientLimits
<1>2. Stream[n + 1].at = 1 /\ Stream[n + 1].packet = k + 1
  BY <1>1 DEF CutAt
<1> DEFINE next == (n + 1) + size
<1>3. /\ \A j \in DOMAIN Stream : n + 1 < j /\ j < next => Stream[j].at # 1
      /\ next \in DOMAIN Stream => Stream[next].at = 1 /\ Stream[next].packet = (k + 1) + 1
  BY <1>1, <1>2, StreamIsCut
<1>4. next = (n + size) + 1 /\ next \in Nat
  BY <1>1
<1> HIDE DEF next
<1>5. ASSUME NEW i \in 1..(n + size), Stream[i].at = 1 PROVE Stream[i].packet \in 1..(k + 1)
  <2>1. CASE i \in 1..n
    BY <1>5, <2>1 DEF CutAt
  <2>2. CASE i = n + 1
    BY <1>2, <2>2
  <2>3. CASE i > n + 1
    <3>1. i \in DOMAIN Stream /\ n + 1 < i /\ i < next
      BY <1>1, <1>4, <2>3
    <3> QED
      BY <1>3, <1>5, <3>1
  <2> QED
    BY <1>1, <2>1, <2>2, <2>3
<1>6. ASSUME n + size < Len(Stream)
      PROVE  Stream[(n + size) + 1].at = 1 /\ Stream[(n + size) + 1].packet = (k + 1) + 1
  <2>1. next \in DOMAIN Stream
    BY <1>1, <1>4, <1>6
  <2> QED
    BY <1>3, <1>4, <2>1
<1>7. CutAt(n + size, k + 1)
  BY <1>5, <1>6 DEF CutAt
<1> QED
  BY <1>2, <1>7

-----------------------------------------------------------------------------
(* The steps, and the bytes                                                 *)

\* What has arrived is the stream up to what is to come.
LEMMA DeliveredIs ==
  ASSUME NEW rest \in Seq(ByteSet), NEW n, n = Len(Stream) - Len(rest), IsPiece(rest, n)
  PROVE  LET front == SubSeq(Stream, 1, n)
         IN /\ n \in Nat /\ n <= Len(Stream) /\ DOMAIN front = 1..n /\ Len(front) = n
            /\ \A i \in 1..n : front[i] = Stream[i] /\ i \in DOMAIN Stream
<1>1. Len(Stream) \in Nat /\ Len(rest) \in Nat /\ n \in 0..Len(Stream)
  BY LenProperties, StreamIsBytes DEF IsPiece
<1>2. SubSeq(Stream, 1, n) \in Seq(ByteSet) /\ Len(SubSeq(Stream, 1, n)) = n
  BY <1>1, StreamIsBytes, CutLengths
<1>3. \A i \in 1..n : SubSeq(Stream, 1, n)[i] = Stream[i] /\ i \in DOMAIN Stream
  BY <1>1, StreamIsBytes
<1> QED
  BY <1>1, <1>2, <1>3, LenProperties

\* A step that stops the client, if at all, neither for a size nor because the server has
\* closed.
LEMMA ReasonKept ==
  ASSUME BytesInv, LimitsInv', UNCHANGED toCome,
         \A i \in DOMAIN handled : i \in DOMAIN handled' /\ handled'[i] = handled[i],
         why' = why \/ why' \notin {"InvalidSize", "ServerClosed"},
         link' = link \/ link = "up"
  PROVE  StopsForReason'
<1>1. Delivered' = Delivered /\ WholePackets' = WholePackets
  BY DEF Delivered, WholePackets
<1>2. {handled[i] : i \in DOMAIN handled} \subseteq {handled'[i] : i \in DOMAIN handled'}
  OBVIOUS
<1> QED
  BY <1>1, <1>2 DEF BytesInv, StopsForReason, LimitsInv

\* Such a step that leaves the packets and what they are cut from alone.
LEMMA QuietBytes ==
  ASSUME BytesInv, LimitsInv', UNCHANGED <<recvBuffer, packets, arrived, toCome, handled>>,
         Connected' => Connected,
         why' = why \/ why' \notin {"InvalidSize", "ServerClosed"},
         link' = link \/ link = "up"
  PROVE  BytesInv'
<1>1. UNCHANGED <<ToComeAt, ArrivedAt, BufferAt>>
  BY DEF ToComeAt, ArrivedAt, BufferAt
<1>2. PacketsFollow'
  BY <1>1 DEF BytesInv, PacketsFollow
<1> QED
  BY <1>2, ReasonKept DEF BytesInv

\* Every byte that arrives is the next one of the stream.
LEMMA DeliverBytes ==
  ASSUME BytesInv, LimitsInv', Deliver, UNCHANGED mainVars
  PROVE  BytesInv'
<1>1. /\ link = "up" /\ link' = link /\ toCome # <<>>
      /\ arrived' = Append(arrived, Head(toCome)) /\ toCome' = Tail(toCome)
      /\ UNCHANGED <<recvBuffer, packets, handled, main, why>>
  BY DEF Deliver, buffers, mainVars
<1>2. /\ arrived \in Seq(ByteSet) /\ toCome \in Seq(ByteSet) /\ recvBuffer \in Seq(ByteSet)
      /\ Len(arrived) \in Nat /\ Len(toCome) \in Nat /\ Len(recvBuffer) \in Nat
      /\ Len(Stream) \in Nat
      /\ IsPiece(toCome, ToComeAt) /\ ToComeAt \in Nat
  BY LenProperties, StreamIsBytes DEF BytesInv, LimitsInv, TypesInv, PacketsFollow, IsPiece
<1>3. /\ Len(toCome') = Len(toCome) - 1 /\ IsPiece(toCome', ToComeAt + 1)
  <2>1. IsPiece(<<>>, ToComeAt) /\ <<>> \in Seq(ByteSet) /\ ToComeAt = ToComeAt + Len(<<>>)
    <3>1. Len(<<>>) = 0
      OBVIOUS
    <3>2. ToComeAt <= Len(Stream)
      BY <1>2 DEF ToComeAt
    <3> QED
      BY <1>2, <3>1, <3>2 DEF IsPiece
  <2> QED
    BY <1>1, <1>2, <2>1, PieceGrows
<1>4. ToComeAt' = ToComeAt + 1
  BY <1>2, <1>3 DEF ToComeAt
<1>5. ASSUME Connected
      PROVE  /\ IsPiece(arrived', ArrivedAt') /\ IsPiece(recvBuffer', BufferAt')
             /\ BufferAt' = BufferAt
  <2>1. IsPiece(arrived, ArrivedAt) /\ ArrivedAt \in Nat /\ IsPiece(recvBuffer, BufferAt)
    BY <1>5 DEF BytesInv, PacketsFollow, IsPiece
  <2>2. ToComeAt = ArrivedAt + Len(arrived)
    BY <1>2, <2>1 DEF ArrivedAt
  <2>3. Len(arrived') = Len(arrived) + 1 /\ IsPiece(arrived', ArrivedAt)
    BY <1>1, <1>2, <2>1, <2>2, PieceGrows
  <2>4. ArrivedAt' = ArrivedAt
    BY <1>2, <1>4, <2>3 DEF ArrivedAt
  <2>5. BufferAt' = BufferAt
    BY <1>1, <2>4 DEF BufferAt
  <2> QED
    BY <1>1, <2>1, <2>3, <2>4, <2>5
<1>6. PacketsFollow'
  BY <1>1, <1>3, <1>4, <1>5 DEF BytesInv, PacketsFollow, Connected
<1>7. /\ DOMAIN Delivered \subseteq DOMAIN Delivered'
      /\ \A i \in DOMAIN Delivered : Delivered'[i] = Delivered[i]
  <2>1. /\ ToComeAt \in Nat /\ DOMAIN Delivered = 1..ToComeAt
        /\ \A i \in 1..ToComeAt : Delivered[i] = Stream[i]
    BY <1>2, DeliveredIs DEF Delivered, ToComeAt
  <2>2. /\ DOMAIN Delivered' = 1..ToComeAt'
        /\ \A i \in 1..ToComeAt' : Delivered'[i] = Stream[i]
    <3>1. toCome' \in Seq(ByteSet) /\ IsPiece(toCome', ToComeAt')
      BY <1>6 DEF LimitsInv, TypesInv, PacketsFollow
    <3> QED
      BY <3>1, DeliveredIs DEF Delivered, ToComeAt
  <2>3. \A i \in 1..ToComeAt : i \in 1..ToComeAt'
    BY <1>4, <2>1
  <2> QED
    BY <2>1, <2>2, <2>3
<1>8. StopsForReason'
  BY <1>1, <1>7 DEF BytesInv, StopsForReason, LimitsInv
<1> QED
  BY <1>6, <1>8 DEF BytesInv

\* Receive moves bytes from one piece to the one before it.
LEMMA RunReceivesBytes ==
  ASSUME BytesInv, LimitsInv', RunReceives
  PROVE  BytesInv'
<1> DEFINE chunkOf == SubSeq(arrived, 1, Received)
<1>1. /\ main = "run" /\ Connected /\ NoMorePackets /\ TypesInv /\ PacketsFollow
      /\ UNCHANGED <<packets, toCome, handled, why, link>>
      /\ recvBuffer' = recvBuffer \o chunkOf /\ arrived' = From(arrived, Received + 1)
  BY DEF BytesInv, LimitsInv, RunReceives, Receive, Go, PartialInv, Settled, Connected, InLoop
<1>2. /\ arrived \in Seq(ByteSet) /\ recvBuffer \in Seq(ByteSet)
      /\ Len(arrived) \in Nat /\ Len(recvBuffer) \in Nat
      /\ IsPiece(arrived, ArrivedAt) /\ ArrivedAt \in Nat
      /\ IsPiece(recvBuffer, BufferAt) /\ BufferAt \in Nat
      /\ ArrivedAt = BufferAt + Len(recvBuffer)
  <2>1. /\ arrived \in Seq(ByteSet) /\ recvBuffer \in Seq(ByteSet)
        /\ Len(arrived) \in Nat /\ Len(recvBuffer) \in Nat
        /\ IsPiece(arrived, ArrivedAt) /\ ArrivedAt \in Nat
        /\ IsPiece(recvBuffer, BufferAt) /\ BufferAt \in Nat
    BY <1>1, LenProperties DEF TypesInv, PacketsFollow, IsPiece
  <2> QED
    BY <2>1 DEF BufferAt
<1>3. Received \in 0..Len(arrived) /\ Received \in Nat
  BY <1>1, <1>2, ChunkFits
<1>4. /\ IsPiece(chunkOf, ArrivedAt) /\ IsPiece(arrived', ArrivedAt + Received)
      /\ chunkOf \in Seq(ByteSet) /\ Len(chunkOf) = Received
      /\ Len(arrived') = Len(arrived) - Received
  BY <1>1, <1>2, <1>3, PieceSplit, CutLengths
<1> HIDE DEF chunkOf
<1>5. Len(recvBuffer') = Len(recvBuffer) + Received /\ IsPiece(recvBuffer', BufferAt)
  BY <1>1, <1>2, <1>4, PieceJoin
<1>6. ArrivedAt' = ArrivedAt + Received /\ BufferAt' = BufferAt
  <2>1. ToComeAt' = ToComeAt /\ ToComeAt = ArrivedAt + Len(arrived)
    <3>1. ToComeAt \in Nat
      BY <1>1 DEF PacketsFollow, IsPiece
    <3> QED
      BY <1>1, <1>2, <3>1 DEF ToComeAt, ArrivedAt
  <2>2. ArrivedAt' = ArrivedAt + Received
    BY <1>2, <1>3, <1>4, <2>1 DEF ArrivedAt
  <2> QED
    BY <1>2, <1>3, <1>5, <2>2 DEF BufferAt
<1>7. PacketsFollow'
  <2>1. UNCHANGED ToComeAt
    BY <1>1 DEF ToComeAt
  <2> QED
    BY <1>1, <1>4, <1>5, <1>6, <2>1 DEF PacketsFollow
<1>8. StopsForReason'
  BY <1>1, ReasonKept
<1> QED
  BY <1>7, <1>8 DEF BytesInv

\* The first byte in the receive buffer begins the packet that comes next.
LEMMA FirstByteIs ==
  ASSUME BytesInv, Connected, recvBuffer # <<>>
  PROVE  /\ BufferAt \in Nat /\ BufferAt + Len(recvBuffer) <= ToComeAt
         /\ Len(recvBuffer) \in Nat /\ Len(recvBuffer) >= 1
         /\ ToComeAt \in Nat /\ ToComeAt <= Len(Stream) /\ Len(Stream) \in Nat
         /\ recvBuffer[1] = Stream[BufferAt + 1] /\ recvBuffer[1].at = 1
         /\ recvBuffer[1].packet = (Len(handled) + Len(packets)) + 1
         /\ TotalSize = recvBuffer[1].size
<1>1. /\ recvBuffer \in Seq(ByteSet) /\ Len(recvBuffer) \in Nat /\ Len(arrived) \in Nat
      /\ Len(recvBuffer) >= 1 /\ Len(Stream) \in Nat /\ Len(toCome) \in Nat
  BY EmptySeq, LenProperties, StreamIsBytes DEF BytesInv, LimitsInv, TypesInv
<1>2. /\ IsPiece(recvBuffer, BufferAt) /\ BufferAt \in Nat /\ ArrivedAt \in Nat /\ ToComeAt \in Nat
      /\ CutAt(BufferAt, Len(handled) + Len(packets))
  BY DEF BytesInv, PacketsFollow, IsPiece
<1>3. BufferAt + Len(recvBuffer) <= ToComeAt /\ ToComeAt <= Len(Stream)
  <2>1. ArrivedAt = BufferAt + Len(recvBuffer)
    BY <1>1, <1>2 DEF BufferAt
  <2>2. ToComeAt = ArrivedAt + Len(arrived)
    BY <1>1, <1>2 DEF ArrivedAt
  <2>3. ToComeAt <= Len(Stream)
    BY <1>1 DEF ToComeAt
  <2> QED
    BY <1>1, <1>2, <2>1, <2>2, <2>3
<1>4. recvBuffer[1] = Stream[BufferAt + 1]
  <2>1. 1 \in 1..Len(recvBuffer)
    BY <1>1
  <2> QED
    BY <1>2, <2>1 DEF IsPiece
<1>5. BufferAt < Len(Stream)
  BY <1>1, <1>2, <1>3
<1>6. recvBuffer[1].at = 1 /\ recvBuffer[1].packet = (Len(handled) + Len(packets)) + 1
  BY <1>2, <1>4, <1>5 DEF CutAt
<1> QED
  BY <1>1, <1>2, <1>3, <1>4, <1>6 DEF TotalSize

\* ProcessRecvBuffer, one packet: it is the one that comes next.
LEMMA CutPacketBytes ==
  ASSUME BytesInv, LimitsInv', CutPacket
  PROVE  BytesInv'
<1>1. /\ main = "cut" /\ main' = "cut" /\ Connected /\ IsWhole /\ TypesInv /\ PacketsFollow
      /\ UNCHANGED <<why, arrived, toCome, handled, link>>
      /\ packets' = Append(packets, recvBuffer[1].packet)
      /\ recvBuffer' = From(recvBuffer, TotalSize + 1)
  BY DEF BytesInv, LimitsInv, CutPacket, PushPacket, mainVars, network, Connected, InLoop
<1>2. /\ Len(recvBuffer) \in Nat /\ recvBuffer \in Seq(ByteSet)
      /\ TotalSize \in HeaderSize..MaxPacketSize /\ TotalSize \in 0..Len(recvBuffer)
      /\ recvBuffer # <<>>
  <2>1. Len(recvBuffer) \in Nat /\ recvBuffer \in Seq(ByteSet)
    BY <1>1, LenProperties DEF TypesInv
  <2>2. TotalSize \in HeaderSize..MaxPacketSize /\ Len(recvBuffer) >= TotalSize
    BY <1>1 DEF IsWhole, ValidSize
  <2>3. TotalSize \in 0..Len(recvBuffer) /\ Len(recvBuffer) # 0
    BY <2>1, <2>2, ClientLimits
  <2> QED
    BY <2>1, <2>2, <2>3, EmptySeq
<1>3. /\ BufferAt \in Nat /\ BufferAt + Len(recvBuffer) <= Len(Stream) /\ Len(Stream) \in Nat
      /\ recvBuffer[1] = Stream[BufferAt + 1] /\ TotalSize = recvBuffer[1].size
      /\ recvBuffer[1].packet = (Len(handled) + Len(packets)) + 1
  BY <1>1, <1>2, FirstByteIs, StreamIsBytes DEF IsPiece, PacketsFollow
<1>4. Len(handled) \in Nat /\ Len(packets) \in Nat /\ packets \in Seq(Nat)
  BY <1>1, LenProperties DEF PacketsFollow, TypesInv
<1>5. PICK n \in Nat, k \in Nat, size \in HeaderSize..MaxPacketSize :
        n = BufferAt /\ k = Len(handled) + Len(packets) /\ size = TotalSize
  <2>1. Len(handled) + Len(packets) \in Nat
    BY <1>4
  <2> QED
    BY <1>2, <1>3, <2>1
<1>6. CutAt(n + size, k + 1)
  <2>1. CutAt(n, k)
    BY <1>1, <1>5 DEF PacketsFollow
  <2>2. n + size <= Len(Stream) /\ Stream[n + 1].size = size
    BY <1>2, <1>3, <1>5
  <2> QED
    BY <2>1, <2>2, CutNext
<1>7. IsPiece(recvBuffer', n + size) /\ Len(recvBuffer') = Len(recvBuffer) - size
  <2>1. IsPiece(recvBuffer, n)
    BY <1>1, <1>5 DEF PacketsFollow
  <2> QED
    BY <1>1, <1>2, <1>5, <2>1, PieceSplit, CutLengths
<1>8. ArrivedAt' = ArrivedAt /\ ToComeAt' = ToComeAt /\ BufferAt' = n + size
  <2>1. ArrivedAt' = ArrivedAt /\ ToComeAt' = ToComeAt /\ ArrivedAt \in Nat
    BY <1>1 DEF ArrivedAt, ToComeAt, PacketsFollow, IsPiece
  <2>2. n = ArrivedAt - Len(recvBuffer) /\ BufferAt' = ArrivedAt - Len(recvBuffer')
    BY <1>5, <2>1 DEF BufferAt
  <2> QED
    BY <1>2, <1>5, <1>7, <2>1, <2>2, ClientLimits
<1>9. /\ Len(packets') = Len(packets) + 1
      /\ \A i \in 1..Len(packets') : packets'[i] = Len(handled) + i
  <2>1. recvBuffer[1].packet \in Nat
    BY <1>3, <1>4
  <2>2. /\ Len(packets') = Len(packets) + 1 /\ packets'[Len(packets) + 1] = recvBuffer[1].packet
        /\ \A i \in 1..Len(packets) : packets'[i] = packets[i]
    BY <1>1, <1>4, <2>1, AppendProperties
  <2>3. ASSUME NEW i \in 1..(Len(packets) + 1) PROVE packets'[i] = Len(handled) + i
    <3>1. CASE i \in 1..Len(packets)
      BY <1>1, <2>2, <3>1 DEF PacketsFollow
    <3>2. CASE i = Len(packets) + 1
      BY <1>3, <1>4, <2>2, <3>2
    <3> QED
      BY <1>4, <3>1, <3>2
  <2> QED
    BY <2>2, <2>3
<1>10. k + 1 = Len(handled') + Len(packets')
  BY <1>1, <1>4, <1>5, <1>9
<1>11. PacketsFollow'
  BY <1>1, <1>6, <1>7, <1>8, <1>9, <1>10 DEF PacketsFollow
<1>12. StopsForReason'
  BY <1>1, ReasonKept
<1> QED
  BY <1>11, <1>12 DEF BytesInv

\* TryPop hands over the packet that comes next.
LEMMA HandlePacketBytes ==
  ASSUME BytesInv, LimitsInv', HandlePacket
  PROVE  BytesInv' /\ handled' = Append(handled, Len(handled) + 1)
         /\ Head(packets) = Len(handled) + 1
<1>1. /\ main = "packets" /\ Connected /\ packets # <<>> /\ packets \in Seq(Nat)
      /\ UNCHANGED <<recvBuffer, arrived, toCome, link>>
      /\ why' = why \/ why' = "Refused"
      /\ packets' = Tail(packets) /\ handled' = Append(handled, Head(packets))
      /\ PacketsFollow
  BY DEF BytesInv, LimitsInv, TypesInv, HandlePacket, TryPopPacket, network, Connected, InLoop
<1>2. /\ Len(packets) \in Nat /\ Len(packets) >= 1 /\ handled \in Seq(Nat) /\ Len(handled) \in Nat
      /\ DOMAIN handled = 1..Len(handled)
  BY <1>1, EmptySeq, LenProperties DEF PacketsFollow
<1>3. Head(packets) = Len(handled) + 1
  <2>1. 1 \in 1..Len(packets) /\ Head(packets) = packets[1]
    BY <1>1, <1>2, HeadTailProperties
  <2> QED
    BY <1>1, <2>1 DEF PacketsFollow
<1>4. /\ handled' \in Seq(Nat) /\ Len(handled') = Len(handled) + 1
      /\ handled'[Len(handled) + 1] = Len(handled) + 1
      /\ \A i \in 1..Len(handled) : handled'[i] = handled[i]
      /\ DOMAIN handled' = 1..(Len(handled) + 1)
  BY <1>1, <1>2, <1>3, AppendProperties, LenProperties
<1>5. \A i \in 1..Len(handled') : handled'[i] = i
  <2>1. \A i \in 1..(Len(handled) + 1) : i \in 1..Len(handled) \/ i = Len(handled) + 1
    BY <1>2
  <2> QED
    BY <1>1, <1>4, <2>1 DEF PacketsFollow
<1>6. Len(packets') = Len(packets) - 1 /\ \A i \in 1..Len(packets') : packets'[i] = packets[i + 1]
  BY <1>1, HeadTailProperties
<1>7. \A i \in 1..Len(packets') : packets'[i] = Len(handled') + i
  <2> SUFFICES ASSUME NEW i \in 1..Len(packets') PROVE packets'[i] = Len(handled') + i
    OBVIOUS
  <2>1. i + 1 \in 1..Len(packets) /\ i \in Nat
    BY <1>2, <1>6
  <2>2. packets'[i] = Len(handled) + (i + 1)
    BY <1>1, <1>6, <2>1 DEF PacketsFollow
  <2> QED
    BY <1>2, <1>4, <2>1, <2>2
<1>8. Len(handled') + Len(packets') = Len(handled) + Len(packets)
  BY <1>2, <1>4, <1>6
<1>9. UNCHANGED <<ToComeAt, ArrivedAt, BufferAt>>
  BY <1>1 DEF ToComeAt, ArrivedAt, BufferAt
<1>10. PacketsFollow'
  BY <1>1, <1>4, <1>5, <1>7, <1>8, <1>9 DEF PacketsFollow
<1>11. StopsForReason'
  <2>1. \A i \in DOMAIN handled : i \in DOMAIN handled' /\ handled'[i] = handled[i]
    BY <1>2, <1>4
  <2> QED
    BY <1>1, <2>1, ReasonKept
<1> QED
  BY <1>1, <1>3, <1>10, <1>11 DEF BytesInv

\* When recv finds the connection closed, every whole packet that came before was handled.
LEMMA AllHandled ==
  ASSUME BytesInv, main = "run", arrived = <<>>
  PROVE  WholePackets \subseteq Handled
<1>1. /\ Connected /\ NoMorePackets /\ packets = <<>> /\ TypesInv /\ PacketsFollow
  BY DEF BytesInv, LimitsInv, PartialInv, EmptyInv, Settled, Connected, InLoop
<1>2. /\ Len(recvBuffer) \in Nat /\ Len(Stream) \in Nat /\ BufferAt \in Nat /\ ToComeAt \in Nat
      /\ ToComeAt = BufferAt + Len(recvBuffer) /\ Len(packets) = 0 /\ Len(handled) \in Nat
      /\ DOMAIN handled = 1..Len(handled)
  <2>1. /\ Len(recvBuffer) \in Nat /\ Len(arrived) = 0 /\ BufferAt \in Nat /\ ToComeAt \in Nat
        /\ Len(handled) \in Nat /\ DOMAIN handled = 1..Len(handled)
        /\ ArrivedAt \in Nat /\ Len(packets) = 0 /\ Len(Stream) \in Nat
    BY <1>1, LenProperties, StreamIsBytes DEF TypesInv, PacketsFollow, IsPiece
  <2>2. ArrivedAt = ToComeAt
    BY <2>1 DEF ArrivedAt
  <2> QED
    BY <2>1, <2>2 DEF BufferAt
<1>3. /\ DOMAIN Delivered = 1..ToComeAt /\ Len(Delivered) = ToComeAt
      /\ \A i \in 1..ToComeAt : Delivered[i] = Stream[i] /\ i \in DOMAIN Stream
  <2>1. toCome \in Seq(ByteSet) /\ IsPiece(toCome, ToComeAt)
    BY <1>1 DEF TypesInv, PacketsFollow
  <2> QED
    BY <2>1, DeliveredIs DEF Delivered, ToComeAt
<1>4. ASSUME NEW i \in 1..ToComeAt, Stream[i].at = 1,
             Stream[i].size \in HeaderSize..MaxPacketSize, i + Stream[i].size - 1 <= ToComeAt
      PROVE  Stream[i].packet \in Handled
  <2>1. PICK size \in Nat : size = Stream[i].size /\ size >= HeaderSize /\ size <= MaxPacketSize
                            /\ i + size - 1 <= ToComeAt
    BY <1>4, ClientLimits
  <2>2. CASE i \in 1..BufferAt
    <3>1. Stream[i].packet \in 1..Len(handled)
      BY <1>1, <1>2, <1>4, <2>2 DEF PacketsFollow, CutAt
    <3>2. handled[Stream[i].packet] = Stream[i].packet
      BY <1>1, <3>1 DEF PacketsFollow
    <3> QED
      BY <1>2, <3>1, <3>2 DEF Handled
  <2>3. CASE i > BufferAt
    <3>1. size <= Len(recvBuffer) /\ Len(recvBuffer) >= HeaderSize /\ Len(recvBuffer) # 0
      <4>1. PICK p \in Nat, l \in Nat : p = BufferAt /\ l = Len(recvBuffer)
        BY <1>2
      <4>2. i \in Nat /\ i > p /\ (i + size) - 1 <= p + l
        BY <1>2, <2>1, <2>3, <4>1
      <4>3. size <= l
        BY <4>2
      <4> QED
        BY <2>1, <4>1, <4>3, ClientLimits
    <3>2. HasHeader /\ recvBuffer # <<>>
      BY <3>1 DEF HasHeader
    <3>3. ValidSize /\ ~(Len(recvBuffer) >= TotalSize)
      BY <1>1, <3>2 DEF NoMorePackets, Refusal, IsWhole
    <3>4. /\ recvBuffer[1] = Stream[BufferAt + 1] /\ Stream[BufferAt + 1].at = 1
          /\ TotalSize = Stream[BufferAt + 1].size
      BY <1>1, <3>2, FirstByteIs
    <3>5. PICK total \in Nat : total = TotalSize /\ Len(recvBuffer) < total
      BY <1>2, <3>3, ClientLimits DEF ValidSize
    <3>6. i # BufferAt + 1
      <4>1. i = BufferAt + 1 => size = total
        BY <2>1, <3>4, <3>5
      <4>2. size # total
        BY <1>2, <3>1, <3>5
      <4> QED
        BY <4>1, <4>2
    <3>7. BufferAt + 1 \in DOMAIN Stream /\ i \in DOMAIN Stream
          /\ BufferAt + 1 < i /\ i < (BufferAt + 1) + total
      <4>1. BufferAt + 1 \in 1..ToComeAt
        BY <1>2, <2>3
      <4>2. BufferAt + 1 < i /\ i < (BufferAt + 1) + total
        BY <1>2, <2>3, <3>5, <3>6
      <4> QED
        BY <1>3, <4>1, <4>2
    <3>8. Stream[BufferAt + 1].size \in HeaderSize..MaxPacketSize
      BY <3>3, <3>4 DEF ValidSize
    <3>9. Stream[i].at # 1
      BY <3>4, <3>5, <3>7, <3>8, StreamIsCut
    <3> QED
      BY <1>4, <3>9
  <2> QED
    BY <1>2, <2>2, <2>3
<1> QED
  BY <1>3, <1>4 DEF WholePackets

\* Run leaves the loop: because the server has closed only after all it has sent.
LEMMA RunFailsBytes ==
  ASSUME BytesInv, LimitsInv', RunFails
  PROVE  BytesInv'
<1>1. /\ UNCHANGED <<recvBuffer, packets, arrived, toCome, handled, link>>
      /\ main = "run" /\ main' = "disconnect" /\ Connected
      /\ why' \in {"SelectFailed", ReceiveFailure}
  BY DEF RunFails, Leave, tcpVars, buffers, network, Connected, InLoop
<1>2. ReceiveFailure # "InvalidSize"
  BY DEF ReceiveFailure
<1>3. CASE why' # "ServerClosed"
  BY <1>1, <1>2, <1>3, QuietBytes
<1>4. CASE why' = "ServerClosed"
  <2>1. link = "closed" /\ arrived = <<>>
    BY <1>1, <1>4 DEF ReceiveFailure
  <2>2. WholePackets \subseteq Handled
    BY <1>1, <2>1, AllHandled
  <2>3. WholePackets' = WholePackets /\ Handled' = Handled
    BY <1>1 DEF WholePackets, Delivered, Handled
  <2>4. StopsForReason'
    BY <1>1, <1>4, <2>1, <2>2, <2>3 DEF StopsForReason, Handled, LimitsInv
  <2>5. PacketsFollow'
    <3>1. UNCHANGED <<ToComeAt, ArrivedAt, BufferAt>>
      BY <1>1 DEF ToComeAt, ArrivedAt, BufferAt
    <3> QED
      BY <1>1, <3>1 DEF BytesInv, PacketsFollow
  <2> QED
    BY <2>4, <2>5 DEF BytesInv
<1> QED
  BY <1>3, <1>4

\* ProcessRecvBuffer leaves the loop for a size only where such a header has come.
LEMMA CutFailsBytes ==
  ASSUME BytesInv, LimitsInv', CutFails
  PROVE  BytesInv'
<1>1. /\ UNCHANGED <<recvBuffer, packets, arrived, toCome, handled, link>>
      /\ main = "cut" /\ main' = "disconnect" /\ Connected /\ why' = Refusal
  BY DEF CutFails, Leave, tcpVars, buffers, network, Connected, InLoop
<1>2. Refusal # "ServerClosed"
  BY DEF Refusal
<1>3. CASE why' # "InvalidSize"
  BY <1>1, <1>2, <1>3, QuietBytes
<1>4. CASE why' = "InvalidSize"
  <2>1. HasHeader /\ ~ValidSize
    BY <1>1, <1>4 DEF Refusal
  <2>2. recvBuffer # <<>>
    <3>1. Len(<<>>) = 0
      OBVIOUS
    <3> QED
      BY <2>1, <3>1, ClientLimits DEF HasHeader
  <2>3. /\ BufferAt \in Nat /\ BufferAt + Len(recvBuffer) <= ToComeAt /\ ToComeAt \in Nat
        /\ Len(recvBuffer) \in Nat /\ Len(recvBuffer) >= 1
        /\ recvBuffer[1] = Stream[BufferAt + 1] /\ recvBuffer[1].at = 1
        /\ TotalSize = recvBuffer[1].size
    BY <1>1, <2>2, FirstByteIs
  <2>4. BufferAt + 1 \in 1..ToComeAt
    BY <2>3
  <2>5. /\ DOMAIN Delivered = 1..ToComeAt
        /\ \A i \in 1..ToComeAt : Delivered[i] = Stream[i]
    <3>1. toCome \in Seq(ByteSet) /\ IsPiece(toCome, ToComeAt)
      BY DEF BytesInv, LimitsInv, TypesInv, PacketsFollow
    <3> QED
      BY <3>1, DeliveredIs DEF Delivered, ToComeAt
  <2>6. \E i \in DOMAIN Delivered :
          Delivered[i].at = 1 /\ Delivered[i].size \notin HeaderSize..MaxPacketSize
    BY <2>1, <2>3, <2>4, <2>5 DEF ValidSize
  <2>7. Delivered' = Delivered
    BY <1>1 DEF Delivered
  <2>8. StopsForReason'
    BY <1>4, <2>6, <2>7 DEF StopsForReason, LimitsInv
  <2>9. PacketsFollow'
    <3>1. UNCHANGED <<ToComeAt, ArrivedAt, BufferAt>>
      BY <1>1 DEF ToComeAt, ArrivedAt, BufferAt
    <3> QED
      BY <1>1, <3>1 DEF BytesInv, PacketsFollow
  <2> QED
    BY <2>8, <2>9 DEF BytesInv
<1> QED
  BY <1>3, <1>4

\* At the start nothing has arrived of the stream.
LEMMA InitBytes == Init => BytesInv
<1> SUFFICES ASSUME Init PROVE BytesInv
  OBVIOUS
<1>1. /\ recvBuffer = <<>> /\ arrived = <<>> /\ packets = <<>> /\ toCome = Stream
      /\ handled = <<>> /\ why = "None" /\ main = "connect"
  BY DEF Init, TcpInit
<1>2. /\ ToComeAt = 0 /\ ArrivedAt = 0 /\ BufferAt = 0 /\ Len(Stream) \in Nat
      /\ Len(handled) = 0 /\ Len(packets) = 0
  <2>1. /\ Len(recvBuffer) = 0 /\ Len(arrived) = 0 /\ Len(handled) = 0
        /\ Len(packets) = 0
    BY <1>1
  <2>2. Len(Stream) \in Nat
    BY StreamIsBytes
  <2>3. ToComeAt = 0
    BY <1>1, <2>2 DEF ToComeAt
  <2>4. ArrivedAt = 0
    BY <2>1, <2>3 DEF ArrivedAt
  <2>5. BufferAt = 0
    BY <2>1, <2>4 DEF BufferAt
  <2> QED
    BY <2>1, <2>2, <2>3, <2>4, <2>5
<1>3. IsPiece(toCome, 0) /\ IsPiece(<<>>, 0)
  BY <1>1, <1>2 DEF IsPiece
<1>4. CutAt(0, 0)
  <2>1. 0 < Len(Stream) => Stream # <<>>
    BY <1>2
  <2> QED
    BY <2>1, StreamIsCut DEF CutAt
<1>5. PacketsFollow
  BY <1>1, <1>2, <1>3, <1>4 DEF PacketsFollow
<1>6. StopsForReason
  BY <1>1 DEF StopsForReason, LimitsSuffice
<1> QED
  BY <1>5, <1>6, InitLimits DEF BytesInv

\* Every step of the client keeps the packets in order.
LEMMA NextBytes == BytesInv /\ [Next]_vars => BytesInv'
<1> SUFFICES ASSUME BytesInv, [Next]_vars PROVE BytesInv'
  OBVIOUS
<1>1. LimitsInv'
  BY NextLimits DEF BytesInv
<1>2. CASE ConnectSucceeds \/ ConnectFails \/ NoLine \/ TestFinished \/ NoPacket
  <2>1. /\ UNCHANGED <<recvBuffer, packets, arrived, toCome, handled, link>>
        /\ why' = why \/ why' = "NoConsole"
        /\ main \in {"connect", "lines", "console", "packets"}
    BY <1>2 DEF ConnectSucceeds, ConnectFails, NoLine, TestFinished, NoPacket, Connect, Go,
                Leave, tcpVars, buffers, network
  <2> QED
    BY <1>1, <2>1, QuietBytes DEF Connected, InLoop
<1>3. CASE ObeyHere \/ ObeySend
  <2>1. /\ UNCHANGED <<recvBuffer, packets, arrived, toCome, handled, link>>
        /\ main = "lines" /\ why' \in {"None", "Quit", "CannotSend"}
    BY <1>3 DEF ObeyHere, ObeySend, Obey, SendPacket, tcpVars, buffers, network
  <2> QED
    BY <1>1, <2>1, QuietBytes DEF Connected, InLoop
<1>4. CASE RunReceives
  BY <1>1, <1>4, RunReceivesBytes
<1>5. CASE RunFails
  BY <1>1, <1>5, RunFailsBytes
<1>6. CASE CutPacket
  BY <1>1, <1>6, CutPacketBytes
<1>7. CASE CutFails
  BY <1>1, <1>7, CutFailsBytes
<1>8. CASE Flush \/ FlushError
  <2>1. /\ UNCHANGED <<recvBuffer, packets, arrived, toCome, handled, link>>
        /\ why' = why \/ why' = "SendFailed"
        /\ main \in {"run", "cut"}
    BY <1>8 DEF Flush, FlushError, FlushSend, FlushFails, ReceivedAll, NothingToReceive, Go,
                Leave, tcpVars, buffers, network
  <2> QED
    BY <1>1, <2>1, QuietBytes DEF Connected, InLoop
<1>9. CASE HandlePacket
  BY <1>1, <1>9, HandlePacketBytes
<1>10. CASE Stop
  <2>1. /\ toCome' = toCome /\ handled' = handled /\ why' = why /\ link' = link /\ main' = "waiting"
    BY <1>10 DEF Stop, Disconnect, Go
  <2>2. StopsForReason'
    BY <1>1, <2>1, ReasonKept
  <2>3. PacketsFollow'
    <3>1. ToComeAt' = ToComeAt
      BY <2>1 DEF ToComeAt
    <3>2. ~Connected'
      BY <2>1 DEF Connected, InLoop
    <3> QED
      BY <2>1, <3>1, <3>2 DEF BytesInv, PacketsFollow
  <2> QED
    BY <1>1, <2>2, <2>3 DEF BytesInv
<1>11. CASE CancelReader \/ ReaderGone \/ Join
  <2>1. /\ UNCHANGED <<recvBuffer, packets, arrived, toCome, handled, why, link>>
        /\ main' \in {"waiting", "joining", "ended"}
    BY <1>11 DEF CancelReader, ReaderGone, Join, Go, tcpVars, buffers, network, mainVars
  <2> QED
    BY <1>1, <2>1, QuietBytes DEF Connected, InLoop
<1>12. CASE Reader \/ UserTypes \/ UserCloses
  <2>1. UNCHANGED <<recvBuffer, packets, arrived, toCome, handled, main, why, link>>
    BY <1>12 DEF Reader, UserTypes, UserCloses, tcpVars, buffers, network, mainVars
  <2> QED
    BY <1>1, <2>1, QuietBytes DEF Connected
<1>13. CASE Network
  <2>1. CASE Deliver
    BY <1>1, <1>13, <2>1, DeliverBytes DEF Network
  <2>2. CASE \E how \in {"closed", "broken"} : LinkEnds(how)
    <3>1. /\ UNCHANGED <<recvBuffer, packets, arrived, toCome, handled, main, why>> /\ link = "up"
      BY <1>13, <2>2 DEF Network, LinkEnds, buffers, mainVars
    <3> QED
      BY <1>1, <3>1, QuietBytes DEF Connected
  <2> QED
    BY <1>13, <2>1, <2>2 DEF Network
<1>14. CASE UNCHANGED vars
  <2>1. UNCHANGED <<recvBuffer, packets, arrived, toCome, handled, main, why, link>>
    BY <1>14 DEF vars, tcpVars, buffers, network, mainVars
  <2> QED
    BY <1>1, <2>1, QuietBytes DEF Connected
<1> QED
  BY <1>2, <1>3, <1>4, <1>5, <1>6, <1>7, <1>8, <1>9, <1>10, <1>11, <1>12, <1>13, <1>14
     DEF Next, Main

\* Whatever the server sends, the client stops only for a reason: for a size where such a
\* header has come, and because the server has closed when it has handled all packets
\* (Receive and ProcessRecvBuffer, TcpClient.cpp:215 and :326).
THEOREM ReasonsAreGood == Spec => []StopsForReason
<1>1. BytesInv => StopsForReason
  BY DEF BytesInv
<1> QED
  BY <1>1, InitBytes, NextBytes, PTL DEF Spec

-----------------------------------------------------------------------------
(* What the client does with the lines typed: the invariant                 *)

Chars  == [line : Nat, last : BOOLEAN]
Places == [line : Nat, at : Nat]

Place(n, at) == [line |-> n, at |-> at]

\* The character at a place of the script, and the place behind it.
CharAt(q) == Char(q.line, q.at = Script[q.line].length)
Behind(q) == IF q.at = Script[q.line].length THEN Place(q.line + 1, 1) ELSE Place(q.line, q.at + 1)

InScript(q) == q.line \in DOMAIN Script /\ q.at \in 1..Script[q.line].length

\* The text from one place of the script to another; path is the place of each character.
IsPath(path, text, from, to) ==
  /\ path \in [1..(Len(text) + 1) -> Places]
  /\ path[1] = from /\ path[Len(text) + 1] = to
  /\ \A i \in 1..Len(text) :
       InScript(path[i]) /\ text[i] = CharAt(path[i]) /\ path[i + 1] = Behind(path[i])

Leads(text, from, to) == \E path : IsPath(path, text, from, to)

\* The characters the thread has not looked at yet, and the line it is at.
Unread   == chunk \o console
LineRead == Len(obeyed) + Len(lines) + 1

\* The lines obeyed, those in the queue, the one being read and the text behind it follow
\* each other.
LinesFollow ==
  /\ chunk \in Seq(Chars) /\ console \in Seq(Chars) /\ line \in Seq(Chars)
  /\ lines \in Seq(Seq(Chars)) /\ obeyed \in Seq(Nat) /\ typed \in 0..Len(Script)
  /\ reader = "pushing" <=> chunk # <<>>
  /\ \A i \in 1..Len(obeyed) : obeyed[i] = i
  /\ \A i \in 1..Len(lines) :
       /\ Len(obeyed) + i \in DOMAIN Script
       /\ lines[i] = LineOf(Len(obeyed) + i, Script[Len(obeyed) + i].length)
  /\ \A i \in 1..Len(line) : line[i] = Char(LineRead, FALSE)
  /\ Leads(Unread, Place(LineRead, Len(line) + 1), Place(typed + 1, 1))

-----------------------------------------------------------------------------
(* Text of the script                                                       *)

\* The script is a sequence of lines, none of them empty.
LEMMA ScriptIsLines ==
  /\ Len(Script) \in Nat /\ DOMAIN Script = 1..Len(Script)
  /\ \A n \in DOMAIN Script : n \in Nat /\ Script[n].length \in Nat /\ Script[n].length >= 1
<1>1. Len(Script) \in Nat /\ DOMAIN Script = 1..Len(Script)
  BY ScriptAssumption, LenProperties
<1>2. ASSUME NEW n \in 1..Len(Script)
      PROVE  n \in Nat /\ Script[n].length \in Nat /\ Script[n].length >= 1
  <2>1. Script[n] \in [kind : {"quit", "send", "local"}, size : Nat, length : Nat \ {0}]
    BY ScriptAssumption, ElementOfSeq
  <2>2. Script[n].length \in Nat \ {0}
    BY <2>1
  <2> QED
    BY <1>1, <2>2
<1> QED
  BY <1>1, <1>2

\* A line is a sequence of characters.
LEMMA LineIsChars ==
  ASSUME NEW n \in Nat, NEW k \in Nat
  PROVE  /\ LineOf(n, k) \in Seq(Chars) /\ Len(LineOf(n, k)) = k
         /\ \A i \in 1..k : LineOf(n, k)[i] = Char(n, i = k)
<1>1. \A i \in 1..k : Char(n, i = k) \in Chars
  BY DEF Char, Chars
<1>2. LineOf(n, k) \in [1..k -> Chars]
  BY <1>1 DEF LineOf
<1> QED
  BY <1>2, SeqDef, LenProperties DEF LineOf

\* No text leads nowhere.
LEMMA NoTextLeads ==
  ASSUME NEW from \in Places
  PROVE  Leads(<<>>, from, from)
<1> DEFINE path == [i \in 1..1 |-> from]
<1>1. Len(<<>>) = 0
  OBVIOUS
<1>2. IsPath(path, <<>>, from, from)
  BY <1>1 DEF IsPath
<1> QED
  BY <1>2 DEF Leads

\* Where a text leads, its first character is the one at the place it comes from, and the
\* rest leads on from the place behind it.
LEMMA TextGoesOn ==
  ASSUME NEW text \in Seq(Chars), NEW from, NEW to, text # <<>>, Leads(text, from, to)
  PROVE  /\ InScript(from) /\ Head(text) = CharAt(from)
         /\ Tail(text) \in Seq(Chars) /\ Leads(Tail(text), Behind(from), to)
<1>1. PICK path : IsPath(path, text, from, to)
  BY DEF Leads
<1>2. Len(text) \in Nat /\ Len(text) >= 1 /\ 1 \in 1..Len(text)
  BY EmptySeq, LenProperties
<1>3. /\ Head(text) = text[1] /\ Tail(text) \in Seq(Chars) /\ Len(Tail(text)) = Len(text) - 1
      /\ \A i \in 1..(Len(text) - 1) : Tail(text)[i] = text[i + 1]
  BY HeadTailProperties
<1>4. InScript(from) /\ text[1] = CharAt(from) /\ path[2] = Behind(from)
  <2>1. InScript(path[1]) /\ text[1] = CharAt(path[1]) /\ path[1 + 1] = Behind(path[1])
    BY <1>1, <1>2 DEF IsPath
  <2>2. path[1] = from
    BY <1>1 DEF IsPath
  <2> QED
    BY <2>1, <2>2
<1> DEFINE rest == Tail(text)
           after == [i \in 1..Len(text) |-> path[i + 1]]
<1>5. \A i \in 1..Len(text) : i + 1 \in 1..(Len(text) + 1) /\ path[i + 1] \in Places
  BY <1>1, <1>2 DEF IsPath
<1>6. after \in [1..(Len(rest) + 1) -> Places]
  BY <1>2, <1>3, <1>5
<1>7. after[1] = Behind(from) /\ after[Len(rest) + 1] = to
  BY <1>1, <1>2, <1>3, <1>4 DEF IsPath
<1>8. ASSUME NEW i \in 1..Len(rest)
      PROVE  InScript(after[i]) /\ rest[i] = CharAt(after[i]) /\ after[i + 1] = Behind(after[i])
  <2>1. i + 1 \in 1..Len(text) /\ i \in 1..Len(text) /\ rest[i] = text[i + 1]
    BY <1>2, <1>3
  <2>2. /\ InScript(path[i + 1]) /\ text[i + 1] = CharAt(path[i + 1])
        /\ path[(i + 1) + 1] = Behind(path[i + 1])
    BY <1>1, <2>1 DEF IsPath
  <2>3. after[i] = path[i + 1] /\ after[i + 1] = path[(i + 1) + 1]
    BY <2>1
  <2> HIDE DEF after, rest
  <2> QED
    BY <2>1, <2>2, <2>3
<1>9. IsPath(after, rest, Behind(from), to)
  BY <1>6, <1>7, <1>8 DEF IsPath
<1> QED
  BY <1>3, <1>4, <1>9 DEF Leads

\* Two texts, one behind the other.
LEMMA TextJoin ==
  ASSUME NEW x \in Seq(Chars), NEW y \in Seq(Chars), NEW a, NEW b, NEW c,
         Leads(x, a, b), Leads(y, b, c)
  PROVE  x \o y \in Seq(Chars) /\ Leads(x \o y, a, c)
<1>1. PICK p : IsPath(p, x, a, b)
  BY DEF Leads
<1>2. PICK q : IsPath(q, y, b, c)
  BY DEF Leads
<1> DEFINE xy == x \o y
<1>3. /\ xy \in Seq(Chars) /\ Len(xy) = Len(x) + Len(y)
      /\ \A i \in 1..(Len(x) + Len(y)) : xy[i] = IF i <= Len(x) THEN x[i] ELSE y[i - Len(x)]
  BY ConcatProperties
<1> HIDE DEF xy
<1>4. PICK m \in Nat : m = Len(x)
  BY LenProperties
<1>5. PICK k \in Nat : k = Len(y)
  BY LenProperties
<1> DEFINE r == [i \in 1..(m + k + 1) |-> IF i <= m THEN p[i] ELSE q[i - m]]
<1>6. /\ \A i \in 1..(m + 1) : p[i] \in Places
      /\ p[1] = a /\ p[m + 1] = b
      /\ \A i \in 1..m : InScript(p[i]) /\ x[i] = CharAt(p[i]) /\ p[i + 1] = Behind(p[i])
  BY <1>1, <1>4 DEF IsPath
<1>7. /\ \A i \in 1..(k + 1) : q[i] \in Places
      /\ q[1] = b /\ q[k + 1] = c
      /\ \A i \in 1..k : InScript(q[i]) /\ y[i] = CharAt(q[i]) /\ q[i + 1] = Behind(q[i])
  BY <1>2, <1>5 DEF IsPath
<1>8. \A i \in 1..(m + 1) : r[i] = p[i]
  <2> SUFFICES ASSUME NEW i \in 1..(m + 1) PROVE r[i] = p[i]
    OBVIOUS
  <2>1. CASE i <= m
    BY <2>1
  <2>2. CASE i = m + 1
    <3>1. i \in 1..(m + k + 1) /\ ~(i <= m) /\ i - m = 1
      BY <2>2
    <3> QED
      BY <1>6, <1>7, <2>2, <3>1
  <2> QED
    BY <2>1, <2>2
<1>9. \A i \in 1..(k + 1) : r[m + i] = q[i]
  <2> SUFFICES ASSUME NEW i \in 1..(k + 1) PROVE r[m + i] = q[i]
    OBVIOUS
  <2>1. m + i \in 1..(m + k + 1) /\ ~(m + i <= m) /\ (m + i) - m = i
    OBVIOUS
  <2> QED
    BY <2>1
<1>10. r \in [1..(m + k + 1) -> Places]
  <2> SUFFICES ASSUME NEW i \in 1..(m + k + 1) PROVE r[i] \in Places
    OBVIOUS
  <2>1. CASE i \in 1..(m + 1)
    BY <1>6, <1>8, <2>1
  <2>2. CASE i - m \in 1..(k + 1)
    BY <1>7, <1>9, <2>2
  <2> QED
    BY <2>1, <2>2
<1> HIDE DEF r
<1>11. r[1] = a /\ r[m + k + 1] = c
  <2>1. 1 \in 1..(m + 1) /\ k + 1 \in 1..(k + 1) /\ m + (k + 1) = m + k + 1
    OBVIOUS
  <2>2. r[1] = p[1]
    BY <1>8, <2>1
  <2>3. r[m + (k + 1)] = q[k + 1]
    BY <1>9, <2>1
  <2> QED
    BY <1>6, <1>7, <2>1, <2>2, <2>3
<1>12. ASSUME NEW i \in 1..(m + k)
       PROVE  InScript(r[i]) /\ xy[i] = CharAt(r[i]) /\ r[i + 1] = Behind(r[i])
  <2>1. CASE i <= m
    <3>1. i \in 1..m /\ i \in 1..(m + 1) /\ i + 1 \in 1..(m + 1)
      BY <2>1
    <3>2. r[i] = p[i] /\ r[i + 1] = p[i + 1] /\ xy[i] = x[i]
      BY <1>3, <1>4, <1>5, <1>8, <2>1, <3>1
    <3> QED
      BY <1>6, <3>1, <3>2
  <2>2. CASE ~(i <= m)
    <3>1. PICK j \in 1..k : i = m + j
      <4>1. i - m \in 1..k /\ i = m + (i - m)
        BY <2>2
      <4> QED
        BY <4>1
    <3>2. j \in 1..(k + 1) /\ j + 1 \in 1..(k + 1) /\ i + 1 = m + (j + 1) /\ i - m = j
      BY <3>1
    <3>3. r[i] = q[j] /\ r[i + 1] = q[j + 1]
      BY <1>9, <3>1, <3>2
    <3>4. xy[i] = y[j]
      BY <1>3, <1>4, <1>5, <2>2, <3>2
    <3> QED
      BY <1>7, <3>3, <3>4
  <2> QED
    BY <2>1, <2>2
<1>13. Len(xy) = m + k
  BY <1>3, <1>4, <1>5
<1>14. IsPath(r, xy, a, c)
  BY <1>10, <1>11, <1>12, <1>13 DEF IsPath
<1> QED
  BY <1>3, <1>14 DEF Leads, xy

\* A line of the script leads to the beginning of the next.
LEMMA LineLeads ==
  ASSUME NEW n \in DOMAIN Script
  PROVE  /\ LineOf(n, Script[n].length) \in Seq(Chars)
         /\ Leads(LineOf(n, Script[n].length), Place(n, 1), Place(n + 1, 1))
<1>1. PICK k \in Nat : k = Script[n].length
  BY ScriptIsLines
<1>2. n \in Nat /\ k >= 1
  BY <1>1, ScriptIsLines
<1> DEFINE text == LineOf(n, k)
           path == [i \in 1..(k + 1) |-> IF i <= k THEN Place(n, i) ELSE Place(n + 1, 1)]
<1>3. text \in Seq(Chars) /\ Len(text) = k /\ \A i \in 1..k : text[i] = Char(n, i = k)
  BY <1>2, LineIsChars
<1>4. path \in [1..(k + 1) -> Places]
  BY <1>2 DEF Place, Places
<1>5. path[1] = Place(n, 1) /\ path[k + 1] = Place(n + 1, 1)
  BY <1>2
<1>6. ASSUME NEW i \in 1..k
      PROVE  InScript(path[i]) /\ text[i] = CharAt(path[i]) /\ path[i + 1] = Behind(path[i])
  <2>1. path[i] = Place(n, i) /\ i \in 1..(k + 1) /\ i + 1 \in 1..(k + 1)
    OBVIOUS
  <2>2. Place(n, i).line = n /\ Place(n, i).at = i
    BY DEF Place
  <2>3. InScript(path[i])
    BY <1>1, <2>1, <2>2 DEF InScript
  <2>4. text[i] = CharAt(path[i])
    BY <1>1, <1>3, <2>1, <2>2 DEF CharAt
  <2>5. path[i + 1] = Behind(path[i])
    <3>1. CASE i = k
      <4>1. ~(i + 1 <= k)
        BY <3>1
      <4>2. path[i + 1] = Place(n + 1, 1)
        BY <2>1, <4>1
      <4> QED
        BY <1>1, <2>1, <2>2, <3>1, <4>2 DEF Behind
    <3>2. CASE i # k
      <4>1. i + 1 <= k
        BY <3>2
      <4>2. path[i + 1] = Place(n, i + 1)
        BY <2>1, <4>1
      <4> QED
        BY <1>1, <2>1, <2>2, <3>2, <4>2 DEF Behind
    <3> QED
      BY <3>1, <3>2
  <2> QED
    BY <2>3, <2>4, <2>5
<1> HIDE DEF path, text
<1>7. IsPath(path, text, Place(n, 1), Place(n + 1, 1))
  BY <1>3, <1>4, <1>5, <1>6 DEF IsPath
<1> QED
  BY <1>1, <1>3, <1>7 DEF Leads, text

\* What is in front of two texts is in front of the first.
LEMMA HeadOfJoin ==
  ASSUME NEW x \in Seq(Chars), NEW y \in Seq(Chars), x # <<>>
  PROVE  /\ x \o y \in Seq(Chars) /\ x \o y # <<>>
         /\ Head(x \o y) = Head(x) /\ Tail(x \o y) = Tail(x) \o y
<1> DEFINE xy == x \o y
           xs == Tail(x)
           xsy == xs \o y
<1>1. PICK m \in Nat : m = Len(x) /\ m >= 1
  BY EmptySeq, LenProperties
<1>2. PICK k \in Nat : k = Len(y)
  BY LenProperties
<1>3. /\ xy \in Seq(Chars) /\ Len(xy) = m + k
      /\ \A i \in 1..(m + k) : xy[i] = IF i <= m THEN x[i] ELSE y[i - m]
  BY <1>1, <1>2, ConcatProperties
<1>4. /\ Head(x) = x[1] /\ xs \in Seq(Chars) /\ Len(xs) = m - 1
      /\ \A i \in 1..(m - 1) : xs[i] = x[i + 1]
  BY <1>1, HeadTailProperties
<1> HIDE DEF xs
<1>5. /\ xsy \in Seq(Chars) /\ Len(xsy) = (m - 1) + k
      /\ \A i \in 1..((m - 1) + k) : xsy[i] = IF i <= m - 1 THEN xs[i] ELSE y[i - (m - 1)]
  <2>1. PICK j \in Nat : j = m - 1
    BY <1>1
  <2>2. j = Len(xs)
    BY <1>4, <2>1
  <2>3. /\ xsy \in Seq(Chars) /\ Len(xsy) = j + k
        /\ \A i \in 1..(j + k) : xsy[i] = IF i <= j THEN xs[i] ELSE y[i - j]
    BY <1>2, <1>4, <2>2, ConcatProperties
  <2> QED
    BY <2>1, <2>3
<1> HIDE DEF xy, xsy
<1>6. xy # <<>>
  BY <1>1, <1>3, EmptySeq
<1>7. /\ Head(xy) = xy[1] /\ Tail(xy) \in Seq(Chars) /\ Len(Tail(xy)) = (m + k) - 1
      /\ \A i \in 1..((m + k) - 1) : Tail(xy)[i] = xy[i + 1]
  BY <1>3, <1>6, HeadTailProperties
<1>8. Head(xy) = Head(x)
  BY <1>1, <1>3, <1>4, <1>7
<1>9. ASSUME NEW i \in 1..((m + k) - 1) PROVE Tail(xy)[i] = xsy[i]
  <2>1. i + 1 \in 1..(m + k) /\ i \in 1..((m - 1) + k)
    BY <1>1
  <2>2. CASE i <= m - 1
    <3>1. i \in 1..(m - 1) /\ i + 1 <= m
      BY <2>2
    <3> QED
      BY <1>3, <1>4, <1>5, <1>7, <2>1, <2>2, <3>1
  <2>3. CASE ~(i <= m - 1)
    <3>1. ~(i + 1 <= m) /\ (i + 1) - m = i - (m - 1)
      BY <2>3
    <3> QED
      BY <1>3, <1>5, <1>7, <2>1, <2>3, <3>1
  <2> QED
    BY <2>2, <2>3
<1>10. Tail(xy) = xsy
  <2>1. (m + k) - 1 = (m - 1) + k
    OBVIOUS
  <2> QED
    BY <1>5, <1>7, <1>9, <2>1, SeqEqual
<1> QED
  BY <1>3, <1>6, <1>8, <1>10 DEF xy, xsy, xs

-----------------------------------------------------------------------------
(* The lines, step by step                                                  *)

\* Steps that touch neither text nor lines.
LEMMA QuietLines ==
  ASSUME LinesFollow, UNCHANGED <<lines, line, chunk, console, obeyed, typed>>,
         reader' = "pushing" <=> reader = "pushing"
  PROVE  LinesFollow'
<1>1. Unread' = Unread /\ LineRead' = LineRead
  BY DEF Unread, LineRead
<1> QED
  BY <1>1 DEF LinesFollow

\* ReadConsoleW returns the text it takes from the console.
LEMMA ReadConsoleLines ==
  ASSUME LinesFollow, ReadConsole, UNCHANGED mainVars
  PROVE  LinesFollow'
<1>1. /\ chunk = <<>> /\ console \in Seq(Chars) /\ reader' = "pushing"
      /\ UNCHANGED <<lines, line, obeyed, typed>>
  BY DEF LinesFollow, ReadConsole, mainVars
<1>2. PICK n \in 1..ReadSize : /\ n <= Len(console)
                               /\ chunk' = SubSeq(console, 1, n)
                               /\ console' = SubSeq(console, n + 1, Len(console))
  BY DEF ReadConsole
<1>3. n \in 1..Len(console) /\ n \in 0..Len(console) /\ n >= 1 /\ Len(console) \in Nat
  BY <1>1, <1>2, LenProperties, ReadSizeAssumption
<1>4. chunk' \in Seq(Chars) /\ console' \in Seq(Chars) /\ Len(chunk') = n
  BY <1>1, <1>2, <1>3, CutLengths DEF From
<1>5. chunk' # <<>>
  BY <1>3, <1>4, EmptySeq
<1>6. Unread' = Unread
  <2>1. SubSeq(console, 1, n) \o SubSeq(console, n + 1, Len(console))
          = SubSeq(console, 1, Len(console))
    BY <1>1, <1>3, ConcatAdjacentSubSeq
  <2>2. SubSeq(console, 1, Len(console)) = console
    BY <1>1, SubSeqFull
  <2>3. <<>> \o console = console
    BY <1>1, ConcatEmptySeq
  <2> QED
    BY <1>1, <1>2, <2>1, <2>2, <2>3 DEF Unread
<1>7. LineRead' = LineRead
  BY <1>1 DEF LineRead
<1> QED
  BY <1>1, <1>4, <1>5, <1>6, <1>7 DEF LinesFollow

\* A character read is the next of the line being read; the one that ends it makes it the
\* line of the script, and the next line begins.
LEMMA TakeCharLines ==
  ASSUME LinesFollow, TakeChar, UNCHANGED mainVars
  PROVE  LinesFollow'
<1>1. /\ chunk \in Seq(Chars) /\ chunk # <<>> /\ console \in Seq(Chars) /\ line \in Seq(Chars)
      /\ chunk' = Tail(chunk) /\ UNCHANGED <<console, obeyed, typed>>
      /\ reader' = "pushing" <=> chunk' # <<>>
  BY DEF LinesFollow, TakeChar, mainVars
<1> DEFINE to == Place(typed + 1, 1)
           whole == Append(line, Head(chunk))
<1>2. PICK at \in Nat : at = Len(line) + 1 /\ at >= 1
  BY <1>1, LenProperties
<1>3. PICK n \in Nat : n = LineRead
  BY LenProperties DEF LinesFollow, LineRead
<1>4. Leads(Unread, Place(n, at), to)
  BY <1>2, <1>3 DEF LinesFollow
<1>5. /\ Unread \in Seq(Chars) /\ Unread # <<>> /\ Head(Unread) = Head(chunk)
      /\ Tail(Unread) = Unread'
  BY <1>1, HeadOfJoin DEF Unread
<1>6. /\ InScript(Place(n, at)) /\ Head(chunk) = CharAt(Place(n, at))
      /\ Unread' \in Seq(Chars) /\ Leads(Unread', Behind(Place(n, at)), to)
  BY <1>4, <1>5, TextGoesOn
<1>7. Place(n, at).line = n /\ Place(n, at).at = at
  BY DEF Place
<1>8. PICK length \in Nat : length = Script[n].length /\ length >= 1
  BY <1>6, <1>7, ScriptIsLines DEF InScript
<1>9. n \in DOMAIN Script /\ at <= length /\ Head(chunk) = Char(n, at = length)
  BY <1>6, <1>7, <1>8 DEF InScript, CharAt
<1>10. Head(chunk).last <=> at = length
  <2>1. Char(n, at = length).last = (at = length)
    BY Zenon DEF Char
  <2> QED
    BY <1>9, <2>1, Zenon
<1>11. /\ chunk' \in Seq(Chars) /\ Head(chunk) \in Chars
  BY <1>1, HeadTailProperties
<1>12. /\ whole \in Seq(Chars) /\ Len(whole) = at /\ whole[at] = Head(chunk)
       /\ \A i \in 1..(at - 1) : whole[i] = Char(n, FALSE)
  <2>1. /\ whole \in Seq(Chars) /\ Len(whole) = Len(line) + 1
        /\ whole[Len(line) + 1] = Head(chunk)
        /\ \A i \in 1..Len(line) : whole[i] = line[i]
    BY <1>1, <1>11, AppendProperties
  <2>2. Len(line) = at - 1
    BY <1>1, <1>2, LenProperties
  <2>3. \A i \in 1..Len(line) : line[i] = Char(n, FALSE)
    BY <1>3 DEF LinesFollow
  <2> QED
    BY <1>2, <2>1, <2>2, <2>3
<1> HIDE DEF whole
<1>13. CASE at = length
  <2>1. lines' = Append(lines, whole) /\ line' = <<>>
    BY <1>10, <1>13 DEF TakeChar, whole
  <2>2. whole = LineOf(n, length)
    <3>1. /\ LineOf(n, length) \in Seq(Chars) /\ Len(LineOf(n, length)) = length
          /\ \A i \in 1..length : LineOf(n, length)[i] = Char(n, i = length)
      BY LineIsChars
    <3>2. ASSUME NEW i \in 1..at PROVE whole[i] = LineOf(n, length)[i]
      <4>1. CASE i = at
        BY <1>9, <1>12, <1>13, <3>1, <4>1
      <4>2. CASE i # at
        <5>1. i \in 1..(at - 1) /\ (i = length) = FALSE /\ i \in 1..length
          BY <1>13, <4>2
        <5> QED
          BY <1>12, <3>1, <5>1
      <4> QED
        BY <4>1, <4>2
    <3> QED
      BY <1>12, <1>13, <3>1, <3>2, SeqEqual
  <2>3. PICK k \in Nat : k = Len(lines) /\ n = Len(obeyed) + k + 1
    BY <1>3, LenProperties DEF LinesFollow, LineRead
  <2>4. /\ lines' \in Seq(Seq(Chars)) /\ Len(lines') = k + 1 /\ lines'[k + 1] = whole
        /\ \A i \in 1..k : lines'[i] = lines[i]
    BY <1>12, <2>1, <2>3, AppendProperties DEF LinesFollow
  <2>5. PICK o \in Nat : o = Len(obeyed)
    BY LenProperties DEF LinesFollow
  <2>6. \A i \in 1..k : /\ o + i \in DOMAIN Script
                        /\ lines[i] = LineOf(o + i, Script[o + i].length)
    BY <2>3, <2>5 DEF LinesFollow
  <2>7. ASSUME NEW i \in 1..(k + 1)
        PROVE  /\ o + i \in DOMAIN Script
               /\ lines'[i] = LineOf(o + i, Script[o + i].length)
    <3>1. CASE i \in 1..k
      BY <2>4, <2>6, <3>1
    <3>2. CASE i = k + 1
      <4>1. o + i = n
        BY <2>3, <2>5, <3>2
      <4> QED
        BY <1>8, <1>9, <2>2, <2>4, <3>2, <4>1
    <3> QED
      BY <3>1, <3>2
  <2>8. \A i \in 1..Len(lines') : /\ Len(obeyed') + i \in DOMAIN Script
                                  /\ lines'[i] = LineOf(Len(obeyed') + i, Script[Len(obeyed') + i].length)
    BY <1>1, <2>4, <2>5, <2>7
  <2>9. LineRead' = n + 1
    <3>1. Len(lines') = k + 1 /\ Len(obeyed') = o /\ n = o + k + 1
      BY <1>1, <2>3, <2>4, <2>5
    <3> QED
      BY <3>1 DEF LineRead
  <2>10. line' \in Seq(Chars) /\ Len(line') = 0
    BY <2>1, EmptySeq
  <2>11. Behind(Place(n, at)) = Place(n + 1, 1)
    BY <1>7, <1>8, <1>13 DEF Behind
  <2>12. Leads(Unread', Place(LineRead', Len(line') + 1), Place(typed' + 1, 1))
    <3>1. Len(line') + 1 = 1
      BY <2>10
    <3> QED
      BY <1>1, <1>6, <2>9, <2>11, <3>1
  <2>13. \A i \in 1..Len(line') : line'[i] = Char(LineRead', FALSE)
    BY <2>10
  <2> QED
    BY <1>1, <1>11, <2>4, <2>8, <2>10, <2>12, <2>13 DEF LinesFollow
<1>14. CASE at # length
  <2>1. line' = whole /\ lines' = lines
    BY <1>10, <1>14 DEF TakeChar, whole
  <2>2. LineRead' = n
    BY <1>1, <1>3, <2>1 DEF LineRead
  <2>3. Behind(Place(n, at)) = Place(n, at + 1)
    BY <1>7, <1>8, <1>14 DEF Behind
  <2>4. Leads(Unread', Place(LineRead', Len(line') + 1), Place(typed' + 1, 1))
    BY <1>1, <1>6, <1>12, <2>1, <2>2, <2>3
  <2>5. \A i \in 1..Len(line') : line'[i] = Char(LineRead', FALSE)
    <3>1. whole[at] = Char(n, FALSE)
      BY <1>9, <1>12, <1>14
    <3>2. \A i \in 1..at : i \in 1..(at - 1) \/ i = at
      BY <1>2
    <3> QED
      BY <1>12, <2>1, <2>2, <3>1, <3>2
  <2> QED
    BY <1>1, <1>11, <1>12, <2>1, <2>4, <2>5 DEF LinesFollow
<1> QED
  BY <1>13, <1>14

\* The user types the next line of the script behind all that was typed before.
LEMMA UserTypesLines ==
  ASSUME LinesFollow, UserTypes
  PROVE  LinesFollow'
<1>1. PICK t \in Nat : t = typed
  BY DEF LinesFollow
<1>2. /\ t < Len(Script) /\ typed' = t + 1
      /\ console' = console \o LineOf(t + 1, Script[t + 1].length)
      /\ UNCHANGED <<reader, lines, line, chunk, obeyed>>
      /\ chunk \in Seq(Chars) /\ console \in Seq(Chars)
  BY <1>1 DEF UserTypes, TypeLine, LinesFollow
<1>3. t + 1 \in DOMAIN Script /\ typed' \in 0..Len(Script)
  BY <1>2, ScriptIsLines
<1> DEFINE text == LineOf(t + 1, Script[t + 1].length)
<1>4. text \in Seq(Chars) /\ Leads(text, Place(t + 1, 1), Place((t + 1) + 1, 1))
  BY <1>3, LineLeads
<1> HIDE DEF text
<1>5. Unread \in Seq(Chars)
  BY <1>2, ConcatProperties DEF Unread
<1> DEFINE from == Place(LineRead, Len(line) + 1)
<1>6. Leads(Unread, from, Place(t + 1, 1))
  BY <1>1 DEF LinesFollow
<1>7. Unread \o text \in Seq(Chars) /\ Leads(Unread \o text, from, Place((t + 1) + 1, 1))
  BY <1>4, <1>5, <1>6, TextJoin
<1>8. Unread' = Unread \o text
  <2>1. console' = console \o text /\ chunk' = chunk
    BY <1>2 DEF text
  <2>2. (chunk \o console) \o text = chunk \o (console \o text)
    <3>1. chunk \in Seq(Chars) /\ console \in Seq(Chars) /\ text \in Seq(Chars)
      BY <1>2, <1>4
    <3>2. \A x, y, z \in Seq(Chars) : (x \o y) \o z = x \o (y \o z)
      BY ConcatAssociative
    <3> QED
      BY <3>1, <3>2, Zenon
  <2>3. Unread' = chunk' \o console'
    BY DEF Unread
  <2> QED
    BY <2>1, <2>2, <2>3, Zenon DEF Unread
<1>9. LineRead' = LineRead /\ console' \in Seq(Chars)
  BY <1>2, <1>4, ConcatProperties DEF LineRead, text
<1>10. Leads(Unread', Place(LineRead', Len(line') + 1), Place(typed' + 1, 1))
  BY <1>2, <1>7, <1>8, <1>9
<1> QED
  BY <1>2, <1>3, <1>9, <1>10 DEF LinesFollow

\* TryPop hands out the next line of the script, as it was typed.
LEMMA ObeyLines ==
  ASSUME LinesFollow, ObeyHere \/ ObeySend
  PROVE  /\ LinesFollow'
         /\ Len(obeyed) + 1 \in DOMAIN Script /\ Command = Script[Len(obeyed) + 1]
         /\ obeyed' = Append(obeyed, Len(obeyed) + 1) /\ FirstLine = Len(obeyed) + 1
<1>1. /\ lines # <<>> /\ lines \in Seq(Seq(Chars)) /\ obeyed \in Seq(Nat)
      /\ lines' = Tail(lines) /\ obeyed' = Append(obeyed, FirstLine)
      /\ UNCHANGED <<reader, line, chunk, console, typed>>
  BY DEF LinesFollow, ObeyHere, ObeySend, Obey, TryPop
<1>2. PICK o \in Nat : o = Len(obeyed)
  BY <1>1, LenProperties
<1>3. PICK k \in Nat : k = Len(lines) /\ k >= 1
  BY <1>1, EmptySeq, LenProperties
<1>4. \A i \in 1..k : /\ o + i \in DOMAIN Script
                      /\ lines[i] = LineOf(o + i, Script[o + i].length)
  BY <1>2, <1>3 DEF LinesFollow
<1>5. /\ Head(lines) = lines[1] /\ lines' \in Seq(Seq(Chars)) /\ Len(lines') = k - 1
      /\ \A i \in 1..(k - 1) : lines'[i] = lines[i + 1]
  BY <1>1, <1>3, HeadTailProperties
<1>6. PICK n \in Nat : n = o + 1
  OBVIOUS
<1>7. n \in DOMAIN Script /\ Head(lines) = LineOf(n, Script[n].length)
  BY <1>3, <1>4, <1>5, <1>6
<1>8. FirstLine = n
  <2>1. 1 \in 1..Script[n].length
    BY <1>7, ScriptIsLines
  <2>2. Head(lines)[1].line = n
    <3>1. Head(lines)[1] = Char(n, 1 = Script[n].length)
      <4>1. PICK length \in Nat : length = Script[n].length
        BY <1>7, ScriptIsLines
      <4>2. LineOf(n, length)[1] = Char(n, 1 = length)
        <5>1. \A i \in 1..length : LineOf(n, length)[i] = Char(n, i = length)
          BY LineIsChars
        <5>2. 1 \in 1..length
          BY <2>1, <4>1
        <5> QED
          BY <5>1, <5>2, Zenon
      <4> QED
        BY <1>7, <4>1, <4>2
    <3>2. Char(n, 1 = Script[n].length).line = n
      BY Zenon DEF Char
    <3> QED
      BY <3>1, <3>2, Zenon
  <2> QED
    BY <1>7, <2>2 DEF FirstLine
<1>9. Command = Script[n]
  <2>1. n # 0
    BY <1>6
  <2> QED
    BY <1>8, <2>1 DEF Command
<1>10. /\ obeyed' \in Seq(Nat) /\ Len(obeyed') = n /\ obeyed'[n] = n
       /\ \A i \in 1..o : obeyed'[i] = obeyed[i]
  BY <1>1, <1>2, <1>6, <1>8, AppendProperties
<1>11. \A i \in 1..Len(obeyed') : obeyed'[i] = i
  <2>1. \A i \in 1..n : i \in 1..o \/ i = n
    BY <1>6
  <2>2. \A i \in 1..o : obeyed[i] = i
    BY <1>2 DEF LinesFollow
  <2> QED
    BY <1>10, <2>1, <2>2
<1>12. ASSUME NEW i \in 1..(k - 1)
       PROVE  n + i \in DOMAIN Script /\ lines'[i] = LineOf(n + i, Script[n + i].length)
  <2>1. i + 1 \in 1..k /\ o + (i + 1) = n + i
    BY <1>6
  <2> QED
    BY <1>4, <1>5, <2>1
<1>13. \A i \in 1..Len(lines') : /\ Len(obeyed') + i \in DOMAIN Script
                                 /\ lines'[i] = LineOf(Len(obeyed') + i, Script[Len(obeyed') + i].length)
  BY <1>5, <1>10, <1>12
<1>14. Unread' = Unread
  BY <1>1 DEF Unread
<1>15. LineRead' = LineRead
  <2>1. n + (k - 1) + 1 = o + k + 1
    BY <1>6
  <2> QED
    BY <1>2, <1>3, <1>5, <1>10, <2>1 DEF LineRead
<1>16. LinesFollow'
  BY <1>1, <1>5, <1>10, <1>11, <1>13, <1>14, <1>15 DEF LinesFollow
<1> QED
  BY <1>1, <1>2, <1>6, <1>7, <1>8, <1>9, <1>16

\* At the start nothing has been typed.
LEMMA InitLines == Init => LinesFollow
<1> SUFFICES ASSUME Init PROVE LinesFollow
  OBVIOUS
<1>1. /\ reader = "new" /\ lines = <<>> /\ line = <<>> /\ chunk = <<>> /\ console = <<>>
      /\ obeyed = <<>> /\ typed = 0
  BY DEF Init, ConsoleInit
<1>2. /\ Len(<<>>) = 0 /\ <<>> \in Seq(Chars) /\ <<>> \in Seq(Seq(Chars)) /\ <<>> \in Seq(Nat)
      /\ <<>> \o <<>> = <<>>
  BY EmptySeq, ConcatEmptySeq
<1>3. LineRead = 1 /\ Unread = <<>>
  BY <1>1, <1>2 DEF LineRead, Unread
<1>4. Leads(Unread, Place(LineRead, Len(line) + 1), Place(typed + 1, 1))
  <2>1. Place(1, 1) \in Places
    BY DEF Place, Places
  <2>2. Len(line) + 1 = 1 /\ typed + 1 = 1
    BY <1>1, <1>2
  <2> QED
    BY <1>3, <2>1, <2>2, NoTextLeads
<1>5. typed \in 0..Len(Script)
  BY <1>1, ScriptIsLines
<1> QED
  BY <1>1, <1>2, <1>4, <1>5 DEF LinesFollow

\* Every step of the client keeps the lines in order.
LEMMA NextLines == LinesFollow /\ [Next]_vars => LinesFollow'
<1> SUFFICES ASSUME LinesFollow, [Next]_vars PROVE LinesFollow'
  OBVIOUS
<1>1. CASE ConnectSucceeds
  BY <1>1, QuietLines DEF ConnectSucceeds, StartReader, Go
<1>2. CASE ObeyHere \/ ObeySend
  BY <1>2, ObeyLines
<1>3. CASE ConnectFails \/ NoLine \/ TestFinished \/ RunReceives \/ RunFails \/ CutPacket
           \/ CutFails \/ Flush \/ FlushError \/ HandlePacket \/ NoPacket \/ ReaderGone \/ Join
           \/ Network
  <2>1. UNCHANGED <<readerVars, obeyed, typed>>
    BY <1>3 DEF ConnectFails, NoLine, TestFinished, RunReceives, RunFails, CutPacket, CutFails,
                Flush, FlushError, HandlePacket, NoPacket, ReaderGone, Join, Network, Go, Leave,
                mainVars
  <2> QED
    BY <2>1, QuietLines DEF readerVars
<1>4. CASE Stop
  BY <1>4, QuietLines DEF Stop, TellToStop, Go
<1>5. CASE CancelReader
  BY <1>5, QuietLines DEF CancelReader, CancelRead, mainVars
<1>6. CASE Reader
  <2>1. ReadLines /\ UNCHANGED mainVars
    BY <1>6 DEF Reader
  <2>2. CASE TestStopping \/ EnterRead \/ ReadFails \/ Finish
    BY <2>1, <2>2, QuietLines DEF TestStopping, EnterRead, ReadFails, Finish, mainVars
  <2>3. CASE ReadConsole
    BY <2>1, <2>3, ReadConsoleLines
  <2>4. CASE TakeChar
    BY <2>1, <2>4, TakeCharLines
  <2> QED
    BY <2>1, <2>2, <2>3, <2>4 DEF ReadLines
<1>7. CASE UserTypes
  BY <1>7, UserTypesLines
<1>8. CASE UserCloses
  BY <1>8, QuietLines DEF UserCloses, CloseConsole, mainVars
<1>9. CASE UNCHANGED vars
  BY <1>9, QuietLines DEF vars, readerVars, mainVars
<1> QED
  BY <1>1, <1>2, <1>3, <1>4, <1>5, <1>6, <1>7, <1>8, <1>9 DEF Next, Main

-----------------------------------------------------------------------------
(* The client implements IChatClient                                        *)

Running == main \in {"connect"} \cup InLoop
Quits   == {n \in DOMAIN Script : Script[n].kind = "quit"}

\* Steps that obey no line and handle no packet.
LEMMA QuietDialogue ==
  ASSUME UNCHANGED <<obeyed, handled>>, (Running' = Running) \/ (Running /\ ~Running')
  PROVE  Dialogue!Next \/ UNCHANGED <<obeyed, handled, Running>>
<1>1. CASE Running' = Running
  BY <1>1
<1>2. CASE Running /\ ~Running'
  <2>1. Running' = FALSE
    BY <1>2 DEF Running
  <2>2. Dialogue!End
    BY <1>2, <2>1 DEF Dialogue!End, Running
  <2> QED
    BY <2>2 DEF Dialogue!Next
<1> QED
  BY <1>1, <1>2

\* TryPop and ProcessCommand obey the line whose turn it is, and a line to quit ends the loop.
LEMMA ObeyIsObey ==
  ASSUME LinesFollow, ObeyHere \/ ObeySend
  PROVE  Dialogue!Obey
<1> DEFINE n == Len(obeyed) + 1
<1>1. n \in DOMAIN Script /\ Command = Script[n] /\ obeyed' = Append(obeyed, n)
  BY ObeyLines
<1>2. main = "lines" /\ UNCHANGED handled
  BY DEF ObeyHere, ObeySend, Obey
<1> HIDE DEF n
<1>3. (main \in {"connect"} \cup InLoop) = TRUE
  BY <1>2 DEF InLoop
<1>4. n \in Quits => (main' \in {"connect"} \cup InLoop) = FALSE
  <2> SUFFICES ASSUME n \in Quits PROVE (main' \in {"connect"} \cup InLoop) = FALSE
    OBVIOUS
  <2>1. Command.kind = "quit"
    BY <1>1 DEF Quits
  <2>2. main' = "disconnect"
    BY <2>1 DEF ObeyHere, ObeySend, Obey
  <2> QED
    BY <2>2 DEF InLoop
<1>5. (main' \in {"connect"} \cup InLoop) \in BOOLEAN
  OBVIOUS
<1> QED
  BY <1>1, <1>2, <1>3, <1>4, <1>5, Zenon DEF Dialogue!Obey, Quits, n

\* TryPopPacket and ProcessResponse handle the packet whose turn it is, and one they cannot
\* accept ends the loop.
LEMMA HandleIsHandle ==
  ASSUME BytesInv, LimitsInv', HandlePacket
  PROVE  Dialogue!Handle
<1> DEFINE n == Len(handled) + 1
<1>1. Head(packets) = n /\ handled' = Append(handled, n)
  BY HandlePacketBytes
<1>2. /\ main = "packets" /\ UNCHANGED obeyed
      /\ main' = IF Head(packets) \in Refused THEN "disconnect" ELSE "packets"
  BY DEF HandlePacket
<1> HIDE DEF n
<1>3. CASE n \in Refused
  BY <1>1, <1>2, <1>3 DEF Dialogue!Handle, InLoop, n
<1>4. CASE n \notin Refused
  BY <1>1, <1>2, <1>4 DEF Dialogue!Handle, InLoop, n
<1> QED
  BY <1>3, <1>4

\* Between the user and the server the client obeys every line typed and handles every packet
\* sent, each once, whole and in order, however the thread, the console and the connection
\* cut them up, and nothing behind the one that ends it (main, ChatClient.cpp:1199-1242).
THEOREM ClientImplementsDialogue == Spec => ImplementsDialogue
<1> DEFINE AbsVars == <<obeyed, handled, Running>>
<1>1. Init => Dialogue!Init
  BY DEF Init, Dialogue!Init, InLoop
<1>2. ASSUME BytesInv, LinesFollow, [Next]_vars
      PROVE  Dialogue!Next \/ UNCHANGED AbsVars
  <2>1. LimitsInv'
    BY <1>2, NextLimits DEF BytesInv
  <2>2. CASE ObeyHere \/ ObeySend
    BY <1>2, <2>2, ObeyIsObey DEF Dialogue!Next
  <2>3. CASE HandlePacket
    BY <1>2, <2>1, <2>3, HandleIsHandle DEF Dialogue!Next
  <2>4. CASE ConnectSucceeds \/ ConnectFails \/ NoLine \/ TestFinished \/ RunReceives \/ RunFails
             \/ CutPacket \/ CutFails \/ Flush \/ FlushError \/ NoPacket
    <3>1. Running /\ UNCHANGED <<obeyed, handled>>
      BY <2>4 DEF ConnectSucceeds, ConnectFails, NoLine, TestFinished, RunReceives, RunFails,
                  CutPacket, CutFails, Flush, FlushError, NoPacket, ReceivedAll,
                  NothingToReceive, Go, Leave, mainVars, Running, InLoop
    <3>2. (Running' = Running) \/ ~Running'
      BY <3>1 DEF Running
    <3> QED
      BY <3>1, <3>2, QuietDialogue
  <2>5. CASE Stop \/ CancelReader \/ ReaderGone \/ Join
    <3>1. ~Running /\ ~Running' /\ UNCHANGED <<obeyed, handled>>
      BY <2>5 DEF Stop, CancelReader, ReaderGone, Join, Go, mainVars, Running, InLoop
    <3>2. Running' = Running
      BY <3>1 DEF Running
    <3> QED
      BY <3>1, <3>2, QuietDialogue
  <2>6. CASE Reader \/ UserTypes \/ UserCloses \/ Network \/ UNCHANGED vars
    <3>1. UNCHANGED <<main, obeyed, handled>>
      BY <2>6 DEF Reader, UserTypes, UserCloses, Network, vars, mainVars
    <3>2. Running' = Running
      BY <3>1 DEF Running, InLoop
    <3> QED
      BY <3>1, <3>2, QuietDialogue
  <2> QED
    BY <1>2, <2>2, <2>3, <2>4, <2>5, <2>6 DEF Next, Main
<1>3. LinesFollow /\ BytesInv /\ [Next]_vars => [Dialogue!Next]_<<obeyed, handled, Running>>
  BY <1>2
<1> QED
  BY <1>1, <1>3, InitBytes, NextBytes, InitLines, NextLines, PTL
     DEF Spec, ImplementsDialogue, Dialogue!Spec, Running

-----------------------------------------------------------------------------
(* What the commands obeyed send *)

\* Outside its loop the client sends nothing; in it, what was sent and what waits to be
\* sent are the packets of the lines obeyed.
CommandsInv ==
  /\ sent \in Seq(ByteSet) /\ sendBuffer \in Seq(ByteSet) /\ obeyed \in Seq(DOMAIN Script)
  /\ main = "connect" =>
       ~open /\ why = "None" /\ sent = <<>> /\ sendBuffer = <<>> /\ obeyed = <<>>
  /\ main \in InLoop => open /\ why = "None"
  /\ main \in {"waiting", "joining", "ended"} => ~open
  /\ CommandsGoOut

\* The bytes the line n sends.
PacketOf(n) == IF Script[n].kind = "send" THEN Bytes(n, Script[n].size) ELSE <<>>

LEMMA BytesConcatenable ==
  /\ Concatenable(Seq(ByteSet))
  /\ \A u, v, w \in Seq(ByteSet) : (u \o v) \o w = u \o (v \o w)
<1>1. \A v, w \in Seq(ByteSet) : v \o w \in Seq(ByteSet)
  BY ConcatProperties
<1>2. \A w \in Seq(ByteSet) : <<>> \o w = w
  BY ConcatEmptySeq, Zenon
<1>3. <<>> \in Seq(ByteSet)
  BY EmptySeq
<1>4. \A u, v, w \in Seq(ByteSet) : (u \o v) \o w = u \o (v \o w)
  <2> SUFFICES ASSUME NEW u \in Seq(ByteSet), NEW v \in Seq(ByteSet), NEW w \in Seq(ByteSet)
               PROVE  (u \o v) \o w = u \o (v \o w)
    OBVIOUS
  <2> QED
    BY ConcatAssociative
<1> QED
  BY <1>1, <1>2, <1>3, <1>4 DEF Concatenable

\* A packet is a sequence of bytes.
LEMMA PacketIsBytes ==
  ASSUME NEW n \in DOMAIN Script
  PROVE  PacketOf(n) \in Seq(ByteSet)
<1> DEFINE k == Script[n].size
<1>1. n \in Nat /\ k \in Nat
  <2>1. Script[n] \in [kind : {"quit", "send", "local"}, size : Nat, length : Nat \ {0}]
    BY ScriptAssumption, ScriptIsLines, ElementOfSeq
  <2> QED
    BY <2>1, ScriptIsLines
<1> HIDE DEF k
<1>2. Bytes(n, k) \in Seq(ByteSet)
  <2>1. \A i \in 1..k : [packet |-> n, at |-> i, size |-> k] \in ByteSet
    BY <1>1 DEF ByteSet
  <2> QED
    BY <1>1, <2>1 DEF Bytes
<1> QED
  BY <1>2, EmptySeq DEF PacketOf, k

\* One more line obeyed sends its packet behind those of the others.
LEMMA PacketsAppend ==
  ASSUME NEW numbers \in Seq(DOMAIN Script), NEW n \in DOMAIN Script
  PROVE  /\ PacketsOf(numbers) \in Seq(ByteSet)
         /\ PacketsOf(Append(numbers, n)) = PacketsOf(numbers) \o PacketOf(n)
<1> DEFINE more == Append(numbers, n)
           s == [i \in DOMAIN numbers |-> PacketOf(numbers[i])]
           t == [i \in DOMAIN more |-> PacketOf(more[i])]
           W == Seq(ByteSet)
           k == Len(numbers)
<1>1. k \in Nat /\ DOMAIN numbers = 1..k /\ \A i \in 1..k : numbers[i] \in DOMAIN Script
  BY LenProperties
<1>2. /\ DOMAIN more = 1..(k + 1) /\ more[k + 1] = n
      /\ \A i \in 1..k : more[i] = numbers[i]
  BY AppendProperties, LenProperties
<1> HIDE DEF k, more
<1>3. s \in Seq(W) /\ Len(s) = k
  <2>1. \A i \in 1..k : PacketOf(numbers[i]) \in W
    BY <1>1, PacketIsBytes
  <2> HIDE DEF W
  <2> QED
    BY <1>1, <2>1
<1>4. t = Append(s, PacketOf(n))
  <2> DEFINE u == Append(s, PacketOf(n))
  <2>1. PacketOf(n) \in W
    BY PacketIsBytes
  <2>2. \A i \in 1..(k + 1) : i # k + 1 => i \in 1..k
    BY <1>1
  <2>3. \A i \in 1..(k + 1) : t[i] = (IF i = k + 1 THEN PacketOf(n) ELSE s[i]) /\ t[i] \in W
    BY <1>1, <1>2, <2>1, <2>2, PacketIsBytes
  <2>4. t \in Seq(W) /\ Len(t) = k + 1
    <3>1. t \in [1..(k + 1) -> W] /\ k + 1 \in Nat
      <4>1. \A i \in DOMAIN more : PacketOf(more[i]) \in W
        BY <1>2, <2>3
      <4>2. k + 1 \in Nat
        BY <1>1
      <4> HIDE DEF W
      <4>3. t \in [DOMAIN more -> W]
        BY <4>1
      <4> HIDE DEF t
      <4> QED
        BY <1>2, <4>2, <4>3
    <3> HIDE DEF t, W
    <3> QED
      BY <3>1, SeqDef, LenProperties
  <2> HIDE DEF s, t, W
  <2>5. u \in Seq(W) /\ Len(u) = k + 1 /\ u[k + 1] = PacketOf(n) /\ \A i \in 1..k : u[i] = s[i]
    BY <1>3, <2>1, AppendProperties
  <2>6. \A i \in 1..Len(t) : t[i] = u[i]
    BY <2>2, <2>3, <2>4, <2>5
  <2> HIDE DEF u
  <2>7. t = u
    BY <2>4, <2>5, <2>6, SeqEqual
  <2> QED
    BY <2>7 DEF u
<1>5. PacketsOf(numbers) = FlattenSeq(s) /\ PacketsOf(more) = FlattenSeq(t)
  BY DEF PacketsOf, PacketOf
<1>6. PacketOf(n) \in W /\ Concatenable(W)
  BY PacketIsBytes, BytesConcatenable
<1> HIDE DEF s, t, W
<1>7. FlattenSeq(s) \in W /\ FlattenSeq(t) = FlattenSeq(s) \o PacketOf(n)
  BY <1>3, <1>4, <1>6, FlattenAppend
<1> QED
  BY <1>5, <1>7 DEF W, more

\* The bytes of a buffer, cut in two.
LEMMA CutInTwo ==
  ASSUME NEW q \in Seq(ByteSet), NEW k \in 0..Len(q)
  PROVE  /\ SubSeq(q, 1, k) \in Seq(ByteSet) /\ From(q, k + 1) \in Seq(ByteSet)
         /\ SubSeq(q, 1, k) \o From(q, k + 1) = q
<1> DEFINE a == SubSeq(q, 1, k)
           b == From(q, k + 1)
<1>1. /\ a \in Seq(ByteSet) /\ Len(a) = k /\ \A i \in 1..k : a[i] = q[i]
      /\ b \in Seq(ByteSet) /\ Len(b) = Len(q) - k /\ \A i \in 1..(Len(q) - k) : b[i] = q[k + i]
  <2>1. Len(q) \in Nat /\ \A i \in 1..Len(q) : q[i] \in ByteSet
    BY LenProperties
  <2> QED
    BY <2>1 DEF From
<1> HIDE DEF a, b
<1>2. a \o b \in Seq(ByteSet) /\ Len(a \o b) = Len(q)
      /\ \A i \in 1..Len(q) : (a \o b)[i] = q[i]
  <2>1. Len(q) \in Nat
    BY LenProperties
  <2>2. /\ a \o b \in Seq(ByteSet) /\ Len(a \o b) = Len(a) + Len(b)
        /\ \A i \in 1..(Len(a) + Len(b)) : (a \o b)[i] = IF i <= Len(a) THEN a[i] ELSE b[i - Len(a)]
    BY <1>1, ConcatProperties
  <2>3. Len(a) + Len(b) = Len(q)
    BY <1>1, <2>1
  <2>4. ASSUME NEW i \in 1..Len(q) PROVE (a \o b)[i] = q[i]
    <3>1. CASE i <= k
      BY <1>1, <2>1, <2>2, <2>3, <3>1
    <3>2. CASE ~(i <= k)
      <4>1. i - k \in 1..(Len(q) - k) /\ k + (i - k) = i
        BY <2>1, <3>2
      <4> QED
        BY <1>1, <2>2, <2>3, <3>2, <4>1
    <3> QED
      BY <3>1, <3>2
  <2> QED
    BY <2>2, <2>3, <2>4
<1>3. a \o b = q
  BY <1>2, SeqEqual
<1> QED
  BY <1>1, <1>3 DEF a, b

\* What send takes leaves the buffer.
LEMMA FlushCommands ==
  ASSUME CommandsInv, NEW k \in 0..Len(sendBuffer), FlushSend(k)
  PROVE  /\ sent' \in Seq(ByteSet) /\ sendBuffer' \in Seq(ByteSet)
         /\ sent' \o sendBuffer' = sent \o sendBuffer
<1> DEFINE a == SubSeq(sendBuffer, 1, k)
           b == From(sendBuffer, k + 1)
<1>1. a \in Seq(ByteSet) /\ b \in Seq(ByteSet) /\ a \o b = sendBuffer
  BY CutInTwo DEF CommandsInv
<1>2. sent' = sent \o a /\ sendBuffer' = b
  BY DEF FlushSend
<1> HIDE DEF a, b
<1> QED
  <2>1. sent \in Seq(ByteSet)
    BY DEF CommandsInv
  <2>2. sent \o a \in Seq(ByteSet) /\ (sent \o a) \o b = sent \o (a \o b)
    <3>1. sent \o a \in Seq(ByteSet)
      BY <1>1, <2>1, ConcatProperties
    <3>2. (sent \o a) \o b = sent \o (a \o b)
      BY <1>1, <2>1, BytesConcatenable, Zenon
    <3> QED
      BY <3>1, <3>2
  <2> QED
    BY <1>1, <1>2, <2>2

\* ProcessCommand appends the packet of the line it obeys, or leaves the loop.
LEMMA ObeyCommands ==
  ASSUME CommandsInv, LinesFollow, ObeyHere \/ ObeySend
  PROVE  CommandsInv'
<1> DEFINE n == Len(obeyed) + 1
<1>1. n \in DOMAIN Script /\ Command = Script[n] /\ obeyed' = Append(obeyed, n) /\ FirstLine = n
  BY ObeyLines
<1>2. obeyed \in Seq(DOMAIN Script) /\ obeyed' \in Seq(DOMAIN Script)
  BY <1>1, AppendProperties DEF CommandsInv
<1> HIDE DEF n
<1>3. /\ PacketsOf(obeyed') = PacketsOf(obeyed) \o PacketOf(n)
      /\ PacketsOf(obeyed) \in Seq(ByteSet) /\ PacketOf(n) \in Seq(ByteSet)
  BY <1>1, <1>2, PacketsAppend, PacketIsBytes
<1>4. main = "lines" /\ main' \in {"lines", "disconnect"} /\ open' = open /\ sent' = sent
  BY DEF ObeyHere, ObeySend, Obey, SendPacket, tcpVars, buffers, network
<1>5. open /\ why = "None" /\ sent \o sendBuffer = PacketsOf(obeyed)
  BY <1>4 DEF CommandsInv, InLoop, CommandsGoOut
<1>6. CASE sendBuffer' = sendBuffer \o PacketOf(n) /\ (main' = "lines" => why' = "None")
  <2>1. sendBuffer' \in Seq(ByteSet) /\ sent' \o sendBuffer' = PacketsOf(obeyed')
    <3>1. sent \in Seq(ByteSet) /\ sendBuffer \in Seq(ByteSet)
      BY DEF CommandsInv
    <3>2. sendBuffer \o PacketOf(n) \in Seq(ByteSet)
      BY <1>3, <3>1, BytesConcatenable DEF Concatenable
    <3>3. sent \o (sendBuffer \o PacketOf(n)) = (sent \o sendBuffer) \o PacketOf(n)
      BY <1>3, <3>1, BytesConcatenable
    <3> QED
      BY <1>3, <1>4, <1>5, <1>6, <3>2, <3>3
  <2> QED
    BY <1>2, <1>4, <1>5, <1>6, <2>1 DEF CommandsInv, CommandsGoOut, InLoop
<1>7. CASE ObeyHere
  <2>1. PacketOf(n) = <<>> /\ sendBuffer' = sendBuffer /\ (main' = "lines" => why' = "None")
    BY <1>1, <1>7 DEF ObeyHere, Obey, PacketOf, tcpVars, buffers
  <2>2. sendBuffer \o <<>> = sendBuffer
    BY ConcatEmptySeq DEF CommandsInv
  <2> QED
    BY <1>6, <2>1, <2>2
<1>8. CASE ObeySend /\ CanSend(Command.size)
  <2>1. PacketOf(n) = Bytes(n, Script[n].size)
    BY <1>1, <1>8 DEF ObeySend, PacketOf
  <2>2. sendBuffer' = sendBuffer \o Bytes(n, Script[n].size) /\ (main' = "lines" => why' = "None")
    BY <1>1, <1>8 DEF ObeySend, Obey, SendPacket
  <2> QED
    BY <1>6, <2>1, <2>2
<1>9. CASE ObeySend /\ ~CanSend(Command.size)
  <2>1. why' = "CannotSend" /\ main' = "disconnect" /\ sendBuffer' = sendBuffer
    BY <1>9 DEF ObeySend, Obey, tcpVars, buffers
  <2> QED
    BY <1>2, <1>4, <2>1 DEF CommandsInv, CommandsGoOut, InLoop
<1> QED
  BY <1>7, <1>8, <1>9

\* Steps that touch neither the buffer, what was sent nor the lines obeyed, and do not enter
\* the loop.
LEMMA QuietCommands ==
  ASSUME CommandsInv, UNCHANGED <<sent, sendBuffer, obeyed, open>>,
         \/ UNCHANGED <<main, why>>
         \/ main \in InLoop /\ main' \in InLoop /\ UNCHANGED why
         \/ main \in InLoop /\ main' = "disconnect" /\ why' # "CannotSend"
         \/ main \notin InLoop /\ main' \in {"waiting", "joining", "ended"} /\ ~open /\ UNCHANGED why
  PROVE  CommandsInv'
<1>1. CommandsGoOut => sent' \o sendBuffer' = PacketsOf(obeyed') \/ ~(open' /\ why # "CannotSend")
  BY DEF CommandsGoOut
<1>2. CommandsGoOut /\ (why = "CannotSend" => why' = "CannotSend" \/ ~open') => CommandsGoOut'
  BY <1>1 DEF CommandsGoOut
<1>3. CASE UNCHANGED <<main, why>>
  BY <1>2, <1>3 DEF CommandsInv, InLoop
<1>4. CASE main \in InLoop /\ main' \in InLoop /\ UNCHANGED why
  BY <1>2, <1>4 DEF CommandsInv, InLoop
<1>5. CASE main \in InLoop /\ main' = "disconnect" /\ why' # "CannotSend"
  BY <1>2, <1>5 DEF CommandsInv, InLoop
<1>6. CASE main \notin InLoop /\ main' \in {"waiting", "joining", "ended"} /\ ~open /\ UNCHANGED why
  BY <1>2, <1>6 DEF CommandsInv, InLoop
<1> QED
  BY <1>3, <1>4, <1>5, <1>6

\* Nothing is sent for no line.
LEMMA NothingToSend == <<>> \o <<>> = PacketsOf(<<>>)
BY DEF PacketsOf, FlattenSeq

\* At the start nothing is sent or obeyed.
LEMMA InitCommands == Init => CommandsInv
<1> SUFFICES ASSUME Init PROVE CommandsInv
  OBVIOUS
<1>1. /\ sent = <<>> /\ sendBuffer = <<>> /\ obeyed = <<>>
      /\ main = "connect" /\ why = "None" /\ ~open
  BY DEF Init, TcpInit
<1> QED
  BY <1>1, EmptySeq DEF CommandsInv, CommandsGoOut, InLoop

\* Every step of the client keeps it.
LEMMA NextCommands == LinesFollow /\ CommandsInv /\ [Next]_vars => CommandsInv'
<1> SUFFICES ASSUME LinesFollow, CommandsInv, [Next]_vars PROVE CommandsInv'
  OBVIOUS
<1>1. CASE ConnectSucceeds
  <2>1. /\ main = "connect" /\ main' = "lines" /\ open' = TRUE
        /\ UNCHANGED <<sent, sendBuffer, obeyed, why>>
    BY <1>1 DEF ConnectSucceeds, Connect, Go, network
  <2>2. sent = <<>> /\ sendBuffer = <<>> /\ obeyed = <<>> /\ why = "None"
    BY <2>1 DEF CommandsInv
  <2> QED
    BY <2>1, <2>2, NothingToSend, EmptySeq DEF CommandsInv, CommandsGoOut, InLoop
<1>2. CASE ObeyHere \/ ObeySend
  BY <1>2, ObeyCommands
<1>3. CASE Flush
  <2>1. PICK k \in 0..Len(sendBuffer) : FlushSend(k)
    BY <1>3 DEF Flush
  <2>2. /\ sent' \in Seq(ByteSet) /\ sendBuffer' \in Seq(ByteSet)
        /\ sent' \o sendBuffer' = sent \o sendBuffer
    BY <2>1, FlushCommands
  <2>3. main \in InLoop /\ main' = "packets" /\ UNCHANGED <<obeyed, why, open>>
    BY <1>3, <2>1 DEF Flush, ReceivedAll, NothingToReceive, FlushSend, Go, InLoop
  <2> QED
    BY <2>2, <2>3 DEF CommandsInv, CommandsGoOut, InLoop
<1>4. CASE Stop
  <2>1. /\ main' = "waiting" /\ ~open' /\ UNCHANGED <<sent, obeyed>> /\ sendBuffer' = <<>>
    BY <1>4 DEF Stop, Disconnect, Go
  <2> QED
    BY <2>1, EmptySeq DEF CommandsInv, CommandsGoOut, InLoop
<1>5. CASE RunFails \/ CutFails \/ FlushError
  <2>1. main \in InLoop /\ main' = "disconnect" /\ UNCHANGED <<sent, sendBuffer, obeyed, open>>
    BY <1>5 DEF RunFails, CutFails, FlushError, FlushFails, ReceivedAll, NothingToReceive, Leave,
                tcpVars, buffers, network, InLoop
  <2>2. why' # "CannotSend"
    BY <1>5 DEF RunFails, CutFails, FlushError, Leave, ReceiveFailure, Refusal
  <2> QED
    BY <2>1, <2>2, QuietCommands
<1>6. CASE TestFinished \/ HandlePacket
  <2>1. /\ main \in InLoop /\ UNCHANGED <<sent, sendBuffer, obeyed, open>>
        /\ \/ main' \in InLoop /\ UNCHANGED why
           \/ main' = "disconnect" /\ why' # "CannotSend"
    BY <1>6 DEF TestFinished, HandlePacket, TryPopPacket, Leave, Go, tcpVars, buffers, network, InLoop
  <2> QED
    BY <2>1, QuietCommands
<1>7. CASE NoLine \/ RunReceives \/ CutPacket \/ NoPacket
  <2>1. /\ main \in InLoop /\ main' \in InLoop /\ UNCHANGED <<sent, sendBuffer, obeyed, open, why>>
    BY <1>7 DEF NoLine, RunReceives, CutPacket, NoPacket, Receive, PushPacket, NoMorePackets, Go,
                tcpVars, buffers, network, mainVars, InLoop
  <2> QED
    BY <2>1, QuietCommands
<1>8. CASE ConnectFails \/ CancelReader \/ ReaderGone \/ Join
  <2>1. /\ main \notin InLoop /\ main' \in {"waiting", "joining", "ended"} /\ ~open
        /\ UNCHANGED <<sent, sendBuffer, obeyed, open, why>>
    BY <1>8 DEF ConnectFails, CancelReader, ReaderGone, Join, Go, tcpVars, buffers, network,
                mainVars, InLoop, CommandsInv
  <2> QED
    BY <2>1, QuietCommands
<1>9. CASE Network \/ Reader \/ UserTypes \/ UserCloses \/ UNCHANGED vars
  <2>1. UNCHANGED <<sent, sendBuffer, obeyed, open, main, why>>
    BY <1>9 DEF Network, Deliver, LinkEnds, Reader, UserTypes, UserCloses, vars, tcpVars, buffers,
                network, mainVars
  <2> QED
    BY <2>1, QuietCommands
<1> QED
  BY <1>1, <1>2, <1>3, <1>4, <1>5, <1>6, <1>7, <1>8, <1>9 DEF Next, Main

\* However little each send takes, what was sent and what waits to be sent are the packets of
\* the commands obeyed, in order and to the byte (SendPacket and FlushSend,
\* TcpClient.cpp:143 and :262).
THEOREM CommandsAreSent == Spec => []CommandsGoOut
<1>1. CommandsInv => CommandsGoOut
  BY DEF CommandsInv
<1> QED
  BY <1>1, InitLines, NextLines, InitCommands, NextCommands, PTL DEF Spec
================================================================================
