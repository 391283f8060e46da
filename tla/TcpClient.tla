------------------------------- MODULE TcpClient -------------------------------
(***************************************************************************)
(* TcpClient: the client's end of its one connection.  Its methods are     *)
(* here as parts of actions; ChatClient.tla calls them in the order of the *)
(* client's main loop.  A method that returns false has its own operator,  *)
(* and leaves its buffers to the Disconnect that follows.                  *)
(*                                                                         *)
(* A byte is named as in TcpNetwork.tla: by its packet, its place there    *)
(* and the size that packet's header claims.                               *)
(***************************************************************************)
EXTENDS Naturals, Sequences

CONSTANTS
  HeaderSize, MaxPacketSize,   \* HEADER_SIZE, MAX_PACKET_SIZE
  RecvChunk,                   \* the bytes one recv takes at most
  MaxRecvBuffer, MaxSendBuffer, MaxPendingPackets   \* the limits in TcpClient.h

\* The limits are chosen so that one recv always fits: 2 * 4096 bytes take the 4095 of
\* an incomplete packet and 4096 more, and 4096 bytes hold at most 1024 packets.
ASSUME ClientLimits ==
  /\ HeaderSize \in Nat \ {0} /\ MaxPacketSize \in Nat /\ HeaderSize <= MaxPacketSize
  /\ RecvChunk \in Nat \ {0}
  /\ MaxRecvBuffer \in Nat /\ MaxRecvBuffer >= MaxPacketSize - 1 + RecvChunk
  /\ MaxSendBuffer \in Nat
  /\ MaxPendingPackets \in Nat /\ MaxPendingPackets * HeaderSize >= RecvChunk

VARIABLES
  open,         \* m_socket # INVALID_SOCKET
  recvBuffer,   \* m_recvBuffer
  sendBuffer,   \* m_sendBuffer
  packets,      \* m_packets, by their numbers
  link,         \* the connection: "up", "closed" by the server, or "broken"
  toCome,       \* what the server has still to send
  arrived,      \* what has arrived and was not received yet
  sent          \* all that send has taken

\* What only the methods of TcpClient change, and what belongs to the network.
buffers == <<open, recvBuffer, sendBuffer, packets>>
network == <<link, toCome, arrived, sent>>
tcpVars == <<buffers, network>>

Min2(a, b) == IF a < b THEN a ELSE b

From(seq, n) == SubSeq(seq, n, Len(seq))

\* The bytes of a packet.
Bytes(packet, size) == [i \in 1..size |-> [packet |-> packet, at |-> i, size |-> size]]

TcpInit(stream) ==
  /\ open = FALSE
  /\ recvBuffer = <<>> /\ sendBuffer = <<>> /\ packets = <<>>
  /\ link = "up" /\ toCome = stream /\ arrived = <<>> /\ sent = <<>>

-----------------------------------------------------------------------------

\* Connect, when it succeeds; otherwise it has called Disconnect.
Connect == open' = TRUE /\ UNCHANGED <<recvBuffer, sendBuffer, packets, network>>

Disconnect ==
  /\ open' = FALSE
  /\ recvBuffer' = <<>> /\ sendBuffer' = <<>> /\ packets' = <<>> /\ arrived' = <<>>
  /\ UNCHANGED <<link, toCome, sent>>

CanSend(size) ==
  /\ open
  /\ size <= MaxPacketSize
  /\ Len(sendBuffer) + size <= MaxSendBuffer

SendPacket(packet, size) ==
  /\ CanSend(size)
  /\ sendBuffer' = sendBuffer \o Bytes(packet, size)
  /\ UNCHANGED <<open, recvBuffer, packets, network>>

TryPopPacket ==
  /\ packets # <<>>
  /\ packets' = Tail(packets)
  /\ UNCHANGED <<open, recvBuffer, sendBuffer, network>>

-----------------------------------------------------------------------------
(* Receive, up to ProcessRecvBuffer *)

Received == Min2(Len(arrived), RecvChunk)

Overflows == Len(recvBuffer) + Received > MaxRecvBuffer

\* Why Receive gives up before it looks at the bytes.
ReceiveFailure ==
  CASE link = "broken"                     -> "RecvFailed"
    [] link # "broken" /\ arrived # <<>>   -> IF Overflows THEN "BufferFull" ELSE "None"
    [] link = "closed" /\ arrived = <<>>   -> "ServerClosed"
    [] OTHER                               -> "None"

\* Nothing is received if recv would block.
Receive ==
  /\ ReceiveFailure = "None"
  /\ recvBuffer' = recvBuffer \o SubSeq(arrived, 1, Received)
  /\ arrived' = From(arrived, Received + 1)
  /\ UNCHANGED <<open, sendBuffer, packets, link, toCome, sent>>

-----------------------------------------------------------------------------
(* ProcessRecvBuffer, packet by packet.  The bytes readPos has passed are   *)
(* taken off at once.                                                       *)

HasHeader == Len(recvBuffer) >= HeaderSize

\* The length field, or some bytes of a body read as one: see TcpNetwork.tla.
TotalSize == IF recvBuffer[1].at = 1 THEN recvBuffer[1].size ELSE 0

ValidSize == TotalSize \in HeaderSize..MaxPacketSize
IsWhole   == HasHeader /\ ValidSize /\ Len(recvBuffer) >= TotalSize

QueueFull_OneEarly == Len(packets) + 1 >= MaxPendingPackets

QueueFull == Len(packets) >= MaxPendingPackets

\* Why ProcessRecvBuffer gives up on the bytes it has.
Refusal ==
  CASE HasHeader /\ ~ValidSize -> "InvalidSize"
    [] IsWhole /\ QueueFull    -> "QueueFull"
    [] OTHER                   -> "None"

PushPacket ==
  /\ IsWhole /\ Refusal = "None"
  /\ packets' = Append(packets, recvBuffer[1].packet)
  /\ recvBuffer' = From(recvBuffer, TotalSize + 1)
  /\ UNCHANGED <<open, sendBuffer, network>>

NoMorePackets == ~IsWhole /\ Refusal = "None"

-----------------------------------------------------------------------------
(* FlushSend *)

\* The k bytes send takes leave the buffer: none if it would block or was not called.
FlushSend_AsIfAll(k) ==
  /\ k \in 0..Len(sendBuffer) /\ (k > 0 => link # "broken")
  /\ sent' = sent \o SubSeq(sendBuffer, 1, k)
  /\ sendBuffer' = <<>>
  /\ UNCHANGED <<open, recvBuffer, packets, link, toCome, arrived>>

FlushSend(k) ==
  /\ k \in 0..Len(sendBuffer) /\ (k > 0 => link # "broken")
  /\ sent' = sent \o SubSeq(sendBuffer, 1, k)
  /\ sendBuffer' = From(sendBuffer, k + 1)
  /\ UNCHANGED <<open, recvBuffer, packets, link, toCome, arrived>>

\* The connection is gone; once the server has closed its end, send may also fail.
FlushFails == link # "up" /\ UNCHANGED tcpVars

-----------------------------------------------------------------------------
(* The network and the server at its other end *)

\* One byte more arrives; more than one come one after the other.
Deliver ==
  /\ open /\ link = "up" /\ toCome # <<>>
  /\ arrived' = Append(arrived, Head(toCome))
  /\ toCome' = Tail(toCome)
  /\ UNCHANGED <<buffers, link, sent>>

\* The server closes its end, or the connection breaks: what is still to come never does,
\* and of a broken connection what has arrived is not received either.
LinkEnds(how) ==
  /\ open /\ link = "up" /\ link' = how
  /\ UNCHANGED <<buffers, toCome, arrived, sent>>
================================================================================
