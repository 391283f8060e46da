------------------------------- MODULE INetwork -------------------------------
(***************************************************************************)
(* What the users of INetwork rely on, whatever implements it: the story   *)
(* told of each session by TryPopEvent is Connected, then its packets in   *)
(* the order it sent them, none left out and none twice, then Disconnected *)
(* and nothing more; and a session id is given once.                       *)
(***************************************************************************)
EXTENDS Naturals, Sequences

CONSTANT MaxSessionId

VARIABLES
  connected,      \* the sessions IsConnected is true of
  told,           \* the events TryPopEvent has returned, for each session
  lastSessionId

SessionIds == 1..MaxSessionId

ConnectedNote    == [type |-> "Connected", packet |-> 0]
PacketNote(n)    == [type |-> "Packet", packet |-> n]
DisconnectedNote == [type |-> "Disconnected", packet |-> 0]

Init ==
  /\ connected = {}
  /\ told = [s \in SessionIds |-> <<>>]
  /\ lastSessionId = 0

Connect ==
  /\ lastSessionId < MaxSessionId
  /\ lastSessionId' = lastSessionId + 1
  /\ connected' = connected \cup {lastSessionId'}
  /\ UNCHANGED told

\* Lost to the peer, to an error, or to Disconnect or Release.
Lose(S) ==
  /\ connected' = connected \ S
  /\ UNCHANGED <<told, lastSessionId>>

Ended(s) == told[s] # <<>> /\ told[s][Len(told[s])] = DisconnectedNote

\* The story of s so far has one note for Connected and one for each packet.
NextNotes(s) ==
  IF told[s] = <<>> THEN {ConnectedNote}
  ELSE IF Ended(s) THEN {}
  ELSE {PacketNote(Len(told[s]))} \cup (IF s \in connected THEN {} ELSE {DisconnectedNote})

TellOf(s) ==
  /\ s <= lastSessionId
  /\ \E note \in NextNotes(s) : told' = [told EXCEPT ![s] = Append(@, note)]
  /\ UNCHANGED <<connected, lastSessionId>>

Next ==
  \/ Connect
  \/ \E S \in SUBSET connected : Lose(S)
  \/ \E s \in SessionIds : TellOf(s)

Spec == Init /\ [][Next]_<<connected, told, lastSessionId>>
===============================================================================
