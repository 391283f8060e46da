----------------------------- MODULE MCChatClient -----------------------------
(***************************************************************************)
(* The client on a small instance.  A header has one byte, a packet at     *)
(* most two, and one recv takes up to two; the limits of the receive       *)
(* buffer and of the packet queue stand to these exactly as in the code.   *)
(***************************************************************************)
EXTENDS ChatClient

Line(kind, size, length) == [kind |-> kind, size |-> size, length |-> length]

\* Two commands that send, too much together if nothing leaves in between, and one that quits.
SomeScript == <<Line("send", 2, 2), Line("send", 1, 1), Line("quit", 0, 1)>>

\* Two whole packets, the second of which the client refuses, then a wrong header.
SomeStream == Bytes(1, 2) \o Bytes(2, 1) \o <<[packet |-> 3, at |-> 1, size |-> 3]>>
================================================================================
