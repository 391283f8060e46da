------------------------------ MODULE IChatClient ------------------------------
(***************************************************************************)
(* What the client's user and its server rely on: while the client runs,   *)
(* it obeys the lines typed and handles the packets sent to it, each once, *)
(* whole, and in order; a line to quit and a packet it cannot accept end   *)
(* it, and once it has ended it does neither.                              *)
(***************************************************************************)
EXTENDS Naturals, Sequences

CONSTANTS
  Quits,      \* the numbers of the lines that say quit
  Refused     \* the numbers of the packets ProcessResponse returns false for

VARIABLES obeyed, handled, running

Init == obeyed = <<>> /\ handled = <<>> /\ running = TRUE

Obey ==
  /\ running
  /\ obeyed' = Append(obeyed, Len(obeyed) + 1)
  /\ running' \in (IF Len(obeyed) + 1 \in Quits THEN {FALSE} ELSE BOOLEAN)
  /\ UNCHANGED handled

Handle ==
  /\ running
  /\ handled' = Append(handled, Len(handled) + 1)
  /\ running' = (Len(handled) + 1 \notin Refused)
  /\ UNCHANGED obeyed

End == running /\ running' = FALSE /\ UNCHANGED <<obeyed, handled>>

Next == Obey \/ Handle \/ End

Spec == Init /\ [][Next]_<<obeyed, handled, running>>
================================================================================
