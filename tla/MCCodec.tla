-------------------------------- MODULE MCCodec --------------------------------
(***************************************************************************)
(* The codecs over bytes below 8, enough for every value of the            *)
(* enumerations of games; results end at 2, names and titles have up to    *)
(* three bytes.  A message is as long as Base at most, as it is in the code *)
(* (256), which is the one length that needs its first byte.               *)
(***************************************************************************)
EXTENDS Codec

\* 0, one byte, the full board, and a carry into the first byte.
SomeWords == {0, 1, Cells, Base + 2}
SomeTexts == {<<>>, <<1>>, <<2>>, <<1, 0>>, <<1, 0, 2>>}
\* Up to the limit and one more: the last length below Base, Base itself, and too long.
SomeMessages == {[i \in 1..n |-> i % 3] : n \in {0, 1, 2, Base - 1, Base, Base + 1}}
================================================================================
