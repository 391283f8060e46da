----------------------------- MODULE MCTcpNetwork -----------------------------
(***************************************************************************)
(* TcpNetwork on small instances.  Bytes are few: a header has two, a      *)
(* packet at most three, and one recv takes up to four.                    *)
(***************************************************************************)
EXTENDS TcpNetwork, SequencesExt

\* The bytes of packets whose headers claim these sizes.
StreamOf(sizes) ==
  FlattenSeq([p \in DOMAIN sizes |->
    [i \in 1..(IF sizes[p] < HeaderSize THEN HeaderSize ELSE sizes[p]) |->
      [packet |-> p, at |-> i, size |-> sizes[p]]]])

\* Two whole packets; one, then a header that claims too much; a header that claims
\* less than itself.
SomeStreams == {StreamOf(<<2, 2>>), StreamOf(<<3, 4>>), StreamOf(<<1>>)}
===============================================================================
