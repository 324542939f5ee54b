------------------------- MODULE MCReliableProtocol -------------------------
(***************************************************************************)
(* Instances of ReliableProtocol for TLC.  A datagram once sent stays in    *)
(* net, so the runs bound how many different ones there are; the behaviours *)
(* cut off are those in which the network holds on to more.                 *)
(***************************************************************************)
EXTENDS ReliableProtocol, TLC

CONSTANT MaxMessages    \* bound on the datagrams in the network

MessageBound == Cardinality(net) <= MaxMessages

\* Instances and application threads are interchangeable.
Symmetric == Permutations(Keys) \cup Permutations(Threads)
=============================================================================
