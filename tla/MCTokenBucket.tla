--------------------------- MODULE MCTokenBucket ---------------------------
(* Values for TokenBucket: a packet is a number, and so many bytes long.      *)
EXTENDS TokenBucket

Lengths == [p \in Packets |-> p]
=============================================================================
