---------------------------- MODULE MC_SocketCore ----------------------------
(* The URIs of the connections, one for each.                              *)
EXTENDS SocketCore

DistinctUri == [c \in Conns |-> c]
=============================================================================
