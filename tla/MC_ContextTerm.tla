---------------------------- MODULE MC_ContextTerm ----------------------------
(* A socket, a child of it, and two concurrent calls of term().            *)
EXTENDS ContextTerm

CONSTANTS s1, c1

MC_Sockets == {s1}
MC_Users == {s1, c1}
MC_Parent == [c \in {c1} |-> s1]
=============================================================================
