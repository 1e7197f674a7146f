----------------------------- MODULE MC_Router -----------------------------
(* Three connections.  k1 and k2 are made one after the other with one URI *)
(* and lead to the same peer; k3 has a URI of its own.                     *)
EXTENDS Router

CONSTANTS k1, k2, k3, ida, idb, ua, ub, w1, w2, p1

MCUri == (k1 :> ua) @@ (k2 :> ua) @@ (k3 :> ub)
MCType == (k1 :> "DEALER") @@ (k2 :> "DEALER") @@ (k3 :> "REQ")
MCId == (k1 :> ida) @@ (k2 :> ida) @@ (k3 :> idb)

Base == [conns |-> {k1, k3}, tasks |-> Tasks, id |-> MCId, messages |-> 1,
         manual |-> FALSE, faults |-> FALSE, breaks |-> FALSE]

(* Writes that fail or are dropped: two messages of each task to one peer, *)
(* of one task to two peers, and one message of each of three tasks.       *)
Twice == {[Base EXCEPT !.faults = TRUE, !.tasks = {w1, p1}, !.conns = {k1}, !.messages = 2],
          [Base EXCEPT !.faults = TRUE, !.tasks = {p1}, !.messages = 2]}
Faulty == {[Base EXCEPT !.faults = TRUE, !.manual = b] : b \in BOOLEAN}
(* A peer that goes away and comes back under its URI.                     *)
Again == {[Base EXCEPT !.conns = {k1, k2}, !.breaks = TRUE]}
(* Two peers that may go, one of them without an identity, and two that    *)
(* claim one identity.                                                     *)
Anonymous == {[Base EXCEPT !.breaks = TRUE, !.tasks = {w1, p1}, !.id[k3] = k3]}
Rivals == {[Base EXCEPT !.breaks = TRUE, !.tasks = {w1, p1}, !.id[k3] = ida]}
(* Three connections, of which two share a URI and two an identity.        *)
Three == {[Base EXCEPT !.conns = Conns, !.breaks = TRUE, !.tasks = {w1}, !.messages = 2,
                       !.id[k2] = idb]}

MCScenarios == Twice \cup Faulty \cup Again \cup Anonymous \cup Rivals \cup Three
Symmetric == Permutations(Whole)
=============================================================================
