----------------------------- MODULE MC_PubSub -----------------------------
(* Two connections, made one after the other with one URI or side by side. *)
EXTENDS PubSub, TLC

CONSTANTS ta, tb, k1, k2, u1, s1, s2, p1, p2

MCTopics == {<<>>, <<ta>>, <<ta, tb>>}
MCMessages == {<<ta, tb>>}
MCUri == (k1 :> u1) @@ (k2 :> u1)

Base == [conns |-> {k1}, attached |-> {k1}, subscribers |-> {s1, s2}, publishers |-> {},
         calls |-> 2, sends |-> 0, breaks |-> FALSE, faults |-> FALSE]

(* Two tasks subscribe and unsubscribe while a publisher is attached.      *)
Attach == {[Base EXCEPT !.attached = {}, !.faults = f] : f \in BOOLEAN}
(* ... while a message is matched.                                         *)
Match == {[Base EXCEPT !.publishers = {p1}, !.sends = 1]}
(* Subscribers of a publisher that go and come back; two tasks publish.    *)
Again == {[Base EXCEPT !.conns = {k1, k2}, !.publishers = {p1, p2}, !.sends = 2,
                       !.subscribers = {}, !.breaks = TRUE, !.faults = TRUE]}
Resync == {[Base EXCEPT !.conns = {k1, k2}, !.subscribers = {s1}, !.breaks = TRUE]}

MCScenarios == Attach \cup Match \cup Again \cup Resync
Symmetric == Permutations(Subscribers) \cup Permutations(Publishers)
=============================================================================
