----------------------------- MODULE MC_ReqRep ------------------------------
(***************************************************************************)
(* Two clients and two servers, and the connections between them that a    *)
(* scenario uses: one client and one server with a connection made twice,  *)
(* one client of two servers, two clients of one server.                   *)
(***************************************************************************)
EXTENDS ReqRep, TLC

CONSTANTS c1, c2, s1, s2, k1, k2, k3, k4

MCClients == {c1, c2}
MCServers == {s1, s2}
MCConns == {k1, k2, k3, k4}
MCClientOf == k1 :> c1 @@ k2 :> c1 @@ k3 :> c1 @@ k4 :> c2
MCServerOf == k1 :> s1 @@ k2 :> s1 @@ k3 :> s2 @@ k4 :> s1

Opt(conns, n, parts, whole, timeo, cancels, breaks, stops) ==
    [conns |-> conns, requests |-> n, parts |-> parts, whole |-> whole, timeo |-> timeo,
     cancels |-> cancels, breaks |-> breaks, stops |-> stops]

(* A connection that is lost and made again.                               *)
Again == {Opt({k1, k2}, 2, 1, w, FALSE, FALSE, {k1}, FALSE) : w \in BOOLEAN}
(* A client that is closed.                                                *)
Closed == {Opt({k1}, 2, 1, w, FALSE, FALSE, {}, TRUE) : w \in BOOLEAN}
(* Receives that time out or are dropped, with replies of two frames.      *)
Late == {Opt({k1}, 3, 2, w, t, ~t, {}, FALSE) : w \in BOOLEAN, t \in BOOLEAN}
(* A client of two servers.                                                *)
Two == {Opt({k1, k3}, 2, 2, FALSE, FALSE, FALSE, {k3}, FALSE),
        Opt({k1, k3}, 2, 1, FALSE, TRUE, FALSE, {}, FALSE)}
(* A server of two clients.                                                *)
Shared == {Opt({k1, k4}, 2, 1, FALSE, FALSE, FALSE, {}, FALSE)}

MCScenarios == Again \cup Closed \cup Late \cup Two \cup Shared
=============================================================================
