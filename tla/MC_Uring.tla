------------------------------- MODULE MC_Uring -------------------------------
(* Scenarios for UringWorker: connections that shake hands in every way,   *)
(* a descriptor number that is used again, two busy connections, and peers *)
(* that do not read.                                                       *)
EXTENDS UringWorker

Cfg(srv, mech, multi) ==
    [srv |-> srv, mech |-> mech, multi |-> multi, zc |-> FALSE, allow_zmtp2 |-> TRUE,
     ivl |-> FALSE, big |-> 0, slow |-> FALSE, peer |-> "v3", data |-> <<>>, sends |-> 0,
     ends |-> FALSE, shut |-> FALSE, stops |-> FALSE]
Closed(cfg) == [cfg |-> cfg, fd |-> 0]
Open(cfg, fd) == [cfg |-> cfg, fd |-> fd]
FromPeer(n) == [i \in 1..n |-> Unit("msg", i)]

On(fds, conns) == [fds |-> fds, conns |-> conns]

(* One connection, from its registration on.                               *)
Handshakes ==
    {On({3}, <<Closed([Cfg(srv, mech, multi) EXCEPT !.data = FromPeer(2), !.sends = 1])>>) :
        srv \in BOOLEAN, mech \in {"NULL", "PLAIN", "NOISE_XX"}, multi \in BOOLEAN}
Queued ==
    {On({3}, <<Closed([Cfg(srv, "NULL", multi) EXCEPT !.sends = 3])>>) :
        srv \in BOOLEAN, multi \in BOOLEAN}
OldPeers ==
    {On({3}, <<Closed([Cfg(srv, "NULL", FALSE) EXCEPT !.peer = peer, !.allow_zmtp2 = allow,
                  !.data = FromPeer(1), !.sends = 1, !.ends = TRUE])>>) :
        srv \in BOOLEAN, peer \in {"v2", "v2bad", "old", "other"}, allow \in BOOLEAN}

(* A connection that ends, and another that gets its number.               *)
Reuse ==
    {On({3}, <<Open([Cfg(FALSE, "NULL", multi) EXCEPT !.sends = 1, !.ends = TRUE, !.shut = ~multi], 3),
               Closed(Cfg(TRUE, "NULL", multi))>>) :
        multi \in BOOLEAN}

(* Traffic: zero copy, heartbeats, commands, and more work than a turn has *)
(* a budget for.                                                           *)
Traffic ==
    {On({3}, <<Open([Cfg(multi, "NULL", multi) EXCEPT !.zc = zc, !.sends = 2, !.data = data,
                        !.ivl = ~zc, !.shut = data # FromPeer(2), !.stops = zc /\ data = FromPeer(2)], 3)>>) :
        multi \in BOOLEAN, zc \in BOOLEAN,
        data \in {FromPeer(2), <<Unit("PING", 0)>> \o FromPeer(1)}}
Refusals ==
    {On({3}, <<Open([Cfg(FALSE, "NULL", FALSE) EXCEPT !.peer = peer, !.sends = 1,
                        !.data = <<Unit(t, 0)>>], 3)>>) :
        peer \in {"v2", "v3"}, t \in {"ERROR", "PING"}}
Burst ==
    {On({3, 4}, <<Open([Cfg(FALSE, "NULL", multi) EXCEPT !.sends = 2, !.zc = TRUE], 3),
                  Open([Cfg(TRUE, "NULL", multi) EXCEPT !.sends = 1, !.data = FromPeer(2)], 4)>>) :
        multi \in BOOLEAN}

(* A message that cannot be framed, with another one behind it.            *)
Oversized ==
    {On({3}, <<Open([Cfg(srv, "NOISE_XX", multi) EXCEPT !.sends = 2, !.big = 1], 3)>>) :
        srv \in BOOLEAN, multi \in BOOLEAN}
(* A peer that reads slowly.                                               *)
Slow ==
    {On({3}, <<Open([Cfg(srv, "NULL", srv) EXCEPT !.sends = 3, !.zc = zc, !.slow = TRUE,
                        !.data = IF zc THEN <<>> ELSE <<Unit("PING", 0)>>], 3)>>) :
        srv \in BOOLEAN, zc \in BOOLEAN}

MCScenarios ==
    UNION {Oversized, Slow, Handshakes, Queued, OldPeers, Reuse, Traffic, Refusals, Burst}
=============================================================================
