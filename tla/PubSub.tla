------------------------------- MODULE PubSub -------------------------------
(***************************************************************************)
(* A PUB and a SUB socket and the connections between them: the            *)
(* Distributor of the first, the SubscriptionTrie of the second, and the   *)
(* subscription commands the second sends to the publishers it knows.      *)
(*                                                                         *)
(* PUB ignores the commands and sends every message to every peer; what a  *)
(* publisher that filters would make of them is kept for each connection.  *)
(* SUB filters by its trie, a node at a time.                              *)
(***************************************************************************)
EXTENDS Naturals, Sequences, SequencesExt, FiniteSets

CONSTANTS Conns,
          UriOf,           \* [Conns -> URIs], at both ends
          Topics,          \* sequences of bytes, closed under prefix
          Messages,        \* the topics of messages
          Subscribers, Publishers,     \* tasks that use SUB, PUB
          Modulus,         \* bound: the counters of the trie wrap here (2^64)
          Scenarios

ASSUME ScenarioAssumption ==
    /\ \A x \in Topics : Prefixes(x) \subseteq Topics
    /\ \A s \in Scenarios :
          /\ s.conns \subseteq Conns /\ s.attached \subseteq s.conns
          /\ s.subscribers \subseteq Subscribers /\ s.publishers \subseteq Publishers
          /\ {s.calls, s.sends} \subseteq 0..(Modulus - 1)  \* bounds, for each task
          /\ {s.breaks, s.faults} \subseteq BOOLEAN

VARIABLES cfg,
          trie,        \* SubscriptionTrie: the nodes and their counters
          conn,        \* a connection, as both sockets see it
          task,        \* calls of SUBSCRIBE and UNSUBSCRIBE
          peers,       \* Distributor.peer_uris
          pub,         \* calls of PubSocket::send
          subs,        \* the subscriptions the calls amount to
          excused      \* [wrapped, broken: topics, ahead: <<connection, topic>>]

vars == <<cfg, trie, conn, task, peers, pub, subs, excused>>

Idle == [at |-> "idle", x |-> <<>>, uris |-> {}, failed |-> {}]
NoReader == [at |-> "idle", x |-> <<>>, i |-> 0, ever |-> FALSE, stay |-> {}]

Init ==
    /\ cfg \in Scenarios
    /\ trie = [nodes |-> {<<>>}, count |-> [x \in Topics |-> 0]]
    /\ conn = [k \in Conns |->
                [at |-> IF k \in cfg.attached THEN "ready" ELSE "new",
                 pub |-> IF k \in cfg.attached THEN "attached" ELSE "new", open |-> TRUE,
                 todo |-> <<>>, topics |-> <<>>, told |-> {}, wire |-> <<>>,
                 reader |-> NoReader]]
    /\ task = [t \in Subscribers |-> [calls |-> 0, call |-> Idle]]
    /\ peers = {UriOf[k] : k \in cfg.attached}
    /\ pub = [p \in Publishers |-> [sends |-> 0, call |-> Idle]]
    /\ subs = [x \in Topics |-> 0]
    /\ excused = [wrapped |-> {}, broken |-> {}, ahead |-> {}]

Mapped == {k \in cfg.conns : conn[k].at \in {"collect", "sync", "ready", "gone"}}
Endpoint(u) == {k \in cfg.conns : UriOf[k] = u /\ conn[k].at \in {"collect", "sync", "ready"}}

(* The core attaches and detaches one connection at a time.                *)
CoreFree == \A k \in cfg.conns : conn[k].at \notin {"collect", "sync", "gone"}

-----------------------------------------------------------------------------
(* Readers that are in the middle of matches() see the subscriptions       *)
(* change: ever: some subscription matched at some moment; stay: the       *)
(* matching ones that were there all the time.                             *)

Covering(b, x) == {y \in Prefixes(x) \cap Topics : b[y] > 0}

Watch(c, b) ==
    [k \in Conns |->
       LET r == c[k].reader
           now == Covering(b, r.x)
       IN  IF r.at = "idle" THEN c[k]
           ELSE [c[k] EXCEPT !.reader.ever = @ \/ now # {}, !.reader.stay = @ \cap now]]

(* matches(): the root, then every node on the way, each looked at alone.  *)
read(k) ==
    LET x == Head(conn[k].wire)
        now == Covering(subs, x)
    IN  /\ conn[k].at \in {"collect", "sync", "ready", "gone"}
        /\ conn[k].reader.at = "idle"
        /\ conn[k].wire # <<>>
        /\ conn' = [conn EXCEPT ![k].wire = Tail(@),
                      ![k].reader = [at |-> "root", x |-> x, i |-> 0, ever |-> now # {},
                                     stay |-> now]]
        /\ UNCHANGED <<cfg, trie, task, peers, pub, subs, excused>>

(* Mutant: the nodes on the way count for nothing, only the last does.     *)
matches_last(k) ==
    LET r == conn[k].reader
        next == SubSeq(r.x, 1, r.i + 1)
    IN  /\ r.at \in {"root", "walk"}
        /\ conn' = [conn EXCEPT ![k].reader =
              IF r.i = Len(r.x)
              THEN [r EXCEPT !.at = IF trie.count[r.x] > 0 THEN "matched" ELSE "dropped"]
              ELSE IF next \in trie.nodes THEN [r EXCEPT !.at = "walk", !.i = @ + 1]
              ELSE [r EXCEPT !.at = "dropped"]]
        /\ UNCHANGED <<cfg, trie, task, peers, pub, subs, excused>>

matches(k) ==
    LET r == conn[k].reader
        node == SubSeq(r.x, 1, r.i)
        next == SubSeq(r.x, 1, r.i + 1)
    IN  /\ r.at \in {"root", "walk"}
        /\ conn' = [conn EXCEPT ![k].reader =
              IF trie.count[node] > 0 THEN [r EXCEPT !.at = "matched"]
              ELSE IF r.at = "root" THEN [r EXCEPT !.at = "walk"]
              ELSE IF r.i < Len(r.x) /\ next \in trie.nodes THEN [r EXCEPT !.i = @ + 1]
              ELSE [r EXCEPT !.at = "dropped"]]
        /\ UNCHANGED <<cfg, trie, task, peers, pub, subs, excused>>

(* The message is queued for recv() or dropped; the queue is in ReqRep.    *)
handle_pipe_event(k) ==
    /\ conn[k].reader.at \in {"matched", "dropped"}
    /\ conn' = [conn EXCEPT ![k].reader = NoReader]
    /\ UNCHANGED <<cfg, trie, task, peers, pub, subs, excused>>

-----------------------------------------------------------------------------
(* SUBSCRIBE and UNSUBSCRIBE.                                              *)

Call(t, at, x) ==
    task' = [task EXCEPT ![t] = [calls |-> @.calls + 1, call |-> [Idle EXCEPT !.at = at, !.x = x]]]

MayCall(t) == task[t].call.at = "idle" /\ task[t].calls < cfg.calls

Cancelling(x) == {t \in Subscribers : /\ task[t].call.at \in {"unsubscribed", "cancel"}
                                      /\ task[t].call.x = x}

(* subscribe: the nodes of the topic are made, and counted up only then.   *)
(* A node without a count is as good as none for a walk.                   *)
subscribe(t, x) ==
    /\ MayCall(t)
    /\ trie' = [trie EXCEPT !.nodes = @ \cup Prefixes(x)]
    /\ Call(t, "grown", x)
    /\ UNCHANGED <<cfg, conn, peers, pub, subs, excused>>

fetch_add(t) ==
    LET x == task[t].call.x
        b == [subs EXCEPT ![x] = @ + 1]
    IN  /\ task[t].call.at = "grown"
        /\ trie' = [trie EXCEPT !.count[x] = (@ + 1) % Modulus]
        /\ subs' = b
        /\ conn' = Watch(conn, b)
        /\ task' = [task EXCEPT ![t].call.at = "subscribed"]
        /\ excused' = IF Cancelling(x) = {} THEN excused
                      ELSE [excused EXCEPT !.ahead = @ \cup {<<k, x>> : k \in cfg.conns}]
        /\ UNCHANGED <<cfg, peers, pub>>

(* Mutant: a counter that was zero stays at its highest value.             *)
Restores_not(old) == FALSE

(* unsubscribe: fetch_sub on a counter of zero is taken back afterwards.   *)
Restores(old) == old = 0

(* Mutant: any unsubscribe() that found the topic cancels it.              *)
Cancels_any(old) == old > 0

(* The publishers are told when the last subscription of the topic goes.   *)
Cancels(old) == old = 1

Restoring(x) == {t \in Subscribers : task[t].call.at = "restore" /\ task[t].call.x = x}

unsubscribe(t, x) ==
    LET old == trie.count[x]
        b == IF old > 0 /\ subs[x] > 0 THEN [subs EXCEPT ![x] = @ - 1] ELSE subs
    IN  /\ MayCall(t)
        /\ x \in trie.nodes
        /\ trie' = [trie EXCEPT !.count[x] = (@ + Modulus - 1) % Modulus]
        /\ subs' = b
        /\ conn' = Watch(conn, b)
        /\ Call(t, IF Restores(old) THEN "restore"
                   ELSE IF Cancels(old) THEN "unsubscribed"
                   ELSE "idle", x)
        /\ excused' = [excused EXCEPT !.wrapped = IF old = 0 THEN @ \cup {x} ELSE @,
                                      !.broken = IF Restoring(x) # {} THEN @ \cup {x} ELSE @]
        /\ UNCHANGED <<cfg, peers, pub>>

restore(t) ==
    LET x == task[t].call.x
    IN  /\ task[t].call.at = "restore"
        /\ trie' = [trie EXCEPT !.count[x] = (@ + 1) % Modulus]
        /\ task' = [task EXCEPT ![t].call = Idle]
        /\ UNCHANGED <<cfg, conn, peers, pub, subs, excused>>

(* send_subscription_command_to_all: a snapshot of the peers, then a send  *)
(* to each, in any order.                                                  *)
snapshot(t) ==
    LET us == {UriOf[k] : k \in Mapped}
        to == IF task[t].call.at = "subscribed" THEN "subscribe" ELSE "cancel"
    IN  /\ task[t].call.at \in {"subscribed", "unsubscribed"}
        /\ task' = [task EXCEPT ![t].call = IF us = {} THEN Idle
                                            ELSE [@ EXCEPT !.at = to, !.uris = us]]
        /\ UNCHANGED <<cfg, trie, conn, peers, pub, subs, excused>>

Tell(c, k, what, x) ==
    [c EXCEPT ![k].told = IF what = "subscribe" THEN @ \cup {x} ELSE @ \ {x}]

send_subscription_command(t, u) ==
    LET call == task[t].call
        left == call.uris \ {u}
        es == Endpoint(u)
        done == IF left = {} THEN Idle ELSE [call EXCEPT !.uris = left]
    IN  /\ call.at \in {"subscribe", "cancel"}
        /\ u \in call.uris
        /\ task' = [task EXCEPT ![t].call = done]
        /\ \/ /\ es = {}
              /\ UNCHANGED <<conn, excused>>
           \/ \E k \in es :
                /\ conn[k].open
                /\ conn' = Tell(conn, k, call.at, call.x)
                /\ UNCHANGED excused
           \/ \E k \in es :        \* the error is logged and forgotten
                /\ cfg.faults \/ ~conn[k].open
                /\ excused' = [excused EXCEPT !.ahead = @ \cup {<<k, call.x>>}]
                /\ UNCHANGED conn
        /\ UNCHANGED <<cfg, trie, peers, pub, subs>>

-----------------------------------------------------------------------------
(* SUB: a publisher comes and goes.                                        *)

(* pipe_attached: the peer is in the map before the topics are collected.  *)
pipe_attached(k) ==
    /\ CoreFree
    /\ conn[k].at = "new"
    /\ \A j \in cfg.conns \ {k} : UriOf[j] = UriOf[k] => conn[j].at \in {"new", "detached"}
    /\ conn' = [conn EXCEPT ![k].at = "collect", ![k].todo = << <<>> >>]
    /\ UNCHANGED <<cfg, trie, task, peers, pub, subs, excused>>

(* get_all_topics: depth first, a node at a time, the children of a node   *)
(* as they were when it was visited, in any order.                         *)
collect_topics(k) ==
    LET n == Head(conn[k].todo)
        children == {x \in trie.nodes : Len(x) = Len(n) + 1 /\ IsPrefix(n, x)}
    IN  /\ conn[k].at = "collect"
        /\ \E order \in SetToSeqs(children) :
             LET todo == order \o Tail(conn[k].todo)
             IN  conn' = [conn EXCEPT ![k].todo = todo,
                            ![k].topics = IF trie.count[n] > 0 THEN Append(@, n) ELSE @,
                            ![k].at = IF todo = <<>> THEN "sync" ELSE "collect"]
        /\ UNCHANGED <<cfg, trie, task, peers, pub, subs, excused>>

(* The topics are sent one by one, and an error ends the synchronisation.  *)
sync(k) ==
    LET x == Head(conn[k].topics)
        failed == [conn EXCEPT ![k].at = "ready", ![k].topics = <<>>]
    IN  /\ conn[k].at = "sync"
        /\ IF conn[k].topics = <<>>
           THEN conn' = failed /\ UNCHANGED excused
           ELSE \/ /\ conn[k].open
                   /\ conn' = [Tell(conn, k, "subscribe", x) EXCEPT ![k].topics = Tail(@)]
                   /\ UNCHANGED excused
                \/ /\ cfg.faults \/ ~conn[k].open
                   /\ conn' = failed
                   /\ excused' = [excused EXCEPT !.ahead =
                                    @ \cup {<<k, y>> : y \in ToSet(conn[k].topics)}]
        /\ UNCHANGED <<cfg, trie, task, peers, pub, subs>>

endpoint_removed(k) ==
    /\ CoreFree
    /\ conn[k].at = "ready" /\ ~conn[k].open
    /\ conn' = [conn EXCEPT ![k].at = "gone"]
    /\ UNCHANGED <<cfg, trie, task, peers, pub, subs, excused>>

pipe_detached(k) ==
    /\ conn[k].at = "gone"
    /\ conn' = [conn EXCEPT ![k].at = "detached"]
    /\ UNCHANGED <<cfg, trie, task, peers, pub, subs, excused>>

-----------------------------------------------------------------------------
(* PUB: the session and the network, and the subscribers that come and go. *)

break(k) ==
    /\ cfg.breaks
    /\ conn[k].open
    /\ conn[k].pub = "attached" \/ conn[k].at = "ready"
    /\ conn' = [conn EXCEPT ![k].open = FALSE]
    /\ UNCHANGED <<cfg, trie, task, peers, pub, subs, excused>>

PubEndpoint(u) == {k \in cfg.conns : UriOf[k] = u /\ conn[k].pub = "attached"}
PubFree == \A k \in cfg.conns : conn[k].pub # "gone"

pub_pipe_attached(k) ==
    /\ PubFree
    /\ conn[k].pub = "new"
    /\ \A j \in cfg.conns \ {k} : UriOf[j] = UriOf[k] => conn[j].pub \in {"new", "detached"}
    /\ conn' = [conn EXCEPT ![k].pub = "attached"]
    /\ peers' = peers \cup {UriOf[k]}
    /\ UNCHANGED <<cfg, trie, task, pub, subs, excused>>

pub_endpoint_removed(k) ==
    /\ PubFree
    /\ conn[k].pub = "attached" /\ ~conn[k].open
    /\ conn' = [conn EXCEPT ![k].pub = "gone"]
    /\ UNCHANGED <<cfg, trie, task, peers, pub, subs, excused>>

pub_pipe_detached(k) ==
    /\ conn[k].pub = "gone"
    /\ conn' = [conn EXCEPT ![k].pub = "detached"]
    /\ peers' = peers \ {UriOf[k]}
    /\ UNCHANGED <<cfg, trie, task, pub, subs, excused>>

(* send_to_all: a snapshot of the peers, each looked up and sent to in its *)
(* turn; send() then removes the URIs that failed.                         *)
pub_send(p, x) ==
    /\ pub[p].call.at = "idle"
    /\ pub[p].sends < cfg.sends
    /\ pub' = [pub EXCEPT ![p] = [sends |-> @.sends + 1,
                  call |-> IF peers = {} THEN Idle
                           ELSE [Idle EXCEPT !.at = "send", !.x = x, !.uris = peers]]]
    /\ UNCHANGED <<cfg, trie, conn, task, peers, subs, excused>>

send_to_all(p, u) ==
    LET call == pub[p].call
        left == [call EXCEPT !.uris = @ \ {u}]
        failed == [left EXCEPT !.failed = @ \cup {u}]
    IN  /\ call.at = "send"
        /\ u \in call.uris
        /\ \/ /\ PubEndpoint(u) = {}
              /\ pub' = [pub EXCEPT ![p].call = failed]
              /\ UNCHANGED conn
           \/ \E k \in PubEndpoint(u) :
                \/ /\ conn[k].open
                   /\ conn' = [conn EXCEPT ![k].wire = Append(@, call.x)]
                   /\ pub' = [pub EXCEPT ![p].call = left]
                \/ /\ conn[k].open /\ cfg.faults        \* SNDHWM, SNDTIMEO
                   /\ pub' = [pub EXCEPT ![p].call = left]
                   /\ UNCHANGED conn
                \/ /\ ~conn[k].open
                   /\ pub' = [pub EXCEPT ![p].call = failed]
                   /\ UNCHANGED conn
        /\ UNCHANGED <<cfg, trie, task, peers, subs, excused>>

remove_failed(p) ==
    /\ pub[p].call.at = "send" /\ pub[p].call.uris = {}
    /\ peers' = peers \ pub[p].call.failed
    /\ pub' = [pub EXCEPT ![p].call = Idle]
    /\ UNCHANGED <<cfg, trie, conn, task, subs, excused>>

Next ==
    \/ \E k \in cfg.conns :
          \/ read(k) \/ matches(k) \/ handle_pipe_event(k)
          \/ pipe_attached(k) \/ collect_topics(k) \/ sync(k)
          \/ endpoint_removed(k) \/ pipe_detached(k) \/ break(k)
          \/ pub_pipe_attached(k) \/ pub_endpoint_removed(k) \/ pub_pipe_detached(k)
    \/ \E t \in cfg.subscribers :
          \/ \E x \in Topics : subscribe(t, x) \/ unsubscribe(t, x)
          \/ fetch_add(t) \/ restore(t) \/ snapshot(t)
          \/ \E u \in task[t].call.uris : send_subscription_command(t, u)
    \/ \E p \in cfg.publishers :
          \/ \E x \in Messages : pub_send(p, x)
          \/ \E u \in pub[p].call.uris : send_to_all(p, u)
          \/ remove_failed(p)

Spec == Init /\ [][Next]_vars

-----------------------------------------------------------------------------
(* Every variable has its type, and every counter of the trie is the       *)
(* number of subscriptions that end there, apart from the moments between  *)
(* a decrement below zero and its restoration, unless two unsubscribe() of *)
(* a topic without subscription met in such a moment.                      *)
TypeOK ==
    /\ \A k \in Conns :
          /\ conn[k].at \in {"new", "collect", "sync", "ready", "gone", "detached"}
          /\ conn[k].pub \in {"new", "attached", "gone", "detached"}
          /\ conn[k].told \subseteq Topics
          /\ conn[k].reader.at \in {"idle", "root", "walk", "matched", "dropped"}
    /\ trie.nodes \subseteq Topics /\ peers \subseteq {UriOf[k] : k \in Conns}
    /\ \A x \in Topics :
          x \notin excused.broken /\ Restoring(x) = {} => trie.count[x] = subs[x]

(* What matches() answers while others subscribe and unsubscribe: yes only *)
(* if some subscription matched the message at some moment of the walk, no *)
(* only if no single subscription matched it during the whole walk, for    *)
(* topics whose counters have not been below zero.  The answer no need not *)
(* be true of any moment: subscriptions that come and go can hide behind   *)
(* each other, and a message is dropped that one of them always covered.   *)
MatchSound ==
    \A k \in cfg.conns :
        LET r == conn[k].reader
        IN  Prefixes(r.x) \cap excused.wrapped = {} =>
              /\ r.at = "matched" => r.ever
              /\ r.at = "dropped" => r.stay = {}

(* When no call is under way, a publisher the SUB socket is attached to    *)
(* has been told of every subscription (unless sending a command failed,   *)
(* or the cancellation of an earlier subscription was overtaken by the new *)
(* one, or the counter has been below zero), and a subscriber whose URI no *)
(* earlier connection had is in the Distributor.                           *)
PeersKnown ==
    /\ CoreFree /\ (\A t \in cfg.subscribers : task[t].call.at = "idle") =>
          \A k \in cfg.conns : \A x \in Topics :
             conn[k].at = "ready" /\ conn[k].open /\ subs[x] > 0 /\ x \notin excused.wrapped
               => x \in conn[k].told \/ <<k, x>> \in excused.ahead
    /\ \A k \in cfg.conns :
          /\ conn[k].pub = "attached" /\ conn[k].open
          /\ \A j \in cfg.conns \ {k} : UriOf[j] = UriOf[k] => conn[j].pub = "new"
          => UriOf[k] \in peers
=============================================================================
