# A TLA+ verification of rzmq

rzmq is a ZeroMQ library in Rust: sockets are actors on the tokio runtime that
exchange commands through mailboxes and events through a broadcast bus. This
directory holds TLA+ models of its core, TLC configurations that check them on
small instances, and TLAPS proofs of the central invariants. Paths below are
relative to `src/core/src/`.

`PROJECT.json` lists the parts of the system, the runs, the mutants that show
each property can fail, the source lines each definition stands for, the
findings, the hazards and the theorems.

## The system and its parts

| Part | Source | Module | State |
|---|---|---|---|
| WaitGroup | `runtime/waitgroup.rs` | `WaitGroup` | modelled |
| Context: socket, shutdown, term, actor guards | `context.rs`, `runtime/actor_drop_guard.rs` | `ContextTerm` | modelled |
| Event bus | `runtime/event_bus.rs` | `SocketCore`, `Connecter` | bounded, with lags |
| SocketCore: event handling, pipes, shutdown | `socket/core/` | `SocketCore` | see below |
| TCP connecter and the core's reconnect table | `transport/tcp.rs`, `socket/core/` | `Connecter` | modelled |
| Session: handshake, data, heartbeat, shutdown | `sessionx/`, `security/` | `Session` | see below |
| DEALER, sending side | `socket/dealer_socket.rs`, `socket/patterns/{load_balancer,pipe_coordinator}.rs` | `Dealer` | sending only |
| REQ, REP, incoming orchestrator | `socket/{req,rep}_socket.rs`, `socket/patterns/incoming_orchestrator.rs` | `ReqRep`, `Exchange` | REQ whole, the others but for Stop |
| ROUTER, router map | `socket/router_socket.rs`, `socket/patterns/router.rs` | `Router` | but for Stop and ROUTER_MANDATORY |
| PUB, SUB, distributor, subscription trie | `socket/{pub,sub}_socket.rs`, `socket/patterns/{distributor,trie}.rs` | `PubSub` | but for the queue behind the filter |
| io_uring: handler of a connection | `io_uring_backend/zmtp_handler.rs`, `io_uring_backend/worker/multishot_reader.rs` | `UringHandler` | modelled, without CURVE |
| io_uring: worker | `io_uring_backend/worker/` and the rest of `io_uring_backend/` | `UringWorker` | the requests the library makes |
| TCP listener, inproc binder | `transport/` | `SocketCore` | as children and endpoints of the core |
| PUSH, PULL | `socket/{push,pull}_socket.rs` | - | not modelled |
| IPC, inproc registry | `transport/` | - | not modelled |
| ZMTP codec, framers, throttle | `protocol/`, `security/`, `throttle/` | - | not modelled |
| Messages, errors, corking, profiler, key generator | | - | no state, or input and output only |

How they interact: `Context::socket` spawns a `SocketCore` task. The core
spawns listeners and connecters; those spawn sessions and announce them on the
bus (`NewConnectionEstablished`). The core attaches a pipe to the session and to
the `ISocket` of the pattern (DEALER and so on). Every actor holds an
`ActorDropGuard`, which counts it in the WaitGroup and publishes
`ActorStopping` when it ends. `SocketClosing` and `ContextTerminating` on the
bus end them; `Context::term` waits for the WaitGroup, for ten seconds at most.

## The modules

An action is a whole handler, or the part of it between two awaits where another
task can intervene. Definitions have the names of the functions they model.
Definitions marked *Mutant* are wrong variants used to show that a property
notices them; no specification uses them.

**`WaitGroup`, `ContextTerm`.** `count` is the atomic counter. `done`'s
`fetch_sub` and its `notify_waiters` are two steps, as are `wait`'s load and its
`notified()`. An actor is counted by the first step of its own task
(`publish_actor_started`), not by whoever spawned it. An actor may end by itself, told
to or not.

**`SocketCore`.** `endpoints`, `pipes_tx`, `attached` and the three lists of the
ShutdownCoordinator are sets of connections or actors; the bus is a sequence of
at most `BusCap` events that drops its oldest when full. The events of other sockets
(`other_event`) fill the same bus and are read and ignored; `OthersFrom` and `OthersMax`
bound how many of them there are. The core is one task,
so each handler is one step; listeners, sessions and the tasks that announce
sessions run around it. `overwritten`, `deadOnArrival`, `lost` and `unsent` record
what happened, for the properties.

**`Connecter`.** One target. `pc` follows `run_connect_loop` and
`try_connect_once`; `current_attempts` and `next_attempt_at` are the core's
`ReconnectState`. Time is abstracted: a delay is a number, and any delay may
pass. `rx` is the bus receiver of a connecter, which may lag.

**`Session`.** The two ends of one connection. `sess[e]` is the phase, the
handshake sub-phase, the negotiated mechanism and the read buffer; the wire holds
protocol units (greeting parts, tokens, READY, PING, data), which may arrive cut
and joined in any way the code can tell apart. Cryptography is symbolic: a
token carries its mechanism, and the keys of two ends agree or do not. Every
arm of the `select!` can drop the future of a handshake step (`drop_future`).
One end may be a ZMTP/2.0 peer.

**`Dealer`.** Callers of `send()`, the `DealerSocketOutgoingProcessor`, the
round-robin balancer, the one-permit semaphores, the pending queue and the two
`Notify` objects with their waiters and permits. The steps of `pipe_attached` on
the balancer and on the coordinator are separate, since senders run on other
threads, and so are the removal of an endpoint from the core's map and
`pipe_detached`, and the processor's `pop_front` and its count of the peers. A
`send()` can be dropped at any await.

**`ReqRep`, `Exchange`.** `Exchange` is the abstract promise of a REQ socket: a
request is pending, answered or given up. `ReqRep` composes REQ and REP sockets
through connections whose frames are handled one by one. `req[c]` holds the
`ReqState` (`state`), the balancer (`lb`), where the application's call stands
(`at`), the `Notify` (`permit`, `woken`), the queue and the receive buffer; `rep[s]`
is a REP socket. The writes of `send()` and its later store of the state are two steps,
because a reply can come in between. So are the core's end of Running (`stop`) and the
Stop command that wakes the receives (`process_command`). The frames a connection has collected are
with the connection (`partial`, `item`).

**`Router`.** `fwd` is `identity_to_peer_info`; the other two maps are fields of a
connection (`name`, `shared`). A connection begins under a placeholder identity and
is renamed by `update_peer_identity`. `task[t]` is where a sender stands: lookup,
permit of the pipe, identity frame, payload frames. `active` is the
`current_send_target` that `send()` keeps between frames; a later frame may fail or
its future be dropped, and what the application then sends as an identity goes out
as payload. A peer may have no identity, or one that another peer has. The removal of a peer
that a sender found gone is by the name it looked up some steps before.

**`PubSub`.** The trie is the set of its nodes with their counters. The counters
are atomics of 64 bits that wrap (`Modulus`); `matches()` and `get_all_topics()`
visit a node per step while other tasks subscribe and unsubscribe, and a call
first changes the trie and then sends a command to each publisher in turn. PUB
ignores the commands; `told` is what a publisher that filters would know. `subs`
counts the calls, for comparison with the trie.

**`UringHandler`, `UringWorker`.** `UringHandler` defines, as operators from a
handler to its next state and the operations it asks for, each call the worker
makes on a handler: thirteen phases of the handshake, the data phase, heartbeats,
and the reader of multishot receives. `UringWorker` is the worker thread, the kernel
(operations complete in any order, file descriptor numbers are used again), the
tasks that register connections and send, and the peers. One turn of the loop is
three steps: gather and submit, the kernel takes the entries, completions are
processed. The budget of a turn, the submission queue, the send buffers and the
receive ring are all small, so that each can be exhausted, and a peer that reads
slowly makes the socket refuse bytes or take part of them. The mailbox under which a
descriptor is registered is part of the state. `signal` cannot fail: the
channel it writes to is unbounded (`uring/mod.rs:70`).

External, modelled from how the code uses them: tokio's `Notify`, the TCP
connection reset, a ZMTP/2.0 peer, the user who drops a future, the io_uring
interface of the kernel and the peer of an io_uring connection, and in `Dealer` the
session behind a pipe.

## What the runs check

Runs that pass:

| Run | Shows |
|---|---|
| `context_term` | The counter is the number of live guards and never underflows; a `term()` that ends by it has outlived every actor registered when it was called; the last `done()` reaches every enrolled waiter. |
| `socket_core` | With a bus of three events that the events of others fill up: the shutdown waits only for children that will report or whose report was lost, finishes unless one was lost, and leaves no session behind; the endpoints map, the pipes and the ISocket agree. |
| `connecter` | A target is pursued by exactly one party until it is given up; a reachable target is reconnected; what was started for a socket that is closed ends, if the peer can be reached. |
| `session` | Only compatible ends become operational, compatible ends never refuse each other, no message and no identity is lost between handshake and data, and the handshake settles without a timeout. |
| `dealer` | While the socket runs, an accepted message is in exactly one place; SNDHWM is exceeded by at most one message per concurrent caller. |
| `dealer_live` | A notified processor sends the head of the queue; a `send()` with a SNDTIMEO returns. |
| `reqrep` | REQ and REP together implement `Exchange` (refinement): replies are in step with requests, each is handed out once, to the client that asked. When nothing is under way no receive is pending, except in the cases `RecvServed` names. |
| `router` | A peer reads whole messages that were meant for it, whatever tasks interleave, unless a later frame failed or was dropped or the connection was replaced under its URI; the three maps agree with the connections that are attached, except where a rival took the entry. |
| `pubsub` | The counters of the trie are the subscriptions; `matches()` keeps only what some subscription matched during its walk and drops nothing that one subscription matched throughout; each publisher knows the subscriptions and the distributor its peers once the calls are over, except where named. |
| `uring` | The bytes of a connection and the events sent upstream keep their order across the budget, the queues and zero copy, apart from what a full socket buffer loses; when nothing is in flight no connection is left half way and no message behind. |

Two runs find a disagreement between the code and what is written about it
(quoted under `findings` in `PROJECT.json`). `dealer_drain`: the processor takes one
message per notification, and `Notify` merges notifications, so the third of three
messages queued before the first peer stays queued. `connecter_term`:
`ContextTerminating` that is read during an attempt, or published before the
connecter subscribes, does not end a connecter whose peer is unreachable.

### Bounds

| Run | Instance | Why it is enough |
|---|---|---|
| `context_term` | one socket, one child, two calls of `term()` | two actors can leave at once, a child can outlive its parent, and two waiters can race |
| `socket_core` | one listener, one session, one inproc connection, a bus of three, one event of others at a time, on a full bus | every kind of endpoint, and the core lags past events of each kind |
| `connecter` | two connecters, one `connect()`, intervals 2 and at most 7, exponent at most 2, one lag | attempts and delays of every kind occur, and a second connecter can start while the first is ending |
| `session` | both peer kinds, four configurations on each end, one message and one PING each way | every mechanism is met in matching, differing and keyless pairings, and a message can follow the handshake in the same read |
| `dealer` | two senders without SNDTIMEO, four messages, SNDHWM 1, a pipe of 1, one dropped `send()`, a close before the third call | one more message than the bound of `QueueBound` allows; both properties are about a running socket |
| `dealer_live` | two senders, two messages, one dropped `send()`, SNDTIMEO zero or finite, a close before the second call | a full queue, a full pipe and a busy permit all occur |
| `reqrep` | five kinds of scenario: a connection lost and made again, a client that is closed, receives that time out or are dropped, one client of two servers, one server of two clients; two or three requests, replies of one or two frames | a late reply meets a later request, and a reply can be cut by another peer's end |
| `router` | up to three connections, two under one URI, two identities, two whole senders and one by frames; scenarios of failing and dropped writes, a peer that comes back under its URI, peers without an identity and rival identities | an entry can be replaced, and removed by the owner of another, between any two steps of a send |
| `pubsub` | topics of length 0 to 2, two tasks with two calls each, two publishing tasks, a connection made again; `Modulus` 6 | a walk has three nodes to be overtaken at; all calls together are fewer than the modulus, so a counter above them has wrapped |
| `uring` | one connection in every role, mechanism and age of peer; a descriptor used twice; two busy connections; a peer that reads slowly; a message that cannot be framed with another behind it; budget 2, submission queue 3, one send buffer, two receive buffers | every limit is met, and a completion can belong to an earlier connection |

In `Dealer` the queue may grow without bound once the socket is closing
(the processor puts its message back twice), so the model stops it at
`MaxQueue`; the properties about the queue are stated for a running socket.
`dealer`, `router` and `pubsub` use the symmetry of the tasks; the liveness runs
use none. Deadlock is not
checked: every model may come to rest when its sockets are closed or its users
do nothing more.

### Fairness

Weak fairness of a task means that tokio polls a task that is ready. It is
assumed for the core, connecters, sessions told to stop, the processor and the
callers of `send()`. In `ContextTerm` it is assumed of an actor that it starts and, once
told to stop, ends; that an actor ends by itself is possible and never assumed. Timers that are set run out: the linger deadline, the
retry delay, the maintenance tick, SNDTIMEO. Nobody has to call `close()`,
connect, or send; no peer has to fail; no handshake timer has to run out.
Strong fairness appears twice. In `Connecter`, a reachable peer is reached by one
of infinitely many attempts: an assumption about the network, not
about the code. In `SocketCore`, the linger check (`check_and_advance_linger`) runs if it
can run again and again: the core's `select!` is biased, events come first and the
maintenance tick last, so the check waits while the bus holds an event, and a bus
on which other sockets publish without a pause would put it off for ever. The
assumption is that the core finds its queue empty at times.

`ReqRep` and `UringWorker` state what must eventually happen as an invariant: when
nothing is left that could take a step, what was to happen has happened
(`RecvServed`, `NothingForgotten`). No fairness is needed for that, and a wake-up
that is lost shows as a state that is quiet with somebody waiting.

## What is proved

The proofs hold for every value of the constants that satisfies the named
assumptions: any sets of actors, tasks, peers, clients and connections, any
capacity, any options, any number of messages. Each proof module has an
invariant `IndInv` that holds initially, is kept by every action, and implies
the properties; that it is kept is one lemma or step per action, over lemmas
about the sequences, sets and queues the actions change.

**`ContextTermProofs`** proves `TypeOK`, `CountTracksActors` and
`TermOutlivesRegistered`. The argument ties each actor's task to its guard: a
task is running exactly while its user is in the group, so the counter is the
cardinality of a finite set and positive while anyone runs. `UsersFinite` is
needed for the cardinalities. A waiter that returned saw the counter at zero,
hence no registered actor.

**`SocketCoreProofs`** proves `TypeOK`, `PendingWillReport` (nobody is waited for
in vain), `EndpointsHaveActors` (no zombies) and `PipesFollowEndpoints` (the
tables agree). None of them is inductive alone. `IndInv` adds three facts:
`AnnouncedOnce`, that an announcement is published once and its connection is in no
table before it is read (otherwise attaching could overwrite itself);
`ListsCoverEndpoints`, that what is still in the endpoints map during a shutdown
is on a list of the coordinator (otherwise the final cleanup could leave
something); and `LiveUntilFinished`. The work is in lemmas about the bus:
publishing loses at most the oldest event, and a lost `ActorStopping` is in `lost`.
The proof then goes action by action.

**`ConnecterProofs`** proves `TypeOK`, `NoStorm` (connecters at work, live
sessions and scheduled attempts are together no more than the calls of `connect()`) and `NeverForgotten` (a target that is not given up is pursued by
somebody). `NoStorm` is proved in a stronger form: the connecters that are at work, have a
session, or whose end the core has not read, and the scheduled attempt, are
together at most the calls (`BusyInv`). That needs `SlotInv`: where a connecter is agrees with
its session, with the events of both the core has not read, and with the maps; an
end is reported once. `NeverForgotten` needs `WantedInv`, that while the target is wanted
every error on its way is a transient one, the maps name the same connection, and a
connection is joined exactly while its session lives or its end is unread. Assumed:
`ConstantsAssumption`, and `PowersAssumption`, that powers of two are naturals, which
the provers do not know.

**`DealerProofs`** proves `TypeOK`, `QueueBound` and `ExactlyOnce` for any number of
senders, peers and messages. `BoundInv` counts, with the queue and the message in the
processor's hand, the senders that have passed the check of the length and not yet
pushed: these, at most one per sender, are what may exceed SNDHWM. `FreshInv` says that the message
of a `send()` under way has not been accepted and is no other sender's. `OnceInv` states
`ExactlyOnce` without cardinalities: a message is accepted exactly if it is queued, held,
in one pipe, written once or lost, and these exclude each other. `ConstantsAssumption`
includes that the senders are finitely many.

**`ReqRepProofs`** proves `TypeOK` and the refinement `KeepsStep` (theorem `Refines`): every
step of the REQ and REP sockets and of the connections between them is a step of
`Exchange` or leaves its three sets alone. The invariant follows each request: from the write of
`send()` to the return of `recv()` the request or its reply is in at most one place
(`OnceInv`: frames on a connection, an item being pushed, a queue, a receive buffer, the
hand of the server), only if it is outstanding or given up (`OpenInv`), and only
with the client that asked (`ShapeInv`). Frames are
known by the last one of a message, the one without MORE, since a reply can lose its
first frames and still be taken. From the refinement follow, for the code's model, the two
promises of `Exchange`: `OneReply` (a request has one fate and one owner) and
`RepliesInStep`. Assumed: `ConstantsAssumption`, `ScenarioAssumption`, `NoneAssumption`.

**`SessionStreams`, `SessionV3`, `SessionProofs`** prove `TypeOK`, `OnlyCompatibleMeet`,
`NoSpuriousError`, `InOrderOnce` and `IdentityOfPeer` for every set of configurations and
any number of messages and PINGs. The units an end has not handled, those in its
buffer and those on the wire, are one stream, so reading ahead changes nothing.
Between two rzmq ends the invariant says which unit is the i-th of
that stream counted from its beginning (`UnitOK`: signature, greeting, the tokens
of the mechanism, READY, data), how many of them an end has taken and written in each
sub-phase (`Taken`, `Written`), and what a token vouches for: an end that sent its second
token has seen one that fits its own keys. A dropped and restarted step is harmless
because its sub-phase determines both numbers. With a ZMTP/2.0 peer the stream is greeting,
identity, data (`V2Inv`); a frame that is no identity is met only by an exchange that
was begun anew. `Unlost` is the order of the data in a stream against what
was sent and received. `SessionStreams` has the invariant and what reading and writing do
to a stream, `SessionV3` the steps between two rzmq ends, `SessionProofs` those with a
ZMTP/2.0 peer and the theorems. The bound of the streams in `TypeOK` comes from the same
count. Assumed: `ConstantsAssumption`.

Only model-checked:

- All liveness (`HandshakeSettles`, `SessionsEnd`, the wake-ups of `Dealer` and the rest):
  TLAPS handles neither fairness nor ENABLED.
- `RecvServed` of `ReqRep`. It speaks of states in which nothing can move; an
  invariant for it has to account for every permit and waiter of every
  `Notify`, and is not the one the refinement needs.
- `Router` and the io_uring backend, about which nothing has been proved yet, and
  `PubSub`, where the counters of the trie are sums over the subscriptions and need
  induction over data.

## What the models leave out

- Real time. Timers may fire at any moment after they are set, so properties
  that compare two durations (the pong deadline against the read of a PONG
  already in the kernel buffer) are not stated.
- Message contents, and in `Dealer` the assembly of a multipart message from calls
  of `send()`. The receiving side is modelled with REQ and REP only. The errors of
  `send_multipart` and of the permit that DEALER passes on (`dealer_socket.rs:163`,
  `:845`) come from no connection the core attaches.
- In `Session`, input that neither rzmq nor a correct ZMTP/2.0 peer writes: an ERROR or
  unparseable command in the data phase, a malformed frame. The identity that PLAIN
  yields, the user name on both sides (`security/plain.rs:348`), is one
  value, `"security"`, like that of the other mechanisms. A failed write of
  the handshake is seen by the next read.
- Two tasks that use one REQ or REP socket at once, or call `send()` of one ROUTER
  at once; the sockets keep one state for all of them.
- Stop of REP and ROUTER, which closes the receive queue.
- The core's handling of `UringFd` events and the moment its own mailbox is
  unregistered; the task that forwards them, which discards the events of
  descriptors without a mailbox; accepting through the ring; and the
  requests to the worker that no part of the library makes.
- In `Connecter`, IPC and name resolution; in `SocketCore`, the connecting
  side of inproc. Whether a binding request meets a name that is still bound
  (`is_my_binding_name`) is an open choice.
- In `Router`, a URI that is attached again before it was detached; for the core
  that case is in the theorem `TablesAgree`.

Some behaviours are modelled but are exceptions in the properties, because the
code does not rule them out. They are listed here and among the hazards:

- `WaitGroup::wait` can miss the wake-up of a `done()` that comes between its
  load and its `notified()`; the ten-second limit of `term()` ends the wait.
- A `term()` right after `socket()` may find the counter at zero, because a
  socket counts itself only when its task runs.
- A connection that replaces another under its URI leaves the pipe of the first
  with the ISocket; a session that ended before it was announced is attached
  with nobody left to report its end; a child whose `ActorStopping` the core lagged
  past is waited for in vain.
- A sender that picks a DEALER peer between `add_connection` and `add_pipe`
  takes it out of the balancer for as long as it is connected.
- A connecter that lags during its retry delay stops without a report, and a session
  that ends before it was announced is not retried.
- A REQ `recv()` waits without end if the reply or the end of the peer is handled
  before `send()` has stored that it expects a reply, if the queue stayed full for
  a second, or if another peer leaves between the frames of a reply; a
  `recv_multipart()` is not told when the peer is detached. A reply that comes after
  its receive timed out is taken for the reply to the next request, and the permit a
  reply leaves with the notifier interrupts the next receive.
- A ROUTER peer reads part of a message if a later frame could not be written or its
  `send()` was dropped, or if another connection took over its URI meanwhile. A
  dropped `send()` keeps its target, and the identity of the next message goes to
  that peer as payload. `send()` writes the delimiter to a peer of any type.
- Of two ROUTER peers that claim one identity the later has the entry; the end of
  either, or a sender's late removal, takes it away. Until its identity is
  established a peer is received from under a placeholder.
- A trie counter is below zero, so that its topic matches, while an unsubscription
  too many is being undone, and stays there if another comes in that moment. A subscription can overtake the cancellation sent for the same
  topic. A publisher whose URI is removed after a failed send may be one that has
  just come back.
- `CloseFd` keeps the operations and the work of the descriptor: the connection that
  gets the number next may receive what belongs to the first. A multishot receive
  that the budget put off is asked for twice, and the data of the first is dropped.
- On io_uring a send that meets a full socket buffer is taken for complete: the message
  or the rest of it is not written. On a connected socket a send that waits for room can
  be overtaken by a later one. A descriptor that is used again may still be
  registered with the mailbox of its first owner.

Disagreements with comments or documentation that TLC has shown with these models,
in runs that are no longer kept:

- A core that lags past the `ActorStopping` of a child it waits for stays in
  StoppingChildren, which has no deadline; `socket/types.rs:160` describes an end.
- Sessions are stopped before the linger begins, so with an infinite LINGER
  messages in a pipe are not written (`README.USAGE.md:47`).
- A ZMTP/2.0 identity exchange interrupted by a command or an event starts again
  and waits for a second greeting (`sessionx/protocol_handler/v2_path.rs:39`).
- `matches()` can answer no for a message that one subscription or another covered
  at every moment of the walk; the comment at `socket/patterns/trie.rs:103` says it
  matches any active prefix.
- `ShutdownConnectionHandler` puts a handler into its Closing phase, and nothing then
  closes the descriptor of a connection younger than the handshake deadline; the
  comment at `io_uring_backend/zmtp_handler.rs:1644` says that the worker does.

Noted while reading, in no model: RECONNECT_IVL of 0 is parsed to None, so
the connecter's test for "no retry" never holds (`socket/options.rs:430`,
`transport/tcp.rs:703`); RECONNECT_IVL_MAX of 0 lifts the limit of the backoff
where the comment says it disables it (`socket/options.rs:137`); the length of
an encrypted CURVE message is cast to 16 bits (`security/framer.rs:99`).

## Not modelled

- PUSH and PULL. PUSH is the balancer and the coordinator that `Dealer` models,
  without a queue of its own; PULL is the orchestrator of `ReqRep` with one queue.
- IPC: a second copy of the TCP listener and connecter without retries.
- The inproc registry: bind, connect and disconnect by name between two sockets.
- The codec, the framers and the option parser: byte-level functions without
  interleaving, which the unit tests of the repository reach.
- The adaptive throttle: it decides when a session yields, and changes nothing a
  property here speaks of.
- Real time, in particular the heartbeat's interval against its timeout.

Next: proofs of `MapsAgree` (`Router`) and of `RecvServed` (`ReqRep`); inproc as a
composition of two cores.
