------------------------------ MODULE UringWorker ------------------------------
(***************************************************************************)
(* The io_uring backend: the UringWorker thread (io_uring_backend/worker)  *)
(* with the handlers of UringHandler, the tasks that hand it file          *)
(* descriptors and messages (transport/tcp.rs, UringFdConnection), the     *)
(* kernel and the peers.                                                   *)
(*                                                                         *)
(* A turn of run_worker_loop is three steps: gather does phases 1 to 4     *)
(* (only appended to by other threads, so what they add in between is as   *)
(* good as added before), issue is the kernel taking the submitted         *)
(* entries one by one, reap is process_all_cqes.  The worker's own state   *)
(* is the record w:                                                        *)
(*   state     WorkerState                                                 *)
(*   handlers  HandlerManager, by file descriptor                          *)
(*   rx        fd_to_mpsc_rx: the connection whose channel is read         *)
(*   work      work_map: atomic_batches and app_data of a descriptor       *)
(*   closing   fds_needing_close_initiated_pass                            *)
(*   ops       InternalOpTracker, by id; ids start after those that        *)
(*             UringHandler uses for a reader without an operation         *)
(*   ext       the ShutdownConnectionHandler operations not yet answered   *)
(*   sq        the submission queue                                        *)
(*   pool      the free buffers of the SendBufferPool                      *)
(*   up        the upstream events sent, with the connection they are of   *)
(*   replies   the answers sent on reply_tx                                *)
(*   acks      the answers to ShutdownConnectionHandler                    *)
(*   mailbox   the mailboxes of the sockets, by descriptor (global_state),   *)
(*             which the worker and the sockets share                        *)
(*   bufs      the free buffers of the receive ring                        *)
(*   flawed    connections that met a known flaw, see Flawed               *)
(* Descriptors are numbers that the kernel gives out again once closed;    *)
(* connections are not: a handler, a message, an event carry the           *)
(* connection they belong to, which the code does not have.                *)
(***************************************************************************)
EXTENDS UringHandler, FiniteSets, FiniteSetsExt, TLC

CONSTANTS
    Scenarios,      \* what is set up: see Init
    MaxPings,       \* heartbeats of a connection
    SndHwm,         \* capacity of a connection's channel
    Budget,         \* MAX_BATCHES_PER_ITERATION
    SqSize,         \* entries of the submission queue
    PoolSize,       \* buffers of the SendBufferPool
    RecvBufs        \* buffers of the receive ring

VARIABLES
    conn,           \* the connections
    late,           \* those whose handshake deadline has passed
    fdt,            \* the kernel's descriptor table
    opq,            \* op_rx, the requests on their way to the worker
    op_open,        \* somebody holds the sender of op_rx
    w,              \* the worker
    pc,             \* its place in the loop
    ksq,            \* submitted entries the kernel has not yet taken
    kern,           \* operations in flight in the kernel
    cq              \* the completion queue

net == <<conn, late, fdt, opq, op_open>>
kernel == <<ksq, kern, cq>>
vars == <<net, w, pc, kernel>>

NoConn == 0
Fds == DOMAIN fdt
Conns == DOMAIN conn
NoWork == [batches |-> <<>>, data |-> <<>>]

(* Partial functions.                                                      *)
put(f, x, y) == (x :> y) @@ f
drop(f, x) == [y \in DOMAIN f \ {x} |-> f[y]]
WorkOf(v, fd) == IF fd \in DOMAIN v.work THEN v.work[fd] ELSE NoWork

Msg(c, n) == Unit("msg", 10 * c + n)
Messages(c, n) == [i \in 1..n |-> Msg(c, i)]
IsMsg(u) == u.t = "msg"
Sender(u) == u.n \div 10

-----------------------------------------------------------------------------
(* What the peer of a connection says, and how many of our units it must   *)
(* have seen before it says it.  cfg.peer is its kind: "v3" and "v2" speak *)
(* those versions, "old" another one, "other" has the wrong role or no     *)
(* common mechanism, "v2bad" sends an identity that is none.  cfg.data is  *)
(* what it says after the handshake; cfg.slow, that it may stop to read    *)
(* then, so that the buffer of our socket fills.                           *)

Positions(s, x) == SelectSeq([i \in 1..Len(s) |-> i], LAMBDA i : s[i] = x)
Before(s, x, i) == Cardinality({j \in 1..(i - 1) : s[j] = x})

PeerScript(cfg) ==
    LET s == Script(cfg.mech, cfg.srv)
        gets == Positions(s, "get")
        puts == Len(Positions(s, "put"))
        tokens == [i \in 1..Len(gets) |->
                      <<Unit("token", 0), 2 + Before(s, "put", gets[i])>>]
        ready == <<Unit("READY", 0), 2 + puts + (IF cfg.srv THEN 0 ELSE 1)>>
        After(n) == [i \in 1..Len(cfg.data) |-> <<cfg.data[i], n>>]
    IN CASE cfg.peer = "v3" -> <<<<Unit("signature", 3), 0>>, <<Unit("tail", 1), 1>>>>
                               \o tokens \o <<ready>> \o After(3 + puts)
         [] cfg.peer = "v2" -> <<<<Unit("signature", 1), 0>>, <<Unit("stype", 1), 1>>,
                                 <<Unit("identity", 0), 2>>>> \o After(3)
         [] cfg.peer = "v2bad" -> <<<<Unit("signature", 1), 0>>, <<Unit("stype", 1), 1>>,
                                    <<Unit("identity", 1), 2>>>>
         [] cfg.peer = "old" -> <<<<Unit("signature", 2), 0>>>>
         [] cfg.peer = "other" -> <<<<Unit("signature", 3), 0>>, <<Unit("tail", 0), 1>>>>

(* The units of a handshake that this end completes, in their order.       *)
Greeting(cfg) ==
    IF cfg.peer \in {"v2", "v2bad"} THEN <<Unit("signature", 3), Unit("stype", 1), Unit("identity", 0)>>
    ELSE <<Unit("signature", 3), Unit("tail", 1)>>
         \o [i \in 1..Len(Positions(Script(cfg.mech, cfg.srv), "put")) |-> Unit("token", 0)]
         \o <<Unit("READY", 0)>>

-----------------------------------------------------------------------------
(* Sets of the worker's state.                                             *)

Handles(v, fd) == fd \in DOMAIN v.handlers
(* Two flaws are recorded.  The worker, which knows descriptors only,      *)
(* hands a connection, or its socket, what is about another owner of its   *)
(* number; and, see process_one_cqe, a second multishot receive replaces the first in the   *)
(* reader, whose data is then dropped.                                     *)
Flawed(v, c, other) == IF c = other THEN v ELSE [v EXCEPT !.flawed = @ \cup {c}]
PushBatch(v, fd, bp) ==
    IF bp = <<>> THEN v
    ELSE LET b == [c |-> v.handlers[fd].conn, bp |-> bp]
         IN [v EXCEPT !.work =
                put(@, fd, [WorkOf(v, fd) EXCEPT !.batches = Append(@, b)])]
PushData(v, fd, msgs) ==
    IF msgs = <<>> THEN v
    ELSE [v EXCEPT !.work = put(@, fd, [WorkOf(v, fd) EXCEPT !.data = @ \o msgs])]

(* Call a handler and keep what it returns, but for the blueprints.        *)
Call(v, fd, Op(_)) ==
    Op(Result(v.handlers[fd], v.handlers[fd].conn \in late))
Keep(v, fd, r) ==
    [v EXCEPT !.handlers = put(@, fd, r.h), !.up[r.h.conn] = @ \o r.up,
              !.closing = IF r.close THEN @ \cup {fd} ELSE @]
KeepAndPush(v, fd, r) == PushBatch(Keep(v, fd, r), fd, r.bp)

Reads == {"read", "multi"}
(* InternalOpTracker: ids are never used twice while they mean something.  *)
LiveIds(v) == DOMAIN v.ops \cup {o.op : o \in kern} \cup {e.op : e \in Range(cq)}
                 \cup {v.handlers[fd].reader : fd \in DOMAIN v.handlers}
new_op_id(v) == Min((IdleReader + 1 .. IdleReader + 1 + Cardinality(LiveIds(v))) \ LiveIds(v))
has_pending_read_op(v, fd) ==
    \E i \in DOMAIN v.ops : v.ops[i].fd = fd /\ v.ops[i].k \in Reads

Full(v) == Len(v.sq) >= SqSize
Entry(v, fd, c, k, u) ==
    LET op == new_op_id(v)
    IN [v EXCEPT !.ops = put(@, op, [fd |-> fd, k |-> k]),
                 !.sq = Append(@, [op |-> op, c |-> c, k |-> k, fd |-> fd, u |-> u])]

-----------------------------------------------------------------------------
(* Phase 1: gather all work.                                               *)

create_and_add_handler(v, fd, c) ==
    KeepAndPush(v, fd, connection_ready(Result(new(c, conn[c].cfg), FALSE)))

(* A second registration of a descriptor takes the first one's channel.    *)
register_external_fd(v, fd, c) ==
    IF Handles(v, fd)
    THEN [v EXCEPT !.rx = drop(@, fd), !.replies[c] = "refused"]
    ELSE [create_and_add_handler([v EXCEPT !.rx = put(@, fd, c)], fd, c)
             EXCEPT !.replies[c] = "registered"]

process_external_op_request(v, req) ==
    IF req.k = "register" THEN register_external_fd(v, req.fd, req.conn)
    ELSE LET x == [v EXCEPT !.ext = @ \cup {[conn |-> req.conn, fd |-> req.fd]},
                            !.closing = @ \cup {req.fd}]
         IN IF Handles(v, req.fd) THEN Flawed(x, v.handlers[req.fd].conn, req.conn) ELSE x

(* The channels are emptied into the work map.                             *)
drain_app_data(v) ==
    FoldSet(LAMBDA fd, x : PushData(x, fd, conn[x.rx[fd]].chan), v, DOMAIN v.rx)

(* The handlers are polled; which timers have run is the caller's choice.  *)
prepare_all_handler_io_ops(v, idle, unanswered) ==
    FoldSet(LAMBDA fd, x :
               KeepAndPush(x, fd, Call(x, fd, LAMBDA r :
                  prepare_sqes(r, r.h.conn \in idle, r.h.conn \in unanswered))),
            v, DOMAIN v.handlers)

process_fds_flagged_for_closure(v) ==
    [v EXCEPT !.closing = {},
              !.handlers = [fd \in DOMAIN @ |->
                  IF fd \in v.closing THEN close_initiated(@[fd]) ELSE @[fd]]]

-----------------------------------------------------------------------------
(* Phase 2: the work map, with a budget.                                   *)

(* A zero-copy send without a buffer of the pool is an ordinary one.  The  *)
(* reader of the handler, if there is one, is told of its operation.       *)
acquire_and_prep_buffer(v) == [v EXCEPT !.pool = @ - 1]

(* Mutant: a zero-copy send without a buffer is given up.                  *)
submit_blueprint_drops(v, fd, c, b) ==
    CASE b.k = "multi" /\ Handles(v, fd) ->
             [Entry(v, fd, c, "multi", b.u) EXCEPT
                 !.handlers[fd] = mark_operation_submitted(@, new_op_id(v))]
      [] b.k = "zc" -> IF v.pool > 0 THEN Entry(acquire_and_prep_buffer(v), fd, c, "zc", b.u) ELSE v
      [] OTHER -> Entry(v, fd, c, b.k, b.u)

submit_blueprint(v, fd, c, b) ==
    CASE b.k = "multi" /\ Handles(v, fd) ->
             [Entry(v, fd, c, "multi", b.u) EXCEPT
                 !.handlers[fd] = mark_operation_submitted(@, new_op_id(v))]
      [] b.k = "zc" /\ v.pool > 0 -> Entry(acquire_and_prep_buffer(v), fd, c, "zc", b.u)
      [] b.k = "zc" -> Entry(v, fd, c, "send", b.u)
      [] OTHER -> Entry(v, fd, c, b.k, b.u)

(* What does not fit into the submission queue is returned.                *)
process_handler_blueprints(v, fd, batch) ==
    FoldLeft(LAMBDA s, b : IF s.rest # <<>> \/ Full(s.v)
                           THEN [s EXCEPT !.rest = Append(@, b)]
                           ELSE [s EXCEPT !.v = submit_blueprint(@, fd, batch.c, b)],
             [v |-> v, rest |-> <<>>], batch.bp)

(* The messages become batches, if a handler is there to frame them.       *)
convert_app_data(v, fd) ==
    IF ~Handles(v, fd) THEN v
    ELSE FoldLeft(LAMBDA x, u :
                     Flawed(KeepAndPush(x, fd, Call(x, fd, LAMBDA r :
                                             handle_outgoing_app_data(r, u))),
                           x.handlers[fd].conn, Sender(u)),
                  [v EXCEPT !.work[fd].data = <<>>], v.work[fd].data)

(* s: the worker, the batches done in this turn, whether to stop, and the  *)
(* batches left for the descriptor.                                        *)
(* Mutant: the batch that meets the end of the budget is not put back.     *)
process_batch_forgets(s, fd, batch) ==
    IF s.stop THEN [s EXCEPT !.left = Append(@, batch)]
    ELSE IF s.n >= Budget \/ Full(s.v) THEN [s EXCEPT !.stop = TRUE]
    ELSE LET r == process_handler_blueprints(s.v, fd, batch)
         IN [s EXCEPT !.v = r.v, !.n = @ + 1]

process_batch(s, fd, batch) ==
    IF s.stop \/ s.n >= Budget \/ Full(s.v)
    THEN [s EXCEPT !.stop = TRUE, !.left = Append(@, batch)]
    ELSE LET r == process_handler_blueprints(s.v, fd, batch)
         IN IF r.rest = <<>> THEN [s EXCEPT !.v = r.v, !.n = @ + 1]
            ELSE [s EXCEPT !.v = r.v, !.stop = TRUE,
                           !.left = Append(@, [batch EXCEPT !.bp = r.rest])]

process_fd_work(s, fd) ==
    IF s.stop \/ s.n >= Budget \/ Full(s.v) THEN [s EXCEPT !.stop = TRUE]
    ELSE LET v == convert_app_data(s.v, fd)
             t == FoldLeft(LAMBDA x, batch : process_batch(x, fd, batch),
                           [s EXCEPT !.v = v, !.left = <<>>], v.work[fd].batches)
             left == [batches |-> t.left, data |-> v.work[fd].data]
         IN [t EXCEPT !.v.work = IF left = NoWork THEN drop(@, fd) ELSE put(@, fd, left),
                      !.left = <<>>]

process_work_map(v, order) ==
    FoldLeft(LAMBDA s, fd : process_fd_work(s, fd),
             [v |-> v, n |-> 0, stop |-> FALSE, left |-> <<>>], order).v

(* Phase 3: every handler has a read in flight.                            *)
ensure_reads(v) ==
    FoldSet(LAMBDA fd, x : IF has_pending_read_op(x, fd) \/ Full(x) THEN x
                           ELSE Entry(x, fd, x.handlers[fd].conn, "read", NoUnit),
            v, DOMAIN v.handlers)

-----------------------------------------------------------------------------
(* process_all_cqes.  A completion e carries the id of its operation, res, *)
(* the flags notify, buf and more, and data; e.c is the connection it is   *)
(* about.  A receive buffer goes back to the ring when its data is handed  *)
(* to a handler, and only then.                                            *)

Borrowed(v, e) == IF e.buf THEN [v EXCEPT !.bufs = @ + 1] ELSE v

(* Hand a completion to the handler of the descriptor.                     *)
Completion(v, fd, e, Op(_)) ==
    Flawed(KeepAndPush(v, fd, Call(v, fd, Op)), v.handlers[fd].conn, e.c)

delegate_cqe_to_multishot_reader(v, fd, e) ==
    LET Process(r) == process_cqe(r, e)[1]
        over == process_cqe(Result(v.handlers[fd], FALSE), e)[2]
        q == Completion(v, fd, e, Process)
    IN Borrowed([q EXCEPT !.ops = IF over THEN drop(@, e.op) ELSE @], e)

(* The socket whose mailbox is registered for the descriptor gets          *)
(* UringFdError, past the upstream channel.                                *)
tell_socket_core(v, fd, c) ==
    IF fd \notin DOMAIN v.mailbox THEN v
    ELSE Flawed([v EXCEPT !.up[v.mailbox[fd]] = Append(@, Unit("UringFdError", 0)),
                          !.mailbox = drop(@, fd)],
                v.mailbox[fd], c)

(* CloseFd has completed: the handler goes, and so does the channel.       *)
(* Other operations of the descriptor and its work stay.                   *)
close_completed(v, fd, owner) ==
    LET answered == {x \in v.ext : x.fd = fd}
    IN [tell_socket_core(v, fd, owner) EXCEPT
                 !.rx = drop(@, fd), !.handlers = drop(@, fd), !.ext = @ \ answered,
                 !.acks = [c \in DOMAIN @ |->
                    IF \E x \in answered : x.conn = c THEN "complete" ELSE @[c]]]

final_processing(v, o, e) ==
    LET Sent(r) == handle_internal_sqe_completion(r, e.res)
        Data(r) == process_ring_read_data(r, e.data)
    IN CASE o.k = "close" -> IF e.res = "ok" THEN close_completed(v, o.fd, e.c) ELSE v
         [] o.k # "close" /\ ~Handles(v, o.fd) -> v
         [] o.k = "read" /\ e.buf -> Borrowed(Completion(v, o.fd, e, Data), e)
         [] OTHER -> Completion(v, o.fd, e, Sent)

(* The buffer of a zero-copy send is the pool's again with the second      *)
(* completion, or with an error.                                           *)
release_buffer(v, o) == IF o.k = "zc" THEN [v EXCEPT !.pool = @ + 1] ELSE v

(* Mutant: the buffer is released with both completions of the send.       *)
process_one_cqe_releases(v, e) ==
    IF e.op \notin DOMAIN v.ops THEN v
    ELSE LET o == v.ops[e.op]
             taken == release_buffer([v EXCEPT !.ops = drop(@, e.op)], o)
         IN CASE o.k = "multi" -> IF Handles(v, o.fd)
                                  THEN delegate_cqe_to_multishot_reader(v, o.fd, e) ELSE taken
              [] o.k = "zc" /\ ~e.notify /\ e.res = "ok" -> release_buffer(v, o)
              [] OTHER -> final_processing(taken, o, e)

(* A completion of a multishot that no reader claims is dropped with its   *)
(* data.                                                                   *)
process_one_cqe(v, e) ==
    IF e.op \notin DOMAIN v.ops THEN v
    ELSE LET o == v.ops[e.op]
             taken == release_buffer([v EXCEPT !.ops = drop(@, e.op)], o)
             delegated == o.k = "multi" /\ Handles(v, o.fd)
                            /\ matches_cqe_user_data(v.handlers[o.fd], e.op)
         IN CASE delegated -> delegate_cqe_to_multishot_reader(v, o.fd, e)
              [] ~delegated /\ o.k = "multi" ->
                    [(IF e.more THEN v ELSE taken) EXCEPT !.flawed = @ \cup {e.c}]
              [] o.k = "zc" /\ ~e.notify /\ e.res = "ok" -> v
              [] OTHER -> final_processing(taken, o, e)

(* Mutant: the completions that were collected are taken from the end.     *)
process_all_cqes_backwards(v, entries) == FoldLeft(process_one_cqe, v, Reverse(entries))

process_all_cqes(v, entries) == FoldLeft(process_one_cqe, v, entries)

-----------------------------------------------------------------------------
(* The kernel.  An operation is about the connection that its descriptor   *)
(* named when it was issued, even if the descriptor is closed meanwhile.   *)

Cqe(o, res) == [op |-> o.op, c |-> o.c, res |-> res, data |-> <<>>, buf |-> FALSE,
                more |-> FALSE, notify |-> FALSE]
Post(e) == cq' = Append(cq, e)

(* What a read finds.  Some kernels mark the end of a multishot receive    *)
(* with a buffer and some do not; a multishot may end with any completion. *)
Found(o) ==
    LET inbound == conn[o.c].inbound
    IN IF inbound # <<>>
       THEN {[Cqe(o, "ok") EXCEPT !.data = SubSeq(inbound, 1, n), !.buf = TRUE, !.more = more]
                : n \in {1, Len(inbound)}, more \in IF o.k = "multi" THEN BOOLEAN ELSE {FALSE}}
       ELSE IF conn[o.c].eof
       THEN {[Cqe(o, "ok") EXCEPT !.buf = b] : b \in IF o.k = "multi" THEN BOOLEAN ELSE {TRUE}}
       ELSE {}

Receive(v, o, e) ==
    /\ Post(e)
    /\ conn' = [conn EXCEPT ![o.c].inbound = SubSeq(@, Len(e.data) + 1, Len(@))]
    /\ w' = IF e.buf THEN [v EXCEPT !.bufs = @ - 1] ELSE v
    /\ kern' = IF e.more THEN kern \cup {o} ELSE kern \ {o}
(* A completion and nothing else.                                          *)
Complete(v, o, e) == Post(e) /\ w' = v /\ kern' = kern \ {o} /\ UNCHANGED conn

(* The accepted sockets do not block, so a read of them does not wait.     *)
issue_read(v, o) ==
    IF v.bufs = 0 THEN Complete(v, o, Cqe(o, "error"))
    ELSE IF o.k = "read" /\ conn[o.c].cfg.srv
    THEN \/ \E e \in Found(o) : Receive(v, o, e)
         \/ Found(o) = {} /\ Complete(v, o, Cqe(o, "again"))
    ELSE kern' = kern \cup {o} /\ w' = v /\ UNCHANGED <<conn, cq>>

(* What the buffer of the socket takes of a unit is on the wire; the count *)
(* of bytes in the completion is not looked at, so the rest of a unit that *)
(* was taken in part is lost.  The handshake always fits.                  *)
Congested(o) ==
    /\ conn[o.c].cfg.slow
    /\ Len(conn[o.c].wire) >= Len(Greeting(conn[o.c].cfg))
Take(v, o, u, missing) ==
    /\ conn' = [conn EXCEPT ![o.c].wire = Append(@, u), ![o.c].lost = @ \cup missing]
    /\ Post(Cqe(o, "ok")) /\ w' = v
    /\ kern' = IF o.k = "zc" THEN (kern \ {o}) \cup {[o EXCEPT !.k = "notify"]} ELSE kern \ {o}

(* A send to a peer that has closed may still succeed.                     *)
transmit(v, o) ==
    \/ Take(v, o, o.u, {})
    \/ Congested(o) /\ Take(v, o, Unit("part", o.u.n), {o.u})
    \/ conn[o.c].eof /\ Complete(v, o, Cqe(o, "error"))

(* A full buffer takes nothing: the accepted sockets do not block and      *)
(* answer EAGAIN, on the connected ones the operation waits, and a later   *)
(* one may come before it.                                                 *)
issue_send(v, o) ==
    \/ transmit(v, o)
    \/ /\ Congested(o) /\ conn[o.c].cfg.srv
       /\ conn' = [conn EXCEPT ![o.c].lost = @ \cup {o.u}]
       /\ Post(Cqe(o, "again")) /\ w' = v /\ UNCHANGED kern
    \/ /\ Congested(o) /\ ~conn[o.c].cfg.srv
       /\ conn' = [conn EXCEPT ![o.c].waited = TRUE]
       /\ kern' = kern \cup {o} /\ w' = v /\ UNCHANGED cq

(* The number may meanwhile name another connection than when the entry    *)
(* was made, or none.                                                      *)
issue ==
    /\ pc = "issue" /\ ksq # <<>>
    /\ ksq' = Tail(ksq)
    /\ LET e == Head(ksq)
           file == fdt[e.fd]
           o == [op |-> e.op, k |-> e.k, u |-> e.u, c |-> IF file = NoConn THEN e.c ELSE file]
           v == Flawed(w, o.c, e.c)
       IN /\ CASE file = NoConn -> Complete(v, o, Cqe(o, "error"))
                [] file # NoConn /\ e.k = "close" -> Complete(v, o, Cqe(o, "ok"))
                [] file # NoConn /\ e.k \in Reads -> issue_read(v, o)
                [] OTHER -> issue_send(v, o)
          /\ fdt' = IF e.k = "close" THEN [fdt EXCEPT ![e.fd] = NoConn] ELSE fdt
    /\ UNCHANGED <<late, opq, op_open, pc>>

complete ==
    /\ \E o \in kern :
          \/ o.k \in Reads /\ w.bufs > 0 /\ \E e \in Found(o) : Receive(w, o, e)
          \/ o.k \in Reads /\ w.bufs = 0 /\ Found(o) # {} /\ Complete(w, o, Cqe(o, "error"))
          \/ o.k \in {"send", "zc"} /\ transmit(w, o)
          \/ o.k = "notify" /\ Complete(w, o, [Cqe(o, "ok") EXCEPT !.notify = TRUE])
    /\ UNCHANGED <<late, fdt, opq, op_open, pc, ksq>>

-----------------------------------------------------------------------------
(* The worker's steps.                                                     *)

(* MaxPings bounds the heartbeats; a PONG that is late is the peer's fault *)
(* and may always be.                                                      *)
Pings(c) == Len(SelectSeq(conn[c].wire, LAMBDA u : u.t = "PING"))

gather ==
    /\ pc = "gather" /\ w.state = "Running" /\ op_open
    /\ \E idle, unanswered \in SUBSET Conns :
          /\ \A c \in idle : conn[c].cfg.ivl /\ Pings(c) < MaxPings
          /\ \A c \in unanswered : \E fd \in DOMAIN w.handlers :
                w.handlers[fd].conn = c /\ w.handlers[fd].waiting_for_pong
          /\ LET a == FoldLeft(process_external_op_request, w, opq)
                 b == drain_app_data(a)
                 v == process_fds_flagged_for_closure(
                         prepare_all_handler_io_ops(b, idle, unanswered))
             IN /\ \E order \in SetToSeqs(DOMAIN v.work) :
                      LET x == ensure_reads(process_work_map(v, order))
                      IN w' = [x EXCEPT !.sq = <<>>] /\ ksq' = x.sq
                /\ conn' = [c \in Conns |-> IF c \in Range(a.rx)
                                            THEN [conn[c] EXCEPT !.chan = <<>>] ELSE conn[c]]
    /\ opq' = <<>>
    /\ pc' = "issue"
    /\ UNCHANGED <<late, fdt, op_open, kern, cq>>

reap ==
    /\ pc = "issue" /\ ksq = <<>>
    /\ w' = process_all_cqes(w, cq)
    /\ cq' = <<>> /\ pc' = "gather"
    /\ UNCHANGED <<net, ksq, kern>>

(* op_rx is closed: every operation is cancelled.                          *)
transition_to_draining ==
    /\ pc = "gather" /\ w.state = "Running" /\ ~op_open
    /\ w' = [w EXCEPT !.state = "Draining"]
    /\ kern' = {o \in kern : o.k = "notify"}
    /\ cq' = cq \o SetToSeq({Cqe(o, "error") : o \in kern \ kern'})
    /\ UNCHANGED <<net, pc, ksq>>

(* What the completions ask for is dropped.                                *)
draining ==
    /\ w.state = "Draining" /\ cq # <<>>
    /\ w' = [process_all_cqes(w, cq) EXCEPT !.work = w.work]
    /\ cq' = <<>>
    /\ UNCHANGED <<net, pc, ksq, kern>>

(* The tracker is never empty, so it is the wait that ends the drain.      *)
(* CleaningUp and Stopped follow: no descriptor is closed, the operations  *)
(* not yet answered are, and the requests not taken are dropped with their *)
(* reply channels.                                                         *)
cleaning_up ==
    /\ w.state = "Draining" /\ cq = <<>>
    /\ LET Asked(k) == {q.conn : q \in {x \in Range(opq) : x.k = k}}
           failed == {x.conn : x \in w.ext} \cup Asked("shutdown")
       IN w' = [w EXCEPT !.state = "Stopped", !.ext = {}, !.rx = <<>>, !.handlers = <<>>,
                         !.acks = [c \in Conns |-> IF c \in failed THEN "failed" ELSE @[c]],
                         !.replies = [c \in Conns |-> IF c \in Asked("register")
                                                      THEN "refused" ELSE @[c]]]
    /\ opq' = <<>>
    /\ UNCHANGED <<conn, late, fdt, op_open, pc, kernel>>

-----------------------------------------------------------------------------
(* The tasks around the worker, and the peers.                             *)

inside == <<w, pc, kernel>>

(* An accepted or connected stream becomes a descriptor, the lowest free   *)
(* number, and is registered (transport/tcp.rs).                           *)
open(c) ==
    /\ op_open /\ conn[c].st = "new"
    /\ \E fd \in Fds :
          /\ fdt[fd] = NoConn /\ \A g \in Fds : g < fd => fdt[g] # NoConn
          /\ fdt' = [fdt EXCEPT ![fd] = c]
          /\ conn' = [conn EXCEPT ![c].st = "open", ![c].fd = fd]
          /\ opq' = Append(opq, [k |-> "register", conn |-> c, fd |-> fd])
    /\ UNCHANGED <<late, op_open, inside>>

(* A refused descriptor is closed by the task that wanted it registered.   *)
close_refused(c) ==
    /\ conn[c].st = "open" /\ w.replies[c] = "refused"
    /\ fdt' = [fdt EXCEPT ![conn[c].fd] = NoConn]
    /\ conn' = [conn EXCEPT ![c].st = "closed"]
    /\ UNCHANGED <<late, opq, op_open, inside>>

(* The core of the socket takes NewConnectionEstablished and registers its *)
(* mailbox, at whatever time.                                              *)
register_uring_fd_socket_core_mailbox(c) ==
    /\ w.replies[c] = "registered" /\ ~conn[c].known
    /\ w' = [w EXCEPT !.mailbox = put(@, conn[c].fd, c)]
    /\ conn' = [conn EXCEPT ![c].known = TRUE]
    /\ UNCHANGED <<late, fdt, opq, op_open, pc, kernel>>

(* UringFdConnection::send_multipart; a full channel or one that the       *)
(* worker has dropped is an error for the caller.                          *)
send_multipart(c) ==
    /\ w.replies[c] = "registered" /\ c \in Range(w.rx)
    /\ Len(conn[c].chan) < SndHwm /\ conn[c].sent < conn[c].cfg.sends
    /\ conn' = [conn EXCEPT ![c].sent = @ + 1, ![c].chan = Append(@, Msg(c, conn[c].sent + 1))]
    /\ UNCHANGED <<late, fdt, opq, op_open, inside>>

close_connection(c) ==
    /\ op_open /\ w.replies[c] = "registered" /\ conn[c].st = "open" /\ conn[c].cfg.shut
    /\ opq' = Append(opq, [k |-> "shutdown", conn |-> c, fd |-> conn[c].fd])
    /\ conn' = [conn EXCEPT ![c].st = "closing"]
    /\ UNCHANGED <<late, fdt, op_open, inside>>

(* The handshake deadline passes; only a handler outside the data phase    *)
(* looks at it.                                                            *)
deadline(c) ==
    /\ c \notin late
    /\ \E fd \in DOMAIN w.handlers : /\ w.handlers[fd].conn = c
                                     /\ w.handlers[fd].phase \notin {"DataPhase", "Error"}
    /\ late' = late \cup {c}
    /\ UNCHANGED <<conn, fdt, opq, op_open, inside>>

shutdown_uring_backend ==
    /\ \E c \in Conns : conn[c].cfg.stops
    /\ op_open /\ op_open' = FALSE
    /\ UNCHANGED <<conn, late, fdt, opq, inside>>

(* The peer speaks as its script says, and answers each PING.              *)
peer_sends(c) ==
    LET script == PeerScript(conn[c].cfg)
        i == conn[c].said + 1
    IN /\ conn[c].st # "new" /\ ~conn[c].eof
       /\ i <= Len(script) /\ script[i][2] <= Len(conn[c].wire)
       /\ conn' = [conn EXCEPT ![c].said = i, ![c].inbound = Append(@, script[i][1])]
       /\ UNCHANGED <<late, fdt, opq, op_open, inside>>

peer_answers(c) ==
    /\ ~conn[c].eof /\ conn[c].pongs < Pings(c)
    /\ conn' = [conn EXCEPT ![c].pongs = @ + 1, ![c].inbound = Append(@, Unit("PONG", 0))]
    /\ UNCHANGED <<late, fdt, opq, op_open, inside>>

peer_closes(c) ==
    /\ conn[c].st # "new" /\ ~conn[c].eof /\ conn[c].cfg.ends
    /\ conn' = [conn EXCEPT ![c].eof = TRUE]
    /\ UNCHANGED <<late, fdt, opq, op_open, inside>>

-----------------------------------------------------------------------------
(* A scenario gives every connection its configuration; those that are     *)
(* started have a descriptor and are in the data phase, with no read in    *)
(* flight.                                                                 *)

Worker == gather \/ reap \/ transition_to_draining \/ draining \/ cleaning_up
Kernel == issue \/ complete
Peer(c) == peer_sends(c) \/ peer_answers(c)

Started(c, cfg) ==
    [new(c, cfg) EXCEPT !.phase = "DataPhase",
                        !.version = IF cfg.peer = "v2" THEN "V2" ELSE "V3",
                        !.reader = IF cfg.multi THEN IdleReader ELSE NoReader]

Init ==
    \E scenario \in Scenarios :
      LET s == scenario.conns
          C == DOMAIN s
          up == {c \in C : s[c].fd # NoConn}
          OfFd(fd) == CHOOSE c \in up : s[c].fd = fd
          Used == {s[c].fd : c \in up}
      IN /\ conn = [c \in C |->
                [cfg |-> s[c].cfg, fd |-> s[c].fd, inbound |-> <<>>, eof |-> FALSE,
                 chan |-> <<>>, sent |-> 0, pongs |-> 0, known |-> c \in up,
                 lost |-> {}, waited |-> FALSE,
                 st |-> IF c \in up THEN "open" ELSE "new",
                 said |-> IF c \in up THEN Len(PeerScript(s[c].cfg)) - Len(s[c].cfg.data) ELSE 0,
                 wire |-> IF c \in up THEN Greeting(s[c].cfg) ELSE <<>>]]
         /\ fdt = [fd \in scenario.fds |-> IF fd \in Used THEN OfFd(fd) ELSE NoConn]
         /\ late = {} /\ opq = <<>> /\ op_open = TRUE
         /\ w = [state |-> "Running", handlers |-> [fd \in Used |-> Started(OfFd(fd), s[OfFd(fd)].cfg)],
                 rx |-> [fd \in Used |-> OfFd(fd)], work |-> <<>>, closing |-> {},
                 ops |-> <<>>, ext |-> {}, sq |-> <<>>, pool |-> PoolSize, bufs |-> RecvBufs,
                 up |-> [c \in C |-> IF c \in up THEN <<Unit("HandshakeComplete", 0)>> ELSE <<>>],
                 replies |-> [c \in C |-> IF c \in up THEN "registered" ELSE "none"],
                 acks |-> [c \in C |-> "none"], flawed |-> {},
                 mailbox |-> [fd \in Used |-> OfFd(fd)]]
         /\ pc = "gather" /\ ksq = <<>> /\ kern = {} /\ cq = <<>>

Next ==
    \/ Worker \/ Kernel \/ shutdown_uring_backend
    \/ \E c \in Conns : \/ open(c) \/ close_refused(c) \/ send_multipart(c)
                         \/ close_connection(c) \/ deadline(c)
                         \/ register_uring_fd_socket_core_mailbox(c)
                         \/ Peer(c) \/ peer_closes(c)

Spec == Init /\ [][Next]_vars

-----------------------------------------------------------------------------
(* Properties.                                                             *)

TypeOK ==
    /\ w.state \in {"Running", "Draining", "Stopped"} /\ pc \in {"gather", "issue"}
    /\ w.pool \in 0..PoolSize /\ w.bufs \in 0..RecvBufs
    /\ DOMAIN w.rx \subseteq Fds /\ DOMAIN w.handlers \subseteq Fds
    /\ \A fd \in DOMAIN w.handlers : w.handlers[fd].phase \in Phases \ {"Initial"}
    /\ \A fd \in Fds : fdt[fd] \in Conns \cup {NoConn}
    /\ Len(ksq) <= SqSize /\ w.sq = <<>> /\ w.flawed \subseteq Conns
    /\ \A c \in Conns : Len(conn[c].chan) <= SndHwm

(* The bytes of a connection are in order across the submission queue, the *)
(* budget, the queue of the handshake and zero copy: its peer gets our     *)
(* part of the handshake, then the messages in the order of the calls of   *)
(* send_multipart, none twice.  What is skipped is what a full buffer of   *)
(* the socket refused or took in part (conn[c].lost), which the handler    *)
(* takes for sent; and where a send had to wait for room, on a connected   *)
(* socket, the order is not promised, for the next one is not held back.   *)
WireOrder ==
    \A c \in Conns \ w.flawed :
        LET whole == SelectSeq(conn[c].wire, LAMBDA u : u.t \notin {"PING", "PONG", "part"})
            msgs == SelectSeq(whole, IsMsg)
            due == SelectSeq(Greeting(conn[c].cfg) \o Messages(c, conn[c].sent),
                             LAMBDA u : u \notin conn[c].lost)
        IN /\ conn[c].waited \/ IsPrefix(whole, due)
           /\ IsInjective(msgs) /\ Range(msgs) \subseteq Range(due)

(* What the worker sends upstream is HandshakeComplete once, then what the *)
(* peer said in its order, nothing but the close after an error, and       *)
(* nothing at all after the close of the descriptor.                       *)
UpstreamOrder ==
    \A c \in Conns \ w.flawed :
        LET said == SelectSeq(w.up[c], LAMBDA u : u.t \notin {"Error", "UringFdError"})
            ends == SubSeq(w.up[c], Len(said) + 1, Len(w.up[c]))
        IN /\ IsPrefix(said, <<Unit("HandshakeComplete", 0)>>
                              \o SelectSeq(conn[c].cfg.data, IsMsg))
           /\ IsPrefix(said, w.up[c])
           /\ IsPrefix(ends, <<Unit("Error", 0), Unit("UringFdError", 0)>>)
              \/ ends = <<Unit("UringFdError", 0)>>

(* Nothing is on its way: no completion, request, work, message, read or   *)
(* send.                                                                   *)
Quiet ==
    /\ pc = "gather" /\ w.state = "Running" /\ op_open
    /\ cq = <<>> /\ opq = <<>> /\ w.work = <<>> /\ w.closing = {}
    /\ \A o \in kern : o.k \in Reads
    /\ \A c \in Conns : conn[c].chan = <<>> /\ conn[c].inbound = <<>> /\ ~conn[c].eof
    /\ \A fd \in DOMAIN w.handlers : w.handlers[fd].queue = <<>>

(* A connection is never forgotten: when nothing is on its way and its     *)
(* peer has nothing it could say, a handler that has failed is gone, and   *)
(* one that is not closing has finished the handshake, has passed up what  *)
(* the peer said, and has every message it was given on the wire, but for  *)
(* those that a full buffer of the socket refused or took in part.         *)
NothingForgotten ==
    Quiet => \A fd \in DOMAIN w.handlers :
        LET h == w.handlers[fd]
            c == h.conn
            script == PeerScript(conn[c].cfg)
        IN \/ h.phase = "Closing" \/ c \in w.flawed
           \/ /\ conn[c].said < Len(script)
              /\ script[conn[c].said + 1][2] <= Len(conn[c].wire)
           \/ /\ h.phase = "DataPhase" /\ conn[c].said = Len(script)
              /\ w.up[c] = <<Unit("HandshakeComplete", 0)>> \o SelectSeq(conn[c].cfg.data, IsMsg)
              /\ Range(SelectSeq(conn[c].wire, IsMsg))
                    = Range(Messages(c, conn[c].sent)) \ conn[c].lost

=============================================================================
