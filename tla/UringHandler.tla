----------------------------- MODULE UringHandler -----------------------------
(***************************************************************************)
(* ZmtpUringHandler (io_uring_backend/zmtp_handler.rs) and its             *)
(* MultishotReader (worker/multishot_reader.rs): the ZMTP engine of one    *)
(* file descriptor of the io_uring worker.                                 *)
(*                                                                         *)
(* The handler runs on the worker's thread and never waits.  A call gets   *)
(* what happened (bytes, a completion, a message of the application, a     *)
(* poll) and returns HandlerIoOps, the operations the worker shall submit. *)
(* So a call is an operator here, from a result r to a result:             *)
(*   r.h       the handler,                                                *)
(*   r.bp      the blueprints of the operations,                           *)
(*   r.close   initiate_close_due_to_error,                                *)
(*   r.up      the HandlerUpstreamEvents sent on the upstream channel,     *)
(*   r.late    the handshake deadline has passed at this call.             *)
(* A unit is what the code reads and writes as a whole: a signature with   *)
(* its revision, the tail of a greeting, a frame.                          *)
(***************************************************************************)
EXTENDS Naturals, Sequences, SequencesExt

Phases == {"Initial", "SendSignature", "WaitPeerRevision", "SendV3Tail",
           "WaitV3Greeting", "SendV2Tail", "V2GreetingExchange", "V2SendIdentity",
           "V2WaitIdentity", "SecurityExchange", "ReadyClientSend",
           "ReadyClientWaitServer", "ReadyServerWaitClient", "ReadyServerSend",
           "DataPhase", "Error", "Closing", "Closed"}
(* The phases that wait for the completion of a send.                      *)
SendPhases == {"SendSignature", "SendV3Tail", "SendV2Tail", "V2SendIdentity",
               "ReadyClientSend", "ReadyServerSend"}

Unit(t, n) == [t |-> t, n |-> n]
Commands == {"token", "READY", "PING", "PONG", "ERROR"}

(* Blueprints: send (RequestSend), zc (RequestSendZeroCopy), close, multi   *)
(* (RequestNewRingReadMultishot).                                          *)
Blueprint(k, u) == [k |-> k, u |-> u]
NoUnit == Unit("none", 0)
send(u) == Blueprint("send", u)
RequestClose == Blueprint("close", NoUnit)
RequestNewRingReadMultishot == Blueprint("multi", NoUnit)

(* The turns of a mechanism: what produce_token and process_token still    *)
(* have to do at this end.  An empty script is a mechanism that is         *)
(* complete, which NULL is from the start.                                 *)
Script(mech, srv) ==
    CASE mech = "NULL"     -> <<>>
      [] mech = "PLAIN"    -> IF srv THEN <<"get", "put">> ELSE <<"put", "get">>
      [] mech = "NOISE_XX" -> IF srv THEN <<"get", "put", "get">>
                              ELSE <<"put", "get", "put">>

(* cfg: srv (is_server), mech (what the ends agree on), multi (the options *)
(* use_recv_multishot), zc (use_send_zerocopy and messages above           *)
(* ZC_SEND_THRESHOLD), allow_zmtp2, ivl (a heartbeat interval is set), big *)
(* (the message too large for the cipher of the framer, or 0).             *)
(* reader is the MultishotReader: absent, idle, or the id of its active    *)
(* operation.                                                              *)
NoReader == 0
IdleReader == 1
new(conn, cfg) ==
    [conn |-> conn, cfg |-> cfg, phase |-> "Initial", acc |-> <<>>,
     script |-> <<>>, version |-> "none", queue |-> <<>>, reader |-> NoReader,
     last_sent_was_ping |-> FALSE, waiting_for_pong |-> FALSE]

Result(h, late) == [h |-> h, bp |-> <<>>, close |-> FALSE, up |-> <<>>, late |-> late]

phase(r, p) == [r EXCEPT !.h.phase = p]
push(r, b) == [r EXCEPT !.bp = Append(@, b)]
(* The upstream channel is unbounded: try_send does not fail while the     *)
(* task that reads it is there.                                            *)
signal(r, event) == [r EXCEPT !.up = Append(@, event)]
consume(r) == [r EXCEPT !.h.acc = Tail(@)]

(* The first error asks for the close; a second one changes nothing.  In   *)
(* the data phase the caller, or the completion of the close, tells the    *)
(* socket.                                                                 *)
transition_to_error(r) ==
    IF r.h.phase \in {"Error", "Closed"} THEN r
    ELSE LET q == [r EXCEPT !.h.phase = "Error", !.close = TRUE,
                            !.bp = IF Contains(@, RequestClose) THEN @
                                   ELSE Append(@, RequestClose)]
         IN IF r.h.phase = "DataPhase" THEN q ELSE signal(q, Unit("Error", 0))

-----------------------------------------------------------------------------
(* process_buffered_reads, one arm for each phase that reads.  An arm that *)
(* lacks data returns its argument, which ends the loop.                   *)

Needs(r, type) == r.h.acc # <<>> /\ Head(r.h.acc).t = type

WaitPeerRevision(r) ==
    IF r.h.acc = <<>> THEN r
    ELSE LET q == consume(r)
             revision == IF Needs(r, "signature") THEN Head(r.h.acc).n ELSE 0
         IN CASE revision = 1 /\ r.h.cfg.allow_zmtp2 ->
                    push([q EXCEPT !.h.phase = "SendV2Tail", !.h.version = "V2"],
                         send(Unit("stype", 1)))
              [] revision >= 3 -> push(phase(q, "SendV3Tail"), send(Unit("tail", 1)))
              [] OTHER -> transition_to_error(q)

(* n = 0: the roles are the same, or no mechanism is common to both ends.  *)
WaitV3Greeting(r) ==
    IF r.h.acc = <<>> THEN r
    ELSE IF Needs(r, "tail") /\ Head(r.h.acc).n = 1
         THEN [consume(r) EXCEPT !.h.phase = "SecurityExchange", !.h.version = "V3",
                                 !.h.script = Script(r.h.cfg.mech, r.h.cfg.srv)]
         ELSE transition_to_error(r)

V2GreetingExchange(r) ==
    IF r.h.acc = <<>> THEN r
    ELSE IF Needs(r, "stype") /\ Head(r.h.acc).n = 1
         THEN push(phase(consume(r), "V2SendIdentity"), send(Unit("identity", 0)))
         ELSE transition_to_error(consume(r))

(* n = 1: the frame has the flag MORE or more than 255 bytes.               *)
V2WaitIdentity(r) ==
    IF r.h.acc = <<>> THEN r
    ELSE IF Head(r.h.acc).t \in Commands \/ Head(r.h.acc) = Unit("identity", 1)
         THEN transition_to_error(consume(r))
         ELSE signal(phase(consume(r), "DataPhase"), Unit("HandshakeComplete", 0))

Turn(r, t) == r.h.script # <<>> /\ Head(r.h.script) = t
Turned(r) == [r EXCEPT !.h.script = Tail(@)]
produce_token(r) ==
    IF Turn(r, "put") THEN push(Turned(r), send(Unit("token", 0))) ELSE r
process_token(r) ==
    IF r.h.acc = <<>> THEN r
    ELSE IF Needs(r, "token") /\ Turn(r, "get") THEN produce_token(Turned(consume(r)))
         ELSE transition_to_error(consume(r))

(* A mechanism that is complete gives way to READY, which the client sends *)
(* first.                                                                  *)
SecurityExchange(r) ==
    LET q == IF r.h.script = <<>> THEN r ELSE process_token(produce_token(r))
    IN IF q.h.phase # "SecurityExchange" \/ q.h.script # <<>> THEN q
       ELSE IF r.h.cfg.srv THEN phase(q, "ReadyServerWaitClient")
            ELSE push(phase(q, "ReadyClientSend"), send(Unit("READY", 0)))

ReadyServerWaitClient(r) ==
    IF r.h.acc = <<>> THEN r
    ELSE IF Needs(r, "READY")
         THEN push(phase(consume(r), "ReadyServerSend"), send(Unit("READY", 0)))
         ELSE transition_to_error(consume(r))

ReadyClientWaitServer(r) ==
    IF r.h.acc = <<>> THEN r
    ELSE IF Needs(r, "READY")
         THEN signal(phase(consume(r), "DataPhase"), Unit("HandshakeComplete", 0))
         ELSE transition_to_error(consume(r))

(* The data phase, one frame.                                              *)
DataPhase(r) ==
    IF r.h.acc = <<>> THEN r
    ELSE LET q == consume(r)
             u == Head(r.h.acc)
         IN CASE u.t \in Commands /\ r.h.version = "V2" -> transition_to_error(q)
              [] u.t = "PING" -> push(q, send(Unit("PONG", 0)))
              [] u.t = "PONG" -> [q EXCEPT !.h.waiting_for_pong = FALSE]
              [] u.t = "ERROR" -> transition_to_error(q)
              [] u.t \notin Commands -> signal(q, u)
              [] OTHER -> q

Arm(r) ==
    CASE r.late /\ r.h.phase \notin {"DataPhase", "Error", "Closed"} ->
             transition_to_error(r)
      [] r.h.phase = "Initial" -> transition_to_error(r)
      [] r.h.phase = "WaitPeerRevision" -> WaitPeerRevision(r)
      [] r.h.phase = "WaitV3Greeting" -> WaitV3Greeting(r)
      [] r.h.phase = "V2GreetingExchange" -> V2GreetingExchange(r)
      [] r.h.phase = "V2WaitIdentity" -> V2WaitIdentity(r)
      [] r.h.phase = "SecurityExchange" -> SecurityExchange(r)
      [] r.h.phase = "ReadyServerWaitClient" -> ReadyServerWaitClient(r)
      [] r.h.phase = "ReadyClientWaitServer" -> ReadyClientWaitServer(r)
      [] r.h.phase = "DataPhase" -> DataPhase(r)
      [] OTHER -> r                   \* the phases that send, and the last ones

RECURSIVE process_buffered_reads(_)
process_buffered_reads(r) ==
    LET q == Arm(r) IN IF q = r THEN r ELSE process_buffered_reads(q)

-----------------------------------------------------------------------------
(* The calls of the worker.                                                *)

connection_ready(r) ==
    push([r EXCEPT !.h.phase = "SendSignature",
                   !.h.reader = IF r.h.cfg.multi THEN IdleReader ELSE NoReader],
         send(Unit("signature", 3)))

(* No data is the end of the stream.  transition_to_error is silent about  *)
(* the data phase, so the event is sent here.                              *)
process_ring_read_data(r, data) ==
    IF data = <<>> /\ r.h.phase \notin {"Error", "Closed"}
    THEN LET q == transition_to_error(r)
         IN IF r.h.phase = "DataPhase" THEN signal(q, Unit("Error", 0)) ELSE q
    ELSE process_buffered_reads([r EXCEPT !.h.acc = @ \o data])

(* The wire form of a message of the application.                          *)
add_send_blueprints_for_wire_bytes(r, u) ==
    push(r, Blueprint(IF r.h.cfg.zc THEN "zc" ELSE "send", u))

(* Framer::write_msg_multipart succeeds.                                   *)
Frames(r, u) == u.n % 10 # r.h.cfg.big

(* A message that cannot be framed is put back at the head of the queue.   *)
send_queued(r) ==
    IF Frames(r, Head(r.h.queue))
    THEN add_send_blueprints_for_wire_bytes([r EXCEPT !.h.queue = Tail(@)], Head(r.h.queue))
    ELSE transition_to_error(r)

AfterSend(p) ==
    CASE p = "SendSignature" -> "WaitPeerRevision"
      [] p = "SendV3Tail" -> "WaitV3Greeting"
      [] p = "SendV2Tail" -> "V2GreetingExchange"
      [] p = "V2SendIdentity" -> "V2WaitIdentity"
      [] p = "ReadyClientSend" -> "ReadyClientWaitServer"
      [] p = "ReadyServerSend" -> "DataPhase"
      [] OTHER -> p

(* In the data phase a completion, whatever it completes, marks a PING as  *)
(* sent and sends one queued message.                                      *)
completion_in_data_phase(r) ==
    LET q == [r EXCEPT !.h.waiting_for_pong = @ \/ r.h.last_sent_was_ping,
                       !.h.last_sent_was_ping = FALSE]
    IN IF q.h.queue = <<>> THEN q ELSE send_queued(q)

(* res: "ok", "again" (EAGAIN, which goes on as a success does) or "error" *)
handle_internal_sqe_completion(r, res) ==
    IF res = "error" THEN transition_to_error(r)
    ELSE IF r.h.phase = "DataPhase" THEN completion_in_data_phase(r)
    ELSE LET p == phase(r, AfterSend(r.h.phase))
             q == IF r.h.phase = "ReadyServerSend"
                  THEN signal(p, Unit("HandshakeComplete", 0)) ELSE p
         IN IF q.h.phase # r.h.phase /\ q.h.acc # <<>>
            THEN process_buffered_reads(q) ELSE q

(* idle: nothing was received or completed for a heartbeat interval;       *)
(* unanswered: the last PING is older than the heartbeat timeout.          *)
heartbeat(r, idle, unanswered) ==
    IF r.h.waiting_for_pong
    THEN IF unanswered THEN transition_to_error(r) ELSE r
    ELSE IF r.h.cfg.ivl /\ idle /\ r.h.version # "V2"
         THEN push([r EXCEPT !.h.last_sent_was_ping = TRUE], send(Unit("PING", 0)))
         ELSE r

prepare_sqes(r, idle, unanswered) ==
    IF r.late /\ r.h.phase \notin {"DataPhase", "Error", "Closed"}
    THEN transition_to_error(r)
    ELSE IF r.h.reader = IdleReader THEN push(r, RequestNewRingReadMultishot)
    ELSE IF r.h.phase # "DataPhase" THEN r
    ELSE IF r.h.queue # <<>> THEN send_queued(r)
    ELSE heartbeat(r, idle, unanswered)

(* Messages come as a Vec<Msg>, so only the queue of multipart messages is *)
(* ever used; a message that cannot be framed goes there too, and the next *)
(* poll or completion meets the error.                                     *)
handle_outgoing_app_data(r, u) ==
    IF r.h.phase = "DataPhase" /\ r.h.queue = <<>> /\ Frames(r, u)
    THEN add_send_blueprints_for_wire_bytes(r, u)
    ELSE [r EXCEPT !.h.queue = Append(@, u)]

(* The handler only changes its phase; it returns no operation.            *)
close_initiated(h) ==
    IF h.phase \in {"Closing", "Closed", "Error"} THEN h
    ELSE [h EXCEPT !.phase = "Closing", !.queue = <<>>]

-----------------------------------------------------------------------------
(* MultishotReader.  process_cqe returns the result and whether the        *)
(* operation is over.  buf: the completion carries a buffer (F_BUFFER),    *)
(* more: the operation stays armed (F_MORE).                               *)

mark_operation_submitted(h, op) ==
    IF h.reader = NoReader THEN h ELSE [h EXCEPT !.reader = op]

matches_cqe_user_data(h, op) == op > IdleReader /\ h.reader = op

process_cqe(r, cqe) ==
    LET over == [r EXCEPT !.h.reader = IdleReader]
    IN CASE cqe.res = "error" \/ ~cqe.buf -> <<[over EXCEPT !.close = TRUE], TRUE>>
         [] cqe.data = <<>> -> <<process_ring_read_data(over, <<>>), TRUE>>
         [] ~cqe.more -> <<process_ring_read_data(over, cqe.data), TRUE>>
         [] OTHER -> <<process_ring_read_data(r, cqe.data), FALSE>>

=============================================================================
