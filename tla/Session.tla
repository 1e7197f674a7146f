------------------------------- MODULE Session -------------------------------
(***************************************************************************)
(* The two ends of one connection: SessionConnectionActorX (sessionx/)     *)
(* with its ZMTP handshake, the mechanisms it negotiates (security/), the  *)
(* data phase and the heartbeat.                                           *)
(*                                                                         *)
(* A session is a loop over one select!.  The network arm runs the step of *)
(* the current HandshakeSubPhaseX; when any other arm fires first, the     *)
(* future of that step is dropped, and the step begins anew in the next    *)
(* round.  What survives is the protocol handler: its sub-phase, its read  *)
(* buffer and its mechanism.  at is what does not survive, the place       *)
(* inside a step that awaits twice.  A write of the handshake fits the     *)
(* kernel's buffer and does not await.                                     *)
(*                                                                         *)
(* The byte stream is a sequence of units: a prelude (signature and        *)
(* revision), a greeting tail, a frame.  A read moves any number of them   *)
(* into the read buffer, more than the step may need.  The far end of a    *)
(* connection of kind "v2" is not rzmq but a peer that speaks ZMTP/2.0.    *)
(***************************************************************************)
EXTENDS Naturals, Sequences

CONSTANTS
    Kinds,          \* the far ends there may be: "v3" is rzmq, "v2" is not
    Configs,        \* the security options of an end
    MaxData,        \* messages sent by an end
    MaxPings        \* PINGs sent by an end

Ends == {"client", "server"}
Peer(e) == IF e = "client" THEN "server" ELSE "client"
Mechanisms == {"NULL", "PLAIN", "CURVE", "NOISE_XX"}

(* use: the mechanisms switched on; keys: those whose keys are complete;   *)
(* id: the socket presents a routing id.                                   *)
AllConfigs == [use : SUBSET (Mechanisms \ {"NULL"}),
               keys : SUBSET {"CURVE", "NOISE_XX"}, id : BOOLEAN]

ASSUME ConstantsAssumption ==
    /\ Kinds \subseteq {"v2", "v3"}
    /\ Configs \subseteq AllConfigs
    /\ MaxData \in Nat /\ MaxPings \in Nat

VARIABLES
    kind,           \* what the far end of the connection is
    config,         \* ZmtpEngineConfig of each end
    agree,          \* credentials, keys or (ZMTP/2.0) socket types fit each other
    allow_zmtp2,
    sess,           \* the session of each end
    wire,           \* the units on their way to each end
    closed,         \* the ends that have shut their stream down
    v2peer,         \* how far a far end of kind "v2" is
    sent,           \* the messages each end has written
    got,            \* the messages each end has handed to its ISocket
    pings,          \* the PINGs each end has written
    restarted       \* an identity exchange was begun anew

setup == <<kind, config, agree, allow_zmtp2>>
counts == <<sent, got, pings>>
vars == <<setup, sess, wire, closed, v2peer, counts, restarted>>

Phases == {"HandshakeInProgress", "WaitingForPipes", "Operational",
           "ShuttingDownStream", "Terminating", "External"}
SubPhases == {"GreetingExchange", "WaitingForPeerRevision", "WaitingForGreeting",
              "SecurityHandshake", "ReadyExchange", "ClientSentReady",
              "ServerReceivedReady", "V2IdentityExchange", "Done"}
(* Why a session has left its loop.                                        *)
Causes == {"none", "protocol", "closed", "timeout", "stopped"}

Unit(t, v, key) == [t |-> t, v |-> v, key |-> key]
Commands == {"token", "READY", "PING", "PONG"}

TypeOK ==
    /\ kind \in {"v2", "v3"} /\ agree \in BOOLEAN /\ allow_zmtp2 \in BOOLEAN
    /\ config \in [Ends -> AllConfigs]
    /\ \A e \in Ends :
          /\ sess[e].phase \in Phases /\ sess[e].sub \in SubPhases
          /\ sess[e].at \in {"start", "identity"}
          /\ sess[e].mech \in Mechanisms /\ sess[e].step \in 0..4
          /\ sess[e].peer_mech \in Mechanisms \cup {"none"}
          /\ sess[e].version \in {"none", "V2", "V3"}
          /\ sess[e].framer \in Mechanisms
          /\ sess[e].id \in {"none", "security", "READY"}
          /\ sess[e].from_ready \in BOOLEAN
          /\ sess[e].attached \in BOOLEAN /\ sess[e].waiting_for_pong \in BOOLEAN
          /\ sess[e].cause \in Causes
          /\ sent[e] \in 0..MaxData /\ pings[e] \in 0..MaxPings
          (* a unit is in the wire or in the buffer, and there are not many *)
          /\ Len(wire[e]) + Len(sess[e].buf) <= 10 + 2 * MaxData + 2 * MaxPings
    /\ closed \subseteq Ends
    /\ v2peer \in 0..3 /\ restarted \in BOOLEAN

Init ==
    /\ kind \in Kinds
    /\ config \in [Ends -> Configs]
    /\ kind = "v2" => config["server"] = config["client"]    \* plays no part
    /\ agree \in BOOLEAN
    /\ allow_zmtp2 \in IF kind = "v2" THEN BOOLEAN ELSE {TRUE}
    /\ sess = [e \in Ends |->
          [phase |-> IF kind = "v2" /\ e = "server" THEN "External"
                     ELSE "HandshakeInProgress",
           sub |-> "GreetingExchange", at |-> "start", buf |-> <<>>,
           mech |-> "NULL", step |-> 0, peer_mech |-> "none", version |-> "none",
           framer |-> "NULL", id |-> "none", from_ready |-> FALSE,
           attached |-> FALSE, waiting_for_pong |-> FALSE, cause |-> "none"]]
    /\ wire = [e \in Ends |-> <<>>]
    /\ closed = {} /\ v2peer = 0 /\ restarted = FALSE
    /\ sent = [e \in Ends |-> 0] /\ pings = [e \in Ends |-> 0]
    /\ got = [e \in Ends |-> <<>>]

-----------------------------------------------------------------------------
(* What the steps are made of.                                             *)

become(e, s) == sess' = [sess EXCEPT ![e] = s]

write(e, u) ==
    wire' = [wire EXCEPT ![Peer(e)] = IF Peer(e) \in closed THEN @ ELSE Append(@, u)]

(* set_fatal_error drops the stream at once, transition_to_shutdown_stream *)
(* leaves that to the next round of the loop.                              *)
transition_to_shutdown_stream(s, why) ==
    [s EXCEPT !.phase = "ShuttingDownStream", !.cause = why]

clear_handshake_state(s) ==
    [s EXCEPT !.buf = <<>>, !.at = "start", !.mech = "NULL", !.step = 0,
              !.peer_mech = "none", !.version = "none", !.framer = "NULL"]

initiate_stream_shutdown(e, s) ==
    /\ become(e, clear_handshake_state(s))
    /\ closed' = closed \cup {e}
    /\ wire' = [wire EXCEPT ![e] = <<>>]

set_fatal_error(e, why) ==
    initiate_stream_shutdown(e, transition_to_shutdown_stream(sess[e], why))

Handshaking(e) == sess[e].phase = "HandshakeInProgress"
In(e, sub) == Handshaking(e) /\ sess[e].sub = sub
Rest(s, n) == SubSeq(s.buf, n + 1, Len(s.buf))

-----------------------------------------------------------------------------
(* The mechanisms.                                                         *)

Snd(t) == [op |-> "send", tok |-> t]
Rcv(t) == [op |-> "recv", tok |-> t]

plain_script(e) ==
    IF e = "client" THEN <<Snd("HELLO"), Rcv("WELCOME")>>
    ELSE <<Rcv("HELLO"), Snd("WELCOME")>>

curve_script(e) ==
    IF e = "client" THEN <<Snd("HELLO"), Rcv("WELCOME"), Snd("INITIATE")>>
    ELSE <<Rcv("HELLO"), Snd("WELCOME"), Rcv("INITIATE")>>

noise_script(e) ==
    IF e = "client" THEN <<Snd("e"), Rcv("e_ee_s_es"), Snd("s_se")>>
    ELSE <<Rcv("e"), Snd("e_ee_s_es"), Rcv("s_se")>>

Script(e, m) ==
    CASE m = "NULL" -> <<>> [] m = "PLAIN" -> plain_script(e)
      [] m = "CURVE" -> curve_script(e) [] m = "NOISE_XX" -> noise_script(e)

(* Credentials are looked at by the PLAIN server in HELLO; the key of the  *)
(* server is what the CURVE and NOISE_XX clients verify in its answer.     *)
(* Mutant: the key of the server is not compared with the expected one.    *)
accepts_any_key(e, m, tok) ==
    agree \/ ~(m = "PLAIN" /\ e = "server" /\ tok = "HELLO")

accepts(e, m, tok) ==
    agree \/ ~(\/ m = "PLAIN" /\ e = "server" /\ tok = "HELLO"
               \/ m \in {"CURVE", "NOISE_XX"} /\ e = "client")

is_locally_enabled(e, m) ==
    IF m = "NULL" THEN config[e].use = {} ELSE m \in config[e].use

initializes(e, m) == m \in {"CURVE", "NOISE_XX"} => m \in config[e].keys

(* Mutant: NOISE_XX is proposed though its keys are missing.               *)
determine_own_greeting_mechanism_keyless(e) ==
    IF "NOISE_XX" \in config[e].use THEN "NOISE_XX"
    ELSE IF "CURVE" \in config[e].use THEN "CURVE"
    ELSE IF "PLAIN" \in config[e].use THEN "PLAIN" ELSE "NULL"

determine_own_greeting_mechanism(e) ==
    IF "NOISE_XX" \in config[e].use \cap config[e].keys THEN "NOISE_XX"
    ELSE IF "CURVE" \in config[e].use THEN "CURVE"
    ELSE IF "PLAIN" \in config[e].use THEN "PLAIN" ELSE "NULL"

(* into_framer; a mechanism other than NULL also yields an identity.       *)
finalize(s, m) ==
    [s EXCEPT !.framer = m, !.mech = "NULL", !.step = 0, !.sub = "ReadyExchange",
              !.id = IF m = "NULL" THEN "none" ELSE "security"]

(* The loop of the security step goes on until it has to read.             *)
advance_mechanism(e, s) ==
    IF s.step < Len(Script(e, s.mech)) THEN [s EXCEPT !.step = @ + 1]
    ELSE finalize(s, s.mech)

-----------------------------------------------------------------------------
(* The steps of the handshake.                                             *)

(* Mutant: the sub-phase stays behind, and the signature is sent again.    *)
send_signature_stays(e) ==
    /\ In(e, "GreetingExchange")
    /\ write(e, Unit("prelude", "0x03", "NULL"))
    /\ UNCHANGED <<setup, sess, closed, v2peer, counts, restarted>>

send_signature(e) ==
    /\ In(e, "GreetingExchange")
    /\ write(e, Unit("prelude", "0x03", "NULL"))
    /\ become(e, [sess[e] EXCEPT !.sub = "WaitingForPeerRevision", !.buf = <<>>])
    /\ UNCHANGED <<setup, closed, v2peer, counts, restarted>>

(* Mutant: the version is chosen from a complete greeting.                 *)
peeks_revision_late(e) == Len(sess[e].buf) >= 2

(* Byte 10 is looked at and stays in the buffer.                           *)
peeks_revision(e) == sess[e].buf # <<>>

wait_for_peer_revision(e) ==
    /\ In(e, "WaitingForPeerRevision")
    /\ peeks_revision(e)
    /\ IF Head(sess[e].buf).v = "0x03"
       THEN /\ write(e, Unit("v3tail", determine_own_greeting_mechanism(e), "NULL"))
            /\ become(e, [sess[e] EXCEPT !.sub = "WaitingForGreeting"])
            /\ UNCHANGED closed
       ELSE IF ~allow_zmtp2 THEN set_fatal_error(e, "protocol")
       ELSE /\ write(e, Unit("v2tail", "type", "NULL"))
            /\ become(e, [sess[e] EXCEPT !.version = "V2", !.sub = "V2IdentityExchange"])
            /\ UNCHANGED closed
    /\ UNCHANGED <<setup, v2peer, counts, restarted>>

receive_greeting(e) ==
    /\ In(e, "WaitingForGreeting")
    /\ Len(sess[e].buf) >= 2
    /\ become(e, [sess[e] EXCEPT !.buf = Rest(sess[e], 2), !.version = "V3",
                                 !.peer_mech = sess[e].buf[2].v,
                                 !.sub = "SecurityHandshake"])
    /\ UNCHANGED <<setup, wire, closed, v2peer, counts, restarted>>

(* The mechanism is the one the peer has proposed.                         *)
negotiate_security_mechanism(e) ==
    LET m == sess[e].peer_mech
    IN  /\ In(e, "SecurityHandshake") /\ sess[e].mech = "NULL"
        /\ IF is_locally_enabled(e, m) /\ initializes(e, m)
           THEN /\ become(e, IF m = "NULL" THEN finalize(sess[e], m)
                             ELSE [sess[e] EXCEPT !.mech = m, !.step = 1])
                /\ UNCHANGED <<wire, closed>>
           ELSE set_fatal_error(e, "protocol")
        /\ UNCHANGED <<setup, v2peer, counts, restarted>>

Op(e) == Script(e, sess[e].mech)[sess[e].step]

produce_token(e) ==
    /\ In(e, "SecurityHandshake") /\ sess[e].mech # "NULL"
    /\ Op(e).op = "send"
    /\ write(e, Unit("token", Op(e).tok, sess[e].mech))
    /\ become(e, advance_mechanism(e, sess[e]))
    /\ UNCHANGED <<setup, closed, v2peer, counts, restarted>>

process_token(e) ==
    LET u == Head(sess[e].buf)
    IN  /\ In(e, "SecurityHandshake") /\ sess[e].mech # "NULL"
        /\ Op(e).op = "recv"
        /\ sess[e].buf # <<>>
        /\ IF /\ u.t = "token" /\ u.key = sess[e].mech /\ u.v = Op(e).tok
              /\ accepts(e, sess[e].mech, u.v)
           THEN /\ become(e, advance_mechanism(e, [sess[e] EXCEPT !.buf = Tail(@)]))
                /\ UNCHANGED <<wire, closed>>
           ELSE set_fatal_error(e, "protocol")
        /\ UNCHANGED <<setup, v2peer, counts, restarted>>

READY(e) == Unit("READY", IF config[e].id THEN "id" ELSE "anonymous", "NULL")

(* handle_handshake_progression once the handshake is Done: wait for the   *)
(* pipes, or go on at once.                                                *)
handshake_done(s) ==
    [s EXCEPT !.sub = "Done",
              !.phase = IF s.attached THEN "Operational" ELSE "WaitingForPipes"]

client_send_ready(e) ==
    /\ e = "client" /\ In(e, "ReadyExchange")
    /\ write(e, READY(e))
    /\ become(e, [sess[e] EXCEPT !.sub = "ClientSentReady"])
    /\ UNCHANGED <<setup, closed, v2peer, counts, restarted>>

server_receive_ready(e) ==
    LET u == Head(sess[e].buf)
    IN  /\ e = "server" /\ In(e, "ReadyExchange")
        /\ sess[e].buf # <<>>
        /\ IF u.t = "READY"
           THEN /\ become(e, [sess[e] EXCEPT !.buf = Tail(@), !.from_ready = (u.v = "id"),
                                             !.sub = "ServerReceivedReady"])
                /\ UNCHANGED <<wire, closed>>
           ELSE set_fatal_error(e, "protocol")
        /\ UNCHANGED <<setup, v2peer, counts, restarted>>

server_send_ready(e) ==
    /\ In(e, "ServerReceivedReady")
    /\ write(e, READY(e))
    /\ become(e, [handshake_done(sess[e]) EXCEPT
                     !.id = IF sess[e].from_ready THEN "READY" ELSE @,
                     !.from_ready = FALSE])
    /\ UNCHANGED <<setup, closed, v2peer, counts, restarted>>

(* Mutant: data that came with the READY is dropped.                       *)
client_receive_peer_ready_clears(e) ==
    /\ In(e, "ClientSentReady")
    /\ sess[e].buf # <<>>
    /\ become(e, [handshake_done(sess[e]) EXCEPT
                     !.buf = <<>>, !.id = IF Head(sess[e].buf).v = "id" THEN "READY" ELSE @])
    /\ UNCHANGED <<setup, wire, closed, v2peer, counts, restarted>>

client_receive_peer_ready(e) ==
    LET u == Head(sess[e].buf)
    IN  /\ In(e, "ClientSentReady")
        /\ sess[e].buf # <<>>
        /\ IF u.t = "READY"
           THEN /\ become(e, [handshake_done(sess[e]) EXCEPT
                                 !.buf = Tail(@), !.id = IF u.v = "id" THEN "READY" ELSE @])
                /\ UNCHANGED <<wire, closed>>
           ELSE set_fatal_error(e, "protocol")
        /\ UNCHANGED <<setup, v2peer, counts, restarted>>

(* exchange_v2_identity up to its second await.  Twelve bytes are taken    *)
(* for the greeting of the peer: begun anew, the step takes them from the  *)
(* identity and the data that follow, and what stands in for the socket    *)
(* type is anything.                                                       *)
exchange_v2_identity(e) ==
    /\ In(e, "V2IdentityExchange") /\ sess[e].at = "start"
    /\ Len(sess[e].buf) >= 2
    /\ \/ /\ agree \/ sess[e].buf[2].t # "v2tail"
          /\ write(e, Unit("identity", "anonymous", "NULL"))
          /\ become(e, [sess[e] EXCEPT !.buf = Rest(sess[e], 2), !.at = "identity"])
          /\ UNCHANGED closed
       \/ /\ ~agree \/ sess[e].buf[2].t # "v2tail"
          /\ set_fatal_error(e, "protocol")
    /\ UNCHANGED <<setup, v2peer, counts, restarted>>

(* What stands in for the identity may have a flag or a length no identity *)
(* has (enforce_v2_identity_constraints).                                  *)
read_v2_identity_frame(e) ==
    /\ In(e, "V2IdentityExchange") /\ sess[e].at = "identity"
    /\ sess[e].buf # <<>>
    /\ \/ /\ become(e, [handshake_done(sess[e]) EXCEPT !.buf = Tail(@), !.at = "start"])
          /\ UNCHANGED <<wire, closed>>
       \/ /\ Head(sess[e].buf).t # "identity"
          /\ set_fatal_error(e, "protocol")
    /\ UNCHANGED <<setup, v2peer, counts, restarted>>

-----------------------------------------------------------------------------
(* The data phase.                                                         *)

Operational(e) == sess[e].phase = "Operational"

write_data_msgs(e) ==
    /\ Operational(e)
    /\ sent[e] < MaxData
    /\ sent' = [sent EXCEPT ![e] = @ + 1]
    /\ write(e, Unit("data", sent[e] + 1, sess[e].framer))
    /\ UNCHANGED <<setup, sess, closed, v2peer, got, pings, restarted>>

(* A message, a PING or a PONG cannot be written: the stream is broken, or *)
(* the kernel's buffer has been full for as long as SNDTIMEO.              *)
write_fails(e) ==
    /\ Operational(e)
    /\ \/ Peer(e) \in closed /\ set_fatal_error(e, "closed")
       \/ set_fatal_error(e, "timeout")
    /\ UNCHANGED <<setup, v2peer, counts, restarted>>

(* try_send_ping, on a tick of the timer after a silence.                  *)
try_send_ping(e) ==
    /\ Operational(e)
    /\ sess[e].version # "V2"
    /\ ~sess[e].waiting_for_pong
    /\ pings[e] < MaxPings
    /\ pings' = [pings EXCEPT ![e] = @ + 1]
    /\ write(e, Unit("PING", "none", sess[e].framer))
    /\ become(e, [sess[e] EXCEPT !.waiting_for_pong = TRUE])
    /\ UNCHANGED <<setup, closed, v2peer, sent, got, restarted>>

pong_timed_out(e) ==
    /\ Operational(e)
    /\ sess[e].waiting_for_pong
    /\ set_fatal_error(e, "timeout")
    /\ UNCHANGED <<setup, v2peer, counts, restarted>>

(* A frame is read with the framer of this end and handed on, answered, or *)
(* ignored; commands have no place on a ZMTP/2.0 connection.               *)
handle_incoming_from_network(e) ==
    LET u == Head(sess[e].buf)
        s == [sess[e] EXCEPT !.buf = Tail(@)]
    IN  /\ Operational(e)
        /\ sess[e].buf # <<>>
        /\ IF u.key # s.framer \/ (u.t \in Commands /\ s.version = "V2")
           THEN set_fatal_error(e, "protocol") /\ UNCHANGED counts
           ELSE /\ become(e, IF u.t = "PONG" THEN [s EXCEPT !.waiting_for_pong = FALSE] ELSE s)
                /\ IF u.t = "PING" THEN write(e, Unit("PONG", "none", s.framer))
                   ELSE UNCHANGED wire
                /\ got' = [got EXCEPT ![e] = IF u.t \in Commands THEN @
                                             ELSE Append(@, IF u.t = "data" THEN u.v ELSE 0)]
                /\ UNCHANGED <<closed, sent, pings>>
        /\ UNCHANGED <<setup, v2peer, restarted>>

-----------------------------------------------------------------------------
(* Reading from the stream: only when the buffer does not hold what the    *)
(* step waits for.                                                         *)

Wanted(e) ==
    IF Operational(e) THEN 1
    ELSE CASE sess[e].sub = "WaitingForGreeting" -> 2
           [] sess[e].sub = "V2IdentityExchange" -> IF sess[e].at = "start" THEN 2 ELSE 1
           [] sess[e].sub = "SecurityHandshake" ->
                IF sess[e].mech # "NULL" /\ Op(e).op = "recv" THEN 1 ELSE 0
           [] sess[e].sub = "ReadyExchange" -> IF e = "server" THEN 1 ELSE 0
           [] sess[e].sub \in {"WaitingForPeerRevision", "ClientSentReady"} -> 1
           [] OTHER -> 0

Reads(e) == (Handshaking(e) \/ Operational(e)) /\ Len(sess[e].buf) < Wanted(e)

read_buf(e) ==
    /\ Reads(e)
    /\ \E n \in 1..Len(wire[e]) :
          /\ become(e, [sess[e] EXCEPT !.buf = @ \o SubSeq(wire[e], 1, n)])
          /\ wire' = [wire EXCEPT ![e] = SubSeq(@, n + 1, Len(@))]
    /\ UNCHANGED <<setup, closed, v2peer, counts, restarted>>

(* The end of the stream, or the error of a stream that was reset.         *)
read_eof(e) ==
    /\ Reads(e)
    /\ wire[e] = <<>> /\ Peer(e) \in closed
    /\ \/ become(e, transition_to_shutdown_stream(sess[e], "closed"))
          /\ UNCHANGED <<wire, closed>>
       \/ set_fatal_error(e, "closed")
    /\ UNCHANGED <<setup, v2peer, counts, restarted>>

(* The other end was closed with bytes unread: TCP drops ours too.         *)
connection_reset(e) ==
    /\ Peer(e) \in closed
    /\ wire[e] # <<>>
    /\ wire' = [wire EXCEPT ![e] = <<>>]
    /\ UNCHANGED <<setup, sess, closed, v2peer, counts, restarted>>

-----------------------------------------------------------------------------
(* The other arms of the select!.                                          *)

(* Every one of them drops the future of the network arm.                  *)
(* Mutant: the identity of the peer is held by the future.                 *)
drop_future_with_identity(s) == [s EXCEPT !.at = "start", !.from_ready = FALSE]

drop_future(s) == [s EXCEPT !.at = "start"]
Restarts(e) == restarted' = (restarted \/ sess[e].at = "identity")

initialize_pipes(e) ==
    /\ sess[e].phase \in {"HandshakeInProgress", "WaitingForPipes"}
    /\ ~sess[e].attached
    /\ become(e, [drop_future(sess[e]) EXCEPT
                     !.attached = TRUE,
                     !.phase = IF @ = "WaitingForPipes" THEN "Operational" ELSE @])
    /\ Restarts(e)
    /\ UNCHANGED <<setup, wire, closed, v2peer, counts>>

(* Any event of the bus that is not about this session; it matters only to *)
(* a future that has come past its first await.                            *)
process_other_event(e) ==
    /\ Handshaking(e)
    /\ sess[e].at # "start"
    /\ become(e, drop_future(sess[e]))
    /\ Restarts(e)
    /\ UNCHANGED <<setup, wire, closed, v2peer, counts>>

Alive(e) == sess[e].phase \in {"HandshakeInProgress", "WaitingForPipes", "Operational"}

(* Stop, a closed mailbox, ContextTerminating, SocketClosing, a lag, a     *)
(* message refused by an ISocket that has closed its queue.                *)
stop(e) ==
    /\ Alive(e)
    /\ \/ become(e, transition_to_shutdown_stream(sess[e], "stopped"))
          /\ UNCHANGED <<wire, closed>>
       \/ set_fatal_error(e, "stopped")
    /\ UNCHANGED <<setup, v2peer, counts, restarted>>

handshake_timeout(e) ==
    /\ Handshaking(e)
    /\ set_fatal_error(e, "timeout")
    /\ UNCHANGED <<setup, v2peer, counts, restarted>>

perform_graceful_shutdown(e) ==
    /\ sess[e].phase = "ShuttingDownStream"
    /\ initiate_stream_shutdown(e, [sess[e] EXCEPT !.phase = "Terminating", !.attached = FALSE])
    /\ UNCHANGED <<setup, v2peer, counts, restarted>>

-----------------------------------------------------------------------------
(* A ZMTP/2.0 peer: prelude, socket type, identity, then messages, each    *)
(* once it has seen ours.                                                  *)
v2_peer(e) ==
    /\ sess[e].phase = "External"
    /\ \/ /\ v2peer = 0
          /\ v2peer' = 1 /\ write(e, Unit("prelude", "0x01", "NULL"))
          /\ UNCHANGED sent
       \/ /\ v2peer \in {1, 2} /\ wire[e] # <<>>
          /\ v2peer' = v2peer + 1
          /\ wire' = [wire EXCEPT ![e] = Tail(@),
                        ![Peer(e)] = IF Peer(e) \in closed THEN @
                                     ELSE Append(@, IF v2peer = 1 THEN Unit("v2tail", "type", "NULL")
                                                    ELSE Unit("identity", "anonymous", "NULL"))]
          /\ UNCHANGED sent
       \/ /\ v2peer = 3 /\ sent[e] < MaxData
          /\ sent' = [sent EXCEPT ![e] = @ + 1]
          /\ write(e, Unit("data", sent[e] + 1, "NULL"))
          /\ UNCHANGED v2peer
    /\ UNCHANGED <<setup, sess, closed, got, pings, restarted>>

-----------------------------------------------------------------------------
HandshakeStep(e) ==
    \/ send_signature(e) \/ wait_for_peer_revision(e) \/ receive_greeting(e)
    \/ negotiate_security_mechanism(e) \/ produce_token(e) \/ process_token(e)
    \/ client_send_ready(e) \/ server_receive_ready(e) \/ server_send_ready(e)
    \/ client_receive_peer_ready(e)
    \/ exchange_v2_identity(e) \/ read_v2_identity_frame(e)

NetworkStep(e) ==
    HandshakeStep(e) \/ read_buf(e) \/ read_eof(e) \/ handle_incoming_from_network(e)

Next ==
    \E e \in Ends :
        \/ NetworkStep(e) \/ write_data_msgs(e) \/ write_fails(e)
        \/ try_send_ping(e) \/ pong_timed_out(e)
        \/ initialize_pipes(e) \/ process_other_event(e) \/ stop(e) \/ handshake_timeout(e)
        \/ connection_reset(e) \/ perform_graceful_shutdown(e) \/ v2_peer(e)

(* The session task is polled, the core sends the pipes, a ZMTP/2.0 peer   *)
(* goes on with its greeting.  No timer has to run out, nothing has to be  *)
(* stopped, no message has to be sent.                                     *)
Fairness ==
    \A e \in Ends :
        /\ WF_vars(NetworkStep(e))
        /\ WF_vars(initialize_pipes(e))
        /\ WF_vars(perform_graceful_shutdown(e))
        /\ WF_vars(v2_peer(e) /\ v2peer' # v2peer)

Spec == Init /\ [][Next]_vars /\ Fairness

-----------------------------------------------------------------------------
(* What two ends need to have in common, said from their options alone:    *)
(* the first choice of the one is the first choice of the other, and both  *)
(* can run it.                                                             *)
Usable(c) ==
    (c.use \ ({"CURVE", "NOISE_XX"} \ c.keys)) \cup (IF c.use = {} THEN {"NULL"} ELSE {})

Preferred(c) ==
    IF {"NOISE_XX"} \subseteq c.use \cap c.keys THEN "NOISE_XX"
    ELSE IF "CURVE" \in c.use THEN "CURVE"
    ELSE IF "PLAIN" \in c.use THEN "PLAIN" ELSE "NULL"

Compatible ==
    IF kind = "v2" THEN allow_zmtp2 /\ agree
    ELSE /\ Preferred(config["client"]) = Preferred(config["server"])
         /\ \A e \in Ends : Preferred(config[e]) \in Usable(config[e])
         /\ Preferred(config["client"]) = "NULL" \/ agree

(* Somebody asked a session to end, or a timer ended it.                   *)
Disturbed == \E e \in Ends : sess[e].cause \in {"stopped", "timeout"}

(* Only compatible ends come to exchange messages (ends that differ in the *)
(* mechanism they propose, in keys or in credentials never do), and when   *)
(* both do, they frame them the same way (negotiate_security_mechanism,    *)
(* process_token, into_framer).                                            *)
OnlyCompatibleMeet ==
    /\ \A e \in Ends : Operational(e) /\ ~restarted => Compatible
    /\ kind = "v3" /\ (\A e \in Ends : Operational(e)) =>
          \A e \in Ends : sess[e].framer = Preferred(config[e])

(* Compatible ends never refuse each other: neither the handshake nor the  *)
(* data phase ends with a protocol or security error, whatever is read in  *)
(* one piece and whichever arm of the select! interrupts it, a ZMTP/2.0    *)
(* identity exchange begun anew apart.                                     *)
NoSpuriousError ==
    Compatible /\ ~restarted => \A e \in Ends : sess[e].cause # "protocol"

(* The units an end has not handled yet.                                   *)
Ahead(e) == sess[e].buf \o wire[e]

(* Messages reach the ISocket in order, each once and from the first, and  *)
(* while the connection lasts every one that was sent is received or on    *)
(* its way: nothing read ahead during the handshake is lost (receive_      *)
(* greeting_impl: "Does NOT clear network_read_buffer").                   *)
InOrderOnce ==
    ~restarted => \A e \in Ends :
        /\ \A i \in 1..Len(got[e]) : got[e][i] = i
        /\ Len(got[e]) <= sent[Peer(e)]
        /\ closed = {} => \A n \in (Len(got[e]) + 1)..sent[Peer(e)] :
              \E i \in 1..Len(Ahead(e)) : Ahead(e)[i].t = "data" /\ Ahead(e)[i].v = n

(* The identity an end announces is the one its peer put into READY, if it *)
(* put one there, and the mechanism's otherwise: "a cancelled-and-         *)
(* restarted future does not lose the value" (ZmtpHandshakeStateX).        *)
IdentityOfPeer ==
    \A e \in Ends : kind = "v3" /\ Operational(e) =>
        sess[e].id = IF config[Peer(e)].id THEN "READY"
                     ELSE IF sess[e].framer = "NULL" THEN "none" ELSE "security"

(* "two rzmq peers doing this dance never deadlock" (send_signature_impl): *)
(* a handshake comes to its end without any timeout, and compatible ends   *)
(* both become operational unless one is stopped or a timer runs out.      *)
HandshakeSettles ==
    /\ \A e \in Ends : Handshaking(e) ~> (~Handshaking(e) \/ restarted)
    /\ Compatible ~> (\/ Disturbed \/ restarted
                      \/ \A e \in Ends : sess[e].phase \in {"Operational", "External"})

=============================================================================
