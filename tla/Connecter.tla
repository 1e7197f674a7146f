------------------------------- MODULE Connecter -------------------------------
(***************************************************************************)
(* How a socket gets and keeps an outgoing TCP connection: the connecter   *)
(* actor (transport/tcp.rs), which tries to connect until it succeeds, the *)
(* core's table of reconnects (socket/core/), which starts a new connecter *)
(* when a connection is lost, and the events that should end it all.       *)
(*                                                                         *)
(* There is one target, given by its address, so that the URI of the       *)
(* target and of the connected peer are the same.  A member of Connecters  *)
(* is a connecter together with the session it starts; it is used again    *)
(* when both are over and the core has read everything they published.     *)
(*                                                                         *)
(* rx[c] holds the bus events a connecter has not read: "stop" for         *)
(* ContextTerminating and for the SocketClosing of its socket, "other" for *)
(* the rest, which come at any time.  corebox holds the events for the     *)
(* core; that the core's own receiver may lag is in SocketCore.            *)
(***************************************************************************)
EXTENDS Integers, Sequences, FiniteSets

CONSTANTS
    Connecters,         \* connecter actors
    RECONNECT_IVL,      \* the options, in units of time, as set by the user
    RECONNECT_IVL_MAX,
    DefaultIvl,         \* DEFAULT_RECONNECT_IVL_MS
    ExpCap,             \* the largest exponent of the backoff: 31 in the code
    RxCap,              \* how many "other" events may wait for a connecter
    MaxLags,            \* how often a connecter falls behind the bus
    Reachable,          \* the peer can be reached
    MaxConnects,        \* calls of connect()
    None

ASSUME ConstantsAssumption ==
    /\ RECONNECT_IVL \in Nat \cup {-1}
    /\ RECONNECT_IVL_MAX \in Nat
    /\ DefaultIvl \in Nat \ {0}
    /\ ExpCap \in Nat /\ RxCap \in Nat /\ MaxConnects \in Nat
    /\ MaxLags \in Nat /\ Reachable \in BOOLEAN
    /\ None \notin Connecters \cup Nat

(* Arithmetic, for the provers, which know nothing of powers.              *)
ASSUME PowersAssumption == \A n \in 0..ExpCap : 2^n \in Nat

VARIABLES
    phase,              \* of the core: "Running", "Closing" or "Closed"
    terminating,        \* the context's shutdown_initiated
    corebox,            \* events the core has not read
    endpoint,           \* the connection in the endpoints map, or None
    mapped,             \* connections whose pipe is in pipe_read_id_to_endpoint_uri
    current_attempts,   \* the ReconnectState of the target
    next_attempt_at,    \* the delay that was scheduled, or None
    pc,                 \* where each connecter is
    retry_delay,        \* current_retry_delay of each connecter
    rx, lagged,         \* the receiver of each connecter
    session,            \* the session of each connecter
    told,               \* the sessions that have been told to stop
    calls, lags,        \* connect() calls and lags so far
    (* What happened, for the properties only. *)
    givenUp             \* the target was given up: see NeverForgotten

table == <<current_attempts, next_attempt_at>>
receivers == <<rx, lagged>>
core == <<phase, endpoint, mapped>>
env == <<terminating, calls, lags>>
vars == <<core, corebox, table, pc, retry_delay, receivers, session, told, env, givenUp>>

Places == {"free", "spawned", "delay", "pre", "connecting", "announce"}
SessionStates == {"none", "handshake", "operational", "penalty", "gone"}
(* "reset" is PeerIdentityEstablished.                                     *)
Event(t, c, e) == [type |-> t, id |-> c, error |-> e]
Events ==
    [type : {"NewConnectionEstablished", "reset"}, id : Connecters, error : {"none"}]
        \cup [type : {"ActorStopping"}, id : Connecters, error : {"none", "transient"}]
        \cup [type : {"ConnectionAttemptFailed"}, id : Connecters, error : {"fatal", "transient"}]
        \cup [type : {"ContextTerminating"}, id : {None}, error : {"none"}]

-----------------------------------------------------------------------------
(* The options and the two computations of the backoff.                    *)

parse_reconnect_ivl_option(v) == IF v \in {-1, 0} THEN None ELSE v
reconnect_ivl == parse_reconnect_ivl_option(RECONNECT_IVL)

Min2(a, b) == IF a < b THEN a ELSE b
(* The connecter's delay after one more failed attempt.                    *)
doubled(d) == IF RECONNECT_IVL_MAX > 0 THEN Min2(2 * d, RECONNECT_IVL_MAX) ELSE d

initial_reconnect_ivl == IF reconnect_ivl = None THEN DefaultIvl ELSE reconnect_ivl
no_retry_after_first_connect_fail == reconnect_ivl = 0 /\ RECONNECT_IVL_MAX = 0

(* The delay fast-forwarded over the attempts it inherits.                 *)
inherited_delay(attempts) ==
    IF RECONNECT_IVL_MAX > 0 /\ attempts > 0
    THEN Min2(initial_reconnect_ivl * 2^attempts, RECONNECT_IVL_MAX)
    ELSE initial_reconnect_ivl

backoff(attempts) ==
    LET d == reconnect_ivl * 2^attempts
    IN  IF RECONNECT_IVL_MAX > 0 THEN Min2(d, RECONNECT_IVL_MAX) ELSE d

(* Mutant: the failure is counted but nothing is scheduled.                *)
on_connection_failure_unscheduled ==
    /\ current_attempts' = Min2(current_attempts + 1, ExpCap)
    /\ UNCHANGED next_attempt_at

(* Mutant: the count of attempts is not saturated.                         *)
on_connection_failure_unsaturated ==
    /\ current_attempts' = current_attempts + 1
    /\ next_attempt_at' = backoff(current_attempts)

(* The count of attempts matters only up to ExpCap.                        *)
on_connection_failure ==
    /\ current_attempts' = Min2(current_attempts + 1, ExpCap)
    /\ next_attempt_at' = backoff(current_attempts)

on_connection_success == current_attempts' = 0 /\ next_attempt_at' = None

(* The test before both uses of on_connection_failure.                     *)
reconnect_or_not(error) ==
    IF reconnect_ivl # None /\ error = "transient" THEN on_connection_failure
    ELSE UNCHANGED table

-----------------------------------------------------------------------------
TypeOK ==
    /\ phase \in {"Running", "Closing", "Closed"} /\ terminating \in BOOLEAN
    /\ corebox \in Seq(Events)
    /\ endpoint \in Connecters \cup {None}
    /\ mapped \subseteq Connecters
    /\ current_attempts \in 0..ExpCap
    /\ next_attempt_at \in Nat \cup {None}
    /\ pc \in [Connecters -> Places]
    /\ retry_delay \in [Connecters -> Nat]
    /\ rx \in [Connecters -> Seq({"stop", "other"})]
    /\ lagged \in [Connecters -> BOOLEAN]
    /\ session \in [Connecters -> SessionStates]
    /\ told \subseteq Connecters
    /\ calls \in 0..MaxConnects /\ lags \in 0..MaxLags
    /\ givenUp \in BOOLEAN

Init ==
    /\ phase = "Running" /\ terminating = FALSE
    /\ corebox = <<>>
    /\ endpoint = None /\ mapped = {}
    /\ current_attempts = 0 /\ next_attempt_at = None
    /\ pc = [c \in Connecters |-> "free"]
    /\ retry_delay = [c \in Connecters |-> 0]
    /\ rx = [c \in Connecters |-> <<>>]
    /\ lagged = [c \in Connecters |-> FALSE]
    /\ session = [c \in Connecters |-> "none"]
    /\ told = {} /\ calls = 0 /\ lags = 0
    /\ givenUp = FALSE

Unread(t, c) == \E i \in 1..Len(corebox) : corebox[i].type = t /\ corebox[i].id = c
Alive(c) == session[c] \in {"handshake", "operational"}
Free(c) ==
    /\ pc[c] = "free" /\ session[c] \in {"none", "gone"} /\ endpoint # c
    /\ \A i \in 1..Len(corebox) : corebox[i].id # c

(* Publishing to a core that has left its loop reaches nobody.             *)
post(e) == corebox' = IF phase = "Closed" THEN corebox ELSE Append(corebox, e)

(* A stop event reaches the connecters that have subscribed.               *)
Subscribed == {c \in Connecters : pc[c] \notin {"free", "spawned"}}
stop_event == rx' = [c \in Connecters |-> IF c \in Subscribed THEN Append(rx[c], "stop") ELSE rx[c]]

-----------------------------------------------------------------------------
(* The core.                                                               *)

respawn_connecter_actor(c) ==
    /\ Free(c)
    /\ pc' = [pc EXCEPT ![c] = "spawned"]
    /\ retry_delay' = [retry_delay EXCEPT ![c] = inherited_delay(current_attempts)]
    /\ session' = [session EXCEPT ![c] = "none"]
    /\ mapped' = mapped \ {c}
    /\ told' = told \ {c}

handle_user_connect(c) ==
    /\ phase = "Running" /\ calls < MaxConnects
    /\ calls' = calls + 1
    /\ respawn_connecter_actor(c)
    /\ UNCHANGED <<phase, endpoint, corebox, table, receivers, terminating, lags, givenUp>>

(* Mutant: the entry stays due after its connecter is started.             *)
maintenance_tick_keeps_due(c) ==
    /\ phase = "Running" /\ next_attempt_at # None
    /\ respawn_connecter_actor(c)
    /\ UNCHANGED <<table, phase, endpoint, corebox, receivers, env, givenUp>>

maintenance_tick(c) ==
    /\ phase = "Running" /\ next_attempt_at # None
    /\ next_attempt_at' = None
    /\ respawn_connecter_actor(c)
    /\ UNCHANGED <<current_attempts, phase, endpoint, corebox, receivers, env, givenUp>>

(* A disconnect finds only a connection: not a connecter, not a table      *)
(* entry.  It sends Stop.                                                  *)
handle_user_disconnect ==
    /\ phase = "Running" /\ endpoint # None
    /\ told' = told \cup {endpoint}
    /\ givenUp' = TRUE
    /\ UNCHANGED <<core, corebox, table, pc, retry_delay, receivers, session, env>>

(* A session whose mailbox is open is attached, even when it has ended and *)
(* only waits out its penalty; what was in the map is told to close.       *)
attach_session(c) ==
    /\ endpoint' = c
    /\ mapped' = mapped \cup {c}
    /\ told' = IF endpoint = None THEN told ELSE told \cup {endpoint}
    /\ givenUp' = (givenUp \/ endpoint # None)
    /\ UNCHANGED <<phase, table>>

(* A session that is gone is fatal to the core, which closes without an    *)
(* event.                                                                  *)
handle_new_connection_established(c) ==
    IF phase # "Running"
    THEN told' = told \cup {c} /\ UNCHANGED <<core, table, givenUp>>
    ELSE IF session[c] # "gone" THEN attach_session(c)
    ELSE /\ phase' = "Closing"
         /\ told' = IF endpoint = None THEN told ELSE told \cup {endpoint}
         /\ UNCHANGED <<endpoint, mapped, table, givenUp>>

(* cleanup_stopped_child_resources, and the reconnect if the connection    *)
(* was in the map and ended with an error.                                 *)
handle_actor_stopping_event(c, error) ==
    /\ IF endpoint = c
       THEN /\ endpoint' = None /\ mapped' = mapped \ {c}
            /\ IF phase = "Running" THEN reconnect_or_not(error) ELSE UNCHANGED table
       ELSE UNCHANGED <<endpoint, mapped, table>>
    /\ givenUp' = (givenUp \/ c \notin mapped)
    /\ UNCHANGED <<phase, told>>

handle_connect_failed_event(error) ==
    /\ reconnect_or_not(error)
    /\ UNCHANGED <<core, told, givenUp>>

handle_peer_identity_established(c) ==
    /\ IF phase = "Running" /\ c \in mapped THEN on_connection_success ELSE UNCHANGED table
    /\ UNCHANGED <<core, told, givenUp>>

handle_context_terminating ==
    /\ phase' = IF phase = "Running" THEN "Closing" ELSE phase
    /\ UNCHANGED <<endpoint, mapped, told, table, givenUp>>

process_system_event ==
    /\ phase # "Closed" /\ corebox # <<>>
    /\ corebox' = Tail(corebox)
    /\ LET e == Head(corebox)
       IN  \/ e.type = "NewConnectionEstablished" /\ handle_new_connection_established(e.id)
           \/ e.type = "ActorStopping" /\ handle_actor_stopping_event(e.id, e.error)
           \/ e.type = "ConnectionAttemptFailed" /\ handle_connect_failed_event(e.error)
           \/ e.type = "reset" /\ handle_peer_identity_established(e.id)
           \/ e.type = "ContextTerminating" /\ handle_context_terminating
    /\ UNCHANGED <<pc, retry_delay, receivers, session, env>>

Sessions == {c \in Connecters : Alive(c)}

(* close(): SocketClosing goes out, then the shutdown begins.              *)
user_close ==
    /\ phase = "Running"
    /\ phase' = "Closing"
    /\ stop_event
    /\ told' = told \cup Sessions
    /\ UNCHANGED <<endpoint, mapped, corebox, table, pc, retry_delay, lagged, session, env, givenUp>>

(* The last handle of the socket is dropped: the shutdown begins without   *)
(* an event.                                                               *)
command_mailbox_closed ==
    /\ phase = "Running"
    /\ phase' = "Closing"
    /\ told' = IF endpoint = None THEN told ELSE told \cup {endpoint}
    /\ UNCHANGED <<endpoint, mapped, corebox, table, pc, retry_delay, receivers, session, env, givenUp>>

(* The rest of the shutdown, which waits for the ActorStopping of what is  *)
(* in the map, is in SocketCore.                                           *)
exit_loop ==
    /\ phase = "Closing" /\ endpoint = None
    /\ phase' = "Closed"
    /\ corebox' = <<>> /\ mapped' = {}
    /\ current_attempts' = 0 /\ next_attempt_at' = None
    /\ UNCHANGED <<endpoint, pc, retry_delay, receivers, session, told, env, givenUp>>

context_shutdown ==
    /\ ~terminating
    /\ terminating' = TRUE
    /\ post(Event("ContextTerminating", None, "none"))
    /\ stop_event
    /\ told' = told \cup Sessions
    /\ UNCHANGED <<core, table, pc, retry_delay, lagged, session, calls, lags, givenUp>>

-----------------------------------------------------------------------------
(* The connecter: run_connect_loop, try_connect_once and                   *)
(* wait_for_retry_delay_internal.                                          *)

coreOnly == <<core, table, env, told>>

(* The task runs: its receiver sees what is published from now on.         *)
subscribe(c) ==
    /\ pc[c] = "spawned"
    /\ pc' = [pc EXCEPT ![c] = "pre"]
    /\ rx' = [rx EXCEPT ![c] = <<>>]
    /\ lagged' = [lagged EXCEPT ![c] = FALSE]
    /\ UNCHANGED <<coreOnly, corebox, retry_delay, session, givenUp>>

(* The end of the task, which drops its receiver, with                     *)
(* ConnectionAttemptFailed or without.                                     *)
end_task(c) ==
    /\ pc' = [pc EXCEPT ![c] = "free"]
    /\ retry_delay' = [retry_delay EXCEPT ![c] = 0]
    /\ rx' = [rx EXCEPT ![c] = <<>>]
    /\ lagged' = [lagged EXCEPT ![c] = FALSE]

stop_with_report(c, error) ==
    end_task(c) /\ post(Event("ConnectionAttemptFailed", c, error))

stop_silently(c) == end_task(c) /\ UNCHANGED corebox

Quiet(c) == rx[c] = <<>> /\ ~lagged[c]
take_event(c) == rx' = [rx EXCEPT ![c] = Tail(@)] /\ UNCHANGED lagged

(* The delay passes; any event but a stop cuts it short.  A delay is never *)
(* zero: RECONNECT_IVL cannot be set to Some(0).                           *)
next_try(c) ==
    /\ pc' = [pc EXCEPT ![c] = "pre"]
    /\ retry_delay' = [retry_delay EXCEPT ![c] = doubled(@)]
    /\ UNCHANGED <<corebox, givenUp>>

wait_for_retry_delay(c) ==
    /\ pc[c] = "delay"
    /\ \/ Quiet(c) /\ next_try(c) /\ UNCHANGED receivers
       \/ /\ ~lagged[c] /\ rx[c] # <<>> /\ Head(rx[c]) = "other"
          /\ next_try(c) /\ take_event(c)
       \/ /\ ~lagged[c] /\ rx[c] # <<>> /\ Head(rx[c]) = "stop"
          /\ stop_silently(c) /\ UNCHANGED givenUp
       \/ /\ lagged[c]
          /\ stop_silently(c) /\ givenUp' = TRUE
    /\ UNCHANGED <<coreOnly, session>>

(* Mutant: a lag before the attempt ends the connecter without a word.     *)
pre_connect_lag_silent(c) ==
    /\ pc[c] = "pre"
    /\ IF lagged[c] THEN stop_silently(c)
       ELSE IF rx[c] # <<>> /\ Head(rx[c]) = "stop" THEN stop_with_report(c, "transient")
       ELSE /\ pc' = [pc EXCEPT ![c] = "connecting"]
            /\ rx' = [rx EXCEPT ![c] = IF @ = <<>> THEN @ ELSE Tail(@)]
            /\ UNCHANGED <<corebox, retry_delay, lagged>>
    /\ UNCHANGED <<coreOnly, session, givenUp>>

(* One event is taken before the attempt.  The text of the error for a     *)
(* stop does not match the test for a silent end, so it is reported.       *)
pre_connect(c) ==
    /\ pc[c] = "pre"
    /\ IF lagged[c] THEN stop_with_report(c, "transient")
       ELSE IF rx[c] # <<>> /\ Head(rx[c]) = "stop" THEN stop_with_report(c, "transient")
       ELSE /\ pc' = [pc EXCEPT ![c] = "connecting"]
            /\ rx' = [rx EXCEPT ![c] = IF @ = <<>> THEN @ ELSE Tail(@)]
            /\ UNCHANGED <<corebox, retry_delay, lagged>>
    /\ UNCHANGED <<coreOnly, session, givenUp>>

(* What an attempt leaves unread: its select is biased towards the events  *)
(* and reads all there are, to a lag or to the first stop.                 *)
Stops(c) == {i \in 1..Len(rx[c]) : rx[c][i] = "stop"}
after_events(c) ==
    IF lagged[c] THEN rx[c]
    ELSE IF Stops(c) = {} THEN <<>>
    ELSE SubSeq(rx[c], 1 + (CHOOSE i \in Stops(c) : \A j \in Stops(c) : i <= j), Len(rx[c]))

(* An attempt that did not succeed; the loop goes on unless the error is   *)
(* fatal or there are no retries.                                          *)
attempt_failed(c, error) ==
    IF error = "fatal" \/ no_retry_after_first_connect_fail
    THEN stop_with_report(c, error) /\ givenUp' = TRUE
    ELSE /\ pc' = [pc EXCEPT ![c] = "delay"]
         /\ rx' = [rx EXCEPT ![c] = after_events(c)]
         /\ lagged' = [lagged EXCEPT ![c] = FALSE]
         /\ UNCHANGED <<corebox, retry_delay, givenUp>>

connect_ignores_events(c) ==
    /\ pc[c] = "connecting"
    /\ ~lagged[c] /\ rx[c] # <<>> /\ Stops(c) = {}
    /\ rx' = [rx EXCEPT ![c] = after_events(c)]
    /\ UNCHANGED <<coreOnly, corebox, pc, retry_delay, lagged, session, givenUp>>

(* A stop or a lag ends the attempt with an error that is not one of those *)
(* that end the loop.                                                      *)
connect_aborted(c) ==
    /\ pc[c] = "connecting"
    /\ lagged[c] \/ Stops(c) # {}
    /\ attempt_failed(c, "transient")
    /\ UNCHANGED <<coreOnly, session>>

connect_fails(c) ==
    /\ pc[c] = "connecting" /\ Quiet(c)
    /\ \E error \in {"fatal", "transient"} : attempt_failed(c, error)
    /\ UNCHANGED <<coreOnly, session>>

connect_succeeds(c) ==
    /\ pc[c] = "connecting" /\ Quiet(c) /\ Reachable
    /\ pc' = [pc EXCEPT ![c] = "announce"]
    /\ session' = [session EXCEPT ![c] = "handshake"]
    /\ UNCHANGED <<coreOnly, corebox, retry_delay, receivers, givenUp>>

announce(c) ==
    /\ pc[c] = "announce"
    /\ end_task(c)
    /\ post(Event("NewConnectionEstablished", c, "none"))
    /\ UNCHANGED <<coreOnly, session, givenUp>>

-----------------------------------------------------------------------------
(* The session, as far as the reconnect depends on it, and the bus.        *)

connecterOnly == <<pc, retry_delay, receivers>>

(* Attached and through its handshake it publishes PeerIdentityEstablished.*)
session_operational(c) ==
    /\ session[c] = "handshake" /\ c \in mapped
    /\ session' = [session EXCEPT ![c] = "operational"]
    /\ post(Event("reset", c, "none"))
    /\ UNCHANGED <<coreOnly, connecterOnly, givenUp>>

session_fails(c) ==
    /\ Alive(c)
    /\ session' = [session EXCEPT ![c] = "penalty"]
    /\ post(Event("ActorStopping", c, "transient"))
    /\ UNCHANGED <<coreOnly, connecterOnly, givenUp>>

(* Mutant: a session that does not take a closed mailbox as its end.       *)
session_stops_mailbox_ignored(c) ==
    /\ Alive(c)
    /\ c \in told
    /\ session' = [session EXCEPT ![c] = "gone"]
    /\ post(Event("ActorStopping", c, "none"))
    /\ UNCHANGED <<coreOnly, connecterOnly, givenUp>>

(* Told to stop it ends without an error, unless the stream's shutdown     *)
(* gives one.                                                              *)
session_stops(c) ==
    /\ Alive(c)
    /\ c \in told \/ (phase = "Closed" /\ pc[c] = "free")
    /\ \/ /\ session' = [session EXCEPT ![c] = "gone"]
          /\ post(Event("ActorStopping", c, "none"))
       \/ /\ session' = [session EXCEPT ![c] = "penalty"]
          /\ post(Event("ActorStopping", c, "transient"))
    /\ UNCHANGED <<coreOnly, connecterOnly, givenUp>>

penalty_ends(c) ==
    /\ session[c] = "penalty"
    /\ session' = [session EXCEPT ![c] = "gone"]
    /\ UNCHANGED <<coreOnly, corebox, connecterOnly, givenUp>>

other_event(c) ==
    /\ c \in Subscribed
    /\ Len(rx[c]) < RxCap
    /\ rx' = [rx EXCEPT ![c] = Append(@, "other")]
    /\ UNCHANGED <<coreOnly, corebox, pc, retry_delay, lagged, session, givenUp>>

(* The oldest event is overwritten before it was read.                     *)
falls_behind(c) ==
    /\ lags < MaxLags
    /\ lags' = lags + 1
    /\ c \in Subscribed /\ rx[c] # <<>> /\ ~lagged[c]
    /\ rx' = [rx EXCEPT ![c] = Tail(@)]
    /\ lagged' = [lagged EXCEPT ![c] = TRUE]
    /\ UNCHANGED <<core, table, told, terminating, calls, corebox, pc, retry_delay, session, givenUp>>

-----------------------------------------------------------------------------
ConnecterStep(c) ==
    \/ subscribe(c) \/ wait_for_retry_delay(c) \/ pre_connect(c) \/ connect_ignores_events(c)
    \/ connect_aborted(c) \/ connect_fails(c) \/ connect_succeeds(c) \/ announce(c)
SessionStep(c) ==
    session_operational(c) \/ session_fails(c) \/ session_stops(c) \/ penalty_ends(c)

Next ==
    \/ process_system_event \/ handle_user_disconnect \/ user_close \/ command_mailbox_closed
    \/ exit_loop \/ context_shutdown
    \/ \E c \in Connecters :
          \/ handle_user_connect(c) \/ maintenance_tick(c)
          \/ ConnecterStep(c) \/ SessionStep(c)
          \/ other_event(c) \/ falls_behind(c)

(* The runtime polls the core and the tasks that are ready; the tick and   *)
(* the delays come.  The peer, if it is reachable at all, is reached by    *)
(* one of infinitely many attempts.                                        *)
Fairness ==
    /\ WF_vars(process_system_event) /\ WF_vars(exit_loop)
    /\ WF_vars(\E c \in Connecters : maintenance_tick(c))
    /\ \A c \in Connecters :
          /\ WF_vars(ConnecterStep(c))
          /\ SF_vars(connect_succeeds(c))
          /\ WF_vars(session_stops(c)) /\ WF_vars(penalty_ends(c))

Spec == Init /\ [][Next]_vars /\ Fairness

-----------------------------------------------------------------------------
(* With reconnects enabled, a running socket that was told to connect      *)
(* never forgets its target: a connecter works on it, a connection to it   *)
(* lives, a reconnect is scheduled, or an event the core has yet to read   *)
(* will schedule one.  It is given up after a disconnect or a fatal error, *)
(* and also when a connecter lags while it waits, when a session ends      *)
(* before it is announced and when one connection replaces another.        *)
Pursued ==
    \/ next_attempt_at # None
    \/ \E c \in Connecters :
          \/ pc[c] # "free"
          \/ Alive(c)
          \/ Unread("ConnectionAttemptFailed", c)
          \/ Unread("ActorStopping", c) /\ (endpoint = c \/ Unread("NewConnectionEstablished", c))

NeverForgotten ==
    (calls > 0 /\ phase = "Running" /\ ~terminating /\ reconnect_ivl # None /\ ~givenUp)
        => Pursued

(* The calls of connect() bound the connections that are in the making or  *)
(* working at any time: reconnects replace a connection that was lost,     *)
(* they never multiply.                                                    *)
NoStorm ==
    Cardinality({c \in Connecters : pc[c] # "free" \/ Alive(c)})
        + (IF next_attempt_at # None THEN 1 ELSE 0) <= calls

(* A target that is lost and can be reached is connected again.            *)
Reconnects ==
    (calls > 0 /\ reconnect_ivl # None) ~>
        (endpoint # None \/ phase # "Running" \/ terminating \/ givenUp)

(* If the peer can be reached, nothing that was started for the socket     *)
(* outlives it for ever: not even a connecter that missed the event of the *)
(* end, for its next attempts succeed, nor the session it then starts,     *)
(* whose command channel nobody holds.  If the peer cannot be reached,     *)
(* such a connecter goes on for ever: see TermEndsConnecters.              *)
AllEnds ==
    Reachable => (phase # "Running" ~> \A c \in Connecters : pc[c] = "free" /\ ~Alive(c))

(* Context::term() ensures that "background tasks are terminated cleanly": *)
(* once the context shuts down every connecter ends, reachable peer or not.*)
TermEndsConnecters == terminating ~> \A c \in Connecters : pc[c] = "free"

=============================================================================
