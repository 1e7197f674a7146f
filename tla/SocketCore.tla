------------------------------ MODULE SocketCore ------------------------------
(***************************************************************************)
(* The life of one SocketCore actor (socket/core/): how it attaches the    *)
(* connections that listeners and connecters announce on the event bus,    *)
(* what it cleans up when a child stops, and the shutdown sequence of its  *)
(* ShutdownCoordinator.                                                    *)
(*                                                                         *)
(* The core is one task, so a handler is one step, except the end of the   *)
(* linger, whose final cleanup is a step of its own.  Around it run the    *)
(* listeners and session actors, which end in their own time and say so    *)
(* with ActorStopping, and the tasks that spawn a session and then         *)
(* announce it with NewConnectionEstablished.  The bus is a bounded        *)
(* broadcast channel: a receiver that falls behind loses its oldest events *)
(* and is told so (Lagged) by its next recv().                             *)
(*                                                                         *)
(* A pipe is named by the connection it belongs to.  Inprocs are the       *)
(* inproc connections this socket has accepted as the binder; they have no *)
(* actor.                                                                  *)
(***************************************************************************)
EXTENDS Naturals, Sequences, FiniteSets

CONSTANTS
    Listeners,      \* listener actors
    Sessions,       \* session actors
    Inprocs,        \* inproc connections accepted by this socket
    Uri,            \* the key of each connection in the endpoints map
    BusCap,         \* the capacity of the event bus
    OthersFrom,     \* bounds: others' events come once the bus holds OthersFrom,
    OthersMax,      \* OthersMax at a time (no bound: 0 and BusCap)
    SndHwm,         \* the capacity of the pipe of a connection
    Linger,         \* the LINGER option: "zero", "finite" or "infinite"
    None            \* the subject of an event about the socket itself

Conns == Sessions \cup Inprocs
Actors == Listeners \cup Sessions

ASSUME ConstantsAssumption ==
    /\ Listeners \cap Conns = {}
    /\ Sessions \cap Inprocs = {}
    /\ None \notin Actors \cup Inprocs
    /\ BusCap \in Nat \ {0} /\ OthersFrom \in Nat /\ OthersMax \in Nat
    /\ SndHwm \in Nat \ {0}
    /\ Linger \in {"zero", "finite", "infinite"}

VARIABLES
    phase,              \* ShutdownPhase
    endpoints,          \* the handles in the endpoints map
    pipes_tx,           \* the connections with an entry in pipes_tx
    attached,           \* the pipes the ISocket has been given and not told to drop
    pending_child_actors,
    pending_connections_to_close,
    inproc_connections_to_cleanup,
    expired,            \* the linger deadline has passed
    bus,                \* the events the core has not read yet
    lagged,             \* its next recv() returns Lagged
    live,               \* the command loop runs
    terminating,        \* the context's shutdown_initiated
    actor,              \* the task of each listener and session
    announced,          \* the connections announced on the bus
    told,               \* the actors that have been sent an order to stop
    outq,               \* the messages in the pipe of each connection
    (* What happened, for the properties only. *)
    overwritten,        \* connections whose endpoint was replaced by a new one
    deadOnArrival,      \* sessions attached after their own ActorStopping
    lost,               \* actors whose ActorStopping the core lagged past
    unsent              \* sessions stopped by the shutdown with messages in their pipe

coordinator == <<phase, pending_child_actors, pending_connections_to_close,
                 inproc_connections_to_cleanup, expired>>
core_state == <<endpoints, pipes_tx, attached>>
busVars == <<bus, lagged, lost>>
children == <<actor, announced, terminating>>
history == <<overwritten, deadOnArrival, unsent>>
vars == <<coordinator, core_state, busVars, live, children, told, outq, history>>

Phases == {"Running", "StoppingChildren", "Lingering", "CleaningPipes", "Finished"}
Event(t, x) == [type |-> t, id |-> x]
Events ==
    [type : {"ActorStopping"}, id : Actors]
        \cup [type : {"NewConnectionEstablished"}, id : Sessions]
        \cup [type : {"InprocBindingRequest", "InprocPipePeerClosed"}, id : Inprocs]
        \cup [type : {"ContextTerminating", "SocketClosing", "ActorStarted"}, id : {None}]
(* A session that ended with an error keeps its mailbox open while the     *)
(* SessionRegulator's penalty runs.                                        *)
ActorStates == {"none", "alive", "penalty", "gone"}

TypeOK ==
    /\ phase \in Phases
    /\ endpoints \subseteq Listeners \cup Conns
    /\ pipes_tx \subseteq Conns
    /\ attached \subseteq Conns
    /\ pending_child_actors \subseteq Listeners
    /\ pending_connections_to_close \subseteq Sessions
    /\ inproc_connections_to_cleanup \subseteq Inprocs
    /\ expired \in BOOLEAN
    /\ bus \in Seq(Events) /\ Len(bus) <= BusCap
    /\ lagged \in BOOLEAN
    /\ live \in BOOLEAN /\ terminating \in BOOLEAN
    /\ actor \in [Actors -> ActorStates]
    /\ announced \subseteq Conns
    /\ told \subseteq Actors
    /\ outq \in [Conns -> 0..SndHwm]
    /\ overwritten \subseteq Conns
    /\ deadOnArrival \subseteq Sessions
    /\ lost \subseteq Actors
    /\ unsent \subseteq Sessions

Init ==
    /\ phase = "Running"
    /\ endpoints = {} /\ pipes_tx = {} /\ attached = {}
    /\ pending_child_actors = {} /\ pending_connections_to_close = {}
    /\ inproc_connections_to_cleanup = {}
    /\ expired = FALSE
    /\ bus = <<>> /\ lagged = FALSE
    /\ live = TRUE /\ terminating = FALSE
    /\ actor = [a \in Actors |-> "none"]
    /\ announced = {} /\ told = {}
    /\ outq = [c \in Conns |-> 0]
    /\ overwritten = {} /\ deadOnArrival = {} /\ lost = {} /\ unsent = {}

Unread(t, x) == \E i \in 1..Len(bus) : bus[i] = Event(t, x)
Pending == pending_child_actors \cup pending_connections_to_close

(* The core takes no other step while it is between the end of the linger  *)
(* and the end of its final cleanup.                                       *)
AtSelect == live /\ phase \notin {"CleaningPipes", "Finished"}

-----------------------------------------------------------------------------
(* The event bus, as this core's receiver sees it.                         *)

publish(t, x) ==
    IF ~live THEN UNCHANGED busVars
    ELSE IF Len(bus) < BusCap
    THEN bus' = Append(bus, Event(t, x)) /\ UNCHANGED <<lagged, lost>>
    ELSE /\ bus' = Append(Tail(bus), Event(t, x))
         /\ lagged' = TRUE
         /\ lost' = IF Head(bus).type = "ActorStopping" THEN lost \cup {Head(bus).id}
                    ELSE lost

(* ContextTerminating and SocketClosing reach every child that subscribed. *)
Subscribed == {a \in Actors : actor[a] = "alive"}

-----------------------------------------------------------------------------
(* The shutdown sequence.                                                  *)

is_linger_expired_or_queues_empty(pipes, deadline) ==
    (\A c \in pipes : outq[c] = 0) \/ deadline

(* start_linger_if_needed: a zero LINGER sets a deadline of now.           *)
start_linger == expired' = (Linger = "zero")

(* Mutant: the inproc connections stay on the list of those to wait for.   *)
begin_shutdown_sequence_inproc_pending ==
    /\ pending_child_actors' = endpoints \cap Listeners
    /\ pending_connections_to_close' = endpoints \cap Conns
    /\ inproc_connections_to_cleanup' = endpoints \cap Inprocs

(* begin_shutdown_sequence; close_active_connections takes the inproc      *)
(* connections off the list before the handler ends.                       *)
begin_shutdown_sequence ==
    /\ pending_child_actors' = endpoints \cap Listeners
    /\ pending_connections_to_close' = endpoints \cap Sessions
    /\ inproc_connections_to_cleanup' = endpoints \cap Inprocs

(* stop_child_listener_actors and close_active_connections.                *)
stop_children(alreadyTold) == told' = alreadyTold \cup (endpoints \cap Actors)

(* initiate_core_shutdown.  Without children the linger starts at once,    *)
(* and ends at once when there is nothing to wait for.                     *)
initiate_core_shutdown(alreadyTold) ==
    IF phase # "Running" THEN UNCHANGED coordinator /\ told' = alreadyTold
    ELSE /\ begin_shutdown_sequence
         /\ stop_children(alreadyTold)
         /\ IF endpoints \cap Actors = {}
            THEN /\ start_linger
                 /\ phase' = IF is_linger_expired_or_queues_empty(pipes_tx, Linger = "zero")
                             THEN "CleaningPipes" ELSE "Lingering"
            ELSE phase' = "StoppingChildren" /\ UNCHANGED expired

(* Mutant: the lists are looked at before the child is taken off them.     *)
record_stopped_checks_first(a) ==
    /\ pending_child_actors' = pending_child_actors \ {a}
    /\ pending_connections_to_close' = pending_connections_to_close \ {a}
    /\ IF Pending = {} THEN phase' = "Lingering" /\ start_linger
       ELSE UNCHANGED <<phase, expired>>
    /\ UNCHANGED inproc_connections_to_cleanup

(* record_child_actor_stopped and record_connection_closed, and the move   *)
(* to Lingering once both lists are empty.                                 *)
record_stopped(a) ==
    /\ pending_child_actors' = pending_child_actors \ {a}
    /\ pending_connections_to_close' = pending_connections_to_close \ {a}
    /\ IF a \in Pending /\ Pending = {a}
       THEN phase' = "Lingering" /\ start_linger
       ELSE UNCHANGED <<phase, expired>>
    /\ UNCHANGED inproc_connections_to_cleanup

(* Mutant: the endpoint goes, its pipe stays.                              *)
cleanup_keeps_pipe(x) ==
    /\ endpoints' = endpoints \ {x}
    /\ UNCHANGED <<pipes_tx, attached>>

(* cleanup_stopped_child_resources: found by its handle, the endpoint goes *)
(* with its pipe, and the ISocket is told (pipe_detached).                 *)
cleanup_stopped_child_resources(x) ==
    IF x \in endpoints
    THEN /\ endpoints' = endpoints \ {x}
         /\ pipes_tx' = pipes_tx \ {x}
         /\ attached' = attached \ {x}
    ELSE UNCHANGED core_state

-----------------------------------------------------------------------------
(* The handlers of process_system_event.                                   *)

handle_actor_stopping_event(a) ==
    /\ cleanup_stopped_child_resources(a)
    /\ IF phase = "StoppingChildren" THEN record_stopped(a) ELSE UNCHANGED coordinator
    /\ UNCHANGED <<told, history>>

(* The session is registered under its URI in place of what was there; the *)
(* old connection is told to close and keeps its pipe.                     *)
attach_session(s) ==
    LET old == {c \in endpoints \cap Conns : Uri[c] = Uri[s]}
    IN  /\ endpoints' = (endpoints \ old) \cup {s}
        /\ pipes_tx' = pipes_tx \cup {s}
        /\ attached' = attached \cup {s}
        /\ told' = told \cup (old \cap Sessions)
        /\ overwritten' = overwritten \cup old
        /\ deadOnArrival' = IF actor[s] = "penalty" THEN deadOnArrival \cup {s}
                            ELSE deadOnArrival
        /\ UNCHANGED <<coordinator, unsent>>

(* Running: ScaInitializePipes goes to the session's mailbox, and if that  *)
(* is closed the error is fatal to the socket.  Otherwise the session is   *)
(* told to stop.                                                           *)
handle_new_connection(s) ==
    IF phase # "Running"
    THEN told' = told \cup {s} /\ UNCHANGED <<coordinator, core_state, history>>
    ELSE IF actor[s] # "gone" THEN attach_session(s)
    ELSE initiate_core_shutdown(told) /\ UNCHANGED <<core_state, history>>

(* process_inproc_binding_request_event: no close of what was there.       *)
handle_inproc_binding_request(i) ==
    /\ IF phase # "Running" THEN UNCHANGED <<core_state, history>>
       ELSE LET old == {c \in endpoints \cap Conns : Uri[c] = Uri[i]}
            IN  /\ endpoints' = (endpoints \ old) \cup {i}
                /\ pipes_tx' = pipes_tx \cup {i}
                /\ attached' = attached \cup {i}
                /\ overwritten' = overwritten \cup old
                /\ UNCHANGED <<deadOnArrival, unsent>>
    /\ UNCHANGED <<coordinator, told>>

(* handle_inproc_pipe_peer_closed_event, for the pipe of an endpoint.      *)
handle_inproc_pipe_peer_closed(i) ==
    /\ cleanup_stopped_child_resources(i)
    /\ UNCHANGED <<coordinator, told, history>>

(* An inproc event whose name the user has unbound meanwhile (not          *)
(* is_my_binding_name), or an event of no concern to this core.            *)
ignore_event == UNCHANGED <<coordinator, core_state, told, history>>

process_system_event ==
    /\ AtSelect /\ ~lagged /\ bus # <<>>
    /\ bus' = Tail(bus)
    /\ LET e == Head(bus)
       IN  \/ e.type = "ActorStopping" /\ handle_actor_stopping_event(e.id)
           \/ e.type = "NewConnectionEstablished" /\ handle_new_connection(e.id)
           \/ e.type = "InprocBindingRequest" /\ handle_inproc_binding_request(e.id)
           \/ e.type = "InprocPipePeerClosed" /\ handle_inproc_pipe_peer_closed(e.id)
           \/ /\ e.type \in {"ContextTerminating", "SocketClosing"}
              /\ initiate_core_shutdown(told)
              /\ UNCHANGED <<core_state, history>>
           \/ /\ e.type \in {"InprocBindingRequest", "InprocPipePeerClosed", "ActorStarted"}
              /\ ignore_event
    /\ UNCHANGED <<lagged, lost, live, children, outq>>

(* Lagged: fatal to a running socket, only logged by one that shuts down.  *)
recv_lagged ==
    /\ AtSelect /\ lagged
    /\ lagged' = FALSE
    /\ initiate_core_shutdown(told)
    /\ UNCHANGED <<bus, lost, core_state, live, children, outq, history>>

-----------------------------------------------------------------------------
(* The handlers of process_socket_command.                                 *)

handle_user_bind(l) ==
    /\ AtSelect /\ phase = "Running"
    /\ actor[l] = "none"
    /\ actor' = [actor EXCEPT ![l] = "alive"]
    /\ endpoints' = endpoints \cup {l}
    /\ UNCHANGED <<coordinator, pipes_tx, attached, busVars, live, announced, terminating, told, outq, history>>

(* Unbind and disconnect only send the order to stop; the endpoint goes    *)
(* when ActorStopping is read.                                             *)
handle_user_unbind_or_disconnect(a) ==
    /\ AtSelect /\ phase = "Running"
    /\ a \in endpoints
    /\ told' = told \cup {a}
    /\ UNCHANGED <<coordinator, core_state, busVars, live, children, outq, history>>

(* UserClose and Stop.  The first one also publishes SocketClosing.        *)
user_close ==
    /\ AtSelect
    /\ IF phase = "Running"
       THEN publish("SocketClosing", None) /\ initiate_core_shutdown(told \cup Subscribed)
       ELSE UNCHANGED busVars /\ initiate_core_shutdown(told)
    /\ UNCHANGED <<core_state, live, children, outq, history>>

-----------------------------------------------------------------------------
(* The tick, the final cleanup and the end of the loop.                    *)

(* Mutant: the linger ends only with empty pipes, never by its deadline.   *)
check_and_advance_linger_no_deadline ==
    /\ AtSelect /\ phase = "Lingering"
    /\ is_linger_expired_or_queues_empty(pipes_tx, FALSE)
    /\ phase' = "CleaningPipes"
    /\ UNCHANGED <<pending_child_actors, pending_connections_to_close,
                   inproc_connections_to_cleanup, expired, core_state, busVars, live,
                   children, told, outq, history>>

check_and_advance_linger ==
    /\ AtSelect /\ phase = "Lingering"
    /\ is_linger_expired_or_queues_empty(pipes_tx, expired)
    /\ phase' = "CleaningPipes"
    /\ UNCHANGED <<pending_child_actors, pending_connections_to_close,
                   inproc_connections_to_cleanup, expired, core_state, busVars, live,
                   children, told, outq, history>>

linger_deadline_passes ==
    /\ phase = "Lingering" /\ ~expired
    /\ Linger = "finite"
    /\ expired' = TRUE
    /\ UNCHANGED <<phase, pending_child_actors, pending_connections_to_close,
                   inproc_connections_to_cleanup, core_state, busVars, live, children,
                   told, outq, history>>

(* The reaper looks only at endpoints with a task handle: the listeners.   *)
reaper(l) ==
    /\ AtSelect
    /\ l \in endpoints
    /\ actor[l] = "gone"
    /\ cleanup_stopped_child_resources(l)
    /\ UNCHANGED <<coordinator, busVars, live, children, told, outq, history>>

perform_final_pipe_cleanup ==
    /\ live /\ phase = "CleaningPipes"
    /\ phase' = "Finished"
    /\ pipes_tx' = {}
    /\ attached' = attached \ inproc_connections_to_cleanup
    /\ told' = told \cup (endpoints \cap Sessions)
    /\ endpoints' = {}
    /\ UNCHANGED <<pending_child_actors, pending_connections_to_close,
                   inproc_connections_to_cleanup, expired, busVars, live, children, outq,
                   history>>

exit_loop ==
    /\ live /\ phase = "Finished"
    /\ live' = FALSE
    /\ bus' = <<>> /\ lagged' = FALSE
    /\ UNCHANGED <<coordinator, core_state, lost, children, told, outq, history>>

-----------------------------------------------------------------------------
(* The children and the rest of the process.                               *)

(* The setup task of an accepted or connected stream spawns the session,   *)
(* which subscribes to the bus ...                                         *)
spawn_session(s) ==
    /\ actor[s] = "none"
    /\ actor' = [actor EXCEPT ![s] = "alive"]
    /\ UNCHANGED <<coordinator, core_state, busVars, live, announced, terminating, told, outq, history>>

(* ... and then announces it.                                              *)
announce_session(s) ==
    /\ actor[s] # "none"
    /\ s \notin announced
    /\ announced' = announced \cup {s}
    /\ publish("NewConnectionEstablished", s)
    /\ UNCHANGED <<coordinator, core_state, live, actor, terminating, told, outq, history>>

(* Mutant: a session that does not take a closed mailbox as its end.       *)
MailboxClosed_ignored(s) == FALSE

(* The core, its endpoint and the event that carried it were the only      *)
(* holders of the session's mailbox.                                       *)
MailboxClosed(s) ==
    /\ s \in announced
    /\ s \notin endpoints
    /\ ~Unread("NewConnectionEstablished", s)

(* A session ends by itself (an error, the peer is gone, a lag) ...        *)
session_fails(s) ==
    /\ actor[s] = "alive"
    /\ actor' = [actor EXCEPT ![s] = "penalty"]
    /\ publish("ActorStopping", s)
    /\ UNCHANGED <<coordinator, core_state, live, announced, terminating, told, outq, history>>

(* ... or because it was told to, without writing what is in its pipe.     *)
session_stops(s) ==
    /\ actor[s] = "alive"
    /\ s \in told \/ MailboxClosed(s)
    /\ actor' = [actor EXCEPT ![s] = "penalty"]
    /\ publish("ActorStopping", s)
    /\ unsent' = IF outq[s] > 0 /\ phase # "Running" THEN unsent \cup {s} ELSE unsent
    /\ UNCHANGED <<coordinator, core_state, live, announced, terminating, told, outq,
                   overwritten, deadOnArrival>>

session_ends(s) ==
    /\ actor[s] = "penalty"
    /\ actor' = [actor EXCEPT ![s] = "gone"]
    /\ UNCHANGED <<coordinator, core_state, busVars, live, announced, terminating, told, outq, history>>

session_writes(s) ==
    /\ actor[s] = "alive"
    /\ outq[s] > 0
    /\ outq' = [outq EXCEPT ![s] = @ - 1]
    /\ UNCHANGED <<coordinator, core_state, busVars, live, children, told, history>>

(* Mutant: a listener that ends without its ActorDropGuard.                *)
listener_stops_silently(l) ==
    /\ actor[l] = "alive"
    /\ actor' = [actor EXCEPT ![l] = "gone"]
    /\ UNCHANGED <<coordinator, core_state, busVars, live, announced, terminating, told, outq, history>>

(* A listener ends when told to, or when its own receiver lags.            *)
listener_stops(l) ==
    /\ actor[l] = "alive"
    /\ actor' = [actor EXCEPT ![l] = "gone"]
    /\ publish("ActorStopping", l)
    /\ UNCHANGED <<coordinator, core_state, live, announced, terminating, told, outq, history>>

(* Context::shutdown, and an inproc connector that connects and leaves.    *)
context_shutdown ==
    /\ ~terminating
    /\ terminating' = TRUE
    /\ publish("ContextTerminating", None)
    /\ told' = told \cup Subscribed
    /\ UNCHANGED <<coordinator, core_state, live, actor, announced, outq, history>>

inproc_connects(i) ==
    /\ i \notin announced
    /\ announced' = announced \cup {i}
    /\ publish("InprocBindingRequest", i)
    /\ UNCHANGED <<coordinator, core_state, live, actor, terminating, told, outq, history>>

inproc_disconnects(i) ==
    /\ i \in endpoints
    /\ ~Unread("InprocPipePeerClosed", i)
    /\ publish("InprocPipePeerClosed", i)
    /\ UNCHANGED <<coordinator, core_state, live, children, told, outq, history>>

(* ActorStarted stands for all that this core ignores and that fills its   *)
(* queue all the same: what its children and other sockets publish, and    *)
(* its own close of an inproc connection.                                  *)
other_event ==
    /\ live
    /\ Len(bus) >= OthersFrom
    /\ Cardinality({i \in 1..Len(bus) : bus[i].type = "ActorStarted"}) < OthersMax
    /\ publish("ActorStarted", None)
    /\ UNCHANGED <<coordinator, core_state, live, children, told, outq, history>>

inproc_reads(i) ==
    /\ outq[i] > 0
    /\ outq' = [outq EXCEPT ![i] = @ - 1]
    /\ UNCHANGED <<coordinator, core_state, busVars, live, children, told, history>>

(* A send of the user through the ISocket, which refuses it unless the     *)
(* core is running.                                                        *)
send(c) ==
    /\ phase = "Running"
    /\ c \in attached
    /\ c \in Sessions => actor[c] = "alive"
    /\ outq[c] < SndHwm
    /\ outq' = [outq EXCEPT ![c] = @ + 1]
    /\ UNCHANGED <<coordinator, core_state, busVars, live, children, told, history>>

-----------------------------------------------------------------------------
CoreStep ==
    \/ process_system_event \/ recv_lagged
    \/ check_and_advance_linger \/ perform_final_pipe_cleanup \/ exit_loop

Next ==
    \/ CoreStep \/ user_close \/ linger_deadline_passes \/ context_shutdown \/ other_event
    \/ \E l \in Listeners : handle_user_bind(l) \/ reaper(l) \/ listener_stops(l)
    \/ \E a \in Actors : handle_user_unbind_or_disconnect(a)
    \/ \E s \in Sessions :
          \/ spawn_session(s) \/ announce_session(s) \/ session_fails(s)
          \/ session_stops(s) \/ session_ends(s) \/ session_writes(s)
    \/ \E i \in Inprocs : inproc_connects(i) \/ inproc_disconnects(i) \/ inproc_reads(i)
    \/ \E c \in Conns : send(c)

(* The runtime polls the core, the setup tasks and the children that have  *)
(* something to do.  Nobody has to close the socket, a session need not    *)
(* fail, a listener that was not told need not stop.  The select! of the   *)
(* core prefers events to its tick: the tick is strongly fair on the       *)
(* assumption that the events of others leave its queue empty at times.    *)
Fairness ==
    /\ WF_vars(CoreStep)
    /\ SF_vars(check_and_advance_linger)
    /\ WF_vars(linger_deadline_passes)
    /\ \A l \in Listeners : WF_vars(l \in told /\ listener_stops(l))
    /\ \A s \in Sessions :
          /\ WF_vars(announce_session(s))
          /\ WF_vars(session_stops(s))
          /\ WF_vars(session_ends(s))

Spec == Init /\ [][Next]_vars /\ Fairness

-----------------------------------------------------------------------------
(* While the core is in StoppingChildren it waits for something, and every *)
(* child it waits for has been told to stop or has its ActorStopping in    *)
(* the core's queue: nobody is waited for that will not report.  The       *)
(* exceptions are the children whose report was lost to a lag and the      *)
(* sessions that were attached after they had reported.                    *)
WillReport(a) ==
    \/ actor[a] = "alive" /\ a \in told
    \/ Unread("ActorStopping", a)

PendingWillReport ==
    phase = "StoppingChildren" =>
        /\ Pending # {}
        /\ \A a \in Pending \ (lost \cup deadOnArrival) : WillReport(a)

(* No zombies: an endpoint of the map belongs to a running child, or the   *)
(* event that will remove it is in the core's queue.                       *)
EndpointsHaveActors ==
    \A a \in (endpoints \cap Actors) \ (lost \cup deadOnArrival) :
        actor[a] = "alive" \/ Unread("ActorStopping", a)

(* Until the end of the final cleanup the connections of the endpoints map *)
(* are the pipes the core holds, and those the pipes the ISocket knows, but *)
(* for connections replaced under their URI; afterwards only the replaced  *)
(* ones are left with the ISocket.                                         *)
PipesFollowEndpoints ==
    IF phase # "Finished"
    THEN endpoints \cap Conns = pipes_tx \ overwritten /\ attached = pipes_tx
    ELSE endpoints = {} /\ pipes_tx = {} /\ attached \subseteq overwritten

(* A shutdown that has begun finishes, unless a report was lost or a dead  *)
(* session was attached.                                                   *)
ShutdownCompletes ==
    phase # "Running" ~> (~live \/ lost \cup deadOnArrival # {})

(* No session actor outlives its socket, whenever it was spawned.          *)
SessionsEnd ==
    \A s \in Sessions : (~live /\ actor[s] = "alive") ~> actor[s] = "gone"

=============================================================================
