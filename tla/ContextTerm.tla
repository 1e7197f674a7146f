----------------------------- MODULE ContextTerm -----------------------------
(***************************************************************************)
(* Context::socket, shutdown and term (context.rs) with the actors they    *)
(* wait for.  An actor is a SocketCore task or a child task of one; its    *)
(* ActorDropGuard (runtime/actor_drop_guard.rs) is created as the first    *)
(* step of the task, not by whoever spawns it, so that an actor is counted *)
(* by the WaitGroup only once it runs.  A call of term() is a waiter.      *)
(***************************************************************************)
EXTENDS WaitGroup

CONSTANTS
    Sockets,        \* the users that are SocketCore tasks
    Parent          \* the socket that spawns each other user

ASSUME ParentAssumption ==
    /\ Sockets \subseteq Users
    /\ Parent \in [Users \ Sockets -> Sockets]

Children == Users \ Sockets

VARIABLES
    task,                  \* what the runtime knows of each actor's task
    stop,                  \* the actors whose bus receiver holds an event that stops them
    shutdown_initiated,
    term,                  \* how far each call of term() is
    countedBefore          \* the actors registered in the WaitGroup when it was called

ctxVars == <<task, stop, shutdown_initiated, term, countedBefore>>
vars == <<wgVars, ctxVars>>

TaskStates == {"none", "spawned", "running", "ended"}
TermStates == {"uncalled", "waiting", "done", "timed_out"}

TypeOK ==
    /\ WGTypeOK
    /\ task \in [Users -> TaskStates]
    /\ stop \subseteq Users
    /\ shutdown_initiated \in BOOLEAN
    /\ term \in [Waiters -> TermStates]
    /\ countedBefore \in [Waiters -> SUBSET Users]

Init ==
    /\ WGInit
    /\ task = [a \in Users |-> "none"]
    /\ stop = {}
    /\ shutdown_initiated = FALSE
    /\ term = [w \in Waiters |-> "uncalled"]
    /\ countedBefore = [w \in Waiters |-> {}]

Spawned == {a \in Users : task[a] # "none"}

-----------------------------------------------------------------------------
(* Context::socket: SocketCore::create_and_spawn subscribes to the bus and *)
(* spawns the task.  shutdown_initiated is not looked at.                  *)
socket(s) ==
    /\ s \in Sockets
    /\ task[s] = "none"
    /\ task' = [task EXCEPT ![s] = "spawned"]
    /\ UNCHANGED <<wgVars, stop, shutdown_initiated, term, countedBefore>>

(* A running SocketCore spawns a listener, a connecter or a session.       *)
spawn_child(c) ==
    /\ c \in Children
    /\ task[c] = "none"
    /\ task[Parent[c]] = "running"
    /\ task' = [task EXCEPT ![c] = "spawned"]
    /\ UNCHANGED <<wgVars, stop, shutdown_initiated, term, countedBefore>>

(* The first step of the task: ActorDropGuard::new calls                   *)
(* publish_actor_started, which adds one to the WaitGroup.                 *)
publish_actor_started(a) ==
    /\ task[a] = "spawned"
    /\ task' = [task EXCEPT ![a] = "running"]
    /\ add(a)
    /\ UNCHANGED <<stop, shutdown_initiated, term, countedBefore>>

(* Socket::close: SocketClosing on the bus, which the socket and its       *)
(* subscribed children take as their order to stop.                        *)
close(s) ==
    /\ s \in Sockets
    /\ task[s] = "running"
    /\ stop' = stop \cup {s} \cup {c \in Children : Parent[c] = s /\ c \in Spawned}
    /\ UNCHANGED <<wgVars, task, shutdown_initiated, term, countedBefore>>

(* An actor ends, because it was told to or by itself (an error, a peer    *)
(* that left): its guard is dropped, and publish_actor_stopping looks at   *)
(* the count before it calls done().                                       *)
publish_actor_stopping(a) ==
    /\ task[a] = "running"
    /\ task' = [task EXCEPT ![a] = "ended"]
    /\ IF count > 0 THEN leave(a)
       ELSE user' = [user EXCEPT ![a] = "gone"] /\ UNCHANGED <<count, waiter>>
    /\ UNCHANGED <<stop, shutdown_initiated, term, countedBefore>>

(* The rest of done(), run while the guard of an ended actor is dropped.   *)
finish_done(a) ==
    /\ done(a) \/ notify_waiters(a)
    /\ UNCHANGED ctxVars

(* term(): shutdown() publishes ContextTerminating to every receiver that  *)
(* exists, once per context, and wait() loads the counter.                 *)
call_term(w) ==
    /\ term[w] = "uncalled"
    /\ stop' = IF shutdown_initiated THEN stop ELSE stop \cup Spawned
    /\ shutdown_initiated' = TRUE
    /\ term' = [term EXCEPT ![w] = "waiting"]
    /\ countedBefore' = [countedBefore EXCEPT ![w] = Registered]
    /\ UNCHANGED <<wgVars, task>>

wait_for_termination(w) ==
    /\ term[w] = "waiting"
    /\ WaiterStep(w)
    /\ term' = [term EXCEPT ![w] = IF waiter'[w] = "returned" THEN "done" ELSE "waiting"]
    /\ UNCHANGED <<task, stop, shutdown_initiated, countedBefore>>

(* The ten-second limit on the wait; term() returns Ok all the same.       *)
term_timeout(w) ==
    /\ term[w] = "waiting"
    /\ term' = [term EXCEPT ![w] = "timed_out"]
    /\ UNCHANGED <<wgVars, task, stop, shutdown_initiated, countedBefore>>

ActorStep(a) == publish_actor_started(a) \/ publish_actor_stopping(a) \/ finish_done(a)

Next ==
    \/ \E s \in Sockets : socket(s) \/ close(s)
    \/ \E c \in Children : spawn_child(c)
    \/ \E a \in Users : ActorStep(a)
    \/ \E w \in Waiters : call_term(w) \/ wait_for_termination(w) \/ term_timeout(w)

(* The runtime polls every runnable task; one that is told to stop ends.   *)
Fairness ==
    /\ \A a \in Users :
          /\ WF_vars(publish_actor_started(a) \/ finish_done(a))
          /\ WF_vars(a \in stop /\ publish_actor_stopping(a))
    /\ \A w \in Waiters : WF_vars(wait_for_termination(w))

Spec == Init /\ [][Next]_vars /\ Fairness

-----------------------------------------------------------------------------
(* The counter counts the live drop guards, and no done() ever finds it at *)
(* zero: the warning in publish_actor_stopping and the panic in done() are *)
(* both dead, whatever order tasks start and stop in.                      *)
CountTracksActors ==
    /\ CountTracksUsers
    /\ NoPanic
    /\ \A a \in Users : task[a] = "running" => user[a] = "in" /\ count > 0

(* A term() that ends by its WaitGroup, not by its timeout, has outlived   *)
(* every actor that was registered when it was called.                     *)
TermOutlivesRegistered ==
    \A w \in Waiters : term[w] = "done" =>
        \A a \in countedBefore[w] : task[a] = "ended"

(* A wait that is enrolled in the Notify while actors are still counted is *)
(* woken by the done() that brings the count to zero (or has timed out):   *)
(* two actors leaving at once never each leave the wake-up to the other.   *)
WakeReachesEnrolled ==
    \A w \in Waiters :
        [](waiter[w] = "enrolled" /\ count > 0 /\ <>(count = 0)
              => <>(waiter[w] # "enrolled" \/ term[w] = "timed_out"))

=============================================================================
