-------------------------------- MODULE Dealer --------------------------------
(***************************************************************************)
(* The sending side of a DEALER socket (socket/dealer_socket.rs): callers  *)
(* of send(), the DealerSocketOutgoingProcessor, and what they share: the  *)
(* LoadBalancer, the WritePipeCoordinator, pending_outgoing_queue and the  *)
(* two Notify objects.                                                     *)
(*                                                                         *)
(* Every await is a place where another task may run; the tasks run on     *)
(* several threads, so the calls of pipe_attached on the balancer and on   *)
(* the coordinator are two steps as well.  A peer stands for one           *)
(* connection: its URI, its pipe and the session behind it.  A message is  *)
(* its number.                                                             *)
(***************************************************************************)
EXTENDS Naturals, Sequences, FiniteSets

CONSTANTS
    Peers, Senders, Proc,
    Timeos,         \* values of SNDTIMEO: "none", "zero" or "some"
    SndHwm,         \* SNDHWM: the bound of the pending queue
    PipeCap,        \* the capacity of the pipe to a session
    MaxMsgs,        \* calls of send()
    MaxCancels,     \* futures of send() dropped by the user
    MaxQueue,       \* where the model stops a queue that grows after close()
    CloseBefore,    \* the call of send() before which close() comes, if it comes
    None

ASSUME ConstantsAssumption ==
    /\ Proc \notin Senders /\ None \notin Senders \cup Peers \cup {Proc}
    /\ Timeos \subseteq {"none", "zero", "some"} /\ Timeos # {}
    /\ SndHwm \in Nat \ {0} /\ PipeCap \in Nat \ {0}
    /\ MaxMsgs \in Nat /\ MaxCancels \in Nat /\ MaxQueue \in Nat
    /\ CloseBefore \in Nat
    /\ IsFiniteSet(Senders)

VARIABLES
    sndtimeo,
    running,        \* ShutdownPhase::Running
    stopping,       \* Command::Stop at the ISocket: "no", "signalled", "done"
    conn,           \* what has become of each connection
    lb,             \* LoadBalancer: connection_uris
    semaphore,      \* WritePipeCoordinator: the holder of each permit
    pipe,           \* the messages in the pipe to each session
    written,        \* how often each message was written to a connection
    queue,          \* pending_outgoing_queue
    task,           \* the senders and the processor
    notify,         \* the two Notify objects
    calls, cancels, \* calls of send() so far, and those dropped
    accepted,       \* messages whose send() returned Ok
    lost,           \* messages in the pipe of a session that ended
    evicted         \* peers taken from the balancer before they were ready

peerVars == <<conn, lb, semaphore, pipe, written, lost, evicted>>
userVars == <<calls, cancels, accepted>>
modeVars == <<sndtimeo, running, stopping>>
vars == <<modeVars, peerVars, queue, task, notify, userVars>>

Tasks == Senders \cup {Proc}
Notifies == {"queue", "peer"}
Msgs == 1..MaxMsgs
NoMsg == 0

(* new, in the balancer, attached, session ended, endpoint removed by the  *)
(* core, detached                                                          *)
ConnStates == {"new", "balanced", "attached", "ended", "removed", "detached"}
Endpoint(p) == conn[p] \in {"balanced", "attached", "ended"}

Places == {"idle", "count", "choose", "permit", "write", "queue", "push", "register",
           "blocked", "requeue", "stopped"}

TypeOK ==
    /\ sndtimeo \in Timeos /\ running \in BOOLEAN /\ stopping \in {"no", "signalled", "done"}
    /\ conn \in [Peers -> ConnStates]
    /\ lb \in Seq(Peers) /\ \A i, j \in 1..Len(lb) : lb[i] = lb[j] => i = j
    /\ semaphore \in [Peers -> Tasks \cup {None, "free"}]
    /\ pipe \in [Peers -> Seq(Msgs)] /\ \A p \in Peers : Len(pipe[p]) <= PipeCap
    /\ written \in [Msgs -> Nat]
    /\ queue \in Seq(Msgs)
    /\ task \in [Tasks -> [at : Places, msg : Msgs \cup {NoMsg}, left : Nat,
                           peer : Peers \cup {None},
                           woken : [Notifies -> {"no", "one", "all"}]]]
    /\ notify \in [Notifies -> [permit : BOOLEAN, waiters : Seq(Tasks)]]
    /\ calls \in 0..MaxMsgs /\ cancels \in 0..MaxCancels
    /\ accepted \subseteq Msgs /\ lost \subseteq Msgs /\ evicted \subseteq Peers

Asleep == [n \in Notifies |-> "no"]

(* The processor is spawned with the socket and goes to wait.              *)
Init ==
    /\ sndtimeo \in Timeos /\ running = TRUE /\ stopping = "no"
    /\ conn = [p \in Peers |-> "new"] /\ lb = <<>>
    /\ semaphore = [p \in Peers |-> None]
    /\ pipe = [p \in Peers |-> <<>>] /\ written = [m \in Msgs |-> 0]
    /\ queue = <<>>
    /\ task = [t \in Tasks |-> [at |-> IF t = Proc THEN "register" ELSE "idle", msg |-> NoMsg,
                                left |-> 0, peer |-> None, woken |-> Asleep]]
    /\ notify = [n \in Notifies |-> [permit |-> FALSE, waiters |-> <<>>]]
    /\ calls = 0 /\ cancels = 0 /\ accepted = {} /\ lost = {} /\ evicted = {}

-----------------------------------------------------------------------------
(* tokio::sync::Notify.  The state of both is passed along as ns = [n, k]: *)
(* n the Notify objects, k the tasks.                                      *)

NS(k) == [n |-> notify, k |-> k]
(* s without x, which occurs at most once.                                 *)
Without(s, x) ==
    IF \E i \in 1..Len(s) : s[i] = x
    THEN LET i == CHOOSE i \in 1..Len(s) : s[i] = x
         IN  SubSeq(s, 1, i - 1) \o SubSeq(s, i + 1, Len(s))
    ELSE s

(* The first waiter is woken; without one the permit is stored.            *)
notify_one(ns, c) ==
    IF ns.n[c].waiters = <<>> THEN [ns EXCEPT !.n[c].permit = TRUE]
    ELSE [n |-> [ns.n EXCEPT ![c].waiters = Tail(@)],
          k |-> [ns.k EXCEPT ![Head(ns.n[c].waiters)].woken[c] = "one"]]

(* Every waiter is woken, and nothing is stored.                           *)
notify_waiters(ns, c) ==
    LET ws == {ns.n[c].waiters[i] : i \in 1..Len(ns.n[c].waiters)}
    IN  [n |-> [ns.n EXCEPT ![c].waiters = <<>>],
         k |-> [t \in Tasks |-> IF t \in ws THEN [ns.k[t] EXCEPT !.woken[c] = "all"]
                                ELSE ns.k[t]]]

(* A Notified is dropped: a notify_one it has had goes to another waiter.  *)
drop_notified(ns, t, c) ==
    LET gone == [n |-> [ns.n EXCEPT ![c].waiters = Without(@, t)],
                 k |-> [ns.k EXCEPT ![t].woken[c] = "no"]]
    IN  IF ns.k[t].woken[c] = "one" THEN notify_one(gone, c) ELSE gone

drop_all(ns, t) == drop_notified(drop_notified(ns, t, "queue"), t, "peer")

settle(ns) == notify' = ns.n /\ task' = ns.k

-----------------------------------------------------------------------------
(* LoadBalancer and WritePipeCoordinator.                                  *)

(* Mutant: the URI is put back without having been taken out.              *)
get_next_connection_uri_keeps(l) == Append(l, Head(l))

(* Round robin: the first URI goes to the end.                             *)
get_next_connection_uri(l) == Append(Tail(l), Head(l))

add_connection(p) == IF \E i \in 1..Len(lb) : lb[i] = p THEN lb ELSE Append(lb, p)
remove_connection(p) == Without(lb, p)

IsOpen(p) == semaphore[p] # None                 \* the pipe has a semaphore
remove_pipe(p) == [semaphore EXCEPT ![p] = None]
release(p, t) == [semaphore EXCEPT ![p] = IF @ = t THEN "free" ELSE @]

Go(t, at) == [task EXCEPT ![t].at = at]
(* On to the next peer, or to the queue: the peer tried last is forgotten. *)
Leave(t, at) ==
    [task EXCEPT ![t] = [task[t] EXCEPT !.at = at, !.peer = None,
                                        !.left = IF at = "choose" THEN @ ELSE 0]]
Done(t) == [task EXCEPT ![t] = [at |-> IF t = Proc THEN "register" ELSE "idle", msg |-> NoMsg,
                                left |-> 0, peer |-> None, woken |-> Asleep]]

-----------------------------------------------------------------------------
(* The loop over the peers, common to send_logical_message and to the      *)
(* processor.  A sender that finds no peer goes on to the queue, the       *)
(* processor puts its message back.                                        *)

GiveUp(t) == IF t = Proc THEN "requeue" ELSE "queue"

send_logical_message(s) ==
    /\ task[s].at = "idle" /\ calls < MaxMsgs
    /\ running
    /\ calls' = calls + 1
    /\ task' = [task EXCEPT ![s] = [task[s] EXCEPT !.at = "choose", !.msg = calls + 1,
                                                   !.left = IF lb = <<>> THEN 1 ELSE Len(lb)]]
    /\ UNCHANGED <<modeVars, peerVars, queue, notify, cancels, accepted>>

(* A sender that finds the socket closing returns an error.  The processor *)
(* puts its message back, and once more after its loop.                    *)
choose_closing(t) ==
    /\ task[t].at = "choose" /\ task[t].left > 0
    /\ ~running
    /\ IF t = Proc
       THEN /\ Len(queue) < MaxQueue
            /\ queue' = <<task[t].msg>> \o queue
            /\ settle(notify_one(NS(Leave(t, "requeue")), "queue"))
       ELSE /\ settle(NS(Done(t)))
            /\ UNCHANGED queue
    /\ UNCHANGED <<modeVars, peerVars, userVars>>

choose_peer(t) ==
    /\ task[t].at = "choose"
    /\ task[t].left > 0 => running
    /\ IF task[t].left = 0 \/ lb = <<>>
       THEN task' = Leave(t, GiveUp(t)) /\ UNCHANGED <<lb, notify>>
       ELSE LET p == Head(lb)
                k == [task EXCEPT ![t].left = @ - 1]
            IN  IF Endpoint(p)
                THEN /\ lb' = get_next_connection_uri(lb)
                     /\ task' = [k EXCEPT ![t].at = "permit", ![t].peer = p]
                     /\ UNCHANGED notify
                ELSE /\ lb' = remove_connection(p)
                     /\ settle(notify_waiters(NS(k), "peer"))
    /\ UNCHANGED <<modeVars, conn, semaphore, pipe, written, queue, userVars, lost, evicted>>

(* HostUnreachable: the pipe is not, or no longer, with the coordinator.   *)
permit_unreachable(t) ==
    LET p == task[t].peer
    IN  /\ task[t].at = "permit"
        /\ ~IsOpen(p)
        /\ lb' = remove_connection(p)
        /\ evicted' = IF conn[p] = "balanced" THEN evicted \cup {p} ELSE evicted
        /\ settle(notify_waiters(NS(Leave(t, "choose")), "peer"))
        /\ UNCHANGED <<modeVars, conn, semaphore, pipe, written, queue, userVars, lost>>

acquire_send_permit(t) ==
    /\ task[t].at = "permit"
    /\ semaphore[task[t].peer] = "free"
    /\ semaphore' = [semaphore EXCEPT ![task[t].peer] = t]
    /\ task' = Go(t, "write")
    /\ UNCHANGED <<modeVars, conn, lb, pipe, written, queue, notify, userVars, lost, evicted>>

(* At once with a SNDTIMEO of zero, never without one.                     *)
permit_times_out(t) ==
    /\ task[t].at = "permit"
    /\ semaphore[task[t].peer] \in Tasks
    /\ sndtimeo # "none"
    /\ task' = Leave(t, IF t = Proc THEN "choose" ELSE "queue")
    /\ UNCHANGED <<modeVars, peerVars, queue, notify, userVars>>

write_succeeds(t) ==
    LET p == task[t].peer
    IN  /\ task[t].at = "write"
        /\ conn[p] = "attached" /\ Len(pipe[p]) < PipeCap
        /\ pipe' = [pipe EXCEPT ![p] = Append(@, task[t].msg)]
        /\ semaphore' = release(p, t)
        /\ task' = Done(t)
        /\ accepted' = accepted \cup {task[t].msg}
        /\ UNCHANGED <<modeVars, conn, lb, written, queue, notify, calls, cancels, lost, evicted>>

(* A full pipe: at once with a SNDTIMEO of zero, else after SNDTIMEO or,   *)
(* without one, after thirty seconds.                                      *)
write_times_out(t) ==
    /\ task[t].at = "write"
    /\ conn[task[t].peer] = "attached" /\ Len(pipe[task[t].peer]) = PipeCap
    /\ semaphore' = release(task[t].peer, t)
    /\ task' = Leave(t, "choose")
    /\ UNCHANGED <<modeVars, conn, lb, pipe, written, queue, notify, userVars, lost, evicted>>

write_closed(t) ==
    LET p == task[t].peer
    IN  /\ task[t].at = "write"
        /\ conn[p] \in {"ended", "removed", "detached"}
        /\ lb' = remove_connection(p)
        /\ semaphore' = remove_pipe(p)
        /\ settle(notify_waiters(NS(Leave(t, "choose")), "peer"))
        /\ UNCHANGED <<modeVars, conn, pipe, written, queue, userVars, lost, evicted>>

-----------------------------------------------------------------------------
(* queue_message_or_error.                                                 *)

(* Mutant: the length of the queue is not looked at.                       *)
HasRoom_always == TRUE

HasRoom == Len(queue) < SndHwm

(* Mutant: a SNDTIMEO of zero is taken for none.                           *)
queue_checks_waits(s) ==
    /\ task[s].at = "queue"
    /\ task' = IF ~running THEN Done(s)
               ELSE Go(s, IF HasRoom THEN "push" ELSE "register")
    /\ UNCHANGED <<modeVars, peerVars, queue, notify, userVars>>

queue_checks(s) ==
    /\ task[s].at = "queue"
    /\ task' = IF ~running THEN Done(s)
               ELSE IF HasRoom THEN Go(s, "push")
               ELSE IF sndtimeo = "zero" THEN Done(s) ELSE Go(s, "register")
    /\ UNCHANGED <<modeVars, peerVars, queue, notify, userVars>>

(* The queue is locked a second time for the push.                         *)
queue_pushes(s) ==
    /\ task[s].at = "push"
    /\ queue' = Append(queue, task[s].msg)
    /\ accepted' = accepted \cup {task[s].msg}
    /\ settle(notify_one(NS(Done(s)), "queue"))
    /\ UNCHANGED <<modeVars, peerVars, calls, cancels>>

-----------------------------------------------------------------------------
(* Waiting: the processor and a sender without SNDTIMEO wait for either    *)
(* notification, a sender with one only for that of the queue.             *)

Awaited(t) == IF t # Proc /\ sndtimeo = "some" THEN {"queue"} ELSE Notifies
(* The select! of a sender is biased towards the queue.                    *)
Picks(t, ready, c) == c \in ready /\ (t # Proc /\ "queue" \in ready => c = "queue")

(* pop_front, when there is something to send and somebody to send it to.  *)
take(k) ==
    IF queue # <<>> /\ lb # <<>>
    THEN /\ queue' = Tail(queue)
         /\ task' = [k EXCEPT ![Proc] = [k[Proc] EXCEPT !.at = "count", !.msg = Head(queue),
                                                        !.woken = Asleep]]
    ELSE /\ task' = [k EXCEPT ![Proc] = [k[Proc] EXCEPT !.at = "register", !.woken = Asleep]]
         /\ UNCHANGED queue

(* The attempts are counted after an await: the peers may be others, or    *)
(* none, by then.                                                          *)
connection_count ==
    /\ task[Proc].at = "count"
    /\ task' = [task EXCEPT ![Proc] = [task[Proc] EXCEPT !.at = "choose",
                                                         !.left = IF lb = <<>> THEN 1 ELSE Len(lb)]]
    /\ UNCHANGED <<modeVars, peerVars, queue, notify, userVars>>

wake(t, ns) ==
    /\ notify' = ns.n
    /\ IF t = Proc THEN take(ns.k)
       ELSE /\ task' = [ns.k EXCEPT ![t] = [ns.k[t] EXCEPT !.at = "queue", !.woken = Asleep]]
            /\ UNCHANGED queue

register(t) ==
    LET ready == {c \in Awaited(t) : notify[c].permit}
    IN  /\ task[t].at = "register"
        /\ t = Proc => stopping = "no"
        /\ IF ready = {}
           THEN /\ notify' = [c \in Notifies |->
                                IF c \in Awaited(t)
                                THEN [notify[c] EXCEPT !.waiters = Append(@, t)] ELSE notify[c]]
                /\ task' = Go(t, "blocked")
                /\ UNCHANGED queue
           ELSE \E c \in ready :
                   /\ Picks(t, ready, c)
                   /\ wake(t, [n |-> [notify EXCEPT ![c].permit = FALSE], k |-> task])
        /\ UNCHANGED <<modeVars, peerVars, userVars>>

Woken(t) == {c \in Notifies : task[t].woken[c] # "no"}

woken(t) ==
    /\ task[t].at = "blocked"
    /\ t = Proc => stopping = "no"
    /\ \E c \in Woken(t) :
          /\ Picks(t, Woken(t), c)
          /\ wake(t, drop_all(NS([task EXCEPT ![t].woken[c] = "no"]), t))
    /\ UNCHANGED <<modeVars, peerVars, userVars>>

(* SNDTIMEO runs out for a sender that waits for room.                     *)
wait_times_out(s) ==
    /\ task[s].at = "blocked" /\ sndtimeo = "some"
    /\ LET ns == drop_all(NS(task), s)
       IN  notify' = ns.n /\ task' = [ns.k EXCEPT ![s] = Done(s)[s]]
    /\ UNCHANGED <<modeVars, peerVars, queue, userVars>>

(* Mutant: a message that could not be sent is put back without a word.    *)
requeue_silent ==
    /\ task[Proc].at = "requeue"
    /\ queue' = <<task[Proc].msg>> \o queue
    /\ task' = Done(Proc)
    /\ UNCHANGED <<modeVars, peerVars, notify, userVars>>

(* Mutant: a message that could not be sent is not put back.               *)
requeue_drops ==
    /\ task[Proc].at = "requeue"
    /\ task' = Done(Proc)
    /\ UNCHANGED <<modeVars, peerVars, queue, notify, userVars>>

requeue ==
    /\ task[Proc].at = "requeue"
    /\ queue' = <<task[Proc].msg>> \o queue
    /\ settle(notify_one(NS(Done(Proc)), "queue"))
    /\ UNCHANGED <<modeVars, peerVars, userVars>>

processor_stops ==
    /\ task[Proc].at \in {"register", "blocked"}
    /\ stopping # "no"
    /\ LET ns == drop_all(NS(task), Proc)
       IN  notify' = ns.n /\ task' = [ns.k EXCEPT ![Proc].at = "stopped"]
    /\ UNCHANGED <<modeVars, peerVars, queue, userVars>>

-----------------------------------------------------------------------------
(* Connections come and go.                                                *)

(* connect(): the core has started a connecter, and the connection itself  *)
(* is still to come.                                                       *)
connect(p) ==
    /\ conn[p] = "new" /\ running
    /\ settle(notify_one(NS(task), "peer"))
    /\ UNCHANGED <<modeVars, peerVars, queue, userVars>>

(* pipe_attached, up to the balancer.                                      *)
pipe_balanced(p) ==
    /\ conn[p] = "new" /\ running
    /\ conn' = [conn EXCEPT ![p] = "balanced"]
    /\ lb' = add_connection(p)
    /\ UNCHANGED <<modeVars, semaphore, pipe, written, queue, task, notify, userVars, lost, evicted>>

pipe_attached(p) ==
    /\ conn[p] = "balanced"
    /\ conn' = [conn EXCEPT ![p] = "attached"]
    /\ semaphore' = [semaphore EXCEPT ![p] = "free"]
    /\ settle(notify_one(notify_one(NS(task), "peer"), "queue"))
    /\ UNCHANGED <<modeVars, lb, pipe, written, queue, userVars, lost, evicted>>

session_writes(p) ==
    /\ conn[p] = "attached"
    /\ pipe[p] # <<>>
    /\ written' = [written EXCEPT ![Head(pipe[p])] = @ + 1]
    /\ pipe' = [pipe EXCEPT ![p] = Tail(@)]
    /\ UNCHANGED <<modeVars, conn, lb, semaphore, queue, task, notify, userVars, lost, evicted>>

session_ends(p) ==
    /\ conn[p] = "attached"
    /\ conn' = [conn EXCEPT ![p] = "ended"]
    /\ lost' = lost \cup {pipe[p][i] : i \in 1..Len(pipe[p])}
    /\ pipe' = [pipe EXCEPT ![p] = <<>>]
    /\ UNCHANGED <<modeVars, lb, semaphore, written, queue, task, notify, userVars, evicted>>

(* cleanup_stopped_child_resources, which takes the endpoint from the      *)
(* core's map and then tells the ISocket.                                  *)
remove_endpoint(p) ==
    /\ conn[p] = "ended"
    /\ conn' = [conn EXCEPT ![p] = "removed"]
    /\ UNCHANGED <<modeVars, lb, semaphore, pipe, written, queue, task, notify, userVars, lost, evicted>>

pipe_detached(p) ==
    /\ conn[p] = "removed"
    /\ conn' = [conn EXCEPT ![p] = "detached"]
    /\ lb' = remove_connection(p)
    /\ semaphore' = remove_pipe(p)
    /\ settle(notify_waiters(NS(task), "peer"))
    /\ UNCHANGED <<modeVars, pipe, written, queue, userVars, lost, evicted>>

(* The core leaves Running; its ISocket hears of it when all is over.      *)
close ==
    /\ running /\ calls < CloseBefore
    /\ running' = FALSE
    /\ UNCHANGED <<sndtimeo, stopping, peerVars, queue, task, notify, userVars>>

process_command_stop ==
    /\ ~running /\ stopping = "no"
    /\ \A p \in Peers : conn[p] \in {"new", "detached"}
    /\ stopping' = "signalled"
    /\ UNCHANGED <<sndtimeo, running, peerVars, queue, task, notify, userVars>>

(* ... after the processor has ended, or a hundred milliseconds.           *)
process_command_wakes ==
    /\ stopping = "signalled"
    /\ stopping' = "done"
    /\ settle(notify_waiters(notify_waiters(NS(task), "queue"), "peer"))
    /\ UNCHANGED <<sndtimeo, running, peerVars, queue, userVars>>

(* The user drops the future of a send(): its permit and its Notified go   *)
(* with it.                                                                *)
cancel(s) ==
    /\ task[s].at # "idle" /\ cancels < MaxCancels
    /\ cancels' = cancels + 1
    /\ semaphore' = IF task[s].peer = None THEN semaphore ELSE release(task[s].peer, s)
    /\ LET ns == drop_all(NS(task), s)
       IN  notify' = ns.n /\ task' = [ns.k EXCEPT ![s] = Done(s)[s]]
    /\ UNCHANGED <<modeVars, conn, lb, pipe, written, queue, calls, accepted, lost, evicted>>

-----------------------------------------------------------------------------
PeerLoop(t) ==
    \/ choose_closing(t) \/ choose_peer(t) \/ permit_unreachable(t)
    \/ acquire_send_permit(t) \/ permit_times_out(t)
    \/ write_succeeds(t) \/ write_times_out(t) \/ write_closed(t)

Step(t) == PeerLoop(t) \/ register(t) \/ woken(t)
SenderStep(s) == Step(s) \/ queue_checks(s) \/ queue_pushes(s)
ProcessorStep == Step(Proc) \/ connection_count \/ requeue \/ processor_stops

Next ==
    \/ ProcessorStep
    \/ \E s \in Senders : SenderStep(s) \/ send_logical_message(s) \/ wait_times_out(s) \/ cancel(s)
    \/ \E p \in Peers : \/ connect(p) \/ pipe_balanced(p) \/ pipe_attached(p) \/ session_writes(p)
                        \/ session_ends(p) \/ remove_endpoint(p) \/ pipe_detached(p)
    \/ close \/ process_command_stop \/ process_command_wakes

(* What the task of the core does once it has begun or been told to.       *)
CoreStep ==
    \/ \E p \in Peers : \/ pipe_attached(p) \/ remove_endpoint(p) \/ pipe_detached(p)
                        \/ ~running /\ session_ends(p)
    \/ process_command_stop \/ process_command_wakes

(* The tasks are polled, timers fire, a session writes what its pipe holds.*)
Fairness ==
    /\ WF_vars(ProcessorStep) /\ WF_vars(CoreStep)
    /\ \A s \in Senders : WF_vars(SenderStep(s) \/ wait_times_out(s))
    /\ \A p \in Peers : WF_vars(session_writes(p))

Spec == Init /\ [][Next]_vars /\ Fairness

-----------------------------------------------------------------------------
Hand == IF task[Proc].msg = NoMsg THEN <<>> ELSE <<task[Proc].msg>>
InSeq(m, s) == {i \in 1..Len(s) : s[i] = m}
Copies(m) == Cardinality(InSeq(m, queue \o Hand)) + written[m]
             + Cardinality(UNION {{p} \X InSeq(m, pipe[p]) : p \in Peers})
Sent(m) == written[m] > 0 \/ \E p \in Peers : InSeq(m, pipe[p]) # {}

(* While the socket runs, a message whose send() returned Ok is in exactly *)
(* one place: queued, in the hand of the processor, in one pipe, written,  *)
(* or gone with the session that had it; one whose send() failed or whose  *)
(* future was dropped on the way (docs/cancel_safety.md) is nowhere.       *)
ExactlyOnce ==
    running => \A m \in Msgs :
        Copies(m) + (IF m \in lost THEN 1 ELSE 0) = IF m \in accepted THEN 1 ELSE 0

(* SNDHWM is exceeded by at most one message for each concurrent send():   *)
(* the check and the push are two lockings of the queue, and the processor *)
(* puts back a message whose place has been taken.                         *)
QueueBound ==
    running => Len(queue) + Len(Hand) <= SndHwm + Cardinality(Senders)

Usable(p) == conn[p] = "attached" /\ p \notin evicted

Notified == Woken(Proc) # {} \/ \E c \in Notifies : notify[c].permit

(* A processor that has been notified, and whose peer stays, sends the     *)
(* head of the queue, however often a full pipe or a busy permit makes it  *)
(* put the message back: no notification is lost between its steps.        *)
NotifiedServes ==
    \A m \in Msgs : \A p \in Peers :
        (sndtimeo = "zero" /\ Notified /\ queue # <<>> /\ Head(queue) = m /\ Usable(p)) ~>
            (~Usable(p) \/ ~running \/ Sent(m))

(* A send() that must not wait returns, whatever the processor and the     *)
(* other senders do; one that may wait for SNDTIMEO returns as well.       *)
SendsReturn ==
    \A s \in Senders : (sndtimeo # "none" /\ task[s].at # "idle") ~> task[s].at = "idle"

(* "A separate, long-lived task (DealerSocketOutgoingProcessor) is         *)
(* constantly waiting for items in the pending_outgoing_queue": a message  *)
(* in the queue is sent once there is a peer that stays.                   *)
QueueDrains ==
    \A m \in Msgs : \A p \in Peers :
        (InSeq(m, queue) # {} /\ Usable(p)) ~>
            (~Usable(p) \/ ~running \/ Sent(m))

=============================================================================
