------------------------------- MODULE ReqRep -------------------------------
(***************************************************************************)
(* REQ and REP sockets, the IncomingMessageOrchestrator each of them has,  *)
(* and the connections between them.  Every client is a REQ socket used by *)
(* one task; every server is a REP socket used by one task.  The frames of *)
(* a connection are handled one by one by its session, or by a PipeReader, *)
(* which runs beside the tasks and the two cores.                          *)
(*                                                                         *)
(* A connection is one pipe at each end.  To the REQ socket its URI is     *)
(* that of the server, so a connection made again has the old URI; to the  *)
(* REP socket every connection has a URI of its own (the peer's port).     *)
(***************************************************************************)
EXTENDS Naturals, Sequences

CONSTANTS Clients, Servers, Conns,
          ClientOf, ServerOf,      \* [Conns -> Clients], [Conns -> Servers]
          Scenarios,               \* which connections, options and faults
          MaxRequests,             \* bound: the requests of a client
          RcvHwm,                  \* capacity of a REP socket's queue
          None

ASSUME ConstantsAssumption ==
    /\ ClientOf \in [Conns -> Clients] /\ ServerOf \in [Conns -> Servers]
    /\ MaxRequests \in Nat /\ RcvHwm \in Nat

ASSUME ScenarioAssumption ==
    \A s \in Scenarios :
        /\ s.conns \subseteq Conns
        /\ s.parts \in 1..2        \* frames of a reply
        /\ s.requests \in 1..MaxRequests
        /\ s.breaks \subseteq s.conns    \* connections that may break
        /\ {s.whole,               \* the clients call recv_multipart()
            s.timeo,               \* RCVTIMEO is finite, not absent
            s.cancels,             \* a pending receive may be dropped
            s.stops} \subseteq BOOLEAN    \* the clients may be closed

VARIABLES cfg, req, rep, conn,
          asked, answered, lost,   \* the conversation, as in Exchange
          excused                  \* requests a known race leaves without reply

vars == <<cfg, req, rep, conn, asked, answered, lost, excused>>
talk == <<asked, answered, lost, excused>>

Requests == Clients \X (1..MaxRequests)

(* A frame: part 0 is the empty delimiter.                                 *)
Frame(q, n, more) == [of |-> q, part |-> n, more |-> more]
Frames == [of : Requests, part : 0..2, more : BOOLEAN]

(* What a REQ socket expects and what a REP socket holds of a request.     *)
Expectations == [to : Servers, q : Requests]
Addresses == [pipe : Conns, prefix : Seq(Frames)]
Items == [pipe : Conns, prefix : Seq(Frames), payload : Seq(Frames)]

ASSUME NoneAssumption ==
    /\ None \notin Expectations /\ None \notin Addresses
    /\ None \notin Items /\ None \notin Frames /\ None \notin Conns

-----------------------------------------------------------------------------
Init ==
    /\ cfg \in Scenarios
    /\ req = [c \in Clients |->
                [running |-> "yes", state |-> None, lb |-> <<>>,
                 queue |-> <<>>, buffer |-> <<>>,
                 permit |-> FALSE, woken |-> "no",
                 at |-> "idle", via |-> None, n |-> 0, result |-> None]]
    /\ rep = [s \in Servers |->
                [state |-> None, queue |-> <<>>, at |-> "idle", holds |-> None]]
    /\ conn = [k \in Conns |->
                [link |-> "new", req |-> "new", rep |-> "new",
                 toReq |-> <<>>, toRep |-> <<>>,
                 partial |-> <<>>, reader |-> "idle", item |-> <<>>,
                 repPartial |-> <<>>, repReader |-> "idle", repItem |-> None]]
    /\ asked = {} /\ answered = {} /\ lost = {} /\ excused = {}

Uri(k) == ServerOf[k]

Last(s) == s[Len(s)]

Contains(s, x) == \E i \in 1..Len(s) : s[i] = x

(* s without x, which occurs at most once.                                 *)
Without(s, x) ==
    IF Contains(s, x)
    THEN LET i == CHOOSE i \in 1..Len(s) : s[i] = x
         IN  SubSeq(s, 1, i - 1) \o SubSeq(s, i + 1, Len(s))
    ELSE s

(* The endpoint a client has under a URI.                                  *)
Endpoints(c, u) == {k \in Conns : ClientOf[k] = c /\ Uri(k) = u /\ conn[k].req = "up"}

-----------------------------------------------------------------------------
(* tokio's Notify, for the one task that can wait on it.                   *)

Waiting(r) == r.at = "wait" /\ r.woken = "no"

notify_one(r) == IF Waiting(r) THEN [r EXCEPT !.woken = "one"] ELSE [r EXCEPT !.permit = TRUE]

notify_waiters(r) == IF Waiting(r) THEN [r EXCEPT !.woken = "all"] ELSE r

(* Leaving a wait passes a notification of notify_one on.                  *)
drop_notified(r) ==
    LET gone == [r EXCEPT !.woken = "no", !.at = "idle"]
    IN  IF r.woken = "one" THEN notify_one(gone) ELSE gone

-----------------------------------------------------------------------------
(* The orchestrator's two ways of taking what was queued: a message frame  *)
(* by frame, or a whole one.                                               *)

CanTake(r) == r.buffer # <<>> \/ r.queue # <<>>

recv_message(r) ==
    IF r.buffer # <<>>
    THEN [r EXCEPT !.buffer = Tail(@),
                   !.result = [Head(r.buffer) EXCEPT !.more = Len(r.buffer) > 1]]
    ELSE [r EXCEPT !.queue = Tail(@), !.buffer = Tail(Head(r.queue)),
                   !.result = Head(Head(r.queue))]

-----------------------------------------------------------------------------
(* REQ: send().                                                            *)

send(c) ==
    /\ req[c].at = "idle" /\ req[c].running = "yes"
    /\ req[c].state = None
    /\ req[c].n < cfg.requests
    /\ req' = [req EXCEPT ![c].at = "choose"]
    /\ UNCHANGED <<cfg, rep, conn, talk>>

(* With no peer the call waits for one; add_connection leaves it a permit  *)
(* if it comes between the look at the list and the wait.                  *)
choose_peer(c) ==
    LET r == req[c]
        u == Head(r.lb)
    IN  /\ r.at = "choose"
        /\ r.lb # <<>>
        /\ req' = [req EXCEPT ![c] =
                     IF Endpoints(c, u) # {}
                     THEN [r EXCEPT !.lb = Append(Tail(@), u), !.at = "write",
                                    !.via = CHOOSE k \in Endpoints(c, u) : TRUE]
                     ELSE [r EXCEPT !.lb = Tail(@)]]
        /\ UNCHANGED <<cfg, rep, conn, talk>>

(* SNDTIMEO without a peer or with a full pipe, or the socket was closed.  *)
send_refused(c) ==
    /\ \/ req[c].at = "choose" /\ req[c].lb = <<>>
       \/ req[c].at = "write"
    /\ req' = [req EXCEPT ![c].at = "idle"]
    /\ UNCHANGED <<cfg, rep, conn, talk>>

(* The session takes the two frames, and loses them if its link is down.   *)
write(c) ==
    LET k == req[c].via
        q == <<c, req[c].n + 1>>
    IN  /\ req[c].at = "write"
        /\ conn' = IF conn[k].link = "up"
                   THEN [conn EXCEPT ![k].toRep = @ \o <<Frame(q, 0, TRUE), Frame(q, 1, FALSE)>>]
                   ELSE conn
        /\ req' = [req EXCEPT ![c] = [req[c] EXCEPT !.at = "sent", !.n = @ + 1]]
        /\ UNCHANGED <<cfg, rep, talk>>

(* ConnectionClosed: the session is gone.  Or its endpoint, which has gone *)
(* since the peer was chosen.                                              *)
write_closed(c) ==
    LET k == req[c].via
    IN  /\ req[c].at = "write"
        /\ conn[k].link = "broken"
        /\ req' = [req EXCEPT ![c] = [req[c] EXCEPT !.at = "idle", !.lb = Without(@, Uri(k))]]
        /\ UNCHANGED <<cfg, rep, conn, talk>>

(* Only now is the socket in the state of expecting a reply.  A peer that  *)
(* was detached before is never detached again.                            *)
send_returns(c) ==
    LET r == req[c]
        q == <<c, r.n>>
    IN  /\ r.at = "sent"
        /\ req' = [req EXCEPT ![c] = [r EXCEPT !.state = [to |-> Uri(r.via), q |-> q],
                                               !.buffer = <<>>, !.at = "idle"]]
        /\ asked' = asked \cup {q}
        /\ excused' = IF conn[r.via].req = "detached" THEN excused \cup {q} ELSE excused
        /\ UNCHANGED <<cfg, rep, conn, answered, lost>>

-----------------------------------------------------------------------------
(* REQ: recv().                                                            *)

recv(c) ==
    /\ req[c].at = "idle" /\ req[c].running = "yes"
    /\ req[c].state # None
    /\ req' = [req EXCEPT ![c].at = IF cfg.whole THEN "whole" ELSE "poll"]
    /\ UNCHANGED <<cfg, rep, conn, talk>>

(* The first poll of the biased select: the notifier, then the queue.      *)
recv_polls(c) ==
    LET r == req[c]
    IN  /\ r.at = "poll"
        /\ req' = [req EXCEPT ![c] =
                     IF r.permit THEN [r EXCEPT !.permit = FALSE, !.at = "notified"]
                     ELSE IF CanTake(r) THEN [recv_message(r) EXCEPT !.at = "finish"]
                     ELSE [r EXCEPT !.at = "wait"]]
        /\ UNCHANGED <<cfg, rep, conn, talk>>

recv_wakes(c) ==
    LET r == req[c]
    IN  /\ r.at = "wait"
        /\ \/ /\ r.woken # "no"
              /\ req' = [req EXCEPT ![c] = [r EXCEPT !.woken = "no", !.at = "notified"]]
           \/ /\ r.woken = "no" /\ r.queue # <<>>
              /\ req' = [req EXCEPT ![c] =
                           [recv_message(r) EXCEPT !.at = "finish"]]
        /\ UNCHANGED <<cfg, rep, conn, talk>>

(* The notified arm takes what is there, and fails if nothing is.          *)
recv_notified(c) ==
    LET r == req[c]
    IN  /\ r.at = "notified"
        /\ req' = [req EXCEPT ![c] =
                     IF r.running = "yes" /\ CanTake(r)
                     THEN [recv_message(r) EXCEPT !.at = "finish"]
                     ELSE [r EXCEPT !.at = "finish"]]
        /\ UNCHANGED <<cfg, rep, conn, talk>>

recv_times_out(c) ==
    /\ cfg.timeo
    /\ req[c].at = "wait" /\ req[c].woken = "no"
    /\ req' = [req EXCEPT ![c].at = "finish"]
    /\ UNCHANGED <<cfg, rep, conn, talk>>

(* The task drops the future of recv() or recv_multipart().                *)
cancel(c) ==
    /\ cfg.cancels
    /\ req[c].at \in {"wait", "await"}
    /\ req' = [req EXCEPT ![c] = drop_notified(req[c])]
    /\ UNCHANGED <<cfg, rep, conn, talk>>

(* The request a state waits for.                                          *)
PendingIn(st) == IF st = None THEN {} ELSE {st.q}
Pending(c) == PendingIn(req[c].state)

Answer(c, q) ==
    /\ answered' = answered \cup {q}
    /\ lost' = (lost \cup Pending(c)) \ {q}

(* The last frame, and every error (no result), ends the exchange.         *)
recv_finishes(c) ==
    LET r    == req[c]
        over == [r EXCEPT !.at = "idle", !.result = None]
    IN  /\ r.at = "finish"
        /\ \/ /\ r.result = None
              /\ req' = [req EXCEPT ![c] = notify_waiters([over EXCEPT !.state = None])]
              /\ lost' = lost \cup Pending(c)
              /\ UNCHANGED answered
           \/ /\ r.result # None /\ r.result.more
              /\ req' = [req EXCEPT ![c] = over]
              /\ UNCHANGED <<answered, lost>>
           \/ /\ r.result # None /\ ~r.result.more
              /\ req' = [req EXCEPT ![c] = notify_waiters([over EXCEPT !.state = None])]
              /\ Answer(c, r.result.of)
        /\ UNCHANGED <<cfg, rep, conn, asked, excused>>

(* recv_multipart() does not listen to the notifier; the state changes     *)
(* when the message is taken.                                              *)
recv_multipart_waits(c) ==
    /\ req[c].at = "whole"
    /\ req' = [req EXCEPT ![c] = [req[c] EXCEPT !.at = "await", !.buffer = <<>>]]
    /\ UNCHANGED <<cfg, rep, conn, talk>>

recv_multipart(c) ==
    LET r == req[c]
    IN  /\ r.at = "await"
        /\ r.queue # <<>>
        /\ req' = [req EXCEPT ![c] = notify_waiters(
                     [r EXCEPT !.queue = Tail(@), !.state = None, !.at = "idle"])]
        /\ Answer(c, Last(Head(r.queue)).of)
        /\ UNCHANGED <<cfg, rep, conn, asked, excused>>

recv_multipart_times_out(c) ==
    /\ cfg.timeo
    /\ req[c].at = "await"
    /\ req' = [req EXCEPT ![c] = notify_waiters([req[c] EXCEPT !.state = None, !.at = "idle"])]
    /\ lost' = lost \cup Pending(c)
    /\ UNCHANGED <<cfg, rep, conn, asked, answered, excused>>

(* The core leaves Running, and then hands Stop to the ISocket.            *)
stop(c) ==
    /\ cfg.stops
    /\ req[c].running = "yes"
    /\ req' = [req EXCEPT ![c].running = "stopping"]
    /\ UNCHANGED <<cfg, rep, conn, talk>>

process_command(c) ==
    /\ req[c].running = "stopping"
    /\ req' = [req EXCEPT ![c] = notify_waiters([req[c] EXCEPT !.running = "no"])]
    /\ UNCHANGED <<cfg, rep, conn, talk>>

-----------------------------------------------------------------------------
(* REQ: handle_pipe_event, run by the reader of a connection.              *)

(* The state is looked at for every frame; what comes from another peer,   *)
(* or when no reply is expected, is dropped.                               *)
Expected(k) ==
    LET r == req[ClientOf[k]]
    IN  conn[k].req \in {"up", "gone"} /\ r.state # None /\ r.state.to = Uri(k)

(* process_incoming_zmtp_message_for_req: the leading delimiter goes.      *)
Strip(fs) == IF Head(fs).part = 0 THEN Tail(fs) ELSE fs

(* accumulate_pipe_frame: a message is whole with the frame without MORE.  *)
read(k) ==
    LET f   == Head(conn[k].toReq)
        fs  == Append(conn[k].partial, f)
        now == [conn[k] EXCEPT !.toReq = Tail(@)]
    IN  /\ conn[k].reader = "idle"
        /\ conn[k].toReq # <<>>
        /\ conn' = [conn EXCEPT ![k] =
                      IF ~Expected(k) THEN now
                      ELSE IF f.more THEN [now EXCEPT !.partial = fs]
                      ELSE [now EXCEPT !.partial = <<>>, !.reader = "push", !.item = Strip(fs)]]
        /\ excused' = IF Expected(k) \/ f.of \in asked THEN excused ELSE excused \cup {f.of}
        /\ UNCHANGED <<cfg, req, rep, asked, answered, lost>>

(* Mutant: the queue of a REQ socket has no capacity.                      *)
HasRoom_always(c) == TRUE

(* The queue of a REQ socket holds one message.                            *)
HasRoom(c) == Len(req[c].queue) < 1

push(k) ==
    LET c == ClientOf[k]
    IN  /\ conn[k].reader = "push"
        /\ HasRoom(c)
        /\ req' = [req EXCEPT ![c].queue = Append(@, conn[k].item)]
        /\ conn' = [conn EXCEPT ![k] = [conn[k] EXCEPT !.reader = "notify", !.item = <<>>]]
        /\ UNCHANGED <<cfg, rep, talk>>

(* After a second without room the message is dropped, and that is an Ok.  *)
push_times_out(k) ==
    /\ conn[k].reader = "push"
    /\ ~HasRoom(ClientOf[k])
    /\ conn' = [conn EXCEPT ![k] = [conn[k] EXCEPT !.reader = "notify", !.item = <<>>]]
    /\ excused' = excused \cup {Last(conn[k].item).of}
    /\ UNCHANGED <<cfg, req, rep, asked, answered, lost>>

notify(k) ==
    /\ conn[k].reader = "notify"
    /\ req' = [req EXCEPT ![ClientOf[k]] = notify_one(req[ClientOf[k]])]
    /\ conn' = [conn EXCEPT ![k].reader = "idle"]
    /\ UNCHANGED <<cfg, rep, talk>>

-----------------------------------------------------------------------------
(* Connections.                                                            *)

(* pipe_attached at both ends.  The connecter starts again only when the   *)
(* core is done with the connection before.                                *)
attach(k) ==
    LET c == ClientOf[k]
    IN  /\ conn[k].link = "new"
        /\ req[c].running = "yes"
        /\ \A j \in cfg.conns \ {k} : ClientOf[j] = c /\ Uri(j) = Uri(k) =>
               conn[j].req \in {"new", "detached"}
        /\ conn' = [conn EXCEPT ![k] = [conn[k] EXCEPT !.link = "up", !.req = "up", !.rep = "up"]]
        /\ req' = [req EXCEPT ![c].lb = IF Contains(@, Uri(k)) THEN @ ELSE Append(@, Uri(k))]
        /\ UNCHANGED <<cfg, rep, talk>>

(* The link goes down, and some of what was under way with it; the socket  *)
(* that is closed takes its connections down.                              *)
break(k) ==
    /\ k \in cfg.breaks \/ req[ClientOf[k]].running # "yes"
    /\ conn[k].link = "up"
    /\ \E i \in 0..Len(conn[k].toReq), j \in 0..Len(conn[k].toRep) :
          conn' = [conn EXCEPT ![k] = [conn[k] EXCEPT !.link = "broken",
                                         !.toReq = SubSeq(@, 1, i), !.toRep = SubSeq(@, 1, j)]]
    /\ UNCHANGED <<cfg, req, rep, talk>>

(* cleanup_stopped_child_resources: the endpoint goes first.               *)
endpoint_removed(k) ==
    /\ conn[k].link = "broken" /\ conn[k].req = "up"
    /\ conn' = [conn EXCEPT ![k].req = "gone"]
    /\ UNCHANGED <<cfg, req, rep, talk>>

(* Mutant: the waiting receive is not told.                                *)
pipe_detached_silent(k) ==
    LET c == ClientOf[k]
        r == req[c]
        mine == r.state # None /\ r.state.to = Uri(k)
    IN  /\ conn[k].req = "gone"
        /\ conn' = [conn EXCEPT ![k].req = "detached", ![k].partial = <<>>]
        /\ req' = [req EXCEPT ![c].lb = Without(@, Uri(k)),
                              ![c].buffer = <<>>, ![c].state = IF mine THEN None ELSE @]
        /\ lost' = IF mine THEN lost \cup Pending(c) ELSE lost
        /\ UNCHANGED <<cfg, rep, asked, answered, excused>>

(* clear_pipe_state empties the buffer of recv(), whichever pipe the       *)
(* message in it came from.                                                *)
pipe_detached(k) ==
    LET c    == ClientOf[k]
        mine == Pending(c) # {} /\ req[c].state.to = Uri(k)
        now  == [req[c] EXCEPT !.lb = Without(@, Uri(k)), !.buffer = <<>>]
    IN  /\ conn[k].req = "gone"
        /\ conn' = [conn EXCEPT ![k] = [conn[k] EXCEPT !.req = "detached", !.partial = <<>>]]
        /\ IF mine
           THEN /\ req' = [req EXCEPT ![c] = notify_one([now EXCEPT !.state = None])]
                /\ lost' = lost \cup Pending(c)
                /\ UNCHANGED excused
           ELSE /\ req' = [req EXCEPT ![c] = now]
                /\ excused' = IF req[c].buffer = <<>> THEN excused
                              ELSE excused \cup Pending(c)
                /\ UNCHANGED lost
        /\ UNCHANGED <<cfg, rep, asked, answered>>

-----------------------------------------------------------------------------
(* REP.                                                                    *)

(* handle_pipe_event: frames up to the delimiter are the routing prefix.   *)
(* A pipe the core no longer knows stops the reader.                       *)
PeerInfo(k, fs) ==
    LET D == {i \in 1..Len(fs) : fs[i].part = 0}
        d == IF D = {} THEN 0 ELSE CHOOSE i \in D : \A j \in D : i <= j
    IN  [pipe |-> k, prefix |-> SubSeq(fs, 1, d), payload |-> SubSeq(fs, d + 1, Len(fs))]

rep_read(k) ==
    LET f   == Head(conn[k].toRep)
        fs  == Append(conn[k].repPartial, f)
        now == [conn[k] EXCEPT !.toRep = Tail(@)]
    IN  /\ conn[k].repReader = "idle"
        /\ conn[k].toRep # <<>>
        /\ conn' = [conn EXCEPT ![k] =
                      IF f.more THEN [now EXCEPT !.repPartial = fs]
                      ELSE IF conn[k].rep = "up"
                      THEN [now EXCEPT !.repPartial = <<>>, !.repReader = "push",
                                       !.repItem = PeerInfo(k, fs)]
                      ELSE [now EXCEPT !.repPartial = <<>>, !.repReader = "stopped"]]
        /\ UNCHANGED <<cfg, req, rep, talk>>

rep_push(k) ==
    LET s == ServerOf[k]
    IN  /\ conn[k].repReader = "push"
        /\ Len(rep[s].queue) < RcvHwm
        /\ rep' = [rep EXCEPT ![s].queue = Append(@, conn[k].repItem)]
        /\ conn' = [conn EXCEPT ![k] = [conn[k] EXCEPT !.repReader = "idle", !.repItem = None]]
        /\ UNCHANGED <<cfg, req, talk>>

rep_push_times_out(k) ==
    /\ conn[k].repReader = "push"
    /\ Len(rep[ServerOf[k]].queue) >= RcvHwm
    /\ conn' = [conn EXCEPT ![k] = [conn[k] EXCEPT !.repReader = "idle", !.repItem = None]]
    /\ excused' = excused \cup {Last(conn[k].repItem.payload).of}
    /\ UNCHANGED <<cfg, req, rep, asked, answered, lost>>

(* The state changes as the request is taken; the task then has it.        *)
rep_recv(s) ==
    LET i == Head(rep[s].queue)
    IN  /\ rep[s].at = "idle"
        /\ rep[s].state = None
        /\ rep[s].queue # <<>>
        /\ rep' = [rep EXCEPT ![s] = [state |-> [pipe |-> i.pipe, prefix |-> i.prefix],
                                      queue |-> Tail(rep[s].queue), at |-> "has",
                                      holds |-> Last(i.payload).of]]
        /\ UNCHANGED <<cfg, req, conn, talk>>

(* The frames of the reply to q: the routing prefix, then the payload,     *)
(* with MORE on all but the last.                                          *)
Reply(prefix, q) == prefix \o [n \in 1..cfg.parts |-> Frame(q, n, n < cfg.parts)]

(* Mutant: the reply goes to whichever connection of the socket is open.   *)
rep_send_multipart_any(s) ==
    LET open == {k \in Conns : ServerOf[k] = s /\ conn[k].rep = "up"}
    IN  /\ rep[s].at = "has"
        /\ rep' = [rep EXCEPT ![s].state = None, ![s].at = "idle", ![s].holds = None]
        /\ conn' = IF rep[s].state = None \/ open = {} THEN conn
                   ELSE [conn EXCEPT ![CHOOSE k \in open : TRUE].toReq =
                           @ \o Reply(rep[s].state.prefix, rep[s].holds)]
        /\ UNCHANGED <<cfg, req, talk>>

(* The state is taken first: without a request it is an error, and with a  *)
(* peer that is gone the request is over.                                  *)
rep_send_multipart(s) ==
    LET st == rep[s].state
    IN  /\ rep[s].at = "has"
        /\ rep' = [rep EXCEPT ![s] = [rep[s] EXCEPT !.state = None, !.at = "idle", !.holds = None]]
        /\ conn' = IF st = None THEN conn
                   ELSE IF conn[st.pipe].rep # "up" \/ conn[st.pipe].link # "up" THEN conn
                   ELSE [conn EXCEPT ![st.pipe].toReq = @ \o Reply(st.prefix, rep[s].holds)]
        /\ UNCHANGED <<cfg, req, talk>>

(* The endpoint is removed and the pipe detached.                          *)
rep_pipe_detached(k) ==
    LET s == ServerOf[k]
    IN  /\ conn[k].link = "broken" /\ conn[k].rep = "up"
        /\ conn' = [conn EXCEPT ![k] = [conn[k] EXCEPT !.rep = "detached", !.repPartial = <<>>]]
        /\ rep' = [rep EXCEPT ![s].state =
                     IF @ = None THEN None ELSE IF @.pipe = k THEN None ELSE @]
        /\ UNCHANGED <<cfg, req, talk>>

-----------------------------------------------------------------------------
Caller(c) == send(c) \/ choose_peer(c) \/ send_refused(c) \/ write(c) \/ write_closed(c)
             \/ send_returns(c) \/ recv(c) \/ recv_polls(c) \/ recv_wakes(c)
             \/ recv_notified(c) \/ recv_times_out(c) \/ cancel(c) \/ recv_finishes(c)
             \/ recv_multipart_waits(c) \/ recv_multipart(c) \/ recv_multipart_times_out(c)
             \/ stop(c) \/ process_command(c)

Reader(k) == read(k) \/ push(k) \/ push_times_out(k) \/ notify(k)
             \/ rep_read(k) \/ rep_push(k) \/ rep_push_times_out(k)

Core(k) == attach(k) \/ break(k) \/ endpoint_removed(k) \/ pipe_detached(k)
           \/ rep_pipe_detached(k)

Server(s) == rep_recv(s) \/ rep_send_multipart(s)

(* The sockets a scenario has.                                             *)
ActiveClients == {ClientOf[k] : k \in cfg.conns}
ActiveServers == {ServerOf[k] : k \in cfg.conns}

Next == \/ \E c \in ActiveClients : Caller(c)
        \/ \E k \in cfg.conns : Reader(k) \/ Core(k)
        \/ \E s \in ActiveServers : Server(s)

Spec == Init /\ [][Next]_vars

-----------------------------------------------------------------------------
Callers == {"idle", "choose", "write", "sent", "poll", "wait", "notified", "finish",
            "whole", "await"}
ReqSockets ==
    [running : {"yes", "stopping", "no"}, state : Expectations \cup {None}, lb : Seq(Servers),
     queue : Seq(Seq(Frames)), buffer : Seq(Frames),
     permit : BOOLEAN, woken : {"no", "one", "all"},
     at : Callers, via : Conns \cup {None}, n : 0..MaxRequests, result : Frames \cup {None}]
RepSockets ==
    [state : Addresses \cup {None}, queue : Seq(Items), at : {"idle", "has"},
     holds : Requests \cup {None}]
Connections ==
    [link : {"new", "up", "broken"}, req : {"new", "up", "gone", "detached"},
     rep : {"new", "up", "detached"}, toReq : Seq(Frames), toRep : Seq(Frames),
     partial : Seq(Frames), reader : {"idle", "push", "notify"}, item : Seq(Frames),
     repPartial : Seq(Frames), repReader : {"idle", "push", "stopped"}, repItem : Items \cup {None}]

TypeOK ==
    /\ cfg \in Scenarios
    /\ req \in [Clients -> ReqSockets]
    /\ rep \in [Servers -> RepSockets]
    /\ conn \in [Conns -> Connections]
    /\ \A c \in Clients :
           /\ \A i, j \in 1..Len(req[c].lb) : req[c].lb[i] = req[c].lb[j] => i = j
           /\ Len(req[c].queue) <= 1
           /\ req[c].woken # "no" => req[c].at = "wait"
    /\ \A s \in Servers : Len(rep[s].queue) <= RcvHwm
    /\ asked \cup answered \cup lost \cup excused \subseteq Requests

(* Nothing is under way: no frame, no reader, no server and no core has a  *)
(* step left that a receive could be waiting for.                          *)
Quiet ==
    /\ \A k \in Conns :
           /\ conn[k].toReq = <<>> /\ conn[k].reader = "idle"
           /\ conn[k].repReader # "push"
           /\ conn[k].toRep = <<>> \/ conn[k].repReader = "stopped"
           /\ conn[k].link # "broken" \/ (conn[k].req = "detached" /\ conn[k].rep = "detached")
    /\ \A s \in ActiveServers : rep[s].at = "idle" /\ rep[s].queue = <<>>

(* A receive without RCVTIMEO does not wait for nothing: when all is quiet *)
(* no recv() is pending, whether the reply came, the peer was detached or  *)
(* the socket was closed.  The exceptions are the requests in excused: the *)
(* peer replied or left before send() had noted that it expects a reply,   *)
(* a queue was full for a second, or another peer left between the parts   *)
(* of a reply.  A recv_multipart(), which does not listen to the notifier, *)
(* is also left alone by a peer that is detached.                          *)
RecvServed ==
    Quiet => \A c \in Clients : req[c].queue = <<>> =>
                /\ Waiting(req[c]) => Pending(c) # {} /\ Pending(c) \subseteq excused
                /\ req[c].at = "await" => Pending(c) \subseteq excused

(* REQ and REP together keep the conversation of Exchange: send() asks,    *)
(* the last frame of a reply answers, an error or a lost peer gives up.    *)
E == INSTANCE Exchange WITH
        pending  <- [c \in Clients |-> Pending(c)],
        answered <- [c \in Clients |-> {q \in answered : q[1] = c}],
        lost     <- [c \in Clients |-> {q \in lost : q[1] = c}]

KeepsStep == E!Spec
=============================================================================
