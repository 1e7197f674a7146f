------------------------------- MODULE Router -------------------------------
(***************************************************************************)
(* The ROUTER socket: its maps between identities and connections, the two *)
(* ways of sending (a message frame by frame with send(), or whole with    *)
(* send_multipart()), and the messages its peers send.                     *)
(*                                                                         *)
(* A connection is attached under a placeholder for its identity, here the *)
(* connection itself, and is given the peer's identity and type when the   *)
(* core handles the event the session published.                           *)
(***************************************************************************)
EXTENDS Naturals, Sequences, SequencesExt, FiniteSets

CONSTANTS Conns, Identities,
          UriOf, TypeOf,           \* of a connection; TypeOf: the peer's type
          Whole, Parts,            \* tasks that call send_multipart(), send()
          Scenarios,
          None

Tasks == Whole \cup Parts
Names == Identities \cup Conns

ASSUME ScenarioAssumption ==
    /\ Cardinality(Parts) <= 1     \* current_send_target serves one task
    /\ \A s \in Scenarios :
          /\ s.conns \subseteq Conns /\ s.tasks \subseteq Tasks
          /\ s.messages \in Nat    \* bound: the messages of a task
          /\ \A k \in Conns : s.id[k] \in Identities \cup {k}   \* k: the peer has none
          /\ {s.manual,            \* AUTO_DELIMITER is off, here and at the peers
              s.faults,            \* a pipe may be full, a send() dropped
              s.breaks} \subseteq BOOLEAN    \* connections may break

VARIABLES cfg, conn, fwd, active, task,
          known,       \* the names the application may write to
          shadowed     \* connections that lost their entry to another's

vars == <<cfg, conn, fwd, active, task, known, shadowed>>

(* fwd is RouterMap.identity_to_peer_info; name is what                    *)
(* read_pipe_to_identity and shared what pipe_to_identity_shared_map hold. *)
Init ==
    /\ cfg \in Scenarios
    /\ conn = [k \in Conns |->
                [at |-> "new", name |-> None, shared |-> None, permit |-> "none",
                 wire |-> <<>>, torn |-> FALSE]]
    /\ fwd = [d \in Names |-> None]
    /\ active = None
    /\ task = [t \in Tasks |-> [at |-> "idle", n |-> 0, to |-> None, info |-> None,
                                pipe |-> None, part |-> 0]]
    /\ known = {cfg.id[k] : k \in cfg.conns} \cap Identities
    /\ shadowed = {}

(* The core handles one thing at a time: between the two parts of the       *)
(* attaching, renaming or cleanup of a connection it does nothing to another.*)
CoreFree == \A k \in cfg.conns : conn[k].at \notin {"adding", "renaming", "gone"}

Attached(k) == conn[k].at \in {"adding", "attached", "renaming", "identified"}
Endpoints(u) == {k \in cfg.conns : UriOf[k] = u /\ Attached(k)}

(* The connections whose entry under name d is theirs.                     *)
Owners(f, d) == {k \in cfg.conns : conn[k].at \in {"renaming", "identified"} /\ d = cfg.id[k]
                                   /\ f[d] # None /\ f[d].uri = UriOf[k]}

-----------------------------------------------------------------------------
(* Framing.  A frame names its message; the payload of a message sent in   *)
(* parts is two frames, of a whole one a single frame.                     *)

Frame(m, f, more) == [of |-> m, f |-> f, more |-> more]
Payload(m) == IF m.via \in Parts THEN <<"p1", "p2">> ELSE <<"p1">>

strategy(type) == IF type \in {"REQ", "DEALER", "ROUTER"} THEN type ELSE "default"

(* prepare_wire_frames: the frames before the payload.                     *)
Prefix(st) ==
    CASE st = "REQ"    -> <<"delim">>
      [] st = "ROUTER" -> <<>>
      [] st = "DEALER" -> IF cfg.manual THEN <<>> ELSE <<"id", "delim">>
      [] OTHER         -> IF cfg.manual THEN <<"id">> ELSE <<"id", "delim">>

prepare_wire_frames(st, m) ==
    LET fs == Prefix(st) \o Payload(m)
    IN  [i \in 1..Len(fs) |-> Frame(m, fs[i], i < Len(fs))]

(* What the application of a peer gets: process_incoming_zmtp_message of   *)
(* REQ, DEALER and ROUTER.                                                 *)
Understands(type, fs) ==
    CASE type = "REQ" -> IF Head(fs) = "delim" THEN Tail(fs) ELSE fs
      [] type = "DEALER" /\ ~cfg.manual ->
            IF Head(fs) = "delim" THEN Tail(fs)
            ELSE IF Len(fs) > 1 /\ fs[2] = "delim" THEN SubSeq(fs, 3, Len(fs))
            ELSE Tail(fs)
      [] OTHER -> fs

-----------------------------------------------------------------------------
(* RouterMap.                                                              *)

add_peer(f, k) == [f EXCEPT ![k] = [uri |-> UriOf[k], strategy |-> "default"]]

pipe_attached(k) ==
    /\ CoreFree
    /\ conn[k].at = "new"
    /\ \A j \in cfg.conns \ {k} : UriOf[j] = UriOf[k] => conn[j].at \in {"new", "detached"}
    /\ conn' = [conn EXCEPT ![k].at = "adding", ![k].name = k]
    /\ fwd' = add_peer(fwd, k)
    /\ UNCHANGED <<cfg, active, task, known, shadowed>>

(* pipe_attached goes on: the shared map, which until then is read as if   *)
(* it held the placeholder, and the permit of the pipe.                    *)
add_pipe(k) ==
    /\ conn[k].at = "adding"
    /\ conn' = [conn EXCEPT ![k].at = "attached", ![k].shared = k, ![k].permit = "free"]
    /\ UNCHANGED <<cfg, fwd, active, task, known, shadowed>>

(* The entry of the pipe's old name goes, and the identity maps to this    *)
(* connection, whichever it mapped to.                                     *)
update_entry(f, k) ==
    LET old == conn[k].name
        g == IF old = None THEN f ELSE [f EXCEPT ![old] = None]
    IN  [g EXCEPT ![cfg.id[k]] = [uri |-> UriOf[k], strategy |-> strategy(TypeOf[k])]]

(* Mutant: the pipe keeps its placeholder in the reverse map.              *)
update_peer_identity_forgets(k) ==
    /\ CoreFree
    /\ conn[k].at = "attached"
    /\ conn' = [conn EXCEPT ![k].at = "renaming"]
    /\ fwd' = update_entry(fwd, k)
    /\ shadowed' = shadowed \cup Owners(fwd, cfg.id[k])
    /\ UNCHANGED <<cfg, active, task, known>>

update_peer_identity(k) ==
    /\ CoreFree
    /\ conn[k].at = "attached"
    /\ conn' = [conn EXCEPT ![k].at = "renaming", ![k].name = cfg.id[k]]
    /\ fwd' = update_entry(fwd, k)
    /\ shadowed' = shadowed \cup Owners(fwd, cfg.id[k])
    /\ UNCHANGED <<cfg, active, task, known>>

(* update_peer_identity goes on with the shared map.                       *)
share_identity(k) ==
    /\ conn[k].at = "renaming"
    /\ conn' = [conn EXCEPT ![k].at = "identified", ![k].shared = cfg.id[k]]
    /\ UNCHANGED <<cfg, fwd, active, task, known, shadowed>>

(* The entry goes, and the reverse one of some pipe of that name.          *)
remove_peer_by_identity(d) ==
    LET named == {k \in Conns : conn[k].name = d}
    IN  /\ fwd' = [fwd EXCEPT ![d] = None]
        /\ shadowed' = shadowed \cup Owners(fwd, d)
        /\ IF fwd[d] = None \/ named = {} THEN UNCHANGED conn
           ELSE \E k \in named : conn' = [conn EXCEPT ![k].name = None]

(* cleanup_stopped_child_resources takes the endpoint away first, so that  *)
(* pipe_detached finds none and leaves current_send_target alone.          *)
endpoint_removed(k) ==
    /\ cfg.breaks
    /\ CoreFree
    /\ Attached(k)
    /\ conn' = [conn EXCEPT ![k].at = "gone"]
    /\ UNCHANGED <<cfg, fwd, active, task, known, shadowed>>

(* The entry of the pipe's name goes even if it is another's by now.       *)
remove_peer_by_read_pipe(f, k) ==
    IF conn[k].name = None THEN f ELSE [f EXCEPT ![conn[k].name] = None]

pipe_detached(k) ==
    LET d == conn[k].name
    IN  /\ conn[k].at = "gone"
        /\ conn' = [conn EXCEPT ![k].at = "detached", ![k].name = None, ![k].shared = None,
                                ![k].permit = "none"]
        /\ fwd' = remove_peer_by_read_pipe(fwd, k)
        /\ shadowed' = IF d = None THEN shadowed ELSE shadowed \cup Owners(fwd, d)
        /\ UNCHANGED <<cfg, active, task, known>>

-----------------------------------------------------------------------------
(* Incoming: the application gets a message with a name to answer to,      *)
(* which is the placeholder if the event with the identity is still to be  *)
(* handled.                                                                *)

handle_pipe_event(k) ==
    /\ Attached(k) \/ conn[k].at = "gone"
    /\ known' = known \cup {IF conn[k].shared = None THEN k ELSE conn[k].shared}
    /\ UNCHANGED <<cfg, conn, fwd, active, task, shadowed>>

-----------------------------------------------------------------------------
(* send_multipart() and the first frame of send() look the peer up alike.  *)

Message(t) == [via |-> t, n |-> task[t].n, to |-> task[t].to]
Done(t) == [task EXCEPT ![t] = [at |-> "idle", n |-> @.n, to |-> None, info |-> None,
                                pipe |-> None, part |-> 0]]

get_peer_info_for_identity(t) ==
    /\ task[t].at = "idle"
    /\ task[t].n < cfg.messages
    /\ t \in Parts => active = None
    /\ \E d \in known :
          /\ fwd[d] # None
          /\ task' = [task EXCEPT ![t].at = "endpoint", ![t].n = @ + 1, ![t].to = d,
                                  ![t].info = fwd[d]]
    /\ UNCHANGED <<cfg, conn, fwd, active, known, shadowed>>

(* A URI without endpoint is a stale entry, and is removed by its name.    *)
find_endpoint(t) ==
    LET es == Endpoints(task[t].info.uri)
    IN  /\ task[t].at = "endpoint"
        /\ IF es = {}
           THEN /\ remove_peer_by_identity(task[t].to)
                /\ task' = Done(t)
           ELSE /\ task' = [task EXCEPT ![t].at = "permit", ![t].pipe = CHOOSE k \in es : TRUE]
                /\ UNCHANGED <<conn, fwd, shadowed>>
        /\ UNCHANGED <<cfg, active, known>>

(* Mutant: the permit of the pipe is not waited for.                       *)
acquire_send_permit_always(t) ==
    /\ task[t].at = "permit"
    /\ conn[task[t].pipe].permit # "none"
    /\ conn' = [conn EXCEPT ![task[t].pipe].permit = "held"]
    /\ task' = [task EXCEPT ![t].at = "write"]
    /\ UNCHANGED <<cfg, fwd, active, known, shadowed>>

acquire_send_permit(t) ==
    /\ task[t].at = "permit"
    /\ conn[task[t].pipe].permit = "free"
    /\ conn' = [conn EXCEPT ![task[t].pipe].permit = "held"]
    /\ task' = [task EXCEPT ![t].at = "write"]
    /\ UNCHANGED <<cfg, fwd, active, known, shadowed>>

(* The pipe was detached, SNDTIMEO is over, or the future was dropped.     *)
permit_refused(t) ==
    /\ task[t].at = "permit"
    /\ cfg.faults \/ conn[task[t].pipe].permit = "none"
    /\ task' = Done(t)
    /\ UNCHANGED <<cfg, conn, fwd, active, known, shadowed>>

(* A permit dies with its pipe: remove_pipe has made it "none".            *)
Release(c, k) == [c EXCEPT ![k].permit = IF @ = "held" THEN "free" ELSE @]
MayFail(k) == cfg.faults \/ ~Attached(k)

(* send_multipart(): the frames go to the connection as one.               *)
write_multipart(t) ==
    LET k == task[t].pipe
    IN  /\ t \in Whole
        /\ task[t].at = "write"
        /\ conn' = Release([conn EXCEPT ![k].wire =
                       @ \o prepare_wire_frames(task[t].info.strategy, Message(t))], k)
        /\ task' = Done(t)
        /\ UNCHANGED <<cfg, fwd, active, known, shadowed>>

(* Neither send_multipart() nor the first frame of send() went out.        *)
write_fails(t) ==
    /\ task[t].at = "write"
    /\ MayFail(task[t].pipe)
    /\ conn' = Release(conn, task[t].pipe)
    /\ task' = Done(t)
    /\ UNCHANGED <<cfg, fwd, active, known, shadowed>>

(* Mutant: the permit goes when the first send() returns.                  *)
write_identity_releases(t) ==
    LET k == task[t].pipe
        first == IF cfg.manual THEN <<"id">> ELSE <<"id", "delim">>
    IN  /\ t \in Parts
        /\ task[t].at = "write"
        /\ conn' = Release([conn EXCEPT ![k].wire =
                       @ \o [i \in 1..Len(first) |-> Frame(Message(t), first[i], TRUE)]], k)
        /\ active' = [uri |-> task[t].info.uri, pipe |-> k]
        /\ task' = [task EXCEPT ![t].at = "parts", ![t].part = 1]
        /\ UNCHANGED <<cfg, fwd, known, shadowed>>

(* The first frame of send(): the identity and, unless manual, a delimiter *)
(* go out, whatever the type of the peer; the permit stays with the target.*)
write_identity(t) ==
    LET k == task[t].pipe
        first == IF cfg.manual THEN <<"id">> ELSE <<"id", "delim">>
    IN  /\ t \in Parts
        /\ task[t].at = "write"
        /\ conn' = [conn EXCEPT ![k].wire =
                       @ \o [i \in 1..Len(first) |-> Frame(Message(t), first[i], TRUE)]]
        /\ active' = [uri |-> task[t].info.uri, pipe |-> k]
        /\ task' = [task EXCEPT ![t].at = "parts", ![t].part = 1]
        /\ UNCHANGED <<cfg, fwd, known, shadowed>>

(* The identity went out and the delimiter did not.                        *)
write_delimiter_fails(t) ==
    LET k == task[t].pipe
    IN  /\ t \in Parts
        /\ task[t].at = "write"
        /\ ~cfg.manual /\ MayFail(k)
        /\ conn' = Release([conn EXCEPT ![k].wire = Append(@, Frame(Message(t), "id", TRUE)),
                                        ![k].torn = TRUE], k)
        /\ task' = Done(t)
        /\ UNCHANGED <<cfg, fwd, active, known, shadowed>>

(* A later frame of send() looks its connection up by the URI alone.       *)
find_target(t) ==
    LET es == Endpoints(active.uri)
    IN  /\ task[t].at = "parts"
        /\ IF es = {}
           THEN /\ conn' = Release([conn EXCEPT ![active.pipe].torn = TRUE], active.pipe)
                /\ active' = None
                /\ task' = Done(t)
           ELSE /\ task' = [task EXCEPT ![t].at = "part", ![t].pipe = CHOOSE k \in es : TRUE]
                /\ UNCHANGED <<conn, active>>
        /\ UNCHANGED <<cfg, fwd, known, shadowed>>

(* Part 0 is an identity that is sent as a payload, see identity_as_part.  *)
PartWritten(t) ==
    LET k == task[t].pipe
        m == Message(t)
        i == task[t].part
        frame == IF i = 0 THEN Frame(m, "id", TRUE)
                 ELSE Frame(m, Payload(m)[i], i < Len(Payload(m)))
        moved == k # active.pipe
    IN  [conn EXCEPT ![k].wire = Append(@, frame), ![k].torn = @ \/ moved,
                     ![active.pipe].torn = @ \/ moved]

write_part(t) ==
    LET last == task[t].part = Len(Payload(Message(t)))
    IN  /\ task[t].at = "part"
        /\ IF last
           THEN /\ conn' = Release(PartWritten(t), active.pipe)
                /\ active' = None
                /\ task' = Done(t)
           ELSE /\ conn' = PartWritten(t)
                /\ task' = [task EXCEPT ![t].at = "parts", ![t].part = @ + 1]
                /\ UNCHANGED active
        /\ UNCHANGED <<cfg, fwd, known, shadowed>>

(* An error ends the message where it is.                                  *)
write_part_fails(t) ==
    /\ task[t].at = "part"
    /\ MayFail(task[t].pipe)
    /\ conn' = Release([conn EXCEPT ![active.pipe].torn = TRUE], active.pipe)
    /\ active' = None
    /\ task' = Done(t)
    /\ UNCHANGED <<cfg, fwd, known, shadowed>>

(* The future of a later send() is dropped while it writes: the frame may  *)
(* be out, and the target stays, with its permit.                          *)
send_dropped(t) ==
    /\ task[t].at = "part"
    /\ cfg.faults
    /\ \E c \in {conn, PartWritten(t)} : conn' = [c EXCEPT ![active.pipe].torn = TRUE]
    /\ task' = Done(t)
    /\ UNCHANGED <<cfg, fwd, active, known, shadowed>>

(* The identity of the next message is then taken for a payload.           *)
identity_as_part(t) ==
    /\ t \in Parts /\ task[t].at = "idle" /\ active # None
    /\ task[t].n < cfg.messages
    /\ \E d \in known : task' = [task EXCEPT ![t].at = "parts", ![t].n = @ + 1, ![t].to = d]
    /\ UNCHANGED <<cfg, conn, fwd, active, known, shadowed>>

Next ==
    \/ \E k \in cfg.conns :
          pipe_attached(k) \/ add_pipe(k) \/ update_peer_identity(k) \/ share_identity(k)
          \/ endpoint_removed(k) \/ pipe_detached(k) \/ handle_pipe_event(k)
    \/ \E t \in cfg.tasks :
          get_peer_info_for_identity(t) \/ find_endpoint(t) \/ acquire_send_permit(t)
          \/ permit_refused(t) \/ write_multipart(t) \/ write_fails(t)
          \/ write_identity(t) \/ write_delimiter_fails(t) \/ find_target(t)
          \/ write_part(t) \/ write_part_fails(t) \/ send_dropped(t) \/ identity_as_part(t)

Spec == Init /\ [][Next]_vars

-----------------------------------------------------------------------------
(* Every variable has its type; a connection's permit is held by the one   *)
(* task that writes to it or by current_send_target, and by nobody else.   *)
TypeOK ==
    /\ \A k \in Conns :
          /\ conn[k].at \in {"new", "adding", "attached", "renaming", "identified", "gone", "detached"}
          /\ {conn[k].name, conn[k].shared} \subseteq {None, k, cfg.id[k]}
          /\ conn[k].permit \in {"none", "free", "held"}
          /\ conn[k].torn \in BOOLEAN
          /\ conn[k].permit # "none" =>
                (conn[k].permit = "held") =
                (\/ \E t \in Tasks : task[t].at = "write" /\ task[t].pipe = k
                 \/ active # None /\ active.pipe = k)
    /\ \A d \in Names : fwd[d] = None \/ fwd[d].uri \in {UriOf[k] : k \in Conns}
    /\ \A t \in Tasks : task[t].at \in {"idle", "endpoint", "permit", "write", "parts", "part"}

(* What a peer reads on a connection are whole messages: the frames of a   *)
(* message are neither interleaved with another's nor cut short (unless a  *)
(* frame of send() failed, its future was dropped, or its connection was   *)
(* replaced half way), they were meant for this peer, and the peer's       *)
(* application gets the payload (for frames that do not start with an      *)
(* identity the peer's type has no use for, which send() writes to every   *)
(* type of peer).                                                          *)
WholeMessages ==
    \A k \in cfg.conns : ~conn[k].torn =>
        LET w == conn[k].wire
            Starts == {i \in 1..Len(w) : i = 1 \/ ~w[i-1].more}
            Ends(i) == {j \in i..Len(w) : ~w[j].more /\ \A h \in i..(j-1) : w[h].more}
        IN  /\ \A i \in Starts : \A j \in Ends(i) :
                 LET m == w[i].of
                     fs == [h \in 1..(j - i + 1) |-> w[i + h - 1].f]
                 IN  /\ \A h \in i..j : w[h].of = m
                     /\ \E e \in Conns : UriOf[e] = UriOf[k] /\ m.to \in {e, cfg.id[e]}
                     /\ (fs[1] = "id" => TypeOf[k] = "DEALER" /\ ~cfg.manual)
                           => Understands(TypeOf[k], fs) = Payload(m)
            /\ w # <<>> /\ Last(w).more => active # None /\ active.pipe = k

(* The maps agree with the connections: a connection whose identity is     *)
(* known is reached by it, unless another one took the entry or had it     *)
(* removed; what a peer is known by in one map it is in the others, but    *)
(* for the moment between their updates; and an entry leads to a           *)
(* connection of that name the core has not detached.                      *)
MapsAgree ==
    /\ \A k \in cfg.conns :
          /\ conn[k].at = "identified" /\ k \notin shadowed => k \in Owners(fwd, cfg.id[k])
          /\ conn[k].at \in {"adding", "renaming"} \/ conn[k].name \in {None, conn[k].shared}
    /\ \A d \in Names : fwd[d] # None =>
          \E k \in cfg.conns : /\ Attached(k) \/ conn[k].at = "gone"
                               /\ UriOf[k] = fwd[d].uri
                               /\ d \in {k, cfg.id[k]}
=============================================================================
