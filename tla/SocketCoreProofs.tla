--------------------------- MODULE SocketCoreProofs ---------------------------
(***************************************************************************)
(* Proofs about SocketCore for every set of listeners, sessions and inproc *)
(* connections, every assignment of URIs, every bus capacity and every     *)
(* LINGER.                                                                 *)
(***************************************************************************)
EXTENDS SocketCore, TLAPS

(* An event of a kind that is published at most once per subject.          *)
AtMostOnce(t, x) ==
    \A i, j \in 1..Len(bus) : bus[i] = Event(t, x) /\ bus[j] = Event(t, x) => i = j

(* A connection is announced once, is in none of the core's tables before  *)
(* its announcement is read, and belongs to a session that was spawned.    *)
AnnouncedOnce ==
    /\ \A s \in Sessions :
          /\ AtMostOnce("NewConnectionEstablished", s)
          /\ s \in announced => actor[s] # "none"
          /\ Unread("NewConnectionEstablished", s) => s \in announced
          /\ (s \notin announced \/ Unread("NewConnectionEstablished", s))
                => s \notin endpoints \cup pipes_tx \cup overwritten
    /\ \A i \in Inprocs :
          /\ AtMostOnce("InprocBindingRequest", i)
          /\ Unread("InprocBindingRequest", i) => i \in announced
          /\ (i \notin announced \/ Unread("InprocBindingRequest", i))
                => i \notin endpoints \cup pipes_tx \cup overwritten

(* What the shutdown still has to undo is on the coordinator's lists.      *)
ListsCoverEndpoints ==
    /\ phase = "StoppingChildren" => endpoints \cap Actors \subseteq Pending
    /\ phase \in {"Lingering", "CleaningPipes"} => endpoints \cap Actors = {}
    /\ phase # "Running" => endpoints \cap Inprocs \subseteq inproc_connections_to_cleanup

LiveUntilFinished == phase # "Finished" => live

IndInv ==
    /\ TypeOK
    /\ LiveUntilFinished
    /\ PendingWillReport
    /\ EndpointsHaveActors
    /\ AnnouncedOnce
    /\ ListsCoverEndpoints
    /\ PipesFollowEndpoints

-----------------------------------------------------------------------------
(* Sequences: what Append and Tail do to the elements.                     *)
LEMMA AppendFacts ==
    ASSUME NEW S, NEW q \in Seq(S), NEW e \in S
    PROVE  /\ Append(q, e) \in Seq(S)
           /\ Len(Append(q, e)) = Len(q) + 1
           /\ \A i \in 1..Len(q) : Append(q, e)[i] = q[i]
           /\ Append(q, e)[Len(q) + 1] = e
  OBVIOUS

(* Tail shifts the elements down by one.                                  *)
LEMMA TailFacts ==
    ASSUME NEW S, NEW q \in Seq(S), q # <<>>
    PROVE  /\ Tail(q) \in Seq(S)
           /\ Len(q) \in Nat /\ Len(q) > 0
           /\ Len(Tail(q)) = Len(q) - 1
           /\ \A i \in 1..Len(q) - 1 : Tail(q)[i] = q[i + 1]
           /\ Head(q) = q[1] /\ q[1] \in S
  OBVIOUS

(* Publishing adds the event; if the bus was full, its oldest event goes,  *)
(* and the subject of an ActorStopping that goes is recorded as lost.      *)
LEMMA PublishFacts ==
    ASSUME TypeOK, NEW t, NEW x, Event(t, x) \in Events, publish(t, x)
    PROVE  /\ bus' \in Seq(Events) /\ Len(bus') <= BusCap
           /\ lagged' \in BOOLEAN
           /\ lost \subseteq lost' /\ lost' \subseteq Actors
           /\ live => Unread(t, x)'
           /\ \A a : Unread("ActorStopping", a) => Unread("ActorStopping", a)' \/ a \in lost'
           /\ \A u, y : Unread(u, y)' => Unread(u, y) \/ Event(u, y) = Event(t, x)
           /\ \A u, y : AtMostOnce(u, y) /\ (Event(u, y) = Event(t, x) => ~Unread(u, y))
                          => AtMostOnce(u, y)'
<1>0. bus \in Seq(Events) /\ Len(bus) \in Nat /\ Len(bus) <= BusCap
  BY DEF TypeOK
<1> DEFINE e == Event(t, x)
<1>1. CASE ~live
  BY <1>1 DEF publish, busVars, TypeOK, Unread, AtMostOnce
<1>2. CASE live /\ Len(bus) < BusCap
  <2>1. bus' = Append(bus, e) /\ lagged' = lagged /\ lost' = lost
    BY <1>2 DEF publish
  <2>2. /\ bus' \in Seq(Events)
        /\ Len(bus') = Len(bus) + 1
        /\ \A i \in 1..Len(bus) : bus'[i] = bus[i]
        /\ bus'[Len(bus) + 1] = e
    BY <2>1, <1>0, AppendFacts
  <2>3. Unread(t, x)'
    BY <2>2, <1>0 DEF Unread
  <2>4. \A a : Unread("ActorStopping", a) => Unread("ActorStopping", a)'
    BY <2>2, <1>0 DEF Unread
  <2>5. \A u, y : Unread(u, y)' => Unread(u, y) \/ Event(u, y) = e
    BY <2>2, <1>0 DEF Unread
  <2>6. \A u, y : AtMostOnce(u, y) /\ (Event(u, y) = e => ~Unread(u, y)) => AtMostOnce(u, y)'
    BY <2>2, <1>0 DEF Unread, AtMostOnce
  <2> QED BY <2>1, <2>2, <2>3, <2>4, <2>5, <2>6, <1>2, <1>0, ConstantsAssumption DEF TypeOK
<1>3. CASE live /\ Len(bus) = BusCap
  <2>0. bus # <<>>
    BY <1>3, <1>0, ConstantsAssumption
  <2>1. /\ bus' = Append(Tail(bus), e)
        /\ lagged' = TRUE
        /\ lost' = IF Head(bus).type = "ActorStopping" THEN lost \cup {Head(bus).id} ELSE lost
    BY <1>3, <1>0, ConstantsAssumption DEF publish
  <2>2. /\ Tail(bus) \in Seq(Events)
        /\ Len(bus) > 0
        /\ Len(Tail(bus)) = Len(bus) - 1
        /\ \A i \in 1..Len(bus) - 1 : Tail(bus)[i] = bus[i + 1]
        /\ Head(bus) = bus[1] /\ bus[1] \in Events
    BY <2>0, <1>0, TailFacts
  <2>3. /\ bus' \in Seq(Events)
        /\ Len(bus') = Len(bus)
        /\ \A i \in 1..Len(bus) - 1 : bus'[i] = bus[i + 1]
        /\ bus'[Len(bus)] = e
    <3> DEFINE q == Tail(bus)
    <3>1. /\ Append(q, e) \in Seq(Events)
          /\ Len(Append(q, e)) = Len(q) + 1
          /\ \A i \in 1..Len(q) : Append(q, e)[i] = q[i]
          /\ Append(q, e)[Len(q) + 1] = e
      BY <2>2, AppendFacts
    <3> QED BY <3>1, <2>1, <2>2, <1>0
  <2>4. Unread(t, x)'
    BY <2>3, <2>2, <1>0 DEF Unread
  <2>5. ASSUME NEW a, Unread("ActorStopping", a)
        PROVE  Unread("ActorStopping", a)' \/ a \in lost'
    <3>1. PICK i \in 1..Len(bus) : bus[i] = Event("ActorStopping", a)
      BY <2>5 DEF Unread
    <3>2. CASE i = 1
      <4>1. Head(bus).type = "ActorStopping" /\ Head(bus).id = a
        BY <3>1, <3>2, <2>2 DEF Event
      <4> QED BY <4>1, <2>1
    <3>3. CASE i # 1
      <4>1. i - 1 \in 1..Len(bus) - 1 /\ bus'[i - 1] = bus[i]
        BY <3>3, <2>3, <1>0
      <4> QED BY <4>1, <3>1, <2>3, <1>0 DEF Unread
    <3> QED BY <3>2, <3>3
  <2>6. ASSUME NEW u, NEW y, Unread(u, y)'
        PROVE  Unread(u, y) \/ Event(u, y) = e
    <3>1. PICK i \in 1..Len(bus') : bus'[i] = Event(u, y)
      BY <2>6 DEF Unread
    <3>2. CASE i = Len(bus)
      BY <3>1, <3>2, <2>3
    <3>3. CASE i # Len(bus)
      <4>1. i + 1 \in 1..Len(bus) /\ bus'[i] = bus[i + 1]
        BY <3>3, <2>3, <1>0
      <4> QED BY <4>1, <3>1 DEF Unread
    <3> QED BY <3>2, <3>3
  <2>7. ASSUME NEW u, NEW y, AtMostOnce(u, y), Event(u, y) = e => ~Unread(u, y)
        PROVE  AtMostOnce(u, y)'
    <3> SUFFICES ASSUME NEW i \in 1..Len(bus'), NEW j \in 1..Len(bus'),
                        bus'[i] = Event(u, y), bus'[j] = Event(u, y)
                 PROVE  i = j
      BY DEF AtMostOnce
    <3>1. CASE i = Len(bus) \/ j = Len(bus)
      <4>1. Event(u, y) = e
        BY <3>1, <2>3
      <4>2. \A k \in 1..Len(bus) : bus[k] # Event(u, y)
        BY <4>1, <2>7 DEF Unread
      <4> QED BY <4>2, <3>1, <2>3, <1>0
    <3>2. CASE i # Len(bus) /\ j # Len(bus)
      <4>1. /\ i + 1 \in 1..Len(bus) /\ bus'[i] = bus[i + 1]
            /\ j + 1 \in 1..Len(bus) /\ bus'[j] = bus[j + 1]
        BY <3>2, <2>3, <1>0
      <4>2. i + 1 = j + 1
        BY <4>1, <2>7 DEF AtMostOnce
      <4> QED BY <4>2, <1>0, <2>3
    <3> QED BY <3>1, <3>2
  <2>8. lost \subseteq lost' /\ lost' \subseteq Actors
    <3>1. Head(bus).type = "ActorStopping" => Head(bus).id \in Actors
      BY <2>2 DEF Events
    <3> QED BY <3>1, <2>1 DEF TypeOK
  <2> QED BY <2>1, <2>3, <2>4, <2>5, <2>6, <2>7, <2>8, <1>0
<1> QED BY <1>0, <1>1, <1>2, <1>3, ConstantsAssumption

(* Reading removes the oldest event and nothing else.                      *)
LEMMA PopFacts ==
    ASSUME TypeOK, bus # <<>>, bus' = Tail(bus)
    PROVE  /\ bus' \in Seq(Events) /\ Len(bus') <= BusCap
           /\ Head(bus) \in Events
           /\ \A u, y : Head(bus) = Event(u, y) => Unread(u, y)
           /\ \A u, y : Unread(u, y) => Unread(u, y)' \/ Head(bus) = Event(u, y)
           /\ \A u, y : Unread(u, y)' => Unread(u, y)
           /\ \A u, y : AtMostOnce(u, y) => AtMostOnce(u, y)'
           /\ \A u, y : AtMostOnce(u, y) /\ Head(bus) = Event(u, y) => ~Unread(u, y)'
<1>0. bus \in Seq(Events) /\ Len(bus) \in Nat /\ Len(bus) <= BusCap /\ BusCap \in Nat
  BY ConstantsAssumption DEF TypeOK
<1>1. /\ bus' \in Seq(Events)
      /\ Len(bus) > 0
      /\ Len(bus') = Len(bus) - 1
      /\ \A i \in 1..Len(bus) - 1 : bus'[i] = bus[i + 1]
      /\ Head(bus) = bus[1] /\ bus[1] \in Events
  BY <1>0, TailFacts
<1>2. ASSUME NEW u, NEW y, Unread(u, y)
      PROVE  Unread(u, y)' \/ Head(bus) = Event(u, y)
  <2>1. PICK i \in 1..Len(bus) : bus[i] = Event(u, y)
    BY <1>2 DEF Unread
  <2>2. CASE i # 1
    <3>1. i - 1 \in 1..Len(bus') /\ bus'[i - 1] = bus[i]
      BY <2>2, <1>1, <1>0
    <3> QED BY <3>1, <2>1 DEF Unread
  <2> QED BY <2>1, <2>2, <1>1
<1>3. ASSUME NEW u, NEW y, Unread(u, y)'
      PROVE  \E k \in 2..Len(bus) : bus[k] = Event(u, y)
  <2>1. PICK i \in 1..Len(bus') : bus'[i] = Event(u, y)
    BY <1>3 DEF Unread
  <2>2. i + 1 \in 2..Len(bus) /\ bus[i + 1] = Event(u, y)
    BY <2>1, <1>1, <1>0
  <2> QED BY <2>2
<1>4. ASSUME NEW u, NEW y, AtMostOnce(u, y)
      PROVE  AtMostOnce(u, y)'
  <2> SUFFICES ASSUME NEW i \in 1..Len(bus'), NEW j \in 1..Len(bus'),
                      bus'[i] = Event(u, y), bus'[j] = Event(u, y)
               PROVE  i = j
    BY DEF AtMostOnce
  <2>1. /\ i + 1 \in 1..Len(bus) /\ bus'[i] = bus[i + 1]
        /\ j + 1 \in 1..Len(bus) /\ bus'[j] = bus[j + 1]
    BY <1>1, <1>0
  <2>2. i + 1 = j + 1
    BY <2>1, <1>4 DEF AtMostOnce
  <2> QED BY <2>2, <1>0, <1>1
<1>5. ASSUME NEW u, NEW y, AtMostOnce(u, y), Head(bus) = Event(u, y), Unread(u, y)'
      PROVE  FALSE
  <2>1. PICK k \in 2..Len(bus) : bus[k] = Event(u, y)
    BY <1>3, <1>5
  <2>2. 1 \in 1..Len(bus) /\ bus[1] = Event(u, y)
    BY <1>1, <1>5, <1>0
  <2> QED BY <2>1, <2>2, <1>5, <1>0 DEF AtMostOnce
<1>6. \A u, y : Head(bus) = Event(u, y) => Unread(u, y)
  BY <1>1, <1>0 DEF Unread
<1>7. \A u, y : Unread(u, y)' => Unread(u, y)
  <2> SUFFICES ASSUME NEW u, NEW y, Unread(u, y)' PROVE Unread(u, y)
    OBVIOUS
  <2>1. PICK k \in 2..Len(bus) : bus[k] = Event(u, y)
    BY <1>3
  <2> QED BY <2>1, <1>0 DEF Unread
<1> QED BY <1>0, <1>1, <1>2, <1>4, <1>5, <1>6, <1>7

-----------------------------------------------------------------------------
(* What the invariant says of the core's tables and lists, apart from what *)
(* it says of the announcements.                                           *)
TablesInv ==
    /\ LiveUntilFinished
    /\ PendingWillReport
    /\ EndpointsHaveActors
    /\ ListsCoverEndpoints
    /\ PipesFollowEndpoints

(* The bus loses an ActorStopping only by recording it as lost.            *)
ReportsKept ==
    /\ lost \subseteq lost'
    /\ \A a : Unread("ActorStopping", a) => Unread("ActorStopping", a)' \/ a \in lost'

(* No announcement appears on the bus, none is doubled.                    *)
NothingAnnounced ==
    \A u \in {"NewConnectionEstablished", "InprocBindingRequest"}, y \in Conns :
        /\ Unread(u, y)' => Unread(u, y)
        /\ AtMostOnce(u, y) => AtMostOnce(u, y)'

(* A step that leaves the core alone keeps the tables in order, provided a *)
(* child that ends puts its report on the bus.                             *)
LEMMA FrameTables ==
    ASSUME IndInv,
           UNCHANGED <<coordinator, core_state, live, overwritten, deadOnArrival>>,
           told \subseteq told',
           ReportsKept,
           live => \A a \in Actors : actor[a] = "alive" =>
                       actor'[a] = "alive" \/ Unread("ActorStopping", a)'
    PROVE  TablesInv'
<1> USE DEF coordinator, core_state
<1>1. LiveUntilFinished'
  BY DEF IndInv, LiveUntilFinished
<1>2. EndpointsHaveActors'
  <2>1. CASE live
    BY <2>1 DEF IndInv, EndpointsHaveActors, ReportsKept
  <2>2. CASE ~live
    <3>1. endpoints = {}
      BY <2>2 DEF IndInv, LiveUntilFinished, PipesFollowEndpoints
    <3> QED BY <3>1 DEF EndpointsHaveActors
  <2> QED BY <2>1, <2>2
<1>3. PendingWillReport'
  <2> SUFFICES ASSUME phase = "StoppingChildren"
               PROVE  Pending # {} /\ \A a \in Pending \ (lost' \cup deadOnArrival) : WillReport(a)'
    BY DEF PendingWillReport, Pending
  <2>1. live /\ Pending # {} /\ Pending \subseteq Actors
    BY DEF IndInv, LiveUntilFinished, PendingWillReport, TypeOK, Pending, Actors
  <2> QED BY <2>1 DEF IndInv, PendingWillReport, WillReport, ReportsKept
<1>4. ListsCoverEndpoints'
  BY DEF IndInv, ListsCoverEndpoints, Pending
<1>5. PipesFollowEndpoints'
  BY DEF IndInv, PipesFollowEndpoints
<1> QED BY <1>1, <1>2, <1>3, <1>4, <1>5 DEF TablesInv

(* A step that announces nothing and attaches nothing keeps AnnouncedOnce. *)
LEMMA FrameAnnounced ==
    ASSUME IndInv, NothingAnnounced,
           announced' = announced,
           endpoints' \cap Conns \subseteq endpoints, pipes_tx' \subseteq pipes_tx,
           overwritten' = overwritten,
           \A s \in Sessions : actor[s] # "none" => actor'[s] # "none"
    PROVE  AnnouncedOnce'
  BY DEF IndInv, AnnouncedOnce, NothingAnnounced, Conns

(* The same bus.                                                           *)
LEMMA BusUnchanged ==
    ASSUME UNCHANGED <<bus, lost>>
    PROVE  ReportsKept /\ NothingAnnounced
  BY DEF ReportsKept, NothingAnnounced, Unread, AtMostOnce

(* Another kind of event added to the bus.                                 *)
LEMMA PublishOther ==
    ASSUME TypeOK, NEW t, NEW x, Event(t, x) \in Events, publish(t, x),
           t \notin {"NewConnectionEstablished", "InprocBindingRequest"}
    PROVE  ReportsKept /\ NothingAnnounced
<1>1. \A u, y : u # t => Event(u, y) # Event(t, x)
  BY DEF Event
<1> QED BY <1>1, PublishFacts DEF ReportsKept, NothingAnnounced

(* The shutdown takes every child that is registered onto its lists, and   *)
(* every one of them will report.                                          *)
LEMMA InitiateTables ==
    ASSUME IndInv,
           NEW T \in SUBSET Actors, told \subseteq T, initiate_core_shutdown(T),
           UNCHANGED <<core_state, actor, live, overwritten, deadOnArrival>>,
           ReportsKept
    PROVE  /\ TablesInv'
           /\ phase' \in Phases /\ expired' \in BOOLEAN /\ told' \subseteq Actors
           /\ pending_child_actors' \subseteq Listeners
           /\ pending_connections_to_close' \subseteq Sessions
           /\ inproc_connections_to_cleanup' \subseteq Inprocs
<1>1. CASE phase # "Running"
  <2>1. UNCHANGED coordinator /\ told' = T
    BY <1>1 DEF initiate_core_shutdown
  <2>2. TablesInv'
    BY <2>1, FrameTables DEF core_state
  <2> QED BY <2>1, <2>2 DEF IndInv, TypeOK, coordinator
<1>2. CASE phase = "Running"
  <2>1. /\ pending_child_actors' = endpoints \cap Listeners
        /\ pending_connections_to_close' = endpoints \cap Sessions
        /\ inproc_connections_to_cleanup' = endpoints \cap Inprocs
        /\ told' = T \cup (endpoints \cap Actors)
        /\ endpoints \cap Actors = {} =>
              /\ phase' \in {"CleaningPipes", "Lingering"}
              /\ expired' = (Linger = "zero")
        /\ endpoints \cap Actors # {} => phase' = "StoppingChildren" /\ expired' = expired
    BY <1>2 DEF initiate_core_shutdown, begin_shutdown_sequence, stop_children, start_linger
  <2>2. Pending' = endpoints \cap Actors
    BY <2>1 DEF Pending, Actors
  <2>3. live /\ phase' \in {"CleaningPipes", "Lingering", "StoppingChildren"}
    BY <1>2, <2>1 DEF IndInv, LiveUntilFinished
  <2>4. EndpointsHaveActors'
    BY DEF IndInv, EndpointsHaveActors, ReportsKept, core_state
  <2>5. PendingWillReport'
    <3> SUFFICES ASSUME phase' = "StoppingChildren"
                 PROVE  /\ Pending' # {}
                        /\ \A a \in Pending' \ (lost' \cup deadOnArrival') : WillReport(a)'
      BY DEF PendingWillReport
    <3>1. endpoints \cap Actors # {}
      BY <2>1
    <3>2. \A a \in Pending' \ (lost' \cup deadOnArrival') : WillReport(a)'
      BY <2>1, <2>2, <2>4 DEF EndpointsHaveActors, WillReport, core_state
    <3> QED BY <3>1, <3>2, <2>2
  <2>6. ListsCoverEndpoints'
    BY <2>1, <2>2, <2>3 DEF ListsCoverEndpoints, core_state
  <2>7. PipesFollowEndpoints'
    BY <1>2, <2>3 DEF IndInv, PipesFollowEndpoints, core_state
  <2>8. LiveUntilFinished'
    BY <2>3 DEF LiveUntilFinished
  <2> QED BY <2>1, <2>3, <2>4, <2>5, <2>6, <2>7, <2>8 DEF TablesInv, Phases, IndInv, TypeOK
<1> QED BY <1>1, <1>2

(* Initially the tables, the lists and the bus are empty.                  *)
LEMMA InitIndInv == Init => IndInv
<1> SUFFICES ASSUME Init PROVE IndInv
  OBVIOUS
<1>1. TypeOK
  <2>1. bus \in Seq(Events) /\ Len(bus) <= BusCap
    BY ConstantsAssumption DEF Init
  <2>2. outq \in [Conns -> 0..SndHwm]
    BY ConstantsAssumption DEF Init
  <2> QED BY <2>1, <2>2 DEF Init, TypeOK, Phases, ActorStates
<1>2. \A t, x : ~Unread(t, x) /\ AtMostOnce(t, x)
  BY DEF Init, Unread, AtMostOnce
<1>3. AnnouncedOnce
  BY <1>2 DEF Init, AnnouncedOnce
<1> QED BY <1>1, <1>3 DEF Init, IndInv, LiveUntilFinished, PendingWillReport,
           EndpointsHaveActors, ListsCoverEndpoints, PipesFollowEndpoints

-----------------------------------------------------------------------------
(* The frames of the steps, written out once.                              *)
USE DEF coordinator, core_state, children, history

(* The steps of the children, of the setup tasks and of the users of the   *)
(* socket that do not go through the core keep the invariant.              *)
LEMMA SessionSteps ==
    ASSUME IndInv, NEW s \in Sessions,
           \/ spawn_session(s) \/ session_fails(s) \/ session_stops(s)
           \/ session_ends(s) \/ session_writes(s)
    PROVE  IndInv'
<1>0. TypeOK /\ s \in Actors /\ s \in Conns /\ Event("ActorStopping", s) \in Events
  BY DEF IndInv, Actors, Conns, Events, Event
<1>1. CASE spawn_session(s)
  <2>1. ReportsKept /\ NothingAnnounced
    BY <1>1, BusUnchanged DEF spawn_session, busVars
  <2>2. TypeOK'
    BY <1>1, <1>0 DEF spawn_session, busVars, TypeOK, ActorStates
  <2>3. TablesInv'
    BY <1>1, <1>0, <2>1, FrameTables DEF spawn_session, TypeOK
  <2>4. AnnouncedOnce'
    BY <1>1, <1>0, <2>1, FrameAnnounced DEF spawn_session, TypeOK, Actors
  <2> QED BY <2>2, <2>3, <2>4 DEF IndInv, TablesInv
<1>2. CASE session_fails(s) \/ session_stops(s)
  <2>1. /\ actor[s] = "alive" /\ actor' = [actor EXCEPT ![s] = "penalty"]
        /\ publish("ActorStopping", s)
        /\ unsent' \subseteq unsent \cup {s}
        /\ UNCHANGED <<coordinator, core_state, live, announced, terminating, told, outq,
                       overwritten, deadOnArrival>>
    BY <1>2 DEF session_fails, session_stops
  <2>2. ReportsKept /\ NothingAnnounced
    BY <2>1, <1>0, PublishOther
  <2>3. /\ bus' \in Seq(Events) /\ Len(bus') <= BusCap /\ lagged' \in BOOLEAN
        /\ lost' \subseteq Actors
        /\ live => Unread("ActorStopping", s)'
    BY <2>1, <1>0, PublishFacts
  <2>4. TypeOK'
    BY <2>1, <2>3, <1>0 DEF TypeOK, ActorStates
  <2>5. TablesInv'
    BY <2>1, <2>2, <2>3, <1>0, FrameTables DEF TypeOK
  <2>6. AnnouncedOnce'
    BY <2>1, <2>2, <1>0, FrameAnnounced DEF TypeOK, Actors
  <2> QED BY <2>4, <2>5, <2>6 DEF IndInv, TablesInv
<1>3. CASE session_ends(s)
  <2>1. ReportsKept /\ NothingAnnounced
    BY <1>3, BusUnchanged DEF session_ends, busVars
  <2>2. TypeOK'
    BY <1>3, <1>0 DEF session_ends, busVars, TypeOK, ActorStates
  <2>3. TablesInv'
    BY <1>3, <1>0, <2>1, FrameTables DEF session_ends, TypeOK
  <2>4. AnnouncedOnce'
    BY <1>3, <1>0, <2>1, FrameAnnounced DEF session_ends, TypeOK, Actors
  <2> QED BY <2>2, <2>3, <2>4 DEF IndInv, TablesInv
<1>4. CASE session_writes(s)
  <2>1. ReportsKept /\ NothingAnnounced
    BY <1>4, BusUnchanged DEF session_writes, busVars
  <2>2. TypeOK'
    BY <1>4, <1>0, ConstantsAssumption DEF session_writes, busVars, TypeOK
  <2>3. TablesInv'
    BY <1>4, <2>1, FrameTables DEF session_writes
  <2>4. AnnouncedOnce'
    BY <1>4, <2>1, FrameAnnounced DEF session_writes
  <2> QED BY <2>2, <2>3, <2>4 DEF IndInv, TablesInv
<1> QED BY <1>1, <1>2, <1>3, <1>4

(* The announcement of a session and the request of an inproc connector    *)
(* are the steps that put a new connection on the bus.                     *)
LEMMA AnnouncingSteps ==
    ASSUME IndInv, NEW c \in Conns, NEW t, c \notin announced,
           \/ t = "NewConnectionEstablished" /\ c \in Sessions /\ actor[c] # "none"
           \/ t = "InprocBindingRequest" /\ c \in Inprocs,
           announced' = announced \cup {c},
           publish(t, c),
           UNCHANGED <<coordinator, core_state, live, actor, terminating, told, outq, history>>
    PROVE  IndInv'
<1>0. TypeOK /\ Event(t, c) \in Events
  BY DEF IndInv, Events, Event
<1>1. /\ bus' \in Seq(Events) /\ Len(bus') <= BusCap /\ lagged' \in BOOLEAN
      /\ lost' \subseteq Actors
      /\ ReportsKept
      /\ \A u, y : Unread(u, y)' => Unread(u, y) \/ Event(u, y) = Event(t, c)
      /\ \A u, y : AtMostOnce(u, y) /\ (Event(u, y) = Event(t, c) => ~Unread(u, y))
                     => AtMostOnce(u, y)'
  BY <1>0, PublishFacts DEF ReportsKept
<1>2. TypeOK'
  BY <1>0, <1>1 DEF TypeOK
<1>3. TablesInv'
  BY <1>1, FrameTables
<1>4. AnnouncedOnce'
  <2>1. \A u, y : Event(u, y) = Event(t, c) => u = t /\ y = c
    BY DEF Event
  <2>2. \A u, y : Unread(u, y)' => Unread(u, y) \/ (u = t /\ y = c)
    BY <2>1, <1>1
  <2>3. \A u, y : AtMostOnce(u, y) /\ (u = t /\ y = c => ~Unread(u, y)) => AtMostOnce(u, y)'
    BY <2>1, <1>1
  <2>4. ASSUME NEW s \in Sessions
        PROVE  /\ AtMostOnce("NewConnectionEstablished", s)'
               /\ s \in announced' => actor'[s] # "none"
               /\ Unread("NewConnectionEstablished", s)' => s \in announced'
               /\ (s \notin announced' \/ Unread("NewConnectionEstablished", s)')
                     => s \notin endpoints' \cup pipes_tx' \cup overwritten'
    BY <2>2, <2>3, ConstantsAssumption DEF IndInv, AnnouncedOnce
  <2>5. ASSUME NEW i \in Inprocs
        PROVE  /\ AtMostOnce("InprocBindingRequest", i)'
               /\ Unread("InprocBindingRequest", i)' => i \in announced'
               /\ (i \notin announced' \/ Unread("InprocBindingRequest", i)')
                     => i \notin endpoints' \cup pipes_tx' \cup overwritten'
    BY <2>2, <2>3, ConstantsAssumption DEF IndInv, AnnouncedOnce
  <2> QED BY <2>4, <2>5 DEF AnnouncedOnce
<1> QED BY <1>2, <1>3, <1>4 DEF IndInv, TablesInv

(* The listeners, the context, the inproc peers and the user's orders.     *)
LEMMA OtherSteps ==
    ASSUME IndInv,
           \/ \E l \in Listeners : listener_stops(l)
           \/ \E a \in Actors : handle_user_unbind_or_disconnect(a)
           \/ context_shutdown \/ other_event
           \/ \E i \in Inprocs : inproc_disconnects(i) \/ inproc_reads(i)
           \/ \E c \in Conns : send(c)
    PROVE  IndInv'
<1>0. TypeOK
  BY DEF IndInv
<1>1. ASSUME NEW l \in Listeners, listener_stops(l) PROVE IndInv'
  <2>0. l \in Actors /\ l \notin Sessions /\ Event("ActorStopping", l) \in Events
    BY ConstantsAssumption DEF Actors, Conns, Events, Event
  <2>1. ReportsKept /\ NothingAnnounced
    BY <1>1, <2>0, <1>0, PublishOther DEF listener_stops
  <2>2. /\ bus' \in Seq(Events) /\ Len(bus') <= BusCap /\ lagged' \in BOOLEAN
        /\ lost' \subseteq Actors
        /\ live => Unread("ActorStopping", l)'
    BY <1>1, <2>0, <1>0, PublishFacts DEF listener_stops
  <2>3. TypeOK'
    BY <1>1, <2>0, <2>2, <1>0 DEF listener_stops, TypeOK, ActorStates
  <2>4. TablesInv'
    BY <1>1, <2>0, <2>1, <2>2, <1>0, FrameTables DEF listener_stops, TypeOK
  <2>5. AnnouncedOnce'
    BY <1>1, <2>0, <2>1, <1>0, FrameAnnounced DEF listener_stops, TypeOK, Actors
  <2> QED BY <2>3, <2>4, <2>5 DEF IndInv, TablesInv
<1>2. ASSUME NEW a \in Actors, handle_user_unbind_or_disconnect(a) PROVE IndInv'
  <2>1. ReportsKept /\ NothingAnnounced
    BY <1>2, BusUnchanged DEF handle_user_unbind_or_disconnect, busVars
  <2>2. TypeOK'
    BY <1>2, <1>0 DEF handle_user_unbind_or_disconnect, busVars, TypeOK
  <2>3. TablesInv'
    BY <1>2, <2>1, FrameTables DEF handle_user_unbind_or_disconnect
  <2>4. AnnouncedOnce'
    BY <1>2, <2>1, FrameAnnounced DEF handle_user_unbind_or_disconnect
  <2> QED BY <2>2, <2>3, <2>4 DEF IndInv, TablesInv
<1>3. ASSUME context_shutdown PROVE IndInv'
  <2>0. Event("ContextTerminating", None) \in Events
    BY DEF Events, Event
  <2>1. ReportsKept /\ NothingAnnounced
    BY <1>3, <2>0, <1>0, PublishOther DEF context_shutdown
  <2>2. /\ bus' \in Seq(Events) /\ Len(bus') <= BusCap /\ lagged' \in BOOLEAN
        /\ lost' \subseteq Actors
    BY <1>3, <2>0, <1>0, PublishFacts DEF context_shutdown
  <2>3. TypeOK'
    BY <1>3, <2>2, <1>0 DEF context_shutdown, TypeOK, Subscribed
  <2>4. TablesInv'
    BY <1>3, <2>1, FrameTables DEF context_shutdown
  <2>5. AnnouncedOnce'
    BY <1>3, <2>1, FrameAnnounced DEF context_shutdown
  <2> QED BY <2>3, <2>4, <2>5 DEF IndInv, TablesInv
<1>4. ASSUME NEW i \in Inprocs, inproc_disconnects(i) PROVE IndInv'
  <2>0. Event("InprocPipePeerClosed", i) \in Events
    BY DEF Events, Event
  <2>1. ReportsKept /\ NothingAnnounced
    BY <1>4, <2>0, <1>0, PublishOther DEF inproc_disconnects
  <2>2. /\ bus' \in Seq(Events) /\ Len(bus') <= BusCap /\ lagged' \in BOOLEAN
        /\ lost' \subseteq Actors
    BY <1>4, <2>0, <1>0, PublishFacts DEF inproc_disconnects
  <2>3. TypeOK'
    BY <1>4, <2>2, <1>0 DEF inproc_disconnects, TypeOK
  <2>4. TablesInv'
    BY <1>4, <2>1, FrameTables DEF inproc_disconnects
  <2>5. AnnouncedOnce'
    BY <1>4, <2>1, FrameAnnounced DEF inproc_disconnects
  <2> QED BY <2>3, <2>4, <2>5 DEF IndInv, TablesInv
<1>5. ASSUME NEW c \in Conns,
             outq' \in [Conns -> 0..SndHwm],
             UNCHANGED <<coordinator, core_state, busVars, live, children, told, history>>
      PROVE IndInv'
  <2>1. ReportsKept /\ NothingAnnounced
    BY <1>5, BusUnchanged DEF busVars
  <2>2. TypeOK'
    BY <1>5, <1>0 DEF busVars, TypeOK
  <2>3. TablesInv'
    BY <1>5, <2>1, FrameTables
  <2>4. AnnouncedOnce'
    BY <1>5, <2>1, FrameAnnounced
  <2> QED BY <2>2, <2>3, <2>4 DEF IndInv, TablesInv
<1>6. ASSUME NEW i \in Inprocs, inproc_reads(i) PROVE IndInv'
  <2>1. outq' \in [Conns -> 0..SndHwm]
    BY <1>6, <1>0, ConstantsAssumption DEF inproc_reads, TypeOK, Conns
  <2> QED BY <2>1, <1>5, <1>6 DEF inproc_reads, Conns
<1>7. ASSUME NEW c \in Conns, send(c) PROVE IndInv'
  <2>1. outq' \in [Conns -> 0..SndHwm]
    BY <1>7, <1>0, ConstantsAssumption DEF send, TypeOK
  <2> QED BY <2>1, <1>5, <1>7 DEF send
<1>8. ASSUME other_event PROVE IndInv'
  <2>0. Event("ActorStarted", None) \in Events
    BY DEF Events, Event
  <2>1. ReportsKept /\ NothingAnnounced
    BY <1>8, <2>0, <1>0, PublishOther DEF other_event
  <2>2. /\ bus' \in Seq(Events) /\ Len(bus') <= BusCap /\ lagged' \in BOOLEAN
        /\ lost' \subseteq Actors
    BY <1>8, <2>0, <1>0, PublishFacts DEF other_event
  <2>3. TypeOK'
    BY <1>8, <2>2, <1>0 DEF other_event, TypeOK
  <2>4. TablesInv'
    BY <1>8, <2>1, FrameTables DEF other_event
  <2>5. AnnouncedOnce'
    BY <1>8, <2>1, FrameAnnounced DEF other_event
  <2> QED BY <2>3, <2>4, <2>5 DEF IndInv, TablesInv
<1> QED BY <1>1, <1>2, <1>3, <1>4, <1>6, <1>7, <1>8

-----------------------------------------------------------------------------
(* The steps of the core that read no event.                               *)
LEMMA CommandSteps ==
    ASSUME IndInv,
           \/ \E l \in Listeners : handle_user_bind(l) \/ reaper(l)
           \/ user_close \/ recv_lagged
    PROVE  IndInv'
<1>0. TypeOK
  BY DEF IndInv
<1>1. ASSUME NEW l \in Listeners, handle_user_bind(l) PROVE IndInv'
  <2>0. l \in Actors /\ l \notin Conns /\ l \notin Sessions
    BY ConstantsAssumption DEF Actors, Conns
  <2>1. ReportsKept /\ NothingAnnounced
    BY <1>1, BusUnchanged DEF handle_user_bind, busVars
  <2>2. TypeOK'
    BY <1>1, <1>0, <2>0 DEF handle_user_bind, busVars, TypeOK, ActorStates
  <2>3. AnnouncedOnce'
    BY <1>1, <2>0, <2>1, <1>0, FrameAnnounced DEF handle_user_bind, TypeOK, Actors
  <2>4. EndpointsHaveActors'
    BY <1>1, <2>0, <2>1, <1>0
    DEF handle_user_bind, IndInv, EndpointsHaveActors, ReportsKept, TypeOK
  <2>5. (LiveUntilFinished /\ PendingWillReport /\ ListsCoverEndpoints)'
    BY <1>1
    DEF handle_user_bind, AtSelect, LiveUntilFinished, PendingWillReport, ListsCoverEndpoints
  <2>6. PipesFollowEndpoints'
    BY <1>1, <2>0 DEF handle_user_bind, IndInv, PipesFollowEndpoints
  <2> QED BY <2>2, <2>3, <2>4, <2>5, <2>6 DEF IndInv
<1>2. ASSUME NEW l \in Listeners, reaper(l) PROVE IndInv'
  <2>0. l \in Actors /\ l \notin Conns
    BY ConstantsAssumption DEF Actors, Conns
  <2>1. ReportsKept /\ NothingAnnounced
    BY <1>2, BusUnchanged DEF reaper, busVars
  <2>2. endpoints' = endpoints \ {l} /\ pipes_tx' = pipes_tx /\ attached' = attached
    BY <1>2, <2>0, <1>0 DEF reaper, cleanup_stopped_child_resources, TypeOK
  <2>3. TypeOK'
    BY <1>2, <2>2, <1>0 DEF reaper, busVars, TypeOK
  <2>4. AnnouncedOnce'
    BY <1>2, <2>1, <2>2, FrameAnnounced DEF reaper
  <2>5. (LiveUntilFinished /\ EndpointsHaveActors)'
    BY <1>2, <2>1, <2>2
    DEF reaper, busVars, IndInv, LiveUntilFinished, EndpointsHaveActors, ReportsKept
  <2>6. PendingWillReport'
    BY <1>2, <2>1
    DEF reaper, busVars, IndInv, PendingWillReport, WillReport, Pending, ReportsKept
  <2>7. (ListsCoverEndpoints /\ PipesFollowEndpoints)'
    BY <1>2, <2>0, <2>2
    DEF reaper, IndInv, ListsCoverEndpoints, PipesFollowEndpoints, Pending
  <2> QED BY <2>3, <2>4, <2>5, <2>6, <2>7 DEF IndInv
<1>3. ASSUME user_close PROVE IndInv'
  <2> DEFINE T == IF phase = "Running" THEN told \cup Subscribed ELSE told
  <2>0. Event("SocketClosing", None) \in Events /\ T \in SUBSET Actors /\ told \subseteq T
    BY <1>0 DEF Events, Event, TypeOK, Subscribed
  <2>1. initiate_core_shutdown(T)
    BY <1>3 DEF user_close
  <2>2. /\ bus' \in Seq(Events) /\ Len(bus') <= BusCap /\ lagged' \in BOOLEAN
        /\ lost' \subseteq Actors
        /\ ReportsKept /\ NothingAnnounced
    <3>1. CASE phase = "Running"
      BY <1>3, <3>1, <2>0, <1>0, PublishFacts, PublishOther DEF user_close
    <3>2. CASE phase # "Running"
      BY <1>3, <3>2, <1>0, BusUnchanged DEF user_close, busVars, TypeOK
    <3> QED BY <3>1, <3>2
  <2> HIDE DEF T
  <2>3. /\ TablesInv'
        /\ phase' \in Phases /\ expired' \in BOOLEAN /\ told' \subseteq Actors
        /\ pending_child_actors' \subseteq Listeners
        /\ pending_connections_to_close' \subseteq Sessions
        /\ inproc_connections_to_cleanup' \subseteq Inprocs
    BY <1>3, <2>0, <2>1, <2>2, InitiateTables DEF user_close
  <2>4. TypeOK'
    BY <1>3, <1>0, <2>2, <2>3 DEF user_close, TypeOK
  <2>5. AnnouncedOnce'
    BY <1>3, <2>2, FrameAnnounced DEF user_close
  <2> QED BY <2>3, <2>4, <2>5 DEF IndInv, TablesInv
<1>4. ASSUME recv_lagged PROVE IndInv'
  <2>0. told \in SUBSET Actors
    BY <1>0 DEF TypeOK
  <2>1. ReportsKept /\ NothingAnnounced
    BY <1>4, BusUnchanged DEF recv_lagged
  <2>2. /\ TablesInv'
        /\ phase' \in Phases /\ expired' \in BOOLEAN /\ told' \subseteq Actors
        /\ pending_child_actors' \subseteq Listeners
        /\ pending_connections_to_close' \subseteq Sessions
        /\ inproc_connections_to_cleanup' \subseteq Inprocs
    BY <1>4, <2>0, <2>1, InitiateTables DEF recv_lagged
  <2>3. TypeOK'
    BY <1>4, <1>0, <2>2 DEF recv_lagged, TypeOK
  <2>4. AnnouncedOnce'
    BY <1>4, <2>1, FrameAnnounced DEF recv_lagged
  <2> QED BY <2>2, <2>3, <2>4 DEF IndInv, TablesInv
<1> QED BY <1>1, <1>2, <1>3, <1>4

(* The end of the linger, the final cleanup and the end of the loop.       *)
LEMMA FinalSteps ==
    ASSUME IndInv,
           \/ check_and_advance_linger \/ linger_deadline_passes
           \/ perform_final_pipe_cleanup \/ exit_loop
    PROVE  IndInv'
<1>0. TypeOK
  BY DEF IndInv
<1>1. CASE check_and_advance_linger \/ linger_deadline_passes
  <2>0. /\ phase = "Lingering" /\ phase' \in {"Lingering", "CleaningPipes"}
        /\ expired' \in BOOLEAN
        /\ UNCHANGED <<pending_child_actors, pending_connections_to_close,
                       inproc_connections_to_cleanup, core_state, busVars, live,
                       children, told, outq, history>>
    BY <1>1, <1>0 DEF check_and_advance_linger, linger_deadline_passes, TypeOK
  <2>1. ReportsKept /\ NothingAnnounced
    BY <2>0, BusUnchanged DEF busVars
  <2>2. TypeOK'
    BY <2>0, <1>0 DEF busVars, TypeOK, Phases
  <2>3. AnnouncedOnce'
    BY <2>0, <2>1, FrameAnnounced
  <2>4. (LiveUntilFinished /\ PendingWillReport /\ EndpointsHaveActors)'
    BY <2>0, <2>1
    DEF IndInv, LiveUntilFinished, PendingWillReport, EndpointsHaveActors, ReportsKept
  <2>5. (ListsCoverEndpoints /\ PipesFollowEndpoints)'
    BY <2>0 DEF IndInv, ListsCoverEndpoints, PipesFollowEndpoints
  <2> QED BY <2>2, <2>3, <2>4, <2>5 DEF IndInv
<1>2. CASE perform_final_pipe_cleanup
  <2>1. ReportsKept /\ NothingAnnounced
    BY <1>2, BusUnchanged DEF perform_final_pipe_cleanup, busVars
  <2>2. TypeOK'
    BY <1>2, <1>0 DEF perform_final_pipe_cleanup, busVars, TypeOK, Phases, Actors
  <2>3. AnnouncedOnce'
    BY <1>2, <2>1, FrameAnnounced DEF perform_final_pipe_cleanup
  <2>4. (LiveUntilFinished /\ PendingWillReport /\ EndpointsHaveActors /\ ListsCoverEndpoints)'
    BY <1>2 DEF perform_final_pipe_cleanup, LiveUntilFinished, PendingWillReport,
                EndpointsHaveActors, ListsCoverEndpoints
  <2>5. PipesFollowEndpoints'
    <3>1. attached \subseteq overwritten \cup inproc_connections_to_cleanup
      BY <1>2, <1>0 DEF perform_final_pipe_cleanup, IndInv, PipesFollowEndpoints,
                        ListsCoverEndpoints, TypeOK, Conns, Actors
    <3> QED BY <3>1, <1>2 DEF perform_final_pipe_cleanup, PipesFollowEndpoints
  <2> QED BY <2>2, <2>3, <2>4, <2>5 DEF IndInv
<1>3. CASE exit_loop
  <2>0. bus' = <<>> /\ bus' \in Seq(Events) /\ Len(bus') = 0 /\ Len(bus') <= BusCap
    BY <1>3, ConstantsAssumption DEF exit_loop
  <2>1. NothingAnnounced
    BY <2>0 DEF NothingAnnounced, Unread, AtMostOnce
  <2>2. TypeOK'
    BY <1>3, <1>0, <2>0 DEF exit_loop, TypeOK
  <2>3. AnnouncedOnce'
    BY <1>3, <2>1, FrameAnnounced DEF exit_loop
  <2>4. endpoints' = {} /\ phase' = "Finished"
    BY <1>3 DEF exit_loop, IndInv, PipesFollowEndpoints
  <2>5. TablesInv'
    BY <1>3, <2>4 DEF exit_loop, TablesInv, IndInv, LiveUntilFinished, PendingWillReport,
                      EndpointsHaveActors, ListsCoverEndpoints, PipesFollowEndpoints
  <2> QED BY <2>2, <2>3, <2>5 DEF IndInv, TablesInv
<1> QED BY <1>1, <1>2, <1>3

-----------------------------------------------------------------------------
(* What reading any event but an ActorStopping does to the bus.            *)
LEMMA PopOther ==
    ASSUME TypeOK, bus # <<>>, bus' = Tail(bus), lost' = lost,
           Head(bus).type # "ActorStopping"
    PROVE  ReportsKept
<1>1. \A a : Head(bus) # Event("ActorStopping", a)
  BY DEF Event
<1> QED BY <1>1, PopFacts DEF ReportsKept

(* Reading announces nothing.                                              *)
LEMMA PopAnnounces ==
    ASSUME TypeOK, bus # <<>>, bus' = Tail(bus)
    PROVE  NothingAnnounced
  BY PopFacts DEF NothingAnnounced

(* ActorStopping: the child leaves the tables and the lists together, and  *)
(* the linger starts exactly when it was the last.                         *)
LEMMA ActorStoppingStep ==
    ASSUME IndInv, AtSelect, bus # <<>>, bus' = Tail(bus),
           NEW a \in Actors, Head(bus) = Event("ActorStopping", a),
           handle_actor_stopping_event(a),
           UNCHANGED <<lagged, lost, live, children, outq>>
    PROVE  IndInv'
<1>0. /\ TypeOK
      /\ bus' \in Seq(Events) /\ Len(bus') <= BusCap
      /\ NothingAnnounced
  BY PopFacts, PopAnnounces DEF IndInv
<1>1. \A b : b # a /\ Unread("ActorStopping", b) => Unread("ActorStopping", b)'
  <2>1. \A b : b # a => Head(bus) # Event("ActorStopping", b)
    BY DEF Event
  <2> QED BY <2>1, <1>0, PopFacts
<1>2. /\ endpoints' = endpoints \ {a}
      /\ attached = pipes_tx => attached' = pipes_tx'
      /\ a \in endpoints => pipes_tx' = pipes_tx \ {a}
      /\ a \notin endpoints => pipes_tx' = pipes_tx
      /\ pipes_tx' \subseteq pipes_tx /\ attached' \subseteq attached
  BY DEF handle_actor_stopping_event, cleanup_stopped_child_resources
<1>3. UNCHANGED <<inproc_connections_to_cleanup, told, history>>
  BY DEF handle_actor_stopping_event, record_stopped
<1>4. phase # "Finished" /\ live
  BY DEF AtSelect
<1>5. PipesFollowEndpoints' /\ EndpointsHaveActors'
  <2>1. phase' # "Finished"
    BY <1>4 DEF handle_actor_stopping_event, record_stopped
  <2> QED BY <2>1, <1>1, <1>2, <1>3, <1>4
          DEF IndInv, PipesFollowEndpoints, EndpointsHaveActors
<1>6. AnnouncedOnce'
  BY <1>0, <1>2, <1>3, FrameAnnounced
<1>7. CASE phase = "StoppingChildren"
  <2>1. record_stopped(a)
    BY <1>7 DEF handle_actor_stopping_event
  <2>2. Pending' = Pending \ {a} /\ Pending # {}
    BY <2>1, <1>7 DEF record_stopped, Pending, IndInv, PendingWillReport
  <2>3. expired' \in BOOLEAN /\ phase' \in {"StoppingChildren", "Lingering"}
    BY <2>1, <1>7, <1>0 DEF record_stopped, start_linger, TypeOK
  <2>4. TypeOK'
    BY <2>1, <2>3, <1>0, <1>2, <1>3 DEF record_stopped, TypeOK, Phases
  <2>5. endpoints \cap Actors \subseteq Pending
        /\ endpoints \cap Inprocs \subseteq inproc_connections_to_cleanup
    BY <1>7 DEF IndInv, ListsCoverEndpoints
  <2>6. CASE Pending = {a}
    <3>1. phase' = "Lingering"
      BY <2>6, <2>1 DEF record_stopped
    <3> QED BY <3>1, <2>4, <2>5, <2>6, <1>2, <1>3, <1>4, <1>5, <1>6
            DEF IndInv, LiveUntilFinished, PendingWillReport, ListsCoverEndpoints
  <2>7. CASE Pending # {a}
    <3>1. phase' = "StoppingChildren" /\ Pending' # {}
      BY <2>7, <2>1, <2>2, <1>7 DEF record_stopped
    <3>2. PendingWillReport'
      BY <3>1, <2>2, <1>1, <1>3, <1>7 DEF IndInv, PendingWillReport, WillReport
    <3>3. ListsCoverEndpoints'
      BY <3>1, <2>2, <2>5, <1>2, <1>3 DEF ListsCoverEndpoints
    <3> QED BY <3>1, <3>2, <3>3, <2>4, <1>4, <1>5, <1>6 DEF IndInv, LiveUntilFinished
  <2> QED BY <2>6, <2>7
<1>8. CASE phase # "StoppingChildren"
  <2>1. UNCHANGED coordinator
    BY <1>8 DEF handle_actor_stopping_event
  <2>2. TypeOK'
    BY <2>1, <1>0, <1>2, <1>3 DEF TypeOK
  <2>3. (LiveUntilFinished /\ PendingWillReport /\ ListsCoverEndpoints)'
    BY <2>1, <1>2, <1>4, <1>8
    DEF IndInv, LiveUntilFinished, PendingWillReport, ListsCoverEndpoints, Pending
  <2> QED BY <2>2, <2>3, <1>5, <1>6 DEF IndInv
<1> QED BY <1>7, <1>8

(* A connection that is attached takes the place of those registered under *)
(* its URI; it was in no table before.                                     *)
LEMMA AttachStep ==
    ASSUME IndInv, AtSelect, bus # <<>>, bus' = Tail(bus),
           NEW t, NEW c \in Conns, Head(bus) = Event(t, c),
           \/ t = "NewConnectionEstablished" /\ c \in Sessions
           \/ t = "InprocBindingRequest" /\ c \in Inprocs,
           phase = "Running",
           NEW old \in SUBSET (endpoints \cap Conns),
           endpoints' = (endpoints \ old) \cup {c},
           pipes_tx' = pipes_tx \cup {c},
           attached' = attached \cup {c},
           overwritten' = overwritten \cup old,
           told \subseteq told', told' \subseteq Actors,
           deadOnArrival \subseteq deadOnArrival', deadOnArrival' \subseteq Sessions,
           c \in Sessions => actor[c] # "gone" /\ (actor[c] = "penalty" => c \in deadOnArrival'),
           UNCHANGED <<coordinator, lagged, lost, live, children, outq, unsent>>
    PROVE  IndInv'
<1>0. /\ TypeOK
      /\ bus' \in Seq(Events) /\ Len(bus') <= BusCap
      /\ Unread(t, c)
      /\ \A u, y : Unread(u, y)' => Unread(u, y)
      /\ \A u, y : AtMostOnce(u, y) => AtMostOnce(u, y)'
      /\ AtMostOnce(t, c) => ~Unread(t, c)'
      /\ c \in Actors => c \in Sessions
  BY PopFacts, ConstantsAssumption DEF IndInv, Actors, Conns
<1>1. ReportsKept
  <2>1. Head(bus).type # "ActorStopping"
    BY DEF Event
  <2> QED BY <2>1, <1>0, PopOther
<1>2. /\ c \notin endpoints \cup pipes_tx \cup overwritten
      /\ c \in announced
      /\ c \in Sessions => actor[c] # "none"
      /\ ~Unread(t, c)'
  BY <1>0, ConstantsAssumption DEF IndInv, AnnouncedOnce
<1>3. TypeOK'
  BY <1>0 DEF TypeOK
<1>4. PipesFollowEndpoints'
  BY <1>2 DEF IndInv, PipesFollowEndpoints
<1>5. EndpointsHaveActors'
  <2>1. c \in Sessions => actor[c] = "alive" \/ c \in deadOnArrival'
    BY <1>0, <1>2 DEF TypeOK, ActorStates, Actors
  <2> QED BY <2>1, <1>0, <1>1 DEF IndInv, EndpointsHaveActors, ReportsKept
<1>6. AnnouncedOnce'
  <2>1. ASSUME NEW s \in Sessions
        PROVE  /\ AtMostOnce("NewConnectionEstablished", s)'
               /\ s \in announced' => actor'[s] # "none"
               /\ Unread("NewConnectionEstablished", s)' => s \in announced'
               /\ (s \notin announced' \/ Unread("NewConnectionEstablished", s)')
                     => s \notin endpoints' \cup pipes_tx' \cup overwritten'
    BY <1>0, <1>2, ConstantsAssumption DEF IndInv, AnnouncedOnce
  <2>2. ASSUME NEW i \in Inprocs
        PROVE  /\ AtMostOnce("InprocBindingRequest", i)'
               /\ Unread("InprocBindingRequest", i)' => i \in announced'
               /\ (i \notin announced' \/ Unread("InprocBindingRequest", i)')
                     => i \notin endpoints' \cup pipes_tx' \cup overwritten'
    BY <1>0, <1>2, ConstantsAssumption DEF IndInv, AnnouncedOnce
  <2> QED BY <2>1, <2>2 DEF AnnouncedOnce
<1>7. (LiveUntilFinished /\ PendingWillReport /\ ListsCoverEndpoints)'
  BY DEF AtSelect, LiveUntilFinished, PendingWillReport, ListsCoverEndpoints
<1> QED BY <1>3, <1>4, <1>5, <1>6, <1>7 DEF IndInv

(* The peer of an inproc connection is gone: endpoint and pipe go together.*)
LEMMA PeerClosedStep ==
    ASSUME IndInv, AtSelect, bus # <<>>, bus' = Tail(bus),
           NEW i \in Inprocs, Head(bus) = Event("InprocPipePeerClosed", i),
           handle_inproc_pipe_peer_closed(i),
           UNCHANGED <<lagged, lost, live, children, outq>>
    PROVE  IndInv'
<1>0. /\ TypeOK
      /\ bus' \in Seq(Events) /\ Len(bus') <= BusCap
      /\ NothingAnnounced
  BY PopFacts, PopAnnounces DEF IndInv
<1>1. ReportsKept
  <2>1. Head(bus).type # "ActorStopping"
    BY DEF Event
  <2> QED BY <2>1, <1>0, PopOther
<1>2. /\ endpoints' = endpoints \ {i}
      /\ attached = pipes_tx => attached' = pipes_tx'
      /\ i \in endpoints => pipes_tx' = pipes_tx \ {i}
      /\ i \notin endpoints => pipes_tx' = pipes_tx
      /\ pipes_tx' \subseteq pipes_tx /\ attached' \subseteq attached
      /\ UNCHANGED <<coordinator, told, history>>
  BY DEF handle_inproc_pipe_peer_closed, cleanup_stopped_child_resources
<1>3. i \notin Actors /\ phase # "Finished"
  BY ConstantsAssumption DEF Actors, Conns, AtSelect
<1>4. TypeOK'
  BY <1>0, <1>2 DEF TypeOK
<1>5. AnnouncedOnce'
  BY <1>0, <1>2, FrameAnnounced
<1>6. (LiveUntilFinished /\ EndpointsHaveActors)'
  BY <1>1, <1>2, <1>3 DEF IndInv, LiveUntilFinished, EndpointsHaveActors, ReportsKept
<1>7. PendingWillReport'
  BY <1>1, <1>2 DEF IndInv, PendingWillReport, WillReport, Pending, ReportsKept
<1>8. (ListsCoverEndpoints /\ PipesFollowEndpoints)'
  BY <1>2, <1>3 DEF IndInv, ListsCoverEndpoints, PipesFollowEndpoints, Pending
<1> QED BY <1>4, <1>5, <1>6, <1>7, <1>8 DEF IndInv

(* An event that only starts the shutdown, or finds it started.            *)
LEMMA ShutdownEventStep ==
    ASSUME IndInv, bus # <<>>, bus' = Tail(bus),
           Head(bus).type # "ActorStopping",
           NEW T \in SUBSET Actors, told \subseteq T,
           \/ initiate_core_shutdown(T)
           \/ UNCHANGED coordinator /\ told' = T,
           UNCHANGED <<core_state, lagged, lost, live, children, outq, history>>
    PROVE  IndInv'
<1>0. /\ TypeOK
      /\ bus' \in Seq(Events) /\ Len(bus') <= BusCap
      /\ NothingAnnounced /\ ReportsKept
  BY PopFacts, PopAnnounces, PopOther DEF IndInv
<1>1. AnnouncedOnce'
  BY <1>0, FrameAnnounced
<1>2. CASE initiate_core_shutdown(T)
  <2>1. /\ TablesInv'
        /\ phase' \in Phases /\ expired' \in BOOLEAN /\ told' \subseteq Actors
        /\ pending_child_actors' \subseteq Listeners
        /\ pending_connections_to_close' \subseteq Sessions
        /\ inproc_connections_to_cleanup' \subseteq Inprocs
    BY <1>2, <1>0, InitiateTables
  <2>2. TypeOK'
    BY <1>0, <2>1 DEF TypeOK
  <2> QED BY <2>1, <2>2, <1>1 DEF IndInv, TablesInv
<1>3. CASE UNCHANGED coordinator /\ told' = T
  <2>1. TypeOK'
    BY <1>0, <1>3 DEF TypeOK
  <2>2. TablesInv'
    BY <1>0, <1>3, FrameTables
  <2> QED BY <2>1, <2>2, <1>1 DEF IndInv, TablesInv
<1> QED BY <1>2, <1>3

(* Every event handler of the core keeps the invariant.                    *)
LEMMA EventStep ==
    ASSUME IndInv, process_system_event
    PROVE  IndInv'
<1> DEFINE e == Head(bus)
<1>0. /\ TypeOK /\ AtSelect /\ bus # <<>> /\ bus' = Tail(bus)
      /\ UNCHANGED <<lagged, lost, live, children, outq>>
      /\ told \in SUBSET Actors
  BY DEF IndInv, process_system_event, TypeOK
<1>1. e \in Events
  BY <1>0, PopFacts
<1>2. CASE e.type = "ActorStopping"
  <2>1. e.id \in Actors /\ e = Event("ActorStopping", e.id)
    BY <1>1, <1>2 DEF Events, Event
  <2>2. handle_actor_stopping_event(e.id)
    BY <1>2 DEF process_system_event
  <2> QED BY <2>1, <2>2, <1>0, ActorStoppingStep
<1>3. CASE e.type = "NewConnectionEstablished"
  <2> DEFINE s == e.id
  <2>1. s \in Sessions /\ s \in Conns /\ s \in Actors /\ e = Event("NewConnectionEstablished", s)
    BY <1>1, <1>3 DEF Events, Event, Conns, Actors
  <2>2. handle_new_connection(s)
    BY <1>3 DEF process_system_event
  <2>3. CASE phase # "Running"
    <3>1. told \cup {s} \in SUBSET Actors
      BY <2>1, <1>0
    <3>2. UNCHANGED <<coordinator, core_state, history>> /\ told' = told \cup {s}
      BY <2>2, <2>3 DEF handle_new_connection
    <3> QED BY <3>1, <3>2, <1>0, <1>3, ShutdownEventStep
  <2>4. CASE phase = "Running" /\ actor[s] # "gone"
    <3> DEFINE old == {c \in endpoints \cap Conns : Uri[c] = Uri[s]}
    <3>1. /\ endpoints' = (endpoints \ old) \cup {s}
          /\ pipes_tx' = pipes_tx \cup {s}
          /\ attached' = attached \cup {s}
          /\ told' = told \cup (old \cap Sessions)
          /\ overwritten' = overwritten \cup old
          /\ deadOnArrival' = IF actor[s] = "penalty" THEN deadOnArrival \cup {s}
                              ELSE deadOnArrival
          /\ UNCHANGED <<coordinator, unsent>>
      BY <2>2, <2>4 DEF handle_new_connection, attach_session
    <3>2. old \in SUBSET (endpoints \cap Conns)
      OBVIOUS
    <3>3. /\ told \subseteq told' /\ told' \subseteq Actors
          /\ deadOnArrival \subseteq deadOnArrival' /\ deadOnArrival' \subseteq Sessions
          /\ actor[s] = "penalty" => s \in deadOnArrival'
      BY <3>1, <2>1, <1>0 DEF TypeOK, Actors
    <3> HIDE DEF old, s
    <3> QED BY <3>1, <3>2, <3>3, <2>1, <2>4, <1>0, AttachStep
  <2>5. CASE phase = "Running" /\ actor[s] = "gone"
    <3>1. initiate_core_shutdown(told) /\ UNCHANGED <<core_state, history>>
      BY <2>2, <2>5 DEF handle_new_connection
    <3> QED BY <3>1, <1>0, <1>3, ShutdownEventStep
  <2> QED BY <2>3, <2>4, <2>5
<1>4. CASE e.type = "InprocBindingRequest" /\ handle_inproc_binding_request(e.id)
  <2> DEFINE i == e.id
  <2>1. i \in Inprocs /\ i \in Conns /\ i \notin Sessions /\ e = Event("InprocBindingRequest", i)
    BY <1>1, <1>4, ConstantsAssumption DEF Events, Event, Conns
  <2>2. handle_inproc_binding_request(i)
    BY <1>4
  <2>3. CASE phase # "Running"
    <3>1. UNCHANGED <<coordinator, core_state, history>> /\ told' = told
      BY <2>2, <2>3 DEF handle_inproc_binding_request
    <3> QED BY <3>1, <1>0, <1>4, ShutdownEventStep
  <2>4. CASE phase = "Running"
    <3> DEFINE old == {c \in endpoints \cap Conns : Uri[c] = Uri[i]}
    <3>1. /\ endpoints' = (endpoints \ old) \cup {i}
          /\ pipes_tx' = pipes_tx \cup {i}
          /\ attached' = attached \cup {i}
          /\ overwritten' = overwritten \cup old
          /\ UNCHANGED <<coordinator, told, deadOnArrival, unsent>>
      BY <2>2, <2>4 DEF handle_inproc_binding_request
    <3>2. old \in SUBSET (endpoints \cap Conns)
      OBVIOUS
    <3>3. /\ told \subseteq told' /\ told' \subseteq Actors
          /\ deadOnArrival \subseteq deadOnArrival' /\ deadOnArrival' \subseteq Sessions
      BY <3>1, <1>0 DEF TypeOK
    <3> HIDE DEF old, i
    <3> QED BY <3>1, <3>2, <3>3, <2>1, <2>4, <1>0, AttachStep
  <2> QED BY <2>3, <2>4
<1>5. CASE e.type = "InprocPipePeerClosed" /\ handle_inproc_pipe_peer_closed(e.id)
  <2>1. e.id \in Inprocs /\ e = Event("InprocPipePeerClosed", e.id)
    BY <1>1, <1>5 DEF Events, Event
  <2> QED BY <2>1, <1>5, <1>0, PeerClosedStep
<1>6. CASE e.type \in {"ContextTerminating", "SocketClosing"}
  <2>1. initiate_core_shutdown(told) /\ UNCHANGED <<core_state, history>>
    BY <1>6 DEF process_system_event
  <2> QED BY <2>1, <1>0, <1>6, ShutdownEventStep
<1>7. CASE /\ e.type \in {"InprocBindingRequest", "InprocPipePeerClosed", "ActorStarted"}
           /\ ignore_event
  <2>1. UNCHANGED <<coordinator, core_state, history>> /\ told' = told
    BY <1>7 DEF ignore_event
  <2> QED BY <2>1, <1>0, <1>7, ShutdownEventStep
<1>8. \/ e.type \in {"ActorStopping", "NewConnectionEstablished"}
      \/ e.type = "InprocBindingRequest" /\ handle_inproc_binding_request(e.id)
      \/ e.type = "InprocPipePeerClosed" /\ handle_inproc_pipe_peer_closed(e.id)
      \/ e.type \in {"ContextTerminating", "SocketClosing"}
      \/ /\ e.type \in {"InprocBindingRequest", "InprocPipePeerClosed", "ActorStarted"}
         /\ ignore_event
  BY DEF process_system_event
<1> QED BY <1>2, <1>3, <1>4, <1>5, <1>6, <1>7, <1>8

-----------------------------------------------------------------------------
(* Every step keeps the invariant.                                         *)
LEMMA NextIndInv ==
    ASSUME IndInv, [Next]_vars
    PROVE  IndInv'
<1>1. CASE CoreStep
  BY <1>1, EventStep, CommandSteps, FinalSteps DEF CoreStep
<1>2. CASE user_close \/ \E l \in Listeners : handle_user_bind(l) \/ reaper(l)
  BY <1>2, CommandSteps
<1>3. CASE linger_deadline_passes
  BY <1>3, FinalSteps
<1>4. CASE \/ context_shutdown \/ other_event
           \/ \E l \in Listeners : listener_stops(l)
           \/ \E a \in Actors : handle_user_unbind_or_disconnect(a)
           \/ \E i \in Inprocs : inproc_disconnects(i) \/ inproc_reads(i)
           \/ \E c \in Conns : send(c)
  BY <1>4, OtherSteps
<1>5. ASSUME NEW s \in Sessions,
             \/ spawn_session(s) \/ session_fails(s) \/ session_stops(s)
             \/ session_ends(s) \/ session_writes(s)
      PROVE  IndInv'
  BY <1>5, SessionSteps
<1>6. ASSUME NEW s \in Sessions, announce_session(s) PROVE IndInv'
  BY <1>6, AnnouncingSteps DEF announce_session, Conns
<1>7. ASSUME NEW i \in Inprocs, inproc_connects(i) PROVE IndInv'
  BY <1>7, AnnouncingSteps DEF inproc_connects, Conns
<1>8. CASE UNCHANGED vars
  <2>1. ReportsKept /\ NothingAnnounced
    BY <1>8, BusUnchanged DEF vars, busVars
  <2>2. TypeOK'
    BY <1>8 DEF vars, busVars, IndInv, TypeOK
  <2>3. TablesInv'
    BY <1>8, <2>1, FrameTables DEF vars
  <2>4. AnnouncedOnce'
    BY <1>8, <2>1, FrameAnnounced DEF vars
  <2> QED BY <2>2, <2>3, <2>4 DEF IndInv, TablesInv
<1> QED BY <1>1, <1>2, <1>3, <1>4, <1>5, <1>6, <1>7, <1>8 DEF Next

(* The inductive invariant holds of every behaviour.                       *)
THEOREM IndInvHolds == Spec => []IndInv
<1>1. Init => IndInv
  BY InitIndInv
<1>2. IndInv /\ [Next]_vars => IndInv'
  BY NextIndInv
<1> QED BY <1>1, <1>2, PTL DEF Spec

(* The core's state stays of its type: in particular the shutdown lists    *)
(* hold listeners, sessions and inproc connections respectively, and the   *)
(* bus never holds more than its capacity.                                 *)
THEOREM TypeCorrect == Spec => []TypeOK
<1>1. IndInv => TypeOK
  BY DEF IndInv
<1> QED BY <1>1, IndInvHolds, PTL

(* Nobody is waited for who will not report: StoppingChildren waits for at *)
(* least one child, and every one it waits for has the order to stop or    *)
(* its report in the core's queue, but for lost reports and sessions that  *)
(* were dead on arrival.                                                   *)
THEOREM NobodyWaitedForInVain == Spec => []PendingWillReport
<1>1. IndInv => PendingWillReport
  BY DEF IndInv
<1> QED BY <1>1, IndInvHolds, PTL

(* The endpoints map has no zombies.                                       *)
THEOREM NoZombies == Spec => []EndpointsHaveActors
<1>1. IndInv => EndpointsHaveActors
  BY DEF IndInv
<1> QED BY <1>1, IndInvHolds, PTL

(* The endpoints, the core's pipes and the pipes the ISocket knows agree,  *)
(* and a closed socket leaves the ISocket at most the replaced ones.       *)
THEOREM TablesAgree == Spec => []PipesFollowEndpoints
<1>1. IndInv => PipesFollowEndpoints
  BY DEF IndInv
<1> QED BY <1>1, IndInvHolds, PTL

=============================================================================
