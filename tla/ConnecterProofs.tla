--------------------------- MODULE ConnecterProofs ---------------------------
(***************************************************************************)
(* Proofs about Connecter for any set of connecters, every value of the    *)
(* options and any number of calls of connect().                           *)
(***************************************************************************)
EXTENDS Connecter, FiniteSetTheorems, SequenceTheorems, WellFoundedInduction, TLAPS

(* The events that end something, and what a queue of events holds.        *)
CAF == "ConnectionAttemptFailed"
AS == "ActorStopping"
NCE == "NewConnectionEstablished"
Holds(q, t, c) == \E i \in 1..Len(q) : q[i].type = t /\ q[i].id = c
AllTransient(q) == \A i \in 1..Len(q) : q[i].type \in {CAF, AS} => q[i].error = "transient"

(* A connecter and its session report one end and one connection.          *)
Alike(t, u) == {t, u} \subseteq {CAF, AS} \/ (t = NCE /\ u = NCE)
Single(q) ==
    \A i, j \in 1..Len(q) : q[i].id = q[j].id /\ Alike(q[i].type, q[j].type) => i = j

(* Where a connecter is agrees with its session, with the events of both   *)
(* and with the maps of the core.                                          *)
Slot(c) ==
    /\ pc[c] \notin {"free", "announce"} => session[c] = "none" /\ \A t \in {CAF, AS, NCE} : ~Unread(t, c)
    /\ pc[c] = "announce" => session[c] # "none" /\ ~Unread(CAF, c) /\ ~Unread(NCE, c)
    /\ pc[c] # "free" => endpoint # c /\ c \notin mapped
    /\ Alive(c) => ~Unread(CAF, c) /\ ~Unread(AS, c)
    /\ Unread(CAF, c) => session[c] = "none"
    /\ Unread(NCE, c) => c \notin mapped /\ endpoint # c
SlotInv == Single(corebox) /\ \A c \in Connecters : Slot(c)

(* The connecters that are at work, that have a session, or whose end the  *)
(* core has not read.                                                      *)
Busy == {c \in Connecters : pc[c] # "free" \/ Alive(c) \/ Unread(CAF, c) \/ Unread(AS, c)}
Scheduled == IF next_attempt_at # None THEN 1 ELSE 0
BusyInv == IsFiniteSet(Busy) /\ Cardinality(Busy) + Scheduled <= calls

(* No stop event before the shutdown.                                      *)
StopInv == phase = "Running" /\ ~terminating => \A c \in Connecters : Stops(c) = {}

(* A target that has not been given up.                                    *)
Wanted == phase = "Running" /\ ~terminating /\ reconnect_ivl # None /\ ~givenUp
Joined(c) == pc[c] = "announce" \/ Unread(NCE, c) \/ endpoint = c
WantedInv ==
    Wanted =>
      /\ told = {}
      /\ AllTransient(corebox)
      /\ \A c \in mapped : endpoint = c
      /\ endpoint # None => endpoint \in mapped
      /\ \A c \in Connecters : Joined(c) => Alive(c) \/ Unread(AS, c)
      /\ \A c \in Connecters : Alive(c) => Joined(c)
      /\ calls > 0 => Pursued

IndInv == TypeOK /\ SlotInv /\ BusyInv /\ StopInv /\ WantedInv

-----------------------------------------------------------------------------
(* What the operators of the model return.                                 *)

(* The delays are delays and the count of attempts stays in its range.     *)
LEMMA Delays ==
    ASSUME NEW n \in 0..ExpCap
    PROVE  /\ Min2(n + 1, ExpCap) \in 0..ExpCap
           /\ inherited_delay(n) \in Nat
           /\ reconnect_ivl # None => backoff(n) \in Nat
           /\ \A d \in Nat : doubled(d) \in Nat
<1> DEFINE p == 2^n
<1>1. p \in Nat
  BY Zenon, PowersAssumption
<1>2. \A a, b \in Nat : a * b \in Nat /\ Min2(a, b) \in Nat
  BY DEF Min2
<1>3. initial_reconnect_ivl \in Nat /\ (reconnect_ivl # None => reconnect_ivl \in Nat)
  BY Zenon, ConstantsAssumption DEF initial_reconnect_ivl, reconnect_ivl, parse_reconnect_ivl_option
<1>4. Min2(n + 1, ExpCap) \in 0..ExpCap
  BY ConstantsAssumption DEF Min2
<1>5. inherited_delay(n) = IF RECONNECT_IVL_MAX > 0 /\ n > 0
        THEN Min2(initial_reconnect_ivl * p, RECONNECT_IVL_MAX) ELSE initial_reconnect_ivl
  BY Zenon DEF inherited_delay
<1>6. backoff(n) = IF RECONNECT_IVL_MAX > 0
        THEN Min2(reconnect_ivl * p, RECONNECT_IVL_MAX) ELSE reconnect_ivl * p
  BY Zenon DEF backoff
<1> HIDE DEF p
<1>7. inherited_delay(n) \in Nat
  BY <1>1, <1>2, <1>3, <1>5, ConstantsAssumption
<1>8. ASSUME reconnect_ivl # None PROVE backoff(n) \in Nat
  <2> DEFINE d == reconnect_ivl * p
  <2>1. d \in Nat
    BY Zenon, <1>1, <1>2, <1>3, <1>8
  <2>2. backoff(n) = IF RECONNECT_IVL_MAX > 0 THEN Min2(d, RECONNECT_IVL_MAX) ELSE d
    BY Zenon, <1>6
  <2> HIDE DEF d
  <2> QED BY Zenon, <1>2, <2>1, <2>2, ConstantsAssumption
<1>9. \A d \in Nat : doubled(d) \in Nat
  BY Zenon, <1>2, ConstantsAssumption DEF doubled
<1> QED BY Zenon, <1>4, <1>7, <1>8, <1>9

(* A queue of events and one more.                                         *)
LEMMA AppendBox ==
    ASSUME NEW q \in Seq(Events), NEW e \in Events
    PROVE  /\ Append(q, e) \in Seq(Events)
           /\ \A t, c : Holds(Append(q, e), t, c) <=> Holds(q, t, c) \/ (t = e.type /\ c = e.id)
           /\ AllTransient(q) /\ (e.type \in {CAF, AS} => e.error = "transient")
                  => AllTransient(Append(q, e))
           /\ Single(q) /\ (\A t : Alike(t, e.type) => ~Holds(q, t, e.id))
                  => Single(Append(q, e))
<1> DEFINE r == Append(q, e)
<1>1. /\ r \in Seq(Events) /\ Len(r) = Len(q) + 1 /\ Len(q) \in Nat
      /\ \A i \in 1..Len(q) : r[i] = q[i]
      /\ r[Len(q) + 1] = e
  BY AppendProperties, LenProperties
<1> HIDE DEF r
<1>2. \A t, c : Holds(r, t, c) <=> Holds(q, t, c) \/ (t = e.type /\ c = e.id)
  BY <1>1 DEF Holds
<1>3. AllTransient(q) /\ (e.type \in {CAF, AS} => e.error = "transient") => AllTransient(r)
  BY <1>1 DEF AllTransient
<1>4. ASSUME Single(q), \A t : Alike(t, e.type) => ~Holds(q, t, e.id)
      PROVE  Single(r)
  <2> SUFFICES ASSUME NEW i \in 1..Len(r), NEW j \in 1..Len(r),
                      r[i].id = r[j].id, Alike(r[i].type, r[j].type)
               PROVE  i = j
    BY Zenon DEF Single
  <2>1. CASE i \in 1..Len(q) /\ j \in 1..Len(q)
    BY Zenon, <1>1, <1>4, <2>1 DEF Single
  <2>2. CASE i \in 1..Len(q) /\ j = Len(q) + 1
    <3>1. Holds(q, q[i].type, e.id) /\ Alike(q[i].type, e.type)
      BY Zenon, <1>1, <2>2 DEF Holds
    <3> QED BY Zenon, <1>4, <3>1
  <2>3. CASE j \in 1..Len(q) /\ i = Len(q) + 1
    <3>1. Holds(q, q[j].type, e.id) /\ Alike(e.type, q[j].type)
      BY Zenon, <1>1, <2>3 DEF Holds
    <3>2. Alike(q[j].type, e.type)
      BY Zenon, <3>1 DEF Alike
    <3> QED BY Zenon, <1>4, <3>1, <3>2
  <2> QED BY <1>1, <2>1, <2>2, <2>3
<1> QED BY Zenon, <1>1, <1>2, <1>3, <1>4 DEF r

(* A queue of events and the rest of it.                                   *)
LEMMA TailBox ==
    ASSUME NEW q \in Seq(Events), q # <<>>
    PROVE  /\ Head(q) \in Events /\ Tail(q) \in Seq(Events)
           /\ \A t, c : Holds(q, t, c) <=>
                 Holds(Tail(q), t, c) \/ (t = Head(q).type /\ c = Head(q).id)
           /\ AllTransient(q) =>
                 /\ AllTransient(Tail(q))
                 /\ Head(q).type \in {CAF, AS} => Head(q).error = "transient"
           /\ Single(q) =>
                 /\ Single(Tail(q))
                 /\ \A t : Alike(t, Head(q).type) => ~Holds(Tail(q), t, Head(q).id)
<1> DEFINE r == Tail(q)
           e == Head(q)
<1>1. /\ e \in Events /\ r \in Seq(Events) /\ Len(r) = Len(q) - 1 /\ Len(r) \in Nat
      /\ \A i \in 1..Len(r) : r[i] = q[i + 1]
      /\ e = q[1] /\ Len(q) \in Nat
  BY HeadTailProperties, LenProperties
<1> HIDE DEF r, e
<1>2. ASSUME NEW t, NEW c
      PROVE  Holds(q, t, c) <=> Holds(r, t, c) \/ (t = e.type /\ c = e.id)
  <2>1. ASSUME NEW i \in 1..Len(q), q[i].type = t, q[i].id = c
        PROVE  Holds(r, t, c) \/ (t = e.type /\ c = e.id)
    <3>1. CASE i = 1
      BY Zenon, <1>1, <2>1, <3>1
    <3>2. CASE i # 1
      <4>1. i - 1 \in 1..Len(r) /\ r[i - 1] = q[i]
        BY <1>1, <3>2
      <4> QED BY Zenon, <2>1, <4>1 DEF Holds
    <3> QED BY Zenon, <3>1, <3>2
  <2>2. ASSUME NEW i \in 1..Len(r), r[i].type = t, r[i].id = c
        PROVE  Holds(q, t, c)
    <3>1. i + 1 \in 1..Len(q) /\ q[i + 1] = r[i]
      BY <1>1
    <3> QED BY Zenon, <2>2, <3>1 DEF Holds
  <2>3. ASSUME t = e.type, c = e.id PROVE Holds(q, t, c)
    BY <1>1, <2>3 DEF Holds
  <2> QED BY Zenon, <2>1, <2>2, <2>3 DEF Holds
<1>3. AllTransient(q) => AllTransient(r) /\ (e.type \in {CAF, AS} => e.error = "transient")
  BY <1>1 DEF AllTransient
<1>4. ASSUME Single(q)
      PROVE  Single(r) /\ \A t : Alike(t, e.type) => ~Holds(r, t, e.id)
  <2>1. \A i \in 1..Len(r) : i + 1 \in 1..Len(q) /\ r[i] = q[i + 1]
    BY <1>1
  <2>2. Single(r)
    BY <1>1, <1>4, <2>1 DEF Single
  <2>3. ASSUME NEW t, Alike(t, e.type), NEW i \in 1..Len(r), r[i].type = t, r[i].id = e.id
        PROVE  FALSE
    <3>1. i + 1 = 1
      BY <1>1, <1>4, <2>1, <2>3 DEF Single
    <3> QED BY <3>1
  <2> QED BY Zenon, <2>2, <2>3 DEF Holds
<1> QED BY Zenon, <1>1, <1>2, <1>3, <1>4 DEF r, e

(* A set of connecters that grows or shrinks by one.                       *)
LEMMA Counts ==
    ASSUME NEW S, IsFiniteSet(S), NEW T, NEW x
    PROVE  /\ T \subseteq S \cup {x} =>
                 IsFiniteSet(T) /\ Cardinality(T) \in Nat /\ Cardinality(T) <= Cardinality(S) + 1
           /\ T \subseteq S =>
                 IsFiniteSet(T) /\ Cardinality(T) \in Nat /\ Cardinality(T) <= Cardinality(S)
           /\ T \subseteq S \ {x} /\ x \in S =>
                 IsFiniteSet(T) /\ Cardinality(T) \in Nat /\ Cardinality(T) + 1 <= Cardinality(S)
           /\ Cardinality(S) \in Nat
<1>1. Cardinality(S) \in Nat
  BY Zenon, FS_CardinalityType
<1>2. /\ IsFiniteSet(S \cup {x}) /\ Cardinality(S \cup {x}) \in Nat
      /\ Cardinality(S \cup {x}) <= Cardinality(S) + 1
  BY <1>1, FS_AddElement, FS_CardinalityType
<1>3. /\ IsFiniteSet(S \ {x}) /\ Cardinality(S \ {x}) \in Nat
      /\ x \in S => Cardinality(S \ {x}) + 1 = Cardinality(S)
  <2>1. IsFiniteSet(S \ {x}) /\ Cardinality(S \ {x}) \in Nat
    BY Zenon, FS_Subset, FS_CardinalityType
  <2>2. x \in S => Cardinality(S \ {x}) = Cardinality(S) - 1
    BY Zenon, FS_RemoveElement
  <2> QED BY <1>1, <2>1, <2>2
<1>4. \A U : IsFiniteSet(U) /\ T \subseteq U =>
          IsFiniteSet(T) /\ Cardinality(T) \in Nat /\ Cardinality(T) <= Cardinality(U)
  BY Zenon, FS_Subset, FS_CardinalityType
<1>5. T \subseteq S \cup {x} =>
          IsFiniteSet(T) /\ Cardinality(T) \in Nat /\ Cardinality(T) <= Cardinality(S) + 1
  BY <1>1, <1>2, <1>4
<1>6. T \subseteq S \ {x} /\ x \in S =>
          IsFiniteSet(T) /\ Cardinality(T) \in Nat /\ Cardinality(T) + 1 <= Cardinality(S)
  BY <1>1, <1>3, <1>4
<1> QED BY Zenon, <1>1, <1>4, <1>5, <1>6

-----------------------------------------------------------------------------
(* The kinds of step, by what they do to the state of the invariant.       *)

Onward == Wanted' => Wanted
Kept == UNCHANGED <<endpoint, mapped, told, next_attempt_at, calls>>
Elsewhere(c) == \A d \in Connecters : d # c => pc'[d] = pc[d] /\ session'[d] = session[d]
Still(c) == session'[c] = session[c]

(* A connecter is started, by a call or for the entry of the table.        *)
Spawns(c) ==
    /\ Free(c) /\ Elsewhere(c)
    /\ pc'[c] = "spawned" /\ session'[c] = "none"
    /\ mapped' = mapped \ {c} /\ told' = told \ {c}
    /\ UNCHANGED <<endpoint, corebox>>
    /\ \/ next_attempt_at' = next_attempt_at /\ calls' = calls + 1
       \/ next_attempt_at # None /\ next_attempt_at' = None /\ calls' = calls

(* A connecter goes on, connects, or ends with a report or without.        *)
Works(c) ==
    /\ pc[c] \notin {"free", "announce"} /\ Elsewhere(c) /\ Kept
    /\ \/ pc'[c] \notin {"free", "announce"} /\ Still(c) /\ UNCHANGED corebox
       \/ pc'[c] = "announce" /\ session'[c] = "handshake" /\ UNCHANGED corebox
       \/ pc'[c] = "free" /\ Still(c) /\ UNCHANGED corebox /\ ~Wanted'
       \/ /\ pc'[c] = "free" /\ Still(c)
          /\ \E error \in {"fatal", "transient"} :
                post(Event(CAF, c, error)) /\ (Wanted' => error = "transient")

Announces(c) ==
    /\ pc[c] = "announce" /\ pc'[c] = "free" /\ Still(c) /\ Elsewhere(c) /\ Kept
    /\ post(Event(NCE, c, "none"))

(* A session ends, in error unless it was told to or the core is gone.     *)
Ends(c) ==
    /\ Alive(c) /\ session'[c] \in {"penalty", "gone"} /\ pc'[c] = pc[c] /\ Elsewhere(c) /\ Kept
    /\ \E error \in {"none", "transient"} :
          post(Event(AS, c, error)) /\ (error = "transient" \/ c \in told \/ phase = "Closed")

(* A session gets through its handshake or its penalty.                    *)
Passes(c) ==
    /\ pc'[c] = pc[c] /\ Elsewhere(c) /\ Kept
    /\ \/ /\ session[c] = "handshake" /\ session'[c] = "operational" /\ c \in mapped
          /\ post(Event("reset", c, "none"))
       \/ session[c] = "penalty" /\ session'[c] = "gone" /\ UNCHANGED corebox

(* Nothing but who is told to stop.                                        *)
Tells ==
    /\ UNCHANGED <<endpoint, mapped, next_attempt_at, calls, pc, session>>
    /\ UNCHANGED corebox \/ post(Event("ContextTerminating", None, "none"))
    /\ told' = told \/ ~Wanted'

(* The core reads an event, or is gone.                                    *)
Reads == process_system_event
Exits == exit_loop

KindOf(c) == Spawns(c) \/ Works(c) \/ Announces(c) \/ Ends(c) \/ Passes(c)
Core == TypeOK /\ SlotInv /\ BusyInv /\ WantedInv

(* A published event is the only one that is new.                          *)
LEMMA PostFacts ==
    ASSUME corebox \in Seq(Events), NEW e \in Events, post(e)
    PROVE  /\ corebox' \in Seq(Events)
           /\ \A t, c : Unread(t, c) => Unread(t, c)'
           /\ \A t, c : Unread(t, c)' => Unread(t, c) \/ (t = e.type /\ c = e.id)
           /\ phase # "Closed" => Unread(e.type, e.id)'
           /\ AllTransient(corebox) /\ (e.type \in {CAF, AS} => e.error = "transient")
                  => AllTransient(corebox)'
           /\ Single(corebox) /\ (\A t : Alike(t, e.type) => ~Unread(t, e.id))
                  => Single(corebox)'
<1>1. /\ \A t, c : Unread(t, c) <=> Holds(corebox, t, c)
      /\ \A t, c : Unread(t, c)' <=> Holds(corebox', t, c)
      /\ AllTransient(corebox)' <=> AllTransient(corebox')
      /\ Single(corebox)' <=> Single(corebox')
  BY Zenon DEF Unread, Holds, AllTransient, Single
<1>2. CASE phase = "Closed"
  <2>1. corebox' = corebox
    BY Zenon, <1>2 DEF post
  <2> QED BY Zenon, <1>1, <1>2, <2>1
<1>3. CASE phase # "Closed"
  <2>1. corebox' = Append(corebox, e)
    BY Zenon, <1>3 DEF post
  <2> QED BY Zenon, <1>1, <2>1, AppendBox
<1> QED BY Zenon, <1>2, <1>3

(* Reading takes the first event and no other.                             *)
LEMMA ReadFacts ==
    ASSUME corebox \in Seq(Events), corebox # <<>>, corebox' = Tail(corebox), NEW e, e = Head(corebox)
    PROVE  /\ e \in Events /\ corebox' \in Seq(Events)
           /\ \A t, c : Unread(t, c) <=> Unread(t, c)' \/ (t = e.type /\ c = e.id)
           /\ AllTransient(corebox) =>
                 AllTransient(corebox)' /\ (e.type \in {CAF, AS} => e.error = "transient")
           /\ Single(corebox) =>
                 Single(corebox)' /\ \A t : Alike(t, e.type) => ~Unread(t, e.id)'
<1>1. /\ \A t, c : Unread(t, c) <=> Holds(corebox, t, c)
      /\ \A t, c : Unread(t, c)' <=> Holds(corebox', t, c)
      /\ AllTransient(corebox)' <=> AllTransient(corebox')
      /\ Single(corebox)' <=> Single(corebox')
  BY Zenon DEF Unread, Holds, AllTransient, Single
<1> QED BY Zenon, <1>1, TailBox

(* The events are events.                                                  *)
LEMMA EventTypes ==
    ASSUME NEW c \in Connecters
    PROVE  /\ \A error \in {"fatal", "transient"} : Event(CAF, c, error) \in Events
           /\ \A error \in {"none", "transient"} : Event(AS, c, error) \in Events
           /\ Event(NCE, c, "none") \in Events /\ Event("reset", c, "none") \in Events
BY Zenon DEF Event, Events, CAF, AS, NCE

(* So is the one without a connecter.                                      *)
LEMMA TerminatingType == Event("ContextTerminating", None, "none") \in Events
BY Zenon DEF Event, Events

(* A connecter of which nothing is new.                                    *)
LEMMA SlotSame ==
    ASSUME NEW c \in Connecters, Slot(c),
           pc'[c] = pc[c], session'[c] = session[c],
           \A t : Unread(t, c)' => Unread(t, c),
           endpoint' = c \/ c \in mapped' => endpoint = c \/ c \in mapped
    PROVE  Slot(c)'
BY Zenon DEF Slot, Alive

(* An event that is not published leaves the queue as it is.               *)
LEMMA SameBox ==
    ASSUME UNCHANGED corebox
    PROVE  /\ \A t, c : Unread(t, c)' <=> Unread(t, c)
           /\ AllTransient(corebox)' <=> AllTransient(corebox)
           /\ Single(corebox)' <=> Single(corebox)
BY Zenon DEF Unread, AllTransient, Single

(* A step of one connecter is no step of another.                          *)
LEMMA Others ==
    ASSUME TypeOK, NEW c \in Connecters, KindOf(c), NEW d \in Connecters, d # c
    PROVE  /\ pc'[d] = pc[d] /\ session'[d] = session[d]
           /\ \A t : Unread(t, d)' <=> Unread(t, d)
           /\ endpoint' = endpoint /\ (d \in mapped' <=> d \in mapped)
<1>1. corebox \in Seq(Events)
  BY Zenon DEF TypeOK
<1>2. ASSUME NEW e \in Events, e.id = c, post(e)
      PROVE  \A t : Unread(t, d)' <=> Unread(t, d)
  BY Zenon, <1>1, <1>2, PostFacts
<1>3. ASSUME UNCHANGED corebox
      PROVE  \A t : Unread(t, d)' <=> Unread(t, d)
  BY Zenon, <1>3, SameBox
<1>4. \A t, error : Event(t, c, error).id = c
  BY Zenon DEF Event
<1>5. \A t : Unread(t, d)' <=> Unread(t, d)
  BY Zenon, <1>2, <1>3, <1>4, EventTypes DEF KindOf, Spawns, Works, Announces, Ends, Passes
<1>6. pc'[d] = pc[d] /\ session'[d] = session[d]
  BY Zenon DEF KindOf, Spawns, Works, Announces, Ends, Passes, Elsewhere
<1>7. endpoint' = endpoint /\ (d \in mapped' <=> d \in mapped)
  BY Zenon DEF KindOf, Spawns, Works, Announces, Ends, Passes, Kept
<1> QED BY Zenon, <1>5, <1>6, <1>7

(* What a step of a connecter leaves unread of its own.                    *)
LEMMA Own ==
    ASSUME TypeOK, NEW c \in Connecters
    PROVE  /\ Spawns(c) => UNCHANGED corebox /\ \A t : ~Unread(t, c)' /\ ~Unread(t, c)
           /\ Works(c) => \A t : Unread(t, c)' => Unread(t, c) \/ (t = CAF /\ pc'[c] = "free")
           /\ Announces(c) => \A t : Unread(t, c)' => Unread(t, c) \/ t = NCE
           /\ Ends(c) => \A t : Unread(t, c)' => Unread(t, c) \/ t = AS
           /\ Passes(c) => \A t : Unread(t, c)' => Unread(t, c) \/ t = "reset"
<1>1. corebox \in Seq(Events)
  BY Zenon DEF TypeOK
<1>2. ASSUME NEW e \in Events, post(e)
      PROVE  \A t : Unread(t, c)' => Unread(t, c) \/ t = e.type
  BY Zenon, <1>1, <1>2, PostFacts
<1>3. \A t, error : Event(t, c, error).type = t
  BY Zenon DEF Event
<1>4. Spawns(c) => UNCHANGED corebox /\ \A t : ~Unread(t, c)' /\ ~Unread(t, c)
  <2>1. Free(c) => \A t : ~Unread(t, c)
    BY Zenon DEF Free, Unread
  <2> QED BY Zenon, <2>1, SameBox DEF Spawns
<1>5. Works(c) => \A t : Unread(t, c)' => Unread(t, c) \/ (t = CAF /\ pc'[c] = "free")
  BY <1>2, <1>3, EventTypes, SameBox DEF Works
<1>6. Announces(c) => \A t : Unread(t, c)' => Unread(t, c) \/ t = NCE
  BY <1>2, <1>3, EventTypes DEF Announces
<1>7. Ends(c) => \A t : Unread(t, c)' => Unread(t, c) \/ t = AS
  BY <1>2, <1>3, EventTypes DEF Ends
<1>8. Passes(c) => \A t : Unread(t, c)' => Unread(t, c) \/ t = "reset"
  BY ZenonT(60), <1>2, <1>3, EventTypes, SameBox DEF Passes
<1> QED BY Zenon, <1>4, <1>5, <1>6, <1>7, <1>8

(* One end and one connection at a time.                                   *)
LEMMA SingleNext ==
    ASSUME TypeOK, SlotInv, NEW c \in Connecters, KindOf(c)
    PROVE  Single(corebox)'
<1>1. corebox \in Seq(Events) /\ Single(corebox) /\ Slot(c)
  BY Zenon DEF TypeOK, SlotInv
<1>2. ASSUME NEW e \in Events, e.id = c, post(e), \A t : Alike(t, e.type) => ~Unread(t, c)
      PROVE  Single(corebox)'
  BY Zenon, <1>1, <1>2, PostFacts
<1>3. \A t, error : Event(t, c, error).id = c /\ Event(t, c, error).type = t
  BY Zenon DEF Event
<1>4. CASE UNCHANGED corebox
  BY Zenon, <1>1, <1>4, SameBox
<1>5. CASE Spawns(c)
  BY ZenonT(60), <1>4, <1>5 DEF Spawns
<1>6. CASE Works(c)
  <2>1. \A t : Alike(t, CAF) => ~Unread(t, c)
    BY Zenon, <1>1, <1>6 DEF Works, Slot, Alike, CAF, AS, NCE
  <2> QED BY <1>2, <1>3, <1>4, <1>6, <2>1, EventTypes DEF Works
<1>7. CASE Announces(c)
  <2>1. \A t : Alike(t, NCE) => ~Unread(t, c)
    BY Zenon, <1>1, <1>7 DEF Announces, Slot, Alike, CAF, AS, NCE
  <2> QED BY ZenonT(60), <1>2, <1>3, <1>7, <2>1, EventTypes DEF Announces
<1>8. CASE Ends(c)
  <2>1. \A t : Alike(t, AS) => ~Unread(t, c)
    BY Zenon, <1>1, <1>8 DEF Ends, Slot, Alike, CAF, AS, NCE
  <2> QED BY <1>2, <1>3, <1>8, <2>1, EventTypes DEF Ends
<1>9. CASE Passes(c)
  <2>1. \A t : ~Alike(t, "reset")
    BY Zenon DEF Alike, CAF, AS, NCE
  <2> QED BY Zenon, <1>2, <1>3, <1>4, <1>9, <2>1, EventTypes DEF Passes
<1> QED BY Zenon, <1>5, <1>6, <1>7, <1>8, <1>9 DEF KindOf

(* A connecter, its session and the core stay in agreement.                *)
LEMMA SlotNext ==
    ASSUME TypeOK, SlotInv, NEW c \in Connecters, KindOf(c)
    PROVE  SlotInv'
<1>1. Slot(c) /\ session[c] \in SessionStates
  BY Zenon DEF TypeOK, SlotInv
<1>2. ASSUME NEW d \in Connecters, d # c PROVE Slot(d)'
  <2>1. /\ pc'[d] = pc[d] /\ session'[d] = session[d]
        /\ \A t : Unread(t, d)' => Unread(t, d)
        /\ endpoint' = d \/ d \in mapped' => endpoint = d \/ d \in mapped
    BY Zenon, <1>2, Others
  <2>2. Slot(d)
    BY Zenon DEF SlotInv
  <2> QED BY Zenon, <2>1, <2>2, SlotSame
<1>3. Slot(c)'
  <2>1. CASE Spawns(c)
    <3>1. \A t : ~Unread(t, c)'
      BY Zenon, <2>1, Own
    <3> QED BY Zenon, <2>1, <3>1 DEF Spawns, Free, Slot, Alive
  <2>2. CASE Works(c)
    <3>1. \A t : Unread(t, c)' => Unread(t, c) \/ (t = CAF /\ pc'[c] = "free")
      BY Zenon, <2>2, Own
    <3>2. endpoint' = endpoint /\ mapped' = mapped
      BY Zenon, <2>2 DEF Works, Kept
    <3>3. /\ pc[c] \notin {"free", "announce"}
          /\ \/ pc'[c] \notin {"free", "announce"} /\ session'[c] = session[c]
             \/ pc'[c] = "announce" /\ session'[c] = "handshake"
             \/ pc'[c] = "free" /\ session'[c] = session[c]
      BY Zenon, <2>2 DEF Works, Still
    <3> QED BY Zenon, <1>1, <3>1, <3>2, <3>3 DEF Slot, Alive, CAF, AS, NCE
  <2>3. CASE Announces(c)
    <3>1. \A t : Unread(t, c)' => Unread(t, c) \/ t = NCE
      BY Zenon, <2>3, Own
    <3> QED BY Zenon, <1>1, <2>3, <3>1 DEF Announces, Slot, Alive, Still, Kept, CAF, AS, NCE
  <2>4. CASE Ends(c)
    <3>1. \A t : Unread(t, c)' => Unread(t, c) \/ t = AS
      BY Zenon, <2>4, Own
    <3> QED BY Zenon, <1>1, <2>4, <3>1 DEF Ends, Slot, Alive, Kept, CAF, AS, NCE
  <2>5. CASE Passes(c)
    <3>1. \A t : Unread(t, c)' => Unread(t, c) \/ t = "reset"
      BY Zenon, <2>5, Own
    <3> QED BY Zenon, <1>1, <2>5, <3>1 DEF Passes, Slot, Alive, Kept, CAF, AS, NCE
  <2> QED BY Zenon, <2>1, <2>2, <2>3, <2>4, <2>5 DEF KindOf
<1>4. \A d \in Connecters : Slot(d)'
  BY Zenon, <1>2, <1>3
<1> QED BY Zenon, <1>4, SingleNext DEF SlotInv

(* A connecter that is started is paid for by a call or by the table.      *)
LEMMA BusyNext ==
    ASSUME TypeOK, BusyInv, NEW c \in Connecters, KindOf(c)
    PROVE  BusyInv'
<1>1. \A d \in Connecters : d # c => (d \in Busy' <=> d \in Busy)
  BY Zenon, Others DEF Busy, Alive
<1>2. calls \in Nat /\ Scheduled \in {0, 1} /\ IsFiniteSet(Busy)
      /\ Cardinality(Busy) + Scheduled <= calls
  BY DEF TypeOK, BusyInv, Scheduled
<1>3. Busy' \subseteq Connecters
  BY Zenon DEF Busy
<1>4. CASE Spawns(c)
  <2>1. Busy' \subseteq Busy \cup {c}
    BY Zenon, <1>1, <1>3
  <2>2. /\ IsFiniteSet(Busy') /\ Cardinality(Busy') \in Nat /\ Cardinality(Busy) \in Nat
        /\ Cardinality(Busy') <= Cardinality(Busy) + 1
    BY Zenon, <1>2, <2>1, Counts
  <2>3. \/ Scheduled' = Scheduled /\ calls' = calls + 1
        \/ Scheduled' = 0 /\ Scheduled = 1 /\ calls' = calls
    BY Zenon, <1>4 DEF Spawns, Scheduled
  <2> QED BY <1>2, <2>2, <2>3 DEF BusyInv
<1>5. CASE ~Spawns(c)
  <2>1. c \in Busy' => c \in Busy
    <3>1. CASE Works(c) \/ Announces(c) \/ Ends(c)
      BY Zenon, <3>1 DEF Works, Announces, Ends, Busy
    <3>2. CASE Passes(c)
      <4>1. \A t : Unread(t, c)' => Unread(t, c) \/ t = "reset"
        BY <3>2, Own
      <4> QED BY Zenon, <3>2, <4>1 DEF Passes, Busy, Alive, CAF, AS
    <3> QED BY Zenon, <1>5, <3>1, <3>2 DEF KindOf
  <2>2. Busy' \subseteq Busy
    BY Zenon, <1>1, <1>3, <2>1
  <2>3. /\ IsFiniteSet(Busy') /\ Cardinality(Busy') \in Nat /\ Cardinality(Busy) \in Nat
        /\ Cardinality(Busy') <= Cardinality(Busy)
    BY Zenon, <1>2, <2>2, Counts
  <2>4. Scheduled' = Scheduled /\ calls' = calls
    BY Zenon, <1>5 DEF KindOf, Works, Announces, Ends, Passes, Kept, Scheduled
  <2> QED BY <1>2, <2>3, <2>4 DEF BusyInv
<1> QED BY Zenon, <1>4, <1>5

(* What a connecter publishes to a core that runs is there to be read.     *)
LEMMA Published ==
    ASSUME TypeOK, NEW c \in Connecters, phase = "Running"
    PROVE  /\ ~Spawns(c) /\ KindOf(c) => \A t, d : Unread(t, d) => Unread(t, d)'
           /\ Announces(c) => Unread(NCE, c)'
           /\ Ends(c) => Unread(AS, c)'
           /\ Works(c) /\ Wanted' => pc'[c] # "free" \/ Unread(CAF, c)'
<1>1. corebox \in Seq(Events) /\ phase # "Closed"
  BY Zenon DEF TypeOK
<1>2. ASSUME NEW e \in Events, post(e)
      PROVE  Unread(e.type, e.id)' /\ \A t, d : Unread(t, d) => Unread(t, d)'
  BY Zenon, <1>1, <1>2, PostFacts
<1>3. \A t, error : Event(t, c, error).id = c /\ Event(t, c, error).type = t
  BY SMTT(30) DEF Event
<1>4. ~Spawns(c) /\ KindOf(c) => \A t, d : Unread(t, d) => Unread(t, d)'
  BY Zenon, <1>2, EventTypes, SameBox DEF KindOf, Works, Announces, Ends, Passes
<1>5. Announces(c) => Unread(NCE, c)'
  <2>1. Event(NCE, c, "none") \in Events /\ Event(NCE, c, "none").id = c
        /\ Event(NCE, c, "none").type = NCE
    BY Zenon, <1>3, EventTypes
  <2> QED BY Zenon, <1>2, <2>1 DEF Announces
<1>6. Ends(c) => Unread(AS, c)'
  <2>1. \A error \in {"none", "transient"} : Event(AS, c, error) \in Events
        /\ Event(AS, c, error).id = c /\ Event(AS, c, error).type = AS
    BY Zenon, <1>3, EventTypes
  <2> QED BY Zenon, <1>2, <2>1 DEF Ends
<1>7. Works(c) /\ Wanted' => pc'[c] # "free" \/ Unread(CAF, c)'
  <2>1. \A error \in {"fatal", "transient"} : Event(CAF, c, error) \in Events
        /\ Event(CAF, c, error).id = c /\ Event(CAF, c, error).type = CAF
    BY Zenon, <1>3, EventTypes
  <2> QED BY Zenon, <1>2, <2>1 DEF Works
<1> QED BY Zenon, <1>4, <1>5, <1>6, <1>7

(* The ends that are published while the target is wanted are transient.   *)
LEMMA TransientNext ==
    ASSUME TypeOK, NEW c \in Connecters, KindOf(c), AllTransient(corebox),
           Wanted', phase = "Running", told = {}
    PROVE  AllTransient(corebox)'
<1>1. corebox \in Seq(Events)
  BY Zenon DEF TypeOK
<1>2. ASSUME NEW e \in Events, post(e), e.type \in {CAF, AS} => e.error = "transient"
      PROVE  AllTransient(corebox)'
  BY Zenon, <1>1, <1>2, PostFacts
<1>3. \A t, error : Event(t, c, error).error = error /\ Event(t, c, error).type = t
  BY Zenon DEF Event
<1>4. CASE UNCHANGED corebox
  BY Zenon, <1>4, SameBox
<1>5. CASE Works(c)
  BY <1>2, <1>3, <1>4, <1>5, EventTypes DEF Works
<1>6. CASE Ends(c)
  BY ZenonT(60), <1>2, <1>3, <1>6, EventTypes DEF Ends
<1>7. CASE Announces(c)
  BY <1>2, <1>3, <1>7, EventTypes DEF Announces, CAF, AS, NCE
<1>8. CASE Passes(c)
  BY <1>2, <1>3, <1>4, <1>8, EventTypes DEF Passes, CAF, AS
<1> QED BY Zenon, <1>4, <1>5, <1>6, <1>7, <1>8 DEF KindOf, Spawns

(* A wanted target stays pursued by a step of a connecter or its session.  *)
LEMMA WantedNext ==
    ASSUME TypeOK, SlotInv, WantedInv, NEW c \in Connecters, KindOf(c), Onward
    PROVE  WantedInv'
<1> SUFFICES ASSUME Wanted'
             PROVE  /\ told' = {}
                    /\ AllTransient(corebox)'
                    /\ \A d \in mapped' : endpoint' = d
                    /\ endpoint' # None => endpoint' \in mapped'
                    /\ \A d \in Connecters : Joined(d)' => Alive(d)' \/ Unread(AS, d)'
                    /\ \A d \in Connecters : Alive(d)' => Joined(d)'
                    /\ calls' > 0 => Pursued'
  BY Zenon DEF WantedInv
<1>1. /\ Wanted /\ phase = "Running" /\ told = {} /\ AllTransient(corebox)
      /\ \A d \in mapped : endpoint = d
      /\ endpoint # None => endpoint \in mapped
      /\ \A d \in Connecters : Joined(d) => Alive(d) \/ Unread(AS, d)
      /\ \A d \in Connecters : Alive(d) => Joined(d)
      /\ calls > 0 => Pursued
  BY SMTT(30) DEF WantedInv, Onward, Wanted
<1>2. told' = {}
  BY Zenon, <1>1 DEF KindOf, Spawns, Works, Announces, Ends, Passes, Kept
<1>3. AllTransient(corebox)'
  BY Zenon, <1>1, TransientNext
<1>4. (\A d \in mapped' : endpoint' = d) /\ (endpoint' # None => endpoint' \in mapped')
  BY ZenonT(60), <1>1 DEF KindOf, Spawns, Works, Announces, Ends, Passes, Kept, Free
<1>5. ASSUME NEW d \in Connecters, d # c
      PROVE  /\ Joined(d)' <=> Joined(d)
             /\ Alive(d)' <=> Alive(d)
             /\ Unread(AS, d)' <=> Unread(AS, d)
  BY ZenonT(60), <1>5, Others DEF Joined, Alive
<1>6. /\ Joined(c)' => Alive(c)' \/ Unread(AS, c)'
      /\ Alive(c)' => Joined(c)'
      /\ calls' > 0 => Pursued'
  <2>0. Slot(c) /\ calls \in Nat
    BY DEF SlotInv, TypeOK
  <2>1. CASE Spawns(c)
    <3>1. ~Unread(NCE, c)'
      BY Zenon, <2>1, Own
    <3> QED BY Zenon, <2>1, <3>1 DEF Spawns, Free, Joined, Alive, Pursued
  <2>2. CASE Works(c)
    <3>1. pc'[c] # "free" \/ Unread(CAF, c)'
      BY Zenon, <1>1, <2>2, Published
    <3>2. Pursued'
      BY Zenon, <3>1 DEF Pursued, CAF
    <3>3. ~Unread(NCE, c)' /\ endpoint' # c
      BY SMTT(30), <2>0, <2>2, Own DEF Works, Kept, Slot, CAF, AS, NCE
    <3>4. ~Alive(c)
      BY Zenon, <2>0, <2>2 DEF Works, Slot, Alive
    <3>5. pc'[c] = "announce" <=> Alive(c)'
      BY Zenon, <2>2, <3>4 DEF Works, Still, Alive
    <3> QED BY Zenon, <3>2, <3>3, <3>5 DEF Joined
  <2>3. CASE Announces(c)
    <3>1. Unread(NCE, c)' /\ (Unread(AS, c) => Unread(AS, c)')
      BY ZenonT(60), <1>1, <2>3, Published DEF KindOf, Announces, Spawns, Free
    <3>2. Alive(c) \/ Unread(AS, c)
      BY ZenonT(60), <1>1, <2>3 DEF Announces, Joined
    <3>3. Alive(c)' <=> Alive(c)
      BY ZenonT(60), <2>3 DEF Announces, Still, Alive
    <3> QED BY Zenon, <3>1, <3>2, <3>3 DEF Joined, Pursued, NCE, AS
  <2>4. CASE Ends(c)
    <3>1. Unread(AS, c)' /\ (Unread(NCE, c) => Unread(NCE, c)')
      BY ZenonT(60), <1>1, <2>4, Published DEF KindOf, Ends, Spawns, Free, Alive
    <3>2. pc[c] = "announce" \/ Unread(NCE, c) \/ endpoint = c
      BY Zenon, <1>1, <2>4 DEF Ends, Joined
    <3>3. ~Alive(c)' /\ pc'[c] = pc[c] /\ endpoint' = endpoint
      BY ZenonT(60), <2>4 DEF Ends, Alive, Kept
    <3> QED BY ZenonT(60), <3>1, <3>2, <3>3 DEF Pursued, NCE, AS
  <2>5. CASE Passes(c)
    <3>1. \A t, d : Unread(t, d) => Unread(t, d)'
      BY ZenonT(60), <1>1, <2>5, Published DEF KindOf, Passes, Spawns, Free
    <3>2. pc'[c] = pc[c] /\ endpoint' = endpoint /\ calls' = calls /\ next_attempt_at' = next_attempt_at
      BY ZenonT(60), <2>5 DEF Passes, Kept
    <3>3. (Alive(c)' <=> Alive(c)) /\ (Unread(NCE, c)' <=> Unread(NCE, c))
      BY ZenonT(60), <2>5, <3>1, Own DEF Passes, Alive, NCE
    <3>4. \A d \in Connecters : pc'[d] = pc[d] /\ (Alive(d)' <=> Alive(d))
      BY ZenonT(60), <1>5, <3>2, <3>3, Others
    <3>5. Pursued => Pursued'
      BY Zenon, <3>1, <3>2, <3>4 DEF Pursued
    <3> QED BY ZenonT(60), <1>1, <3>1, <3>2, <3>3, <3>5 DEF Joined
  <2> QED BY Zenon, <2>1, <2>2, <2>3, <2>4, <2>5 DEF KindOf
<1> QED BY Zenon, <1>1, <1>2, <1>3, <1>4, <1>5, <1>6

(* Telling a session to stop changes nothing else.                         *)
LEMMA TellsNext ==
    ASSUME TypeOK, SlotInv, BusyInv, WantedInv, Tells, Onward
    PROVE  SlotInv' /\ BusyInv' /\ WantedInv'
<1>1. corebox \in Seq(Events) /\ None \notin Connecters
  BY Zenon, ConstantsAssumption DEF TypeOK
<1> DEFINE e == Event("ContextTerminating", None, "none")
<1>2. e \in Events /\ e.type = "ContextTerminating" /\ e.id = None
  BY Zenon, TerminatingType DEF Event
<1> HIDE DEF e
<1>3. UNCHANGED corebox \/ post(e)
  BY Zenon DEF Tells, e
<1>4. /\ \A t : \A d \in Connecters : Unread(t, d)' <=> Unread(t, d)
      /\ AllTransient(corebox) => AllTransient(corebox)'
      /\ Single(corebox) => Single(corebox)'
  <2>1. CASE UNCHANGED corebox
    BY ZenonT(60), <2>1, SameBox
  <2>2. CASE post(e)
    <3>1. ~\E t : Alike(t, e.type)
      BY Zenon, <1>2 DEF Alike, CAF, AS, NCE
    <3>2. e.type \notin {CAF, AS}
      BY Zenon, <1>2 DEF CAF, AS
    <3> QED BY Zenon, <1>1, <1>2, <2>2, <3>1, <3>2, PostFacts
  <2> QED BY Zenon, <1>3, <2>1, <2>2
<1>5. UNCHANGED <<endpoint, mapped, next_attempt_at, calls, pc, session>>
  BY Zenon DEF Tells
<1>6. SlotInv'
  <2>1. \A d \in Connecters : Slot(d)'
    BY Zenon, <1>4, <1>5, SlotSame DEF SlotInv
  <2> QED BY Zenon, <1>4, <2>1 DEF SlotInv
<1>7. Busy' = Busy
  BY Zenon, <1>4, <1>5 DEF Busy, Alive
<1>8. BusyInv'
  BY ZenonT(60), <1>5, <1>7 DEF BusyInv, Scheduled
<1>9. WantedInv'
  <2>1. \A d \in Connecters : /\ Joined(d)' <=> Joined(d)
                              /\ Alive(d)' <=> Alive(d)
                              /\ Unread(AS, d)' <=> Unread(AS, d)
    BY ZenonT(60), <1>4, <1>5 DEF Joined, Alive
  <2>2. Pursued' <=> Pursued
    BY Zenon, <1>4, <1>5, <2>1 DEF Pursued
  <2>3. Wanted' => Wanted /\ told' = told
    BY Zenon DEF Onward, Tells
  <2> QED BY Zenon, <1>4, <1>5, <2>1, <2>2, <2>3 DEF WantedInv
<1> QED BY Zenon, <1>6, <1>8, <1>9

(* The core leaves its loop.                                               *)
LEMMA ExitsNext ==
    ASSUME TypeOK, SlotInv, BusyInv, exit_loop
    PROVE  SlotInv' /\ BusyInv' /\ WantedInv'
<1>1. /\ corebox' = <<>> /\ mapped' = {} /\ next_attempt_at' = None /\ phase' = "Closed"
      /\ UNCHANGED <<endpoint, pc, session, calls>>
  BY Zenon DEF exit_loop, env
<1>2. Len(<<>>) = 0
  BY Zenon
<1>3. (\A t, c : ~Unread(t, c)') /\ Single(corebox)'
  BY <1>1, <1>2 DEF Unread, Single
<1>4. \A d \in Connecters : Slot(d)'
  BY Zenon, <1>1, <1>3, SlotSame DEF SlotInv
<1>5. Busy' \subseteq Busy
  BY Zenon, <1>1, <1>3 DEF Busy, Alive
<1>6. IsFiniteSet(Busy) /\ calls \in Nat /\ Scheduled \in {0, 1}
      /\ Cardinality(Busy) + Scheduled <= calls
  BY DEF BusyInv, TypeOK, Scheduled
<1>7. /\ IsFiniteSet(Busy') /\ Cardinality(Busy') \in Nat /\ Cardinality(Busy) \in Nat
      /\ Cardinality(Busy') <= Cardinality(Busy)
  BY Zenon, <1>5, <1>6, Counts
<1>8. Scheduled' = 0 /\ calls' = calls
  BY Zenon, <1>1 DEF Scheduled
<1>9. BusyInv'
  BY <1>6, <1>7, <1>8 DEF BusyInv
<1>10. WantedInv'
  BY Zenon, <1>1 DEF WantedInv, Wanted
<1> QED BY Zenon, <1>3, <1>4, <1>9, <1>10 DEF SlotInv

(* What reading an event may do to the maps and to the table.              *)
ReadKind(e) ==
    /\ \/ e.type = NCE /\ endpoint' = e.id /\ mapped' = mapped \cup {e.id}
       \/ endpoint' \in {endpoint, None} /\ mapped' \subseteq mapped
    /\ \/ next_attempt_at' \in {next_attempt_at, None}
       \/ e.type = CAF
       \/ e.type = AS /\ endpoint = e.id

(* Reading keeps the connecters and the core in agreement, and what it     *)
(* schedules replaces what has ended.                                      *)
LEMMA ReadsNext ==
    ASSUME TypeOK, SlotInv, BusyInv, corebox # <<>>, corebox' = Tail(corebox),
           NEW e, e = Head(corebox), ReadKind(e), UNCHANGED <<pc, session, calls>>
    PROVE  SlotInv' /\ BusyInv'
<1>1. corebox \in Seq(Events) /\ Single(corebox) /\ None \notin Connecters
  BY Zenon, ConstantsAssumption DEF TypeOK, SlotInv
<1>2. /\ e \in Events
      /\ \A t, c : Unread(t, c) <=> Unread(t, c)' \/ (t = e.type /\ c = e.id)
      /\ Single(corebox)'
      /\ \A t : Alike(t, e.type) => ~Unread(t, e.id)'
  BY Zenon, <1>1, ReadFacts
<1>3. /\ e.type \in {CAF, AS, NCE} => e.id \in Connecters
      /\ Alike(NCE, NCE) /\ \A t, u \in {CAF, AS} : Alike(t, u)
  BY Zenon, <1>2 DEF Events, CAF, AS, NCE, Alike
<1>4. ASSUME NEW d \in Connecters PROVE Slot(d)'
  <2>1. Slot(d)
    BY Zenon DEF SlotInv
  <2>2. CASE endpoint' = d \/ d \in mapped' => endpoint = d \/ d \in mapped
    BY Zenon, <1>2, <2>1, <2>2, SlotSame
  <2>3. CASE e.type = NCE /\ d = e.id
    <3>1. Unread(NCE, d) /\ ~Unread(NCE, d)'
      BY Zenon, <1>2, <1>3, <2>3
    <3>2. pc[d] = "free"
      BY Zenon, <2>1, <3>1 DEF Slot
    <3> QED BY Zenon, <1>2, <2>1, <3>1, <3>2 DEF Slot, Alive
  <2> QED BY Zenon, <1>1, <2>2, <2>3 DEF ReadKind
<1>5. SlotInv'
  BY Zenon, <1>2, <1>4 DEF SlotInv
<1>6. Busy' \subseteq Busy
  BY Zenon, <1>2 DEF Busy, Alive
<1>7. IsFiniteSet(Busy) /\ calls \in Nat /\ Scheduled \in {0, 1} /\ Scheduled' \in {0, 1}
      /\ Cardinality(Busy) + Scheduled <= calls
  BY DEF BusyInv, TypeOK, Scheduled
<1>8. BusyInv'
  <2>1. CASE next_attempt_at' \in {next_attempt_at, None}
    <3>1. Scheduled' <= Scheduled /\ calls' = calls
      BY <2>1 DEF Scheduled
    <3>2. /\ IsFiniteSet(Busy') /\ Cardinality(Busy') \in Nat /\ Cardinality(Busy) \in Nat
          /\ Cardinality(Busy') <= Cardinality(Busy)
      BY ZenonT(60), <1>6, <1>7, Counts
    <3> QED BY <1>7, <3>1, <3>2 DEF BusyInv
  <2>2. CASE e.type = CAF \/ (e.type = AS /\ endpoint = e.id)
    <3> DEFINE c == e.id
    <3>1. c \in Connecters /\ Slot(c) /\ Unread(e.type, c) /\ ~Unread(CAF, c)' /\ ~Unread(AS, c)'
      BY Zenon, <1>2, <1>3, <2>2 DEF SlotInv
    <3> HIDE DEF c
    <3>2. pc[c] = "free" /\ ~Alive(c)
      BY Zenon, <2>2, <3>1 DEF Slot, c
    <3>3. c \in Busy /\ c \notin Busy'
      BY Zenon, <2>2, <3>1, <3>2 DEF Busy, Alive
    <3>4. /\ IsFiniteSet(Busy') /\ Cardinality(Busy') \in Nat /\ Cardinality(Busy) \in Nat
          /\ Cardinality(Busy') + 1 <= Cardinality(Busy)
      BY ZenonT(60), <1>6, <1>7, <3>3, Counts
    <3> QED BY <1>7, <3>4 DEF BusyInv
  <2> QED BY Zenon, <2>1, <2>2 DEF ReadKind
<1> QED BY Zenon, <1>5, <1>8

(* The handlers of the core are of that kind.                              *)
LEMMA ReadIs ==
    ASSUME TypeOK, process_system_event, NEW e, e = Head(corebox)
    PROVE  /\ corebox # <<>> /\ corebox' = Tail(corebox) /\ UNCHANGED <<pc, session, calls>>
           /\ ReadKind(e)
<1>1. /\ corebox # <<>> /\ corebox' = Tail(corebox) /\ UNCHANGED <<pc, session, calls>>
      /\ \/ e.type = NCE /\ handle_new_connection_established(e.id)
         \/ e.type = AS /\ handle_actor_stopping_event(e.id, e.error)
         \/ e.type = CAF /\ handle_connect_failed_event(e.error)
         \/ e.type = "reset" /\ handle_peer_identity_established(e.id)
         \/ e.type = "ContextTerminating" /\ handle_context_terminating
  BY SMTT(30) DEF process_system_event, env, NCE, AS, CAF
<1>2. CASE e.type = NCE /\ handle_new_connection_established(e.id)
  BY Zenon, <1>1, <1>2 DEF handle_new_connection_established, attach_session, core, table, ReadKind
<1>3. CASE e.type = AS /\ handle_actor_stopping_event(e.id, e.error)
  BY Zenon, <1>1, <1>3 DEF handle_actor_stopping_event, core, table, ReadKind
<1>4. CASE e.type = CAF /\ handle_connect_failed_event(e.error)
  BY Zenon, <1>1, <1>4 DEF handle_connect_failed_event, core, table, ReadKind
<1>5. CASE e.type = "reset" /\ handle_peer_identity_established(e.id)
  BY Zenon, <1>1, <1>5 DEF handle_peer_identity_established, on_connection_success, core, table, ReadKind
<1>6. CASE e.type = "ContextTerminating" /\ handle_context_terminating
  BY Zenon, <1>1, <1>6 DEF handle_context_terminating, table, ReadKind
<1> QED BY Zenon, <1>1, <1>2, <1>3, <1>4, <1>5, <1>6

(* What the core reads never makes it forget a target that is wanted.      *)
LEMMA WantedRead ==
    ASSUME TypeOK, SlotInv, WantedInv, process_system_event
    PROVE  WantedInv'
<1> DEFINE e == Head(corebox)
<1>1. /\ corebox # <<>> /\ corebox' = Tail(corebox)
      /\ UNCHANGED <<pc, session, calls, terminating>>
      /\ \/ e.type = NCE /\ handle_new_connection_established(e.id)
         \/ e.type = AS /\ handle_actor_stopping_event(e.id, e.error)
         \/ e.type = CAF /\ handle_connect_failed_event(e.error)
         \/ e.type = "reset" /\ handle_peer_identity_established(e.id)
         \/ e.type = "ContextTerminating" /\ handle_context_terminating
  BY Zenon DEF process_system_event, env, NCE, AS, CAF
<1>2. corebox \in Seq(Events) /\ None \notin Connecters \cup Nat /\ mapped \subseteq Connecters
      /\ current_attempts \in 0..ExpCap
  BY Zenon, ConstantsAssumption DEF TypeOK
<1>3. /\ e \in Events
      /\ \A t, c : Unread(t, c) <=> Unread(t, c)' \/ (t = e.type /\ c = e.id)
      /\ AllTransient(corebox) =>
            AllTransient(corebox)' /\ (e.type \in {CAF, AS} => e.error = "transient")
  BY Zenon, <1>1, <1>2, ReadFacts
<1>4. e.type \in {CAF, AS, NCE, "reset"} => e.id \in Connecters
  BY Zenon, <1>3 DEF Events, CAF, AS, NCE
<1> HIDE DEF e
<1>5. \A d \in Connecters : pc'[d] = pc[d] /\ (Alive(d)' <=> Alive(d)) /\ Slot(d)
  BY Zenon, <1>1 DEF Alive, SlotInv
<1> SUFFICES ASSUME Wanted'
             PROVE  /\ told' = {}
                    /\ AllTransient(corebox)'
                    /\ \A d \in mapped' : endpoint' = d
                    /\ endpoint' # None => endpoint' \in mapped'
                    /\ \A d \in Connecters : Joined(d)' => Alive(d)' \/ Unread(AS, d)'
                    /\ \A d \in Connecters : Alive(d)' => Joined(d)'
                    /\ calls' > 0 => Pursued'
  BY Zenon DEF WantedInv
<1>6. phase' = "Running" /\ ~terminating' /\ reconnect_ivl # None /\ ~givenUp'
  BY Zenon DEF Wanted
<1>7. Wanted
  <2>1. phase = "Running"
    BY Zenon, <1>1, <1>6 DEF handle_new_connection_established, attach_session, core,
       handle_actor_stopping_event, handle_connect_failed_event,
       handle_peer_identity_established, handle_context_terminating
  <2>2. givenUp => givenUp'
    BY Zenon, <1>1 DEF handle_new_connection_established, attach_session,
       handle_actor_stopping_event, handle_connect_failed_event,
       handle_peer_identity_established, handle_context_terminating
  <2> QED BY ZenonT(60), <1>1, <1>6, <2>1, <2>2 DEF Wanted
<1>8. /\ phase = "Running" /\ told = {} /\ AllTransient(corebox)
      /\ \A d \in mapped : endpoint = d
      /\ endpoint # None => endpoint \in mapped
      /\ \A d \in Connecters : Joined(d) => Alive(d) \/ Unread(AS, d)
      /\ \A d \in Connecters : Alive(d) => Joined(d)
      /\ calls > 0 => Pursued
  BY Zenon, <1>7 DEF WantedInv, Wanted
<1>9. AllTransient(corebox)'
  BY ZenonT(60), <1>3, <1>8
<1>10. ASSUME reconnect_or_not("transient") PROVE next_attempt_at' # None /\ Pursued'
  <2>1. next_attempt_at' = backoff(current_attempts)
    BY Zenon, <1>6, <1>10 DEF reconnect_or_not, on_connection_failure
  <2>2. backoff(current_attempts) \in Nat
    BY Zenon, <1>2, <1>6, Delays
  <2> QED BY Zenon, <1>2, <2>1, <2>2 DEF Pursued
<1>11. CASE e.type = NCE /\ handle_new_connection_established(e.id)
  <2> DEFINE c == e.id
  <2>1. /\ c \in Connecters /\ endpoint = None /\ endpoint' = c /\ mapped' = mapped \cup {c}
        /\ told' = told /\ next_attempt_at' = next_attempt_at
    BY Zenon, <1>4, <1>6, <1>8, <1>11
       DEF handle_new_connection_established, attach_session, table
  <2>2. mapped' = {c}
    BY Zenon, <1>2, <1>8, <2>1
  <2>3. /\ Unread(NCE, c) /\ \A d : Unread(AS, d)' <=> Unread(AS, d)
        /\ \A d : Unread(CAF, d)' <=> Unread(CAF, d)
        /\ \A d : Unread(NCE, d) <=> Unread(NCE, d)' \/ d = c
    BY <1>3, <1>11 DEF NCE, AS, CAF
  <2> HIDE DEF c
  <2>4. \A d \in Connecters : Joined(d)' <=> Joined(d)
    BY Zenon, <1>2, <1>5, <2>1, <2>3 DEF Joined
  <2>5. Pursued => Pursued'
    BY SMTT(30), <1>2, <1>5, <2>1, <2>3 DEF Pursued, NCE, AS, CAF
  <2> QED BY <1>1, <1>5, <1>8, <1>9, <2>1, <2>2, <2>3, <2>4, <2>5
<1>12. CASE e.type = AS /\ handle_actor_stopping_event(e.id, e.error)
  <2> DEFINE c == e.id
  <2>1. c \in Connecters /\ endpoint = c /\ e.error = "transient"
    BY Zenon, <1>3, <1>4, <1>6, <1>8, <1>12 DEF handle_actor_stopping_event
  <2>2. /\ endpoint' = None /\ mapped' = mapped \ {c} /\ told' = told
        /\ reconnect_or_not("transient")
    BY Zenon, <1>8, <1>12, <2>1 DEF handle_actor_stopping_event
  <2>3. mapped' = {}
    BY Zenon, <1>8, <2>1, <2>2
  <2>4. /\ Unread(AS, c) /\ \A d : Unread(NCE, d)' <=> Unread(NCE, d)
        /\ \A d : d # c => (Unread(AS, d)' <=> Unread(AS, d))
    BY <1>3, <1>12 DEF NCE, AS
  <2> HIDE DEF c
  <2>5. pc[c] = "free" /\ ~Unread(NCE, c) /\ ~Alive(c)
    BY Zenon, <1>5, <2>1, <2>4 DEF Slot
  <2>6. \A d \in Connecters : (Joined(d)' <=> Joined(d) /\ d # c) /\ Joined(c)
    BY SMTT(30), <1>2, <1>5, <2>1, <2>2, <2>4, <2>5 DEF Joined
  <2> QED BY Zenon, <1>1, <1>5, <1>8, <1>9, <1>10, <2>2, <2>3, <2>4, <2>5, <2>6
<1>13. CASE e.type # NCE /\ e.type # AS
  <2>1. /\ \A d : Unread(NCE, d)' <=> Unread(NCE, d)
        /\ \A d : Unread(AS, d)' <=> Unread(AS, d)
    BY Zenon, <1>3, <1>13
  <2>2. UNCHANGED <<endpoint, mapped, told>>
    BY Zenon, <1>1, <1>13 DEF handle_connect_failed_event, handle_peer_identity_established,
       handle_context_terminating, core
  <2>3. \A d \in Connecters : Joined(d)' <=> Joined(d)
    BY ZenonT(60), <1>5, <2>1, <2>2 DEF Joined
  <2>4. Pursued => Pursued'
    <3>1. CASE e.type = CAF /\ handle_connect_failed_event(e.error)
      BY ZenonT(60), <1>3, <1>8, <1>10, <3>1 DEF handle_connect_failed_event
    <3>2. CASE e.type = "reset" /\ handle_peer_identity_established(e.id)
      <4>1. \A d : Unread(CAF, d)' <=> Unread(CAF, d)
        BY SMTT(30), <1>3, <3>2 DEF CAF
      <4>2. CASE e.id \in mapped
        <5>1. e.id \in Connecters /\ endpoint = e.id /\ (Alive(e.id) \/ Unread(AS, e.id))
          BY Zenon, <1>4, <1>8, <3>2, <4>2 DEF Joined
        <5> QED BY Zenon, <1>5, <2>1, <2>2, <5>1 DEF Pursued, AS
      <4>3. CASE e.id \notin mapped
        <5>1. next_attempt_at' = next_attempt_at
          BY Zenon, <3>2, <4>3 DEF handle_peer_identity_established, table
        <5> QED BY ZenonT(60), <1>5, <2>1, <2>2, <4>1, <5>1 DEF Pursued, NCE, AS, CAF
      <4> QED BY Zenon, <4>2, <4>3
    <3>3. CASE e.type = "ContextTerminating" /\ handle_context_terminating
      BY Zenon, <1>6, <1>8, <3>3 DEF handle_context_terminating
    <3> QED BY Zenon, <1>1, <1>13, <3>1, <3>2, <3>3
  <2> QED BY Zenon, <1>1, <1>5, <1>8, <1>9, <2>1, <2>2, <2>3, <2>4
<1>14. e.type = NCE => handle_new_connection_established(e.id)
  BY Zenon, <1>1 DEF NCE, AS, CAF
<1>15. e.type = AS => handle_actor_stopping_event(e.id, e.error)
  BY Zenon, <1>1 DEF NCE, AS, CAF
<1> QED BY ZenonT(60), <1>11, <1>12, <1>13, <1>14, <1>15

-----------------------------------------------------------------------------
(* Each action keeps the types and is of one of the kinds.                 *)

TypeCore ==
    /\ phase \in {"Running", "Closing", "Closed"} /\ terminating \in BOOLEAN
    /\ endpoint \in Connecters \cup {None} /\ mapped \subseteq Connecters
    /\ current_attempts \in 0..ExpCap /\ next_attempt_at \in Nat \cup {None}
    /\ told \subseteq Connecters /\ calls \in 0..MaxConnects /\ lags \in 0..MaxLags
    /\ givenUp \in BOOLEAN
TypeTask ==
    /\ pc \in [Connecters -> Places] /\ retry_delay \in [Connecters -> Nat]
    /\ rx \in [Connecters -> Seq({"stop", "other"})] /\ lagged \in [Connecters -> BOOLEAN]
    /\ session \in [Connecters -> SessionStates]

(* TypeOK in three parts.                                                  *)
LEMMA TypeParts ==
    /\ TypeOK <=> TypeCore /\ TypeTask /\ corebox \in Seq(Events)
    /\ TypeOK' <=> TypeCore' /\ TypeTask' /\ corebox' \in Seq(Events)
BY Zenon DEF TypeOK, TypeCore, TypeTask

(* A connecter that is started.                                            *)
LEMMA SpawnSteps ==
    ASSUME TypeOK, NEW c \in Connecters, handle_user_connect(c) \/ maintenance_tick(c)
    PROVE  TypeOK' /\ Spawns(c) /\ Onward /\ rx' = rx /\ phase' = phase /\ terminating' = terminating
<1>1. TypeCore /\ TypeTask /\ corebox \in Seq(Events)
  BY Zenon, TypeParts
<1>2. /\ respawn_connecter_actor(c) /\ rx' = rx /\ lagged' = lagged /\ corebox' = corebox
      /\ endpoint' = endpoint /\ phase' = phase /\ terminating' = terminating
      /\ givenUp' = givenUp /\ lags' = lags /\ current_attempts' = current_attempts
      /\ \/ next_attempt_at' = next_attempt_at /\ calls' = calls + 1 /\ calls < MaxConnects
         \/ next_attempt_at # None /\ next_attempt_at' = None /\ calls' = calls
  BY Zenon DEF handle_user_connect, maintenance_tick, receivers, table, env
<1>3. inherited_delay(current_attempts) \in Nat
  BY Zenon, <1>1, Delays DEF TypeCore
<1>4. TypeTask'
  BY ZenonT(60), <1>1, <1>2, <1>3 DEF TypeTask, respawn_connecter_actor, Places, SessionStates
<1>5. TypeCore'
  BY <1>1, <1>2, ConstantsAssumption DEF TypeCore, respawn_connecter_actor
<1>6. Spawns(c)
  BY Zenon, <1>1, <1>2 DEF Spawns, respawn_connecter_actor, TypeTask, Elsewhere
<1>7. Onward
  BY Zenon, <1>2 DEF Onward, Wanted
<1> QED BY ZenonT(60), <1>1, <1>2, <1>4, <1>5, <1>6, <1>7, TypeParts

(* The end of a connecter's task.                                          *)
LEMMA EndTask ==
    ASSUME TypeTask, NEW c \in Connecters, end_task(c), UNCHANGED session
    PROVE  TypeTask' /\ pc'[c] = "free" /\ Still(c) /\ Elsewhere(c)
           /\ \A d \in Connecters : rx'[d] = IF d = c THEN <<>> ELSE rx[d]
BY DEF TypeTask, end_task, Places, Still, Elsewhere

(* The core is not touched by a connecter.                                 *)
LEMMA CoreOnly ==
    ASSUME TypeCore, UNCHANGED coreOnly, givenUp' \in {givenUp, TRUE}
    PROVE  TypeCore' /\ Kept /\ Onward /\ phase' = phase /\ terminating' = terminating
<1>1. UNCHANGED <<phase, endpoint, mapped, current_attempts, next_attempt_at, terminating, calls, lags, told>>
  BY Zenon DEF coreOnly, core, table, env
<1>2. TypeCore'
  BY Zenon, <1>1 DEF TypeCore
<1>3. Onward
  BY Zenon, <1>1 DEF Onward, Wanted, TypeCore
<1> QED BY Zenon, <1>1, <1>2, <1>3 DEF Kept

(* A set of numbers has a first one.                                       *)
LEMMA FirstOf ==
    ASSUME NEW S, S \subseteq Nat, S # {}
    PROVE  \E i \in S : \A j \in S : i <= j
<1>1. PICK x \in S : \A y \in S : ~(<<y, x>> \in OpToRel(<, Nat))
  BY Zenon, NatLessThanWellFounded, WFMin
<1>2. ASSUME NEW y \in S PROVE x <= y
  <2>1. ~(<<y, x>> \in OpToRel(<, Nat))
    BY Zenon, <1>1
  <2>2. ~(y < x)
    BY Zenon, <2>1 DEF OpToRel
  <2> QED BY <2>2
<1> QED BY Zenon, <1>2

(* A receiver's queue, and the queues with no stop.                        *)
Box == Seq({"stop", "other"})
Calm(q) == {i \in 1..Len(q) : q[i] = "stop"} = {}

(* What a connecter does with its queue.                                   *)
LEMMA RxFacts ==
    ASSUME NEW q \in Box
    PROVE  /\ <<>> \in Box /\ Calm(<<>>)
           /\ Append(q, "other") \in Box /\ (Calm(q) => Calm(Append(q, "other")))
           /\ Append(q, "stop") \in Box
           /\ q # <<>> => /\ Tail(q) \in Box /\ (Calm(q) => Calm(Tail(q)))
                          /\ Head(q) = "stop" => ~Calm(q)
<1>1. <<>> \in Box /\ Calm(<<>>)
  <2>1. Len(<<>>) = 0
    BY Zenon
  <2> QED BY <2>1 DEF Box, Calm
<1>2. ASSUME NEW x \in {"stop", "other"}
      PROVE  /\ Append(q, x) \in Box /\ Len(Append(q, x)) = Len(q) + 1 /\ Len(q) \in Nat
             /\ \A i \in 1..Len(q) : Append(q, x)[i] = q[i]
             /\ Append(q, x)[Len(q) + 1] = x
  BY AppendProperties, LenProperties DEF Box
<1>3. Calm(q) => Calm(Append(q, "other"))
  <2> DEFINE r == Append(q, "other")
  <2>1. /\ Len(r) = Len(q) + 1 /\ Len(q) \in Nat /\ r[Len(q) + 1] = "other"
        /\ \A i \in 1..Len(q) : r[i] = q[i]
    BY Zenon, <1>2
  <2> HIDE DEF r
  <2>2. Calm(q) => Calm(r)
    BY <2>1 DEF Calm
  <2> QED BY Zenon, <2>2 DEF r
<1>4. ASSUME q # <<>>
      PROVE  Tail(q) \in Box /\ (Calm(q) => Calm(Tail(q))) /\ (Head(q) = "stop" => ~Calm(q))
  <2> DEFINE r == Tail(q)
  <2>1. /\ r \in Box /\ Len(r) = Len(q) - 1 /\ Len(r) \in Nat /\ Len(q) \in Nat
        /\ \A i \in 1..Len(r) : r[i] = q[i + 1]
        /\ Head(q) = q[1]
    BY <1>4, HeadTailProperties, LenProperties DEF Box
  <2> HIDE DEF r
  <2>2. \A i \in 1..Len(r) : i + 1 \in 1..Len(q)
    BY <2>1
  <2>3. (Calm(q) => Calm(r)) /\ (Head(q) = "stop" => ~Calm(q))
    BY SMTT(30), <2>1, <2>2 DEF Calm
  <2> QED BY Zenon, <2>1, <2>3 DEF r
<1> QED BY Zenon, <1>1, <1>2, <1>3, <1>4

(* What an attempt leaves unread.                                          *)
LEMMA AfterFacts ==
    ASSUME TypeTask, NEW c \in Connecters
    PROVE  after_events(c) \in Box /\ (Calm(rx[c]) => Calm(after_events(c)))
<1>1. rx[c] \in Box /\ Stops(c) \subseteq 1..Len(rx[c]) /\ Len(rx[c]) \in Nat
  BY Zenon, LenProperties DEF TypeTask, Box, Stops
<1>2. CASE lagged[c] \/ Stops(c) = {}
  BY Zenon, <1>1, <1>2, RxFacts DEF after_events
<1>3. CASE ~lagged[c] /\ Stops(c) # {}
  <2> DEFINE n == CHOOSE i \in Stops(c) : \A j \in Stops(c) : i <= j
  <2>1. n \in Stops(c)
    <3>1. Stops(c) \subseteq Nat
      BY <1>1
    <3>2. \E i \in Stops(c) : \A j \in Stops(c) : i <= j
      BY Zenon, <1>3, <3>1, FirstOf
    <3> QED BY Zenon, <3>2
  <2>2. after_events(c) = SubSeq(rx[c], 1 + n, Len(rx[c]))
    BY Zenon, <1>3 DEF after_events
  <2> HIDE DEF n
  <2>3. 1 + n \in 1..Len(rx[c]) + 1 /\ n \in 1..Len(rx[c])
    BY <1>1, <2>1
  <2>4. SubSeq(rx[c], 1 + n, Len(rx[c])) \in Box
    BY <1>1, <2>3, SubSeqProperties DEF Box
  <2>5. ~Calm(rx[c])
    BY Zenon, <1>3 DEF Calm, Stops
  <2> QED BY Zenon, <2>2, <2>4, <2>5
<1> QED BY Zenon, <1>2, <1>3

(* No stop event comes with the step.                                      *)
NoStop ==
    /\ phase' = phase /\ terminating' = terminating
    /\ \A d \in Connecters : Calm(rx[d]) => Calm(rx'[d])

(* Without one there is none.                                              *)
LEMMA StopKept ==
    ASSUME StopInv, NoStop
    PROVE  StopInv'
<1>1. \A d \in Connecters : (Stops(d) = {} <=> Calm(rx[d])) /\ (Stops(d)' = {} <=> Calm(rx'[d]))
  BY Zenon DEF Stops, Calm
<1> QED BY Zenon, <1>1 DEF StopInv, NoStop

(* A queue that is replaced by another.                                    *)
LEMMA RxEdit ==
    ASSUME NEW c \in Connecters, NEW q \in Box, Calm(rx[c]) => Calm(q),
           rx \in [Connecters -> Box], rx' = [rx EXCEPT ![c] = q]
    PROVE  rx' \in [Connecters -> Box] /\ \A d \in Connecters : Calm(rx[d]) => Calm(rx'[d])
BY Zenon

(* The end of a task, with a report or without.                            *)
LEMMA Stopping ==
    ASSUME TypeOK, NEW c \in Connecters, pc[c] \notin {"free", "announce"},
           UNCHANGED <<coreOnly, session>>, givenUp' \in {givenUp, TRUE}
    PROVE  /\ stop_silently(c) /\ ~Wanted' => TypeOK' /\ Works(c) /\ Onward /\ NoStop
           /\ \A error \in {"fatal", "transient"} :
                 stop_with_report(c, error) /\ (Wanted' => error = "transient")
                    => TypeOK' /\ Works(c) /\ Onward /\ NoStop
<1>1. TypeCore /\ TypeTask /\ corebox \in Seq(Events)
  BY Zenon, TypeParts
<1>2. TypeCore' /\ Kept /\ Onward /\ phase' = phase /\ terminating' = terminating
  BY Zenon, <1>1, CoreOnly
<1>3. ASSUME end_task(c)
      PROVE  TypeTask' /\ pc'[c] = "free" /\ Still(c) /\ Elsewhere(c) /\ NoStop
  <2>1. /\ TypeTask' /\ pc'[c] = "free" /\ Still(c) /\ Elsewhere(c)
        /\ \A d \in Connecters : rx'[d] = IF d = c THEN <<>> ELSE rx[d]
    BY Zenon, <1>1, <1>3, EndTask
  <2>2. Calm(<<>>)
    BY Zenon, <1>1, RxFacts DEF TypeTask, Box
  <2> QED BY Zenon, <1>2, <2>1, <2>2 DEF NoStop
<1>4. ASSUME stop_silently(c), ~Wanted' PROVE TypeOK' /\ Works(c) /\ Onward /\ NoStop
  <2>1. end_task(c) /\ corebox' = corebox
    BY ZenonT(60), <1>4 DEF stop_silently
  <2> QED BY Zenon, <1>1, <1>2, <1>3, <1>4, <2>1, TypeParts DEF Works
<1>5. ASSUME NEW error \in {"fatal", "transient"}, stop_with_report(c, error),
             Wanted' => error = "transient"
      PROVE  TypeOK' /\ Works(c) /\ Onward /\ NoStop
  <2>1. end_task(c) /\ post(Event(CAF, c, error))
    BY ZenonT(60), <1>5 DEF stop_with_report, CAF
  <2>2. corebox' \in Seq(Events)
    BY Zenon, <1>1, <2>1, EventTypes, PostFacts
  <2> QED BY ZenonT(60), <1>2, <1>3, <1>5, <2>1, <2>2, TypeParts DEF Works
<1> QED BY Zenon, <1>4, <1>5

(* A connecter that goes on.                                               *)
LEMMA GoesOn ==
    ASSUME TypeOK, NEW c \in Connecters, pc[c] \notin {"free", "announce"},
           UNCHANGED <<coreOnly, session, givenUp, corebox>>,
           NEW p \in Places \ {"free", "announce"}, pc' = [pc EXCEPT ![c] = p],
           NEW q \in Box, Calm(rx[c]) => Calm(q), rx' = [rx EXCEPT ![c] = q],
           retry_delay' \in [Connecters -> Nat], lagged' \in [Connecters -> BOOLEAN]
    PROVE  TypeOK' /\ Works(c) /\ Onward /\ NoStop
<1>1. TypeCore /\ TypeTask /\ corebox \in Seq(Events)
  BY Zenon, TypeParts
<1>2. TypeCore' /\ Kept /\ Onward /\ phase' = phase /\ terminating' = terminating
  BY ZenonT(60), <1>1, CoreOnly
<1>3. rx' \in [Connecters -> Box] /\ NoStop
  BY Zenon, <1>1, <1>2, RxEdit DEF TypeTask, Box, NoStop
<1>4. pc' \in [Connecters -> Places] /\ pc'[c] = p /\ Still(c) /\ Elsewhere(c)
  BY Zenon, <1>1 DEF TypeTask, Still, Elsewhere
<1>5. TypeTask'
  BY Zenon, <1>1, <1>3, <1>4 DEF TypeTask, Box
<1> QED BY ZenonT(60), <1>1, <1>2, <1>3, <1>4, <1>5, TypeParts DEF Works

(* The steps of a connecter up to its announcement.                        *)
LEMMA WorkSteps ==
    ASSUME TypeOK, StopInv, NEW c \in Connecters,
           \/ subscribe(c) \/ wait_for_retry_delay(c) \/ pre_connect(c)
           \/ connect_aborted(c) \/ connect_fails(c)
    PROVE  TypeOK' /\ Works(c) /\ Onward /\ NoStop
<1>1. /\ TypeCore /\ TypeTask /\ corebox \in Seq(Events) /\ rx[c] \in Box
      /\ retry_delay \in [Connecters -> Nat] /\ lagged \in [Connecters -> BOOLEAN]
      /\ rx = [rx EXCEPT ![c] = rx[c]]
  BY Zenon, TypeParts DEF TypeTask, Box
<1>2. /\ <<>> \in Box /\ Calm(<<>>)
      /\ rx[c] # <<>> => Tail(rx[c]) \in Box /\ (Calm(rx[c]) => Calm(Tail(rx[c])))
      /\ rx[c] # <<>> /\ Head(rx[c]) = "stop" => ~Calm(rx[c])
  BY Zenon, <1>1, RxFacts
<1>3. after_events(c) \in Box /\ (Calm(rx[c]) => Calm(after_events(c)))
  BY Zenon, <1>1, AfterFacts
<1>4. {"delay", "pre", "connecting"} \subseteq Places \ {"free", "announce"}
  BY Zenon DEF Places
<1>5. [lagged EXCEPT ![c] = FALSE] \in [Connecters -> BOOLEAN]
      /\ [retry_delay EXCEPT ![c] = doubled(retry_delay[c])] \in [Connecters -> Nat]
  <2>1. doubled(retry_delay[c]) \in Nat
    BY Zenon, <1>1, Delays DEF TypeCore
  <2> QED BY Zenon, <1>1, <2>1
<1>6. CASE subscribe(c)
  <2>1. /\ pc[c] \notin {"free", "announce"} /\ pc' = [pc EXCEPT ![c] = "pre"]
        /\ UNCHANGED <<coreOnly, session, givenUp, corebox>>
        /\ rx' = [rx EXCEPT ![c] = <<>>] /\ retry_delay' = retry_delay
        /\ lagged' = [lagged EXCEPT ![c] = FALSE]
    BY <1>6 DEF subscribe
  <2> QED BY ZenonT(60), <1>1, <1>2, <1>4, <1>5, <2>1, GoesOn
<1>7. CASE wait_for_retry_delay(c)
  <2>1. pc[c] \notin {"free", "announce"} /\ UNCHANGED <<coreOnly, session>>
    BY <1>7 DEF wait_for_retry_delay
  <2>2. ASSUME next_try(c), NEW q \in Box, Calm(rx[c]) => Calm(q), rx' = [rx EXCEPT ![c] = q],
               lagged' = lagged
        PROVE  TypeOK' /\ Works(c) /\ Onward /\ NoStop
    <3>1. /\ pc' = [pc EXCEPT ![c] = "pre"] /\ UNCHANGED <<coreOnly, session, givenUp, corebox>>
          /\ retry_delay' = [retry_delay EXCEPT ![c] = doubled(retry_delay[c])]
      BY ZenonT(60), <2>1, <2>2 DEF next_try
    <3> QED BY Zenon, <1>1, <1>4, <1>5, <2>1, <2>2, <3>1, GoesOn
  <2>3. CASE next_try(c) /\ UNCHANGED receivers
    BY Zenon, <1>1, <2>2, <2>3 DEF receivers
  <2>4. CASE next_try(c) /\ take_event(c) /\ rx[c] # <<>>
    <3>1. rx' = [rx EXCEPT ![c] = Tail(rx[c])] /\ lagged' = lagged
      BY Zenon, <2>4 DEF take_event
    <3> QED BY Zenon, <1>2, <2>2, <2>4, <3>1
  <2>5. CASE rx[c] # <<>> /\ Head(rx[c]) = "stop" /\ stop_silently(c) /\ UNCHANGED givenUp
    <3>1. ~Calm(rx[c])
      BY Zenon, <1>2, <2>5
    <3>2. ~(phase = "Running" /\ ~terminating)
      BY ZenonT(60), <3>1 DEF StopInv, Stops, Calm
    <3>3. ~Wanted'
      BY Zenon, <1>1, <2>1, <2>5, <3>2, CoreOnly DEF Wanted
    <3> QED BY ZenonT(60), <2>1, <2>5, <3>3, Stopping
  <2>6. CASE stop_silently(c) /\ givenUp' = TRUE
    BY ZenonT(60), <2>1, <2>6, Stopping DEF Wanted
  <2> QED BY ZenonT(60), <1>7, <2>3, <2>4, <2>5, <2>6 DEF wait_for_retry_delay
<1>8. CASE pre_connect(c)
  <2>1. pc[c] \notin {"free", "announce"} /\ UNCHANGED <<coreOnly, session>> /\ givenUp' = givenUp
    BY ZenonT(60), <1>8 DEF pre_connect
  <2>2. CASE stop_with_report(c, "transient")
    BY Zenon, <2>1, <2>2, Stopping
  <2>3. CASE /\ pc' = [pc EXCEPT ![c] = "connecting"]
             /\ rx' = [rx EXCEPT ![c] = IF @ = <<>> THEN @ ELSE Tail(@)]
             /\ UNCHANGED <<corebox, retry_delay, lagged>>
    <3> DEFINE q == IF rx[c] = <<>> THEN rx[c] ELSE Tail(rx[c])
    <3>1. q \in Box /\ (Calm(rx[c]) => Calm(q)) /\ rx' = [rx EXCEPT ![c] = q]
      BY Zenon, <1>1, <1>2, <2>3
    <3> HIDE DEF q
    <3>2. UNCHANGED <<coreOnly, session, givenUp, corebox>>
      BY ZenonT(60), <2>1, <2>3
    <3> QED BY Zenon, <1>1, <1>4, <2>1, <2>3, <3>1, <3>2, GoesOn
  <2> QED BY Zenon, <1>8, <2>2, <2>3 DEF pre_connect
<1>9. ASSUME pc[c] = "connecting", NEW error \in {"fatal", "transient"}, attempt_failed(c, error),
             UNCHANGED <<coreOnly, session>>
      PROVE  TypeOK' /\ Works(c) /\ Onward /\ NoStop
  <2>1. CASE error = "fatal" \/ no_retry_after_first_connect_fail
    <3>1. stop_with_report(c, error) /\ givenUp' = TRUE
      BY Zenon, <1>9, <2>1 DEF attempt_failed
    <3> QED BY ZenonT(60), <1>9, <3>1, Stopping DEF Wanted
  <2>2. CASE ~(error = "fatal" \/ no_retry_after_first_connect_fail)
    <3>1. /\ pc' = [pc EXCEPT ![c] = "delay"] /\ rx' = [rx EXCEPT ![c] = after_events(c)]
          /\ lagged' = [lagged EXCEPT ![c] = FALSE] /\ retry_delay' = retry_delay
          /\ UNCHANGED <<coreOnly, session, givenUp, corebox>>
      BY ZenonT(60), <1>9, <2>2 DEF attempt_failed
    <3> QED BY Zenon, <1>1, <1>3, <1>4, <1>5, <1>9, <3>1, GoesOn
  <2> QED BY Zenon, <2>1, <2>2
<1>10. CASE connect_aborted(c)
  BY Zenon, <1>9, <1>10 DEF connect_aborted
<1>11. CASE connect_fails(c)
  BY ZenonT(60), <1>9, <1>11 DEF connect_fails
<1> QED BY ZenonT(60), <1>6, <1>7, <1>8, <1>10, <1>11

(* The steps that make a connection.                                       *)
LEMMA ConnectSteps ==
    ASSUME TypeOK, NEW c \in Connecters, connect_succeeds(c) \/ announce(c)
    PROVE  TypeOK' /\ KindOf(c) /\ Onward /\ NoStop
<1>1. TypeCore /\ TypeTask /\ corebox \in Seq(Events) /\ UNCHANGED coreOnly /\ givenUp' = givenUp
  BY Zenon, TypeParts DEF connect_succeeds, announce
<1>2. TypeCore' /\ Kept /\ Onward /\ phase' = phase /\ terminating' = terminating
  BY Zenon, <1>1, CoreOnly
<1>3. CASE connect_succeeds(c)
  <2>1. /\ pc[c] = "connecting" /\ pc' = [pc EXCEPT ![c] = "announce"]
        /\ session' = [session EXCEPT ![c] = "handshake"]
        /\ UNCHANGED <<corebox, retry_delay, rx, lagged>>
    BY Zenon, <1>3 DEF connect_succeeds, receivers
  <2>2. TypeTask'
    BY ZenonT(60), <1>1, <2>1 DEF TypeTask, Places, SessionStates
  <2>3. Works(c) /\ NoStop
    BY Zenon, <1>1, <1>2, <2>1 DEF Works, NoStop, TypeTask, Elsewhere
  <2> QED BY <1>1, <1>2, <2>1, <2>2, <2>3, TypeParts DEF KindOf
<1>4. CASE announce(c)
  <2>1. pc[c] = "announce" /\ end_task(c) /\ post(Event(NCE, c, "none")) /\ session' = session
    BY ZenonT(60), <1>4 DEF announce, NCE
  <2>2. /\ TypeTask' /\ pc'[c] = "free" /\ Still(c) /\ Elsewhere(c)
        /\ \A d \in Connecters : rx'[d] = IF d = c THEN <<>> ELSE rx[d]
    BY Zenon, <1>1, <2>1, EndTask
  <2>3. Calm(<<>>)
    BY ZenonT(60), <1>1, RxFacts DEF TypeTask, Box
  <2>4. NoStop
    BY Zenon, <1>2, <2>2, <2>3 DEF NoStop
  <2>5. corebox' \in Seq(Events)
    BY SMTT(30), <1>1, <2>1, EventTypes, PostFacts
  <2>6. Announces(c)
    BY Zenon, <1>2, <2>1, <2>2 DEF Announces
  <2> QED BY ZenonT(60), <1>2, <2>2, <2>4, <2>5, <2>6, TypeParts DEF KindOf
<1> QED BY Zenon, <1>3, <1>4

(* The steps of a session.                                                 *)
LEMMA SessionSteps ==
    ASSUME TypeOK, NEW c \in Connecters, SessionStep(c)
    PROVE  TypeOK' /\ KindOf(c) /\ Onward /\ NoStop
<1>1. /\ TypeCore /\ TypeTask /\ corebox \in Seq(Events) /\ UNCHANGED coreOnly /\ givenUp' = givenUp
      /\ UNCHANGED <<pc, retry_delay, rx, lagged>>
  BY Zenon, TypeParts DEF SessionStep, session_operational, session_fails, session_stops, penalty_ends,
     connecterOnly, receivers
<1>2. TypeCore' /\ Kept /\ Onward /\ phase' = phase /\ terminating' = terminating
  BY ZenonT(60), <1>1, CoreOnly
<1>3. NoStop
  BY Zenon, <1>1, <1>2 DEF NoStop
<1>4. ASSUME NEW s \in SessionStates, session' = [session EXCEPT ![c] = s]
      PROVE  TypeTask' /\ session'[c] = s /\ pc'[c] = pc[c] /\ Elsewhere(c)
  BY Zenon, <1>1, <1>4 DEF TypeTask, Elsewhere
<1>5. {"operational", "penalty", "gone"} \subseteq SessionStates
  BY Zenon DEF SessionStates
<1>6. CASE session_operational(c)
  <2>1. /\ session[c] = "handshake" /\ c \in mapped /\ session' = [session EXCEPT ![c] = "operational"]
        /\ post(Event("reset", c, "none"))
    BY Zenon, <1>6 DEF session_operational
  <2>2. corebox' \in Seq(Events)
    BY SMTT(30), <1>1, <2>1, EventTypes, PostFacts
  <2>3. Passes(c) /\ TypeTask'
    BY Zenon, <1>2, <1>4, <1>5, <2>1 DEF Passes
  <2> QED BY ZenonT(60), <1>2, <1>3, <2>2, <2>3, TypeParts DEF KindOf
<1>7. ASSUME Alive(c), NEW error \in {"none", "transient"}, post(Event(AS, c, error)),
             error = "transient" \/ c \in told \/ phase = "Closed",
             NEW s \in {"penalty", "gone"}, session' = [session EXCEPT ![c] = s]
      PROVE  TypeOK' /\ KindOf(c) /\ Onward /\ NoStop
  <2>1. corebox' \in Seq(Events)
    BY Zenon, <1>1, <1>7, EventTypes, PostFacts
  <2>2. Ends(c) /\ TypeTask'
    BY Zenon, <1>2, <1>4, <1>5, <1>7 DEF Ends
  <2> QED BY SMTT(30), <1>2, <1>3, <2>1, <2>2, TypeParts DEF KindOf
<1>8. CASE session_fails(c)
  BY Zenon, <1>7, <1>8 DEF session_fails, AS
<1>9. CASE session_stops(c)
  BY <1>7, <1>9 DEF session_stops, AS
<1>10. CASE penalty_ends(c)
  <2>1. session[c] = "penalty" /\ session' = [session EXCEPT ![c] = "gone"] /\ corebox' = corebox
    BY SMTT(30), <1>10 DEF penalty_ends
  <2>2. Passes(c) /\ TypeTask'
    BY Zenon, <1>2, <1>4, <1>5, <2>1 DEF Passes
  <2> QED BY ZenonT(60), <1>1, <1>2, <1>3, <2>1, <2>2, TypeParts DEF KindOf
<1> QED BY ZenonT(60), <1>6, <1>8, <1>9, <1>10 DEF SessionStep

(* The steps that only touch a receiver.                                   *)
LEMMA ReceiverSteps ==
    ASSUME TypeOK, NEW c \in Connecters,
           connect_ignores_events(c) \/ other_event(c) \/ falls_behind(c)
    PROVE  TypeOK' /\ Tells /\ Onward /\ NoStop
<1>1. TypeCore /\ TypeTask /\ corebox \in Seq(Events) /\ rx[c] \in Box
  BY Zenon, TypeParts DEF TypeTask, Box
<1>2. /\ UNCHANGED <<core, table, told, terminating, calls, corebox, pc, retry_delay, session, givenUp>>
      /\ lags' = lags \/ (lags' = lags + 1 /\ lags < MaxLags)
  BY Zenon DEF connect_ignores_events, other_event, falls_behind, coreOnly, env
<1>3. TypeCore'
  BY <1>1, <1>2, ConstantsAssumption DEF TypeCore, core, table
<1>4. PICK q \in Box : rx' = [rx EXCEPT ![c] = q] /\ (Calm(rx[c]) => Calm(q))
  <2>1. CASE connect_ignores_events(c)
    BY Zenon, <1>1, <2>1, AfterFacts DEF connect_ignores_events
  <2>2. CASE other_event(c)
    BY Zenon, <1>1, <2>2, RxFacts DEF other_event
  <2>3. CASE falls_behind(c)
    BY Zenon, <1>1, <2>3, RxFacts DEF falls_behind
  <2> QED BY Zenon, <2>1, <2>2, <2>3
<1>5. lagged' \in [Connecters -> BOOLEAN]
  BY Zenon, <1>1 DEF TypeTask, connect_ignores_events, other_event, falls_behind
<1>6. rx' \in [Connecters -> Box] /\ \A d \in Connecters : Calm(rx[d]) => Calm(rx'[d])
  BY Zenon, <1>1, <1>4, RxEdit DEF TypeTask, Box
<1>7. TypeTask'
  BY ZenonT(60), <1>1, <1>2, <1>5, <1>6 DEF TypeTask, Box
<1>8. Tells /\ Onward /\ NoStop
  BY Zenon, <1>2, <1>6 DEF Tells, Onward, Wanted, NoStop, core, table
<1> QED BY ZenonT(60), <1>1, <1>2, <1>3, <1>7, <1>8, TypeParts

(* A stop event reaches typed receivers.                                   *)
LEMMA StopEvent ==
    ASSUME rx \in [Connecters -> Box], stop_event
    PROVE  rx' \in [Connecters -> Box]
<1>1. \A d \in Connecters : Append(rx[d], "stop") \in Box
  BY Zenon, RxFacts
<1> QED BY Zenon, <1>1 DEF stop_event

(* The steps of the core and its surroundings that tell somebody to stop.  *)
LEMMA TellSteps ==
    ASSUME TypeOK, StopInv,
           handle_user_disconnect \/ user_close \/ command_mailbox_closed \/ context_shutdown
    PROVE  TypeOK' /\ Tells /\ Onward /\ StopInv'
<1>1. TypeCore /\ TypeTask /\ corebox \in Seq(Events) /\ rx \in [Connecters -> Box]
  BY Zenon, TypeParts DEF TypeTask, Box
<1>2. Sessions \subseteq Connecters
  BY ZenonT(60) DEF Sessions
<1>3. CASE handle_user_disconnect
  <2>1. /\ UNCHANGED <<phase, endpoint, mapped, corebox, current_attempts, next_attempt_at, pc,
                       retry_delay, rx, lagged, session, terminating, calls, lags>>
        /\ told' = told \cup {endpoint} /\ givenUp' = TRUE /\ endpoint # None
    BY Zenon, <1>3 DEF handle_user_disconnect, core, table, receivers, env
  <2>2. TypeCore' /\ TypeTask'
    BY Zenon, <1>1, <2>1 DEF TypeCore, TypeTask
  <2>3. NoStop /\ Tells /\ Onward
    BY ZenonT(60), <2>1 DEF NoStop, Tells, Onward, Wanted
  <2> QED BY ZenonT(60), <1>1, <2>1, <2>2, <2>3, StopKept, TypeParts
<1>4. CASE command_mailbox_closed
  <2>1. /\ UNCHANGED <<endpoint, mapped, corebox, current_attempts, next_attempt_at, pc,
                       retry_delay, rx, lagged, session, terminating, calls, lags, givenUp>>
        /\ told' = (IF endpoint = None THEN told ELSE told \cup {endpoint}) /\ phase' = "Closing"
    BY Zenon, <1>4 DEF command_mailbox_closed, core, table, receivers, env
  <2>2. TypeCore' /\ TypeTask'
    BY Zenon, <1>1, <2>1 DEF TypeCore, TypeTask
  <2>3. StopInv' /\ Tells /\ Onward
    BY ZenonT(60), <2>1 DEF StopInv, Tells, Onward, Wanted
  <2> QED BY Zenon, <1>1, <2>1, <2>2, <2>3, TypeParts
<1>5. CASE user_close
  <2>1. /\ UNCHANGED <<endpoint, mapped, corebox, current_attempts, next_attempt_at, pc,
                       retry_delay, lagged, session, terminating, calls, lags, givenUp>>
        /\ told' = told \cup Sessions /\ phase' = "Closing" /\ stop_event
    BY ZenonT(60), <1>5 DEF user_close, core, table, receivers, env
  <2>2. rx' \in [Connecters -> Box]
    BY Zenon, <1>1, <2>1, StopEvent
  <2>3. TypeCore' /\ TypeTask'
    BY ZenonT(60), <1>1, <1>2, <2>1, <2>2 DEF TypeCore, TypeTask, Box
  <2>4. StopInv' /\ Tells /\ Onward
    BY Zenon, <2>1 DEF StopInv, Tells, Onward, Wanted
  <2> QED BY Zenon, <1>1, <2>1, <2>3, <2>4, TypeParts
<1>6. CASE context_shutdown
  <2>1. /\ UNCHANGED <<phase, endpoint, mapped, current_attempts, next_attempt_at, pc,
                       retry_delay, lagged, session, calls, lags, givenUp>>
        /\ told' = told \cup Sessions /\ terminating' = TRUE /\ stop_event
        /\ post(Event("ContextTerminating", None, "none"))
    BY Zenon, <1>6 DEF context_shutdown, core, table, receivers
  <2>2. rx' \in [Connecters -> Box]
    BY SMTT(30), <1>1, <2>1, StopEvent
  <2>3. TypeCore' /\ TypeTask'
    BY Zenon, <1>1, <1>2, <2>1, <2>2 DEF TypeCore, TypeTask, Box
  <2>4. StopInv' /\ Tells /\ Onward
    BY ZenonT(60), <2>1 DEF StopInv, Tells, Onward, Wanted
  <2>5. corebox' \in Seq(Events)
    BY Zenon, <1>1, <2>1, TerminatingType, PostFacts
  <2> QED BY ZenonT(60), <2>3, <2>4, <2>5, TypeParts
<1> QED BY ZenonT(60), <1>3, <1>4, <1>5, <1>6

(* The core reads an event or leaves its loop.                             *)
LEMMA CoreSteps ==
    ASSUME TypeOK, StopInv, process_system_event \/ exit_loop
    PROVE  TypeOK' /\ StopInv'
<1>1. TypeCore /\ TypeTask /\ corebox \in Seq(Events)
  BY Zenon, TypeParts
<1>2. CASE exit_loop
  <2>1. /\ UNCHANGED <<endpoint, pc, retry_delay, rx, lagged, session, told, terminating, calls,
                       lags, givenUp>>
        /\ phase' = "Closed" /\ corebox' = <<>> /\ mapped' = {} /\ current_attempts' = 0
        /\ next_attempt_at' = None
    BY Zenon, <1>2 DEF exit_loop, receivers, env
  <2>2. TypeCore' /\ TypeTask' /\ corebox' \in Seq(Events)
    BY <1>1, <2>1, ConstantsAssumption DEF TypeCore, TypeTask
  <2>3. StopInv'
    BY Zenon, <2>1 DEF StopInv
  <2> QED BY ZenonT(60), <2>2, <2>3, TypeParts
<1>3. CASE process_system_event
  <2> DEFINE e == Head(corebox)
  <2>1. /\ corebox # <<>> /\ corebox' = Tail(corebox)
        /\ UNCHANGED <<pc, retry_delay, rx, lagged, session, terminating, calls, lags>>
        /\ \/ e.type = NCE /\ handle_new_connection_established(e.id)
           \/ e.type = AS /\ handle_actor_stopping_event(e.id, e.error)
           \/ e.type = CAF /\ handle_connect_failed_event(e.error)
           \/ e.type = "reset" /\ handle_peer_identity_established(e.id)
           \/ e.type = "ContextTerminating" /\ handle_context_terminating
    BY ZenonT(60), <1>3 DEF process_system_event, receivers, env, NCE, AS, CAF
  <2>2. e \in Events /\ corebox' \in Seq(Events)
    BY Zenon, <1>1, <2>1, ReadFacts
  <2>3. e.type \in {CAF, AS, NCE, "reset"} => e.id \in Connecters
    BY Zenon, <2>2 DEF Events, CAF, AS, NCE
  <2> HIDE DEF e
  <2>4. TypeTask'
    BY Zenon, <1>1, <2>1 DEF TypeTask
  <2>5. UNCHANGED table \/ (on_connection_failure /\ reconnect_ivl # None) \/ on_connection_success
    <3>1. ASSUME NEW error, reconnect_or_not(error)
          PROVE  UNCHANGED table \/ (on_connection_failure /\ reconnect_ivl # None)
      BY Zenon, <3>1 DEF reconnect_or_not
    <3>2. CASE handle_new_connection_established(e.id)
      BY Zenon, <3>2 DEF handle_new_connection_established, attach_session, table
    <3>3. CASE handle_actor_stopping_event(e.id, e.error)
      BY ZenonT(60), <3>1, <3>3 DEF handle_actor_stopping_event, table
    <3>4. CASE handle_connect_failed_event(e.error)
      BY Zenon, <3>1, <3>4 DEF handle_connect_failed_event, table
    <3>5. CASE handle_peer_identity_established(e.id)
      BY Zenon, <3>5 DEF handle_peer_identity_established, table
    <3>6. CASE handle_context_terminating
      BY Zenon, <3>6 DEF handle_context_terminating, table
    <3> QED BY Zenon, <2>1, <3>2, <3>3, <3>4, <3>5, <3>6
  <2>6. current_attempts' \in 0..ExpCap /\ next_attempt_at' \in Nat \cup {None}
    <3>1. /\ Min2(current_attempts + 1, ExpCap) \in 0..ExpCap
          /\ reconnect_ivl # None => backoff(current_attempts) \in Nat
      BY Zenon, <1>1, Delays DEF TypeCore
    <3> QED BY <1>1, <2>5, <3>1, ConstantsAssumption
            DEF TypeCore, table, on_connection_failure, on_connection_success
  <2>7. /\ phase' \in {phase, "Closing"} /\ endpoint' \in Connecters \cup {None}
        /\ mapped' \subseteq Connecters /\ told' \subseteq Connecters
    BY Zenon, <1>1, <2>1, <2>3 DEF TypeCore, handle_new_connection_established, attach_session,
       handle_actor_stopping_event, handle_connect_failed_event,
       handle_peer_identity_established, handle_context_terminating, core
  <2>8. givenUp' \in BOOLEAN
    BY Zenon, <1>1, <2>1 DEF TypeCore, handle_new_connection_established, attach_session,
       handle_actor_stopping_event, handle_connect_failed_event,
       handle_peer_identity_established, handle_context_terminating
  <2>9. TypeCore'
    BY ZenonT(60), <1>1, <2>1, <2>6, <2>7, <2>8 DEF TypeCore
  <2>10. StopInv'
    <3>1. phase' = "Running" => phase = "Running"
      BY Zenon, <1>1, <2>7 DEF TypeCore
    <3>2. \A d \in Connecters : Stops(d)' = Stops(d)
      BY Zenon, <2>1 DEF Stops
    <3> QED BY Zenon, <2>1, <3>1, <3>2 DEF StopInv
  <2> QED BY Zenon, <2>2, <2>4, <2>9, <2>10, TypeParts
<1> QED BY Zenon, <1>2, <1>3

(* The initial state.                                                      *)
LEMMA InitOK ==
    ASSUME Init
    PROVE  IndInv
<1>1. Len(<<>>) = 0 /\ <<>> \in Seq(Events) /\ <<>> \in Seq({"stop", "other"})
  OBVIOUS
<1>2. TypeOK
  <2>1. 0 \in 0..ExpCap /\ 0 \in 0..MaxConnects /\ 0 \in 0..MaxLags /\ 0 \in Nat
    BY SMTT(30), ConstantsAssumption
  <2>2. TypeCore
    BY Zenon, <2>1 DEF Init, TypeCore
  <2>3. TypeTask
    BY Zenon, <1>1, <2>1 DEF Init, TypeTask, Places, SessionStates
  <2>4. corebox \in Seq(Events)
    BY Zenon, <1>1 DEF Init
  <2> QED BY Zenon, <2>2, <2>3, <2>4, TypeParts
<1>3. (\A t, c : ~Unread(t, c)) /\ Single(corebox)
  BY <1>1 DEF Init, Unread, Single
<1>4. \A c \in Connecters : pc[c] = "free" /\ ~Alive(c) /\ endpoint # c /\ rx[c] = <<>>
  BY Zenon, ConstantsAssumption DEF Init, Alive
<1>5. SlotInv
  BY Zenon, <1>3, <1>4 DEF SlotInv, Slot
<1>6. Busy = {}
  BY Zenon, <1>3, <1>4 DEF Busy
<1>7. BusyInv
  <2>1. IsFiniteSet(Busy) /\ Cardinality(Busy) = 0
    BY Zenon, <1>6, FS_EmptySet
  <2>2. Scheduled = 0 /\ calls = 0
    BY Zenon DEF Scheduled, Init
  <2> QED BY <2>1, <2>2 DEF BusyInv
<1>8. StopInv
  BY <1>1, <1>4 DEF StopInv, Stops
<1>9. WantedInv
  <2>1. AllTransient(corebox)
    BY <1>1 DEF Init, AllTransient
  <2> QED BY <1>3, <1>4, <2>1 DEF WantedInv, Joined, Init
<1> QED BY Zenon, <1>2, <1>5, <1>7, <1>8, <1>9 DEF IndInv

(* A step that changes nothing.                                            *)
LEMMA Stutter ==
    ASSUME IndInv, UNCHANGED vars
    PROVE  IndInv'
<1>1. UNCHANGED <<phase, endpoint, mapped, corebox, current_attempts, next_attempt_at, pc,
                  retry_delay, rx, lagged, session, told, terminating, calls, lags, givenUp>>
  BY Zenon DEF vars, core, table, receivers, env
<1>2. TypeOK' /\ StopInv'
  BY Zenon, <1>1 DEF IndInv, TypeOK, StopInv, Stops
<1>3. Tells /\ Onward
  BY Zenon, <1>1 DEF Tells, Onward, Wanted
<1> QED BY Zenon, <1>2, <1>3, TellsNext DEF IndInv

(* Every step keeps the inductive invariant.                               *)
LEMMA StepOK ==
    ASSUME IndInv, Next
    PROVE  IndInv'
<1>1. TypeOK /\ SlotInv /\ BusyInv /\ StopInv /\ WantedInv
  BY Zenon DEF IndInv
<1>2. ASSUME NEW c \in Connecters, KindOf(c), TypeOK', Onward, StopInv' PROVE IndInv'
  BY ZenonT(60), <1>1, <1>2, SlotNext, BusyNext, WantedNext DEF IndInv
<1>3. ASSUME Tells, TypeOK', Onward, StopInv' PROVE IndInv'
  BY Zenon, <1>1, <1>3, TellsNext DEF IndInv
<1>4. CASE process_system_event
  <2>1. TypeOK' /\ StopInv'
    BY Zenon, <1>1, <1>4, CoreSteps
  <2>2. SlotInv' /\ BusyInv'
    BY ZenonT(60), <1>1, <1>4, ReadIs, ReadsNext
  <2>3. WantedInv'
    BY Zenon, <1>1, <1>4, WantedRead
  <2> QED BY ZenonT(60), <2>1, <2>2, <2>3 DEF IndInv
<1>5. CASE exit_loop
  BY <1>1, <1>5, CoreSteps, ExitsNext DEF IndInv
<1>6. CASE handle_user_disconnect \/ user_close \/ command_mailbox_closed \/ context_shutdown
  BY Zenon, <1>1, <1>3, <1>6, TellSteps
<1>7. ASSUME NEW c \in Connecters, handle_user_connect(c) \/ maintenance_tick(c) PROVE IndInv'
  <2>1. TypeOK' /\ Spawns(c) /\ Onward /\ rx' = rx /\ phase' = phase /\ terminating' = terminating
    BY Zenon, <1>1, <1>7, SpawnSteps
  <2>2. StopInv'
    BY ZenonT(60), <1>1, <2>1, StopKept DEF NoStop
  <2> QED BY ZenonT(60), <1>2, <2>1, <2>2 DEF KindOf
<1>8. ASSUME NEW c \in Connecters, ConnecterStep(c) PROVE IndInv'
  <2>1. CASE \/ subscribe(c) \/ wait_for_retry_delay(c) \/ pre_connect(c)
             \/ connect_aborted(c) \/ connect_fails(c)
    BY <1>1, <1>2, <2>1, WorkSteps, StopKept DEF KindOf
  <2>2. CASE connect_succeeds(c) \/ announce(c)
    BY Zenon, <1>1, <1>2, <2>2, ConnectSteps, StopKept
  <2>3. CASE connect_ignores_events(c)
    BY ZenonT(60), <1>1, <1>3, <2>3, ReceiverSteps, StopKept
  <2> QED BY Zenon, <1>8, <2>1, <2>2, <2>3 DEF ConnecterStep
<1>9. ASSUME NEW c \in Connecters, SessionStep(c) PROVE IndInv'
  BY Zenon, <1>1, <1>2, <1>9, SessionSteps, StopKept
<1>10. ASSUME NEW c \in Connecters, other_event(c) \/ falls_behind(c) PROVE IndInv'
  BY ZenonT(60), <1>1, <1>3, <1>10, ReceiverSteps, StopKept
<1> QED BY ZenonT(60), <1>4, <1>5, <1>6, <1>7, <1>8, <1>9, <1>10 DEF Next

-----------------------------------------------------------------------------
(* The inductive invariant holds: a connecter, its session, their events   *)
(* and the maps and the table of the core agree at every step.             *)
THEOREM Inductive == Spec => []IndInv
<1>1. Init => IndInv
  BY Zenon, InitOK
<1>2. IndInv /\ [Next]_vars => IndInv'
  BY Zenon, StepOK, Stutter
<1> QED BY <1>1, <1>2, PTL DEF Spec

(* The attempts, the delays and the events of a reconnect have their types *)
(* for every value of the options.                                         *)
THEOREM TypeCorrect == Spec => []TypeOK
<1>1. IndInv => TypeOK
  BY Zenon DEF IndInv
<1> QED BY <1>1, Inductive, PTL

(* Reconnects never multiply: at most one connecter, connection or entry   *)
(* of the table for each call of connect().                                *)
THEOREM NeverStorms == Spec => []NoStorm
<1>1. ASSUME IndInv PROVE NoStorm
  <2> DEFINE S == {c \in Connecters : pc[c] # "free" \/ Alive(c)}
  <2>1. S \subseteq Busy
    BY Zenon DEF Busy
  <2>2. IsFiniteSet(Busy) /\ calls \in Nat /\ Scheduled \in {0, 1}
        /\ Cardinality(Busy) + Scheduled <= calls
    BY SMTT(30), <1>1 DEF IndInv, BusyInv, TypeOK, Scheduled
  <2>3. Cardinality(S) \in Nat /\ Cardinality(Busy) \in Nat /\ Cardinality(S) <= Cardinality(Busy)
    BY Zenon, <2>1, <2>2, Counts
  <2>4. NoStorm <=> Cardinality(S) + Scheduled <= calls
    BY Zenon DEF NoStorm, Scheduled
  <2> HIDE DEF S
  <2> QED BY <2>2, <2>3, <2>4
<1> QED BY <1>1, Inductive, PTL

(* A running socket with reconnects enabled never forgets a target it was  *)
(* told to connect to and that has not been given up.                      *)
THEOREM RemembersTarget == Spec => []NeverForgotten
<1>1. IndInv => NeverForgotten
  BY Zenon DEF IndInv, WantedInv, Wanted, NeverForgotten
<1> QED BY <1>1, Inductive, PTL
=============================================================================
