---------------------------- MODULE DealerProofs ----------------------------
(***************************************************************************)
(* Proofs about Dealer for every number of peers, senders and messages,    *)
(* every SNDHWM and pipe capacity, and every SNDTIMEO: the inductive       *)
(* invariant, the kinds of step the actions fall into, the proof that each *)
(* kind preserves the invariant, and that every action is of one of them.  *)
(***************************************************************************)
EXTENDS Dealer, FiniteSetTheorems, SequenceTheorems, TLAPS

TaskRecord == [at : Places, msg : Msgs \cup {NoMsg}, left : Nat, peer : Peers \cup {None},
               woken : [Notifies -> {"no", "one", "all"}]]
TaskType == [Tasks -> [at : Places, msg : Msgs \cup {NoMsg}, left : Nat,
                       peer : Peers \cup {None},
                       woken : [Notifies -> {"no", "one", "all"}]]]
NotifyType == [Notifies -> [permit : BOOLEAN, waiters : Seq(Tasks)]]

(* A task has a message exactly while it is busy with one, and a peer when *)
(* it waits for a permit or writes.                                        *)
Busy(t) == IF t = Proc THEN task[t].at \in {"count", "choose", "permit", "write", "requeue"}
           ELSE task[t].at # "idle"
TasksInv ==
    \A t \in Tasks :
        /\ Busy(t) <=> task[t].msg # NoMsg
        /\ running => task[t].msg <= calls
        /\ task[t].at \in {"permit", "write"} => task[t].peer \in Peers
        /\ IF t = Proc THEN task[t].at \notin {"idle", "queue", "push"}
           ELSE task[t].at \notin {"requeue", "stopped"}

(* A sender past the check of the length has its place in the queue.       *)
Pushers == {s \in Senders : task[s].at = "push"}
BoundInv ==
    running => Len(queue) + Len(Hand) + Cardinality(Pushers) <= SndHwm + Cardinality(Senders)

(* The message of a send() that is under way is no other's, and has not    *)
(* been accepted.                                                          *)
FreshInv ==
    running =>
      /\ \A m \in accepted : m <= calls
      /\ \A s \in Senders : task[s].msg \notin accepted
      /\ \A s, r \in Senders : s # r /\ task[s].msg = task[r].msg => task[s].msg = NoMsg

(* The places of a message.                                                *)
In(q, m) == \E i \in 1..Len(q) : q[i] = m
Queued(m) == In(queue, m)
Piped(p, m) == In(pipe[p], m)
Held(m) == task[Proc].msg = m

Injective(q) == \A i, j \in 1..Len(q) : q[i] = q[j] => i = j

(* ExactlyOnce without cardinalities.                                      *)
OnceInv ==
    running =>
      /\ Injective(queue)
      /\ \A p \in Peers : Injective(pipe[p])
      /\ \A m \in Msgs :
            /\ written[m] \in {0, 1}
            /\ m \in accepted <=> \/ Queued(m) \/ Held(m) \/ written[m] = 1 \/ m \in lost
                                  \/ \E p \in Peers : Piped(p, m)
            /\ Queued(m) => ~Held(m) /\ written[m] = 0 /\ m \notin lost
            /\ Held(m) => written[m] = 0 /\ m \notin lost
            /\ written[m] = 1 => m \notin lost
            /\ \A p \in Peers : Piped(p, m) =>
                  /\ ~Queued(m) /\ ~Held(m) /\ written[m] = 0 /\ m \notin lost
                  /\ \A r \in Peers : Piped(r, m) => r = p

IndInv == TypeOK /\ TasksInv /\ BoundInv /\ FreshInv /\ OnceInv

-----------------------------------------------------------------------------
(* What Without returns is a sequence of the elements of s, none of them   *)
(* twice if none was.                                                      *)
LEMMA WithoutFacts ==
    ASSUME NEW S, NEW s \in Seq(S), NEW x
    PROVE  /\ Without(s, x) \in Seq(S)
           /\ Injective(s) => Injective(Without(s, x))
<1>1. CASE ~\E i \in 1..Len(s) : s[i] = x
  BY Zenon, <1>1 DEF Without
<1>2. CASE \E i \in 1..Len(s) : s[i] = x
  <2> DEFINE i == CHOOSE i \in 1..Len(s) : s[i] = x
             a == SubSeq(s, 1, i - 1)
             b == SubSeq(s, i + 1, Len(s))
  <2>1. i \in 1..Len(s)
    BY Zenon, <1>2
  <2>2. Without(s, x) = a \o b
    BY Zenon, <1>2 DEF Without
  <2> HIDE DEF i
  <2>3. /\ a \in Seq(S) /\ Len(a) = i - 1
        /\ \A j \in 1..(i - 1) : a[j] = s[j]
    <3>1. /\ 1 \in Int /\ i - 1 \in Int
          /\ \A j \in 1..(i - 1) : s[j] \in S
      BY <2>1
    <3> QED BY <3>1, <2>1, SubSeqProperties
  <2>4. /\ b \in Seq(S) /\ Len(b) = Len(s) - i
        /\ \A j \in 1..(Len(s) - i) : b[j] = s[i + j]
    <3>1. /\ i + 1 \in Int /\ Len(s) \in Int
          /\ \A j \in (i + 1)..Len(s) : s[j] \in S
      BY <2>1
    <3>2. \A j \in 1..(Len(s) - i) : j \in 1..(Len(s) - (i + 1) + 1) /\ (i + 1) + j - 1 = i + j
      BY <2>1
    <3> QED BY <3>1, <3>2, <2>1, SubSeqProperties
  <2> HIDE DEF a, b
  <2>5. /\ a \o b \in Seq(S) /\ Len(a \o b) = Len(s) - 1
        /\ \A j \in 1..(Len(s) - 1) : (a \o b)[j] = IF j < i THEN s[j] ELSE s[j + 1]
    <3>1. /\ a \o b \in Seq(S) /\ Len(a \o b) = Len(s) - 1
          /\ \A j \in 1..(Len(s) - 1) :
                (a \o b)[j] = IF j <= i - 1 THEN a[j] ELSE b[j - (i - 1)]
      <4>1. Len(s) \in Nat /\ Len(a) + Len(b) = Len(s) - 1
        BY <2>1, <2>3, <2>4
      <4> QED BY <4>1, <2>3, <2>4, ConcatProperties
    <3>2. ASSUME NEW j \in 1..(Len(s) - 1)
          PROVE  (a \o b)[j] = IF j < i THEN s[j] ELSE s[j + 1]
      <4>1. CASE j < i
        BY <4>1, <3>1, <2>1, <2>3
      <4>2. CASE ~(j < i)
        <5>1. j - (i - 1) \in 1..(Len(s) - i) /\ i + (j - (i - 1)) = j + 1
          BY <4>2, <2>1
        <5> QED BY <4>2, <5>1, <3>1, <2>1, <2>4
      <4> QED BY Zenon, <4>1, <4>2
    <3> QED BY Zenon, <3>1, <3>2
  <2> DEFINE r == a \o b
  <2>6. /\ r \in Seq(S) /\ Len(r) = Len(s) - 1
        /\ \A j \in 1..(Len(s) - 1) : r[j] = IF j < i THEN s[j] ELSE s[j + 1]
    BY Zenon, <2>5
  <2> HIDE DEF r
  <2>7. ASSUME Injective(s), NEW j \in 1..Len(r), NEW l \in 1..Len(r), r[j] = r[l]
        PROVE  j = l
    BY <2>1, <2>6, <2>7 DEF Injective
  <2>8. Injective(s) => Injective(r)
    BY Zenon, <2>7 DEF Injective
  <2> QED BY Zenon, <2>2, <2>6, <2>8 DEF r
<1> QED BY Zenon, <1>1, <1>2

-----------------------------------------------------------------------------
(* Notify: only the waiters, the permits and who is woken change.          *)
NSType == [n : NotifyType, k : TaskType]
Same(k, l) ==
    \A t \in Tasks : /\ l[t].at = k[t].at /\ l[t].msg = k[t].msg
                     /\ l[t].left = k[t].left /\ l[t].peer = k[t].peer

(* The pair of notifications and tasks is well typed.                      *)
LEMMA PairNS ==
    ASSUME NEW n \in NotifyType, NEW k \in TaskType
    PROVE  [n |-> n, k |-> k] \in NSType /\ [n |-> n, k |-> k].k = k
BY Zenon DEF NSType

(* notify_one wakes the first waiter or stores the permit.                 *)
LEMMA NotifyOne ==
    ASSUME NEW ns \in NSType, NEW c \in Notifies
    PROVE  /\ notify_one(ns, c) \in NSType
           /\ Same(ns.k, notify_one(ns, c).k)
<1> USE DEF NSType, NotifyType, TaskType, Same
<1>1. CASE ns.n[c].waiters = <<>>
  <2>1. notify_one(ns, c) = [ns EXCEPT !.n = [ns.n EXCEPT ![c].permit = TRUE]]
    BY Zenon, <1>1 DEF notify_one
  <2>2. [ns.n EXCEPT ![c].permit = TRUE] \in NotifyType
    BY Zenon
  <2> QED BY Zenon, <2>1, <2>2
<1>2. CASE ns.n[c].waiters # <<>>
  <2> DEFINE w == Head(ns.n[c].waiters)
  <2>1. w \in Tasks /\ Tail(ns.n[c].waiters) \in Seq(Tasks)
    BY <1>2
  <2>2. notify_one(ns, c) =
          [n |-> [ns.n EXCEPT ![c].waiters = Tail(@)],
           k |-> [ns.k EXCEPT ![w].woken[c] = "one"]]
    BY Zenon, <1>2 DEF notify_one
  <2>3. [ns.n EXCEPT ![c].waiters = Tail(@)] \in NotifyType
    BY Zenon, <2>1
  <2> HIDE DEF w
  <2>4. [ns.k EXCEPT ![w].woken[c] = "one"] \in TaskType
    BY ZenonT(60), <2>1
  <2>5. Same(ns.k, [ns.k EXCEPT ![w].woken[c] = "one"])
    BY ZenonT(60), <2>1
  <2> HIDE DEF NSType, NotifyType, TaskType, Same
  <2> QED BY Zenon, <2>2, <2>3, <2>4, <2>5, PairNS
<1> QED BY Zenon, <1>1, <1>2

(* notify_waiters wakes all of them.                                       *)
LEMMA NotifyWaiters ==
    ASSUME NEW ns \in NSType, NEW c \in Notifies
    PROVE  /\ notify_waiters(ns, c) \in NSType
           /\ Same(ns.k, notify_waiters(ns, c).k)
<1> USE DEF NSType, NotifyType, TaskType, Same
<1> DEFINE ws == {ns.n[c].waiters[i] : i \in 1..Len(ns.n[c].waiters)}
           k == [t \in Tasks |-> IF t \in ws THEN [ns.k[t] EXCEPT !.woken[c] = "all"]
                                 ELSE ns.k[t]]
<1>1. notify_waiters(ns, c) = [n |-> [ns.n EXCEPT ![c].waiters = <<>>], k |-> k]
  BY Zenon DEF notify_waiters
<1>2. [ns.n EXCEPT ![c].waiters = <<>>] \in NotifyType
  <2>1. <<>> \in Seq(Tasks)
    OBVIOUS
  <2> QED BY Zenon, <2>1
<1> HIDE DEF ws
<1>3. k \in TaskType /\ Same(ns.k, k)
  BY ZenonT(60)
<1> HIDE DEF NSType, NotifyType, TaskType, Same, k
<1> QED BY Zenon, <1>1, <1>2, <1>3, PairNS

(* A waiter that leaves passes on the notification it had.                 *)
LEMMA DropNotified ==
    ASSUME NEW ns \in NSType, NEW t \in Tasks, NEW c \in Notifies
    PROVE  /\ drop_notified(ns, t, c) \in NSType
           /\ Same(ns.k, drop_notified(ns, t, c).k)
<1> DEFINE gone == [n |-> [ns.n EXCEPT ![c].waiters = Without(@, t)],
                    k |-> [ns.k EXCEPT ![t].woken[c] = "no"]]
<1>1. Without(ns.n[c].waiters, t) \in Seq(Tasks)
  BY Zenon, WithoutFacts DEF NSType, NotifyType
<1>2. gone \in NSType /\ Same(ns.k, gone.k)
  <2>1. [ns.n EXCEPT ![c].waiters = Without(@, t)] \in NotifyType
    BY Zenon, <1>1 DEF NSType, NotifyType
  <2>2. [ns.k EXCEPT ![t].woken[c] = "no"] \in TaskType
    BY ZenonT(60) DEF NSType, TaskType
  <2>3. Same(ns.k, [ns.k EXCEPT ![t].woken[c] = "no"])
    BY Zenon DEF NSType, TaskType, Same
  <2> QED BY Zenon, <2>1, <2>2, <2>3 DEF NSType
<1>3. notify_one(gone, c) \in NSType /\ Same(gone.k, notify_one(gone, c).k)
  BY Zenon, <1>2, NotifyOne
<1>4. drop_notified(ns, t, c) = IF ns.k[t].woken[c] = "one" THEN notify_one(gone, c) ELSE gone
  BY Zenon DEF drop_notified
<1> HIDE DEF gone
<1> QED BY <1>2, <1>3, <1>4 DEF Same

(* Dropping the futures of both notifications changes no task but its      *)
(* wake-ups.                                                               *)
LEMMA DropAll ==
    ASSUME NEW ns \in NSType, NEW t \in Tasks
    PROVE  /\ drop_all(ns, t) \in NSType
           /\ Same(ns.k, drop_all(ns, t).k)
<1> DEFINE one == drop_notified(ns, t, "queue")
           two == drop_notified(one, t, "peer")
<1>1. one \in NSType /\ Same(ns.k, one.k)
  BY Zenon, DropNotified DEF Notifies
<1> HIDE DEF one
<1>2. two \in NSType /\ Same(one.k, two.k)
  BY Zenon, <1>1, DropNotified DEF Notifies
<1>3. drop_all(ns, t) = two
  BY Zenon DEF drop_all, one
<1> HIDE DEF two
<1> QED BY ZenonT(60), <1>1, <1>2, <1>3 DEF Same

-----------------------------------------------------------------------------
(* What is in a sequence, and how often, after the operations on queues.   *)

(* Nothing is in the empty sequence.                                       *)
LEMMA EmptyFacts ==
    /\ Injective(<<>>)
    /\ \A m : ~In(<<>>, m)
BY DEF Injective, In

(* Append adds its element at the end, and nothing else.                   *)
LEMMA AppendFacts ==
    ASSUME NEW S, NEW q \in Seq(S), NEW x \in S
    PROVE  /\ Append(q, x) \in Seq(S) /\ Len(Append(q, x)) = Len(q) + 1
           /\ \A m : In(Append(q, x), m) <=> In(q, m) \/ m = x
           /\ Injective(q) /\ ~In(q, x) => Injective(Append(q, x))
<1> DEFINE r == Append(q, x)
<1>1. /\ r \in Seq(S) /\ Len(r) = Len(q) + 1 /\ Len(q) \in Nat
      /\ \A i \in 1..Len(q) : r[i] = q[i]
      /\ r[Len(q) + 1] = x
  BY AppendProperties
<1> HIDE DEF r
<1>2. ASSUME NEW m PROVE In(r, m) <=> In(q, m) \/ m = x
  BY <1>1 DEF In
<1>3. Injective(q) /\ ~In(q, x) => Injective(r)
  BY <1>1 DEF In, Injective
<1> QED BY Zenon, <1>1, <1>2, <1>3 DEF r

(* Tail takes the head away; once, when nothing is there twice.            *)
LEMMA TailFacts ==
    ASSUME NEW S, NEW q \in Seq(S), q # <<>>
    PROVE  /\ Tail(q) \in Seq(S) /\ Len(Tail(q)) = Len(q) - 1 /\ Len(q) > 0
           /\ Head(q) \in S /\ In(q, Head(q))
           /\ \A m : In(Tail(q), m) => In(q, m)
           /\ \A m : In(q, m) => In(Tail(q), m) \/ m = Head(q)
           /\ Injective(q) => Injective(Tail(q)) /\ ~In(Tail(q), Head(q))
<1> DEFINE r == Tail(q)
           h == Head(q)
<1>1. /\ r \in Seq(S) /\ Len(r) = Len(q) - 1 /\ Len(q) \in Nat /\ Len(q) > 0
      /\ \A i \in 1..Len(r) : r[i] = q[i + 1]
      /\ h = q[1] /\ h \in S
  BY HeadTailProperties
<1> HIDE DEF r, h
<1>2. In(q, h)
  BY <1>1 DEF In
<1>3. ASSUME NEW m PROVE /\ In(r, m) => In(q, m)
                         /\ In(q, m) => In(r, m) \/ m = h
  <2>1. In(r, m) => In(q, m)
    BY <1>1 DEF In
  <2>2. ASSUME NEW i \in 1..Len(q), q[i] = m PROVE In(r, m) \/ m = h
    <3>1. CASE i = 1
      BY Zenon, <3>1, <1>1, <2>2
    <3>2. CASE i # 1
      <4>1. i - 1 \in 1..Len(r) /\ r[i - 1] = m
        BY <3>2, <1>1, <2>2
      <4> QED BY Zenon, <4>1 DEF In
    <3> QED BY Zenon, <3>1, <3>2
  <2> QED BY Zenon, <2>1, <2>2 DEF In
<1>4. ASSUME Injective(q) PROVE Injective(r) /\ ~In(r, h)
  <2>1. ASSUME NEW i \in 1..Len(r), NEW j \in 1..Len(r), r[i] = r[j] PROVE i = j
    <3>1. i + 1 \in 1..Len(q) /\ j + 1 \in 1..Len(q) /\ q[i + 1] = q[j + 1]
      BY <2>1, <1>1
    <3>2. i + 1 = j + 1
      BY Zenon, <3>1, <1>4 DEF Injective
    <3> QED BY <3>2
  <2>2. ASSUME NEW i \in 1..Len(r), r[i] = h PROVE FALSE
    <3>1. i + 1 \in 1..Len(q) /\ 1 \in 1..Len(q) /\ q[i + 1] = q[1]
      BY <2>2, <1>1
    <3>2. i + 1 = 1
      BY Zenon, <3>1, <1>4 DEF Injective
    <3> QED BY <3>2
  <2> QED BY Zenon, <2>1, <2>2 DEF Injective, In
<1> QED BY Zenon, <1>1, <1>2, <1>3, <1>4 DEF r, h

(* push_front adds its element at the front, and nothing else.             *)
LEMMA ConsFacts ==
    ASSUME NEW S, NEW q \in Seq(S), NEW x \in S
    PROVE  /\ <<x>> \o q \in Seq(S) /\ Len(<<x>> \o q) = Len(q) + 1
           /\ \A m : In(<<x>> \o q, m) <=> In(q, m) \/ m = x
           /\ Injective(q) /\ ~In(q, x) => Injective(<<x>> \o q)
<1> DEFINE r == <<x>> \o q
<1>1. /\ r \in Seq(S) /\ Len(r) = Len(q) + 1 /\ Len(q) \in Nat
      /\ r[1] = x
      /\ \A i \in 2..Len(r) : r[i] = q[i - 1]
  <2>1. <<x>> \in Seq(S) /\ Len(<<x>>) = 1 /\ <<x>>[1] = x
    OBVIOUS
  <2>2. /\ r \in Seq(S) /\ Len(r) = 1 + Len(q)
        /\ \A i \in 1..(1 + Len(q)) : r[i] = IF i <= 1 THEN <<x>>[i] ELSE q[i - 1]
    BY Zenon, <2>1, ConcatProperties
  <2> HIDE DEF r
  <2> QED BY <2>1, <2>2
<1> HIDE DEF r
<1>2. ASSUME NEW m PROVE In(r, m) <=> In(q, m) \/ m = x
  <2>1. In(r, m) => In(q, m) \/ m = x
    BY <1>1 DEF In
  <2>2. ASSUME NEW i \in 1..Len(q), q[i] = m PROVE In(r, m)
    <3>1. i + 1 \in 1..Len(r) /\ r[i + 1] = m
      BY <1>1, <2>2
    <3> QED BY Zenon, <3>1 DEF In
  <2>3. m = x => In(r, m)
    BY <1>1 DEF In
  <2> QED BY Zenon, <2>1, <2>2, <2>3 DEF In
<1>3. Injective(q) /\ ~In(q, x) => Injective(r)
  BY <1>1 DEF In, Injective
<1> QED BY Zenon, <1>1, <1>2, <1>3 DEF r

-----------------------------------------------------------------------------
(* The kinds of step, as far as IndInv is concerned.  TypeOK is proved for *)
(* each action, the rest of IndInv for each kind.                          *)

OnlyTask(t) ==
    \A u \in Tasks : u # t => /\ task'[u].at = task[u].at /\ task'[u].msg = task[u].msg
                              /\ task'[u].peer = task[u].peer
Placed(t) ==
    /\ task'[t].at \in {"permit", "write"} => task'[t].peer \in Peers
    /\ IF t = Proc THEN task'[t].at \notin {"idle", "queue", "push"}
       ELSE task'[t].at \notin {"requeue", "stopped"}

(* No task changes place, no message moves.                                *)
Stays ==
    /\ \A t \in Tasks : /\ task'[t].at = task[t].at /\ task'[t].msg = task[t].msg
                        /\ task'[t].peer = task[t].peer
    /\ running' => running
    /\ UNCHANGED <<queue, pipe, written, lost, accepted, calls>>
(* A task goes on with the message it has, or with none.                   *)
Moves(t) ==
    /\ OnlyTask(t) /\ task'[t].msg = task[t].msg
    /\ Placed(t) /\ (Busy(t)' <=> Busy(t))
    /\ running /\ task'[t].at = "push" /\ task[t].at # "push" => HasRoom
    /\ UNCHANGED <<running, queue, pipe, written, lost, accepted, calls>>
(* A send() begins; it ends without success.                               *)
Starts(s) ==
    /\ OnlyTask(s) /\ running /\ task[s].at = "idle" /\ calls < MaxMsgs
    /\ task'[s].at = "choose" /\ task'[s].msg = calls + 1 /\ calls' = calls + 1
    /\ UNCHANGED <<running, queue, pipe, written, lost, accepted>>
Fails(s) ==
    /\ OnlyTask(s)
    /\ task'[s].at = "idle" /\ task'[s].msg = NoMsg
    /\ UNCHANGED <<running, queue, pipe, written, lost, accepted, calls>>
(* A message goes into a pipe; into the queue; out of it; back into it.    *)
Pipes(t, p) ==
    /\ OnlyTask(t) /\ task[t].at = "write"
    /\ pipe' = [pipe EXCEPT ![p] = Append(@, task[t].msg)]
    /\ task'[t].at = (IF t = Proc THEN "register" ELSE "idle") /\ task'[t].msg = NoMsg
    /\ accepted' = accepted \cup {task[t].msg}
    /\ UNCHANGED <<running, queue, written, lost, calls>>
Queues(s) ==
    /\ OnlyTask(s) /\ task[s].at = "push"
    /\ queue' = Append(queue, task[s].msg)
    /\ task'[s].at = "idle" /\ task'[s].msg = NoMsg
    /\ accepted' = accepted \cup {task[s].msg}
    /\ UNCHANGED <<running, pipe, written, lost, calls>>
Takes ==
    /\ OnlyTask(Proc) /\ task[Proc].at \in {"register", "blocked"} /\ queue # <<>>
    /\ queue' = Tail(queue)
    /\ task'[Proc].at = "count" /\ task'[Proc].msg = Head(queue)
    /\ UNCHANGED <<running, pipe, written, lost, accepted, calls>>
PutsBack ==
    /\ OnlyTask(Proc) /\ task[Proc].at = "requeue"
    /\ queue' = <<task[Proc].msg>> \o queue
    /\ task'[Proc].at = "register" /\ task'[Proc].msg = NoMsg
    /\ UNCHANGED <<running, pipe, written, lost, accepted, calls>>
(* ... a first time when the socket is closing.                            *)
Closes ==
    /\ OnlyTask(Proc) /\ ~running /\ task[Proc].at = "choose"
    /\ task'[Proc].at = "requeue" /\ task'[Proc].msg = task[Proc].msg
    /\ UNCHANGED <<running, pipe, written, lost, accepted, calls>>
(* The session writes a message; it ends.                                  *)
Writes(p) ==
    /\ pipe[p] # <<>>
    /\ written' = [written EXCEPT ![Head(pipe[p])] = @ + 1]
    /\ pipe' = [pipe EXCEPT ![p] = Tail(@)]
    /\ UNCHANGED <<running, task, queue, lost, accepted, calls>>
Ends(p) ==
    /\ lost' = lost \cup {pipe[p][i] : i \in 1..Len(pipe[p])}
    /\ pipe' = [pipe EXCEPT ![p] = <<>>]
    /\ UNCHANGED <<running, task, queue, written, accepted, calls>>

Kind ==
    \/ Stays \/ Takes \/ PutsBack \/ Closes
    \/ \E t \in Tasks : Moves(t) \/ \E p \in Peers : Pipes(t, p)
    \/ \E s \in Senders : Starts(s) \/ Fails(s) \/ Queues(s)
    \/ \E p \in Peers : Writes(p) \/ Ends(p)

(* Constants: the processor is no sender, and a message is a number.       *)
LEMMA Facts ==
    /\ Proc \notin Senders /\ Proc \in Tasks /\ Senders \subseteq Tasks
    /\ \A t \in Tasks : t # Proc => t \in Senders
    /\ NoMsg \notin Msgs /\ Msgs \subseteq Nat /\ None \notin Peers
    /\ IsFiniteSet(Senders) /\ Cardinality(Senders) \in Nat
    /\ SndHwm \in Nat /\ MaxMsgs \in Nat /\ PipeCap \in Nat
BY ConstantsAssumption, FS_CardinalityType DEF Tasks, Msgs, NoMsg

(* TasksInv is preserved: every kind of step leaves the task it concerns   *)
(* at a place that goes with its message.                                  *)
LEMMA TasksNext ==
    ASSUME IndInv, TypeOK', Kind
    PROVE  TasksInv'
<1>0. queue # <<>> => Head(queue) \in Msgs /\ (running => Head(queue) <= calls)
  BY Zenon, TailFacts DEF IndInv, TypeOK, OnceInv, FreshInv, Queued
<1>t. calls \in Nat /\ \A t \in Tasks : task[t].msg \in Nat
  <2>1. task \in TaskType /\ calls \in Nat
    BY Facts DEF IndInv, TypeOK, TaskType
  <2>2. \A t \in Tasks : task[t].msg \in Msgs \cup {NoMsg}
    BY Zenon, <2>1 DEF TaskType
  <2>3. Msgs \cup {NoMsg} \subseteq Nat
    BY DEF Msgs, NoMsg
  <2> QED BY Zenon, <2>1, <2>2, <2>3
<1> USE <1>t, Facts DEF IndInv, TasksInv, Busy, OnlyTask, NoMsg
<1>1. CASE Stays
  BY Zenon, <1>1 DEF Stays
<1>2. CASE Takes
  BY <1>0, <1>2 DEF Takes
<1>3. CASE PutsBack
  BY <1>3 DEF PutsBack
<1>4. CASE Closes
  BY <1>4 DEF Closes
<1>5. ASSUME NEW t \in Tasks, Moves(t) PROVE TasksInv'
  BY <1>5 DEF Moves, Placed
<1>6. ASSUME NEW t \in Tasks, NEW p \in Peers, Pipes(t, p) PROVE TasksInv'
  BY <1>6 DEF Pipes
<1>7. ASSUME NEW s \in Senders, Starts(s) PROVE TasksInv'
  BY <1>7 DEF Starts
<1>8. ASSUME NEW s \in Senders, Fails(s) PROVE TasksInv'
  BY <1>8 DEF Fails
<1>9. ASSUME NEW s \in Senders, Queues(s) PROVE TasksInv'
  BY <1>9 DEF Queues
<1>10. ASSUME NEW p \in Peers, Writes(p) \/ Ends(p) PROVE TasksInv'
  BY Zenon, <1>10 DEF Writes, Ends
<1> QED BY ZenonT(60), <1>1, <1>2, <1>3, <1>4, <1>5, <1>6, <1>7, <1>8, <1>9, <1>10 DEF Kind

(* BoundInv is preserved: a push uses up the place of its sender, and the  *)
(* hand of the processor counts like the queue it takes from.              *)
LEMMA BoundNext ==
    ASSUME IndInv, TypeOK', TasksInv', Kind
    PROVE  BoundInv'
<1> SUFFICES ASSUME running'
             PROVE  Len(queue') + Len(Hand)' + Cardinality(Pushers')
                       <= SndHwm + Cardinality(Senders)
  BY Zenon DEF BoundInv
<1>t. /\ IsFiniteSet(Pushers) /\ Cardinality(Pushers) \in Nat
      /\ IsFiniteSet(Pushers') /\ Cardinality(Pushers') \in Nat
      /\ Cardinality(Pushers') <= Cardinality(Senders)
      /\ Len(queue) \in Nat /\ Len(queue') \in Nat
      /\ Len(Hand) \in {0, 1} /\ Len(Hand)' \in {0, 1}
  <2>1. Pushers \subseteq Senders /\ Pushers' \subseteq Senders
    BY Zenon DEF Pushers
  <2>2. Len(queue) \in Nat /\ Len(queue') \in Nat
    BY DEF IndInv, TypeOK
  <2>3. Len(Hand) \in {0, 1} /\ Len(Hand)' \in {0, 1}
    BY Zenon DEF Hand
  <2> QED BY Zenon, <2>1, <2>2, <2>3, Facts, FS_Subset, FS_CardinalityType
<1>b. running => Len(queue) + Len(Hand) + Cardinality(Pushers) <= SndHwm + Cardinality(Senders)
  BY Zenon DEF IndInv, BoundInv
<1>h. \A s \in Senders : s # Proc /\ s \in Tasks
  BY Zenon, Facts
<1>p. ASSUME Pushers' \subseteq Pushers, running, Len(queue') + Len(Hand)' <= Len(queue) + Len(Hand)
      PROVE  Len(queue') + Len(Hand)' + Cardinality(Pushers') <= SndHwm + Cardinality(Senders)
  <2>1. Cardinality(Pushers') <= Cardinality(Pushers)
    BY Zenon, <1>p, <1>t, FS_Subset
  <2> QED BY <2>1, <1>p, <1>t, <1>b, Facts
<1>1. CASE Stays
  BY <1>1, <1>p, <1>h, <1>t, Facts DEF Stays, Pushers, Hand
<1>2. CASE Takes
  <2>1. Pushers' \subseteq Pushers
    BY Zenon, <1>2, <1>h DEF Takes, Pushers, OnlyTask
  <2>2. Len(queue') = Len(queue) - 1
    BY Zenon, <1>2, TailFacts DEF Takes, IndInv, TypeOK
  <2>3. Len(Hand) = 0
    BY Zenon, <1>2, Facts DEF Takes, IndInv, TasksInv, Busy, Hand
  <2>4. Len(queue') + Len(Hand)' <= Len(queue) + Len(Hand)
    <3> DEFINE a == Len(queue)
               b == Len(Hand)'
    <3>1. a \in Nat /\ b \in {0, 1}
      BY Zenon, <1>t
    <3> HIDE DEF a, b
    <3>2. (a - 1) + b <= a + 0
      BY <3>1
    <3> QED BY Zenon, <3>2, <2>2, <2>3 DEF a, b
  <2>5. running
    BY Zenon, <1>2 DEF Takes
  <2> QED BY Zenon, <1>p, <2>1, <2>4, <2>5
<1>3. CASE PutsBack
  <2>1. Pushers' \subseteq Pushers
    BY Zenon, <1>3, <1>h DEF PutsBack, Pushers, OnlyTask
  <2>2. task[Proc].msg \in Msgs /\ task[Proc].msg # NoMsg
    BY Zenon, <1>3, Facts DEF PutsBack, IndInv, TypeOK, TasksInv, Busy
  <2>3. Len(queue') = Len(queue) + 1
    BY <1>3, <2>2, ConsFacts DEF PutsBack, IndInv, TypeOK
  <2>4. Len(Hand) = 1 /\ Len(Hand)' = 0
    BY Zenon, <1>3, <2>2 DEF PutsBack, Hand
  <2> QED BY <1>3, <1>p, <1>t, <2>1, <2>3, <2>4 DEF PutsBack
<1>4. CASE Closes
  BY Zenon, <1>4 DEF Closes
<1>5. ASSUME NEW t \in Tasks, Moves(t)
      PROVE  Len(queue') + Len(Hand)' + Cardinality(Pushers') <= SndHwm + Cardinality(Senders)
  <2>1. running /\ queue' = queue /\ Len(Hand)' = Len(Hand)
    BY Zenon, <1>5, Facts DEF Moves, Hand, OnlyTask
  <2>2. CASE task'[t].at = "push" /\ task[t].at # "push"
    <3>1. Len(queue) < SndHwm
      BY Zenon, <1>5, <2>1, <2>2 DEF Moves, HasRoom
    <3> QED BY <3>1, <2>1, <1>t, Facts
  <2>3. CASE ~(task'[t].at = "push" /\ task[t].at # "push")
    <3>1. Pushers' \subseteq Pushers
      BY Zenon, <1>5, <2>3, <1>h DEF Moves, Pushers, OnlyTask
    <3> QED BY <3>1, <2>1, <1>p, <1>t
  <2> QED BY Zenon, <2>2, <2>3
<1>6. ASSUME NEW t \in Tasks, NEW p \in Peers, Pipes(t, p)
      PROVE  Len(queue') + Len(Hand)' + Cardinality(Pushers') <= SndHwm + Cardinality(Senders)
  <2>1. Pushers' \subseteq Pushers
    BY Zenon, <1>6, <1>h DEF Pipes, Pushers, OnlyTask
  <2>2. Len(Hand)' <= Len(Hand)
    BY <1>6, <1>t, Facts DEF Pipes, Hand, OnlyTask
  <2> QED BY <1>6, <2>1, <2>2, <1>p, <1>t DEF Pipes
<1>7. ASSUME NEW s \in Senders, Starts(s) \/ Fails(s)
      PROVE  Len(queue') + Len(Hand)' + Cardinality(Pushers') <= SndHwm + Cardinality(Senders)
  <2>1. Pushers' \subseteq Pushers
    BY Zenon, <1>7, <1>h DEF Starts, Fails, Pushers, OnlyTask
  <2>2. Len(Hand)' = Len(Hand) /\ queue' = queue /\ running
    BY Zenon, <1>7, <1>h, Facts DEF Starts, Fails, Hand, OnlyTask
  <2> QED BY <2>1, <2>2, <1>p, <1>t
<1>8. ASSUME NEW s \in Senders, Queues(s)
      PROVE  Len(queue') + Len(Hand)' + Cardinality(Pushers') <= SndHwm + Cardinality(Senders)
  <2>1. Pushers' = Pushers \ {s} /\ s \in Pushers
    BY Zenon, <1>8, <1>h DEF Queues, Pushers, OnlyTask
  <2>2. Len(Hand)' = Len(Hand) /\ running
    BY Zenon, <1>8, <1>h, Facts DEF Queues, Hand, OnlyTask
  <2>3. Len(queue') = Len(queue) + 1
    <3>1. task[s].msg \in Msgs
      BY Zenon, <1>8, <1>h, Facts DEF Queues, IndInv, TypeOK, TasksInv, Busy
    <3> QED BY <1>8, <3>1, AppendFacts DEF Queues, IndInv, TypeOK
  <2>4. Cardinality(Pushers') = Cardinality(Pushers) - 1
    BY Zenon, <2>1, <1>t, FS_RemoveElement
  <2> QED BY <2>2, <2>3, <2>4, <1>b, <1>t, Facts
<1>9. ASSUME NEW p \in Peers, Writes(p) \/ Ends(p)
      PROVE  Len(queue') + Len(Hand)' + Cardinality(Pushers') <= SndHwm + Cardinality(Senders)
  <2>1. Pushers' = Pushers /\ Len(Hand)' = Len(Hand) /\ queue' = queue /\ running
    BY Zenon, <1>9 DEF Writes, Ends, Pushers, Hand
  <2> QED BY <2>1, <1>p, <1>t
<1> QED BY Zenon, <1>1, <1>2, <1>3, <1>4, <1>5, <1>6, <1>7, <1>8, <1>9 DEF Kind

(* The messages of the tasks and of the queue, as IndInv has them.         *)
LEMMA MsgFacts ==
    ASSUME IndInv
    PROVE  /\ calls \in Nat /\ queue \in Seq(Msgs) /\ accepted \subseteq Msgs /\ lost \subseteq Msgs
           /\ \A p \in Peers : pipe[p] \in Seq(Msgs)
           /\ \A t \in Tasks : task[t].msg \in Msgs \cup {NoMsg}
           /\ \A t \in Tasks : Busy(t) <=> task[t].msg \in Msgs
<1>1. task \in TaskType /\ calls \in Nat /\ queue \in Seq(Msgs)
      /\ accepted \subseteq Msgs /\ lost \subseteq Msgs /\ pipe \in [Peers -> Seq(Msgs)]
  BY Facts DEF IndInv, TypeOK, TaskType
<1>2. \A t \in Tasks : task[t].msg \in Msgs \cup {NoMsg}
  BY Zenon, <1>1 DEF TaskType
<1>3. \A t \in Tasks : Busy(t) <=> task[t].msg # NoMsg
  BY Zenon DEF IndInv, TasksInv
<1> QED BY Zenon, <1>1, <1>2, <1>3, Facts

(* FreshInv is preserved: a number is given to one send() only, and its    *)
(* message is accepted when it leaves the sender.                          *)
LEMMA FreshNext ==
    ASSUME IndInv, Kind
    PROVE  FreshInv'
<1> SUFFICES ASSUME running'
             PROVE  /\ \A m \in accepted' : m <= calls'
                    /\ \A s \in Senders : task'[s].msg \notin accepted'
                    /\ \A s, r \in Senders : s # r /\ task'[s].msg = task'[r].msg
                                               => task'[s].msg = NoMsg
  BY Zenon DEF FreshInv
<1> DEFINE Goal == /\ \A m \in accepted' : m <= calls'
                   /\ \A s \in Senders : task'[s].msg \notin accepted'
                   /\ \A s, r \in Senders : s # r /\ task'[s].msg = task'[r].msg
                                              => task'[s].msg = NoMsg
<1>h. \A s \in Senders : s # Proc /\ s \in Tasks
  BY Zenon, Facts
<1>f. running => /\ \A m \in accepted : m <= calls
                 /\ \A s \in Senders : task[s].msg \notin accepted
                 /\ \A s, r \in Senders : s # r /\ task[s].msg = task[r].msg
                                            => task[s].msg = NoMsg
                 /\ \A t \in Tasks : task[t].msg <= calls
  BY Zenon DEF IndInv, FreshInv, TasksInv
<1>m. /\ calls \in Nat /\ accepted \subseteq Nat /\ NoMsg \notin accepted /\ NoMsg = 0
      /\ \A t \in Tasks : task[t].msg \in Nat
      /\ \A t \in Tasks : Busy(t) <=> task[t].msg \in Msgs
  <2>1. Msgs \cup {NoMsg} \subseteq Nat /\ NoMsg \notin Msgs /\ NoMsg = 0
    BY DEF Msgs, NoMsg
  <2> QED BY Zenon, <2>1, MsgFacts
<1>1. CASE Stays \/ Takes \/ PutsBack \/ Closes
  <2>1. running /\ accepted' = accepted /\ calls' = calls
    BY Zenon, <1>1 DEF Stays, Takes, PutsBack, Closes
  <2>2. \A s \in Senders : task'[s].msg = task[s].msg
    BY Zenon, <1>1, <1>h DEF Stays, Takes, PutsBack, Closes, OnlyTask
  <2> QED BY Zenon, <2>1, <2>2, <1>f
<1>2. ASSUME NEW t \in Tasks, Moves(t) PROVE Goal
  <2>1. running /\ accepted' = accepted /\ calls' = calls
    BY Zenon, <1>2 DEF Moves
  <2>2. \A s \in Senders : task'[s].msg = task[s].msg
    BY Zenon, <1>2, <1>h DEF Moves, OnlyTask
  <2> QED BY Zenon, <2>1, <2>2, <1>f
<1>3. ASSUME NEW t \in Tasks, NEW p \in Peers, Pipes(t, p) PROVE Goal
  <2>1. running /\ accepted' = accepted \cup {task[t].msg} /\ calls' = calls
    BY Zenon, <1>3 DEF Pipes
  <2>2. \A s \in Senders : task'[s].msg = IF s = t THEN NoMsg ELSE task[s].msg
    BY Zenon, <1>3, <1>h DEF Pipes, OnlyTask
  <2>3. task[t].msg # NoMsg
    BY Zenon, <1>3, <1>m, Facts DEF Pipes, Busy
  <2>4. \A s \in Senders : s # t => task[s].msg # task[t].msg
    <3>1. CASE t \in Senders
      BY Zenon, <3>1, <1>f, <2>1, <2>3
    <3>2. CASE t \notin Senders
      <4>1. t = Proc /\ Held(task[t].msg) /\ task[t].msg \in Msgs
        BY Zenon, <3>2, <1>3, <1>m, Facts DEF Held, Pipes, Busy
      <4>2. task[t].msg \in accepted
        BY Zenon, <4>1, <2>1 DEF IndInv, OnceInv
      <4> QED BY Zenon, <4>2, <1>f, <2>1
    <3> QED BY Zenon, <3>1, <3>2
  <2> QED BY <2>1, <2>2, <2>3, <2>4, <1>f, <1>m
<1>4. ASSUME NEW s \in Senders, Starts(s) PROVE Goal
  <2>1. running /\ accepted' = accepted /\ calls' = calls + 1
    BY Zenon, <1>4 DEF Starts
  <2>2. \A r \in Senders : task'[r].msg = IF r = s THEN calls + 1 ELSE task[r].msg
    BY Zenon, <1>4, <1>h DEF Starts, OnlyTask
  <2>3. \A r \in Senders : task[r].msg <= calls /\ task[r].msg # calls + 1
    BY <1>f, <1>m, <1>h, <2>1
  <2>4. \A m \in accepted : m <= calls + 1 /\ m # calls + 1
    BY <1>f, <1>m, <2>1
  <2> QED BY Zenon, <2>1, <2>2, <2>3, <2>4, <1>f
<1>5. ASSUME NEW s \in Senders, Fails(s) PROVE Goal
  <2>1. running /\ accepted' = accepted /\ calls' = calls
    BY Zenon, <1>5 DEF Fails
  <2>2. \A r \in Senders : task'[r].msg = IF r = s THEN NoMsg ELSE task[r].msg
    BY Zenon, <1>5, <1>h DEF Fails, OnlyTask
  <2> QED BY Zenon, <2>1, <2>2, <1>f, <1>m
<1>6. ASSUME NEW s \in Senders, Queues(s) PROVE Goal
  <2>1. running /\ accepted' = accepted \cup {task[s].msg} /\ calls' = calls
    BY Zenon, <1>6 DEF Queues
  <2>2. \A r \in Senders : task'[r].msg = IF r = s THEN NoMsg ELSE task[r].msg
    BY Zenon, <1>6, <1>h DEF Queues, OnlyTask
  <2>3. task[s].msg # NoMsg /\ s \in Tasks
    BY Zenon, <1>6, <1>m, <1>h, Facts DEF Queues, Busy
  <2> QED BY <2>1, <2>2, <2>3, <1>f, <1>m
<1>7. ASSUME NEW p \in Peers, Writes(p) \/ Ends(p) PROVE Goal
  BY ZenonT(60), <1>7, <1>f DEF Writes, Ends
<1> QED BY ZenonT(60), <1>1, <1>2, <1>3, <1>4, <1>5, <1>6, <1>7 DEF Kind

(* OnceInv is preserved: each step moves a message from one place to       *)
(* another.                                                                *)
LEMMA OnceNext ==
    ASSUME IndInv, TypeOK', Kind
    PROVE  OnceInv'
<1> SUFFICES ASSUME running' PROVE OnceInv'
  BY Zenon DEF OnceInv
<1>r. running
  BY Zenon DEF Kind, Stays, Takes, PutsBack, Closes, Moves, Pipes, Starts, Fails, Queues, Writes, Ends
<1>i. OnceInv
  BY Zenon DEF IndInv
<1>h. /\ \A s \in Senders : s # Proc /\ s \in Tasks
      /\ Proc \in Tasks
      /\ \A m \in Msgs : m # NoMsg
  BY Zenon, Facts
<1>k. ASSUME UNCHANGED <<queue, pipe, written, lost, accepted>>, task'[Proc].msg = task[Proc].msg
      PROVE  OnceInv'
  BY ZenonT(60), <1>k, <1>i, <1>r DEF OnceInv, Queued, Piped, Held
<1>1. CASE Stays
  BY Zenon, <1>1, <1>k, <1>h DEF Stays
<1>2. CASE Takes
  <2> DEFINE h == Head(queue)
  <2>1. /\ h \in Msgs /\ Queued(h)
        /\ \A m : In(queue', m) <=> In(queue, m) /\ m # h
        /\ Injective(queue')
    BY ZenonT(60), <1>2, <1>i, <1>r, TailFacts, MsgFacts DEF Takes, OnceInv, Queued
  <2>2. ~Busy(Proc) /\ \A m \in Msgs : ~Held(m)
    BY Zenon, <1>2, <1>h, MsgFacts DEF Takes, Busy, Held
  <2>3. \A m \in Msgs : Held(m)' <=> m = h
    BY Zenon, <1>2 DEF Takes, Held
  <2>4. UNCHANGED <<pipe, written, lost, accepted>>
    BY Zenon, <1>2 DEF Takes
  <2> HIDE DEF h
  <2> QED BY ZenonT(60), <2>1, <2>2, <2>3, <2>4, <1>i, <1>r DEF OnceInv, Queued, Piped
<1>3. CASE PutsBack
  <2> DEFINE h == task[Proc].msg
  <2>1. h \in Msgs /\ Held(h) /\ ~Queued(h)
    BY ZenonT(60), <1>3, <1>h, <1>i, <1>r, MsgFacts DEF PutsBack, Busy, Held, OnceInv
  <2>2. /\ \A m : In(queue', m) <=> In(queue, m) \/ m = h
        /\ Injective(queue')
    <3>1. queue' = <<h>> \o queue /\ queue \in Seq(Msgs)
      BY Zenon, <1>3, MsgFacts DEF PutsBack
    <3>2. Injective(queue) /\ ~In(queue, h)
      BY Zenon, <1>i, <1>r, <2>1 DEF OnceInv, Queued
    <3> HIDE DEF h
    <3> QED BY Zenon, <3>1, <3>2, <2>1, ConsFacts
  <2>3. \A m \in Msgs : ~Held(m)' /\ (Held(m) <=> m = h)
    BY Zenon, <1>3, <1>h DEF PutsBack, Held
  <2>4. UNCHANGED <<pipe, written, lost, accepted>>
    BY ZenonT(60), <1>3 DEF PutsBack
  <2> HIDE DEF h
  <2> QED BY Zenon, <2>1, <2>2, <2>3, <2>4, <1>i, <1>r DEF OnceInv, Queued, Piped
<1>4. CASE Closes
  BY ZenonT(60), <1>4, <1>r DEF Closes
<1>5. ASSUME NEW t \in Tasks, Moves(t) PROVE OnceInv'
  BY ZenonT(60), <1>5, <1>k, <1>h DEF Moves, OnlyTask
<1>6. ASSUME NEW t \in Tasks, NEW p \in Peers, Pipes(t, p) PROVE OnceInv'
  <2> DEFINE h == task[t].msg
  <2>1. h \in Msgs
    BY Zenon, <1>6, MsgFacts, Facts DEF Pipes, Busy
  <2>2. t = Proc => Held(h)
    BY Zenon DEF Held
  <2>3. t # Proc => h \notin accepted
    BY Zenon, <1>r, Facts DEF IndInv, FreshInv
  <2>4. ~Queued(h) /\ written[h] = 0 /\ h \notin lost /\ \A r \in Peers : ~Piped(r, h)
    BY Zenon, <2>1, <2>2, <2>3, <1>i, <1>r DEF OnceInv
  <2>5. pipe' = [pipe EXCEPT ![p] = Append(@, h)] /\ pipe \in [Peers -> Seq(Msgs)]
    BY Zenon, <1>6 DEF Pipes, IndInv, TypeOK
  <2>6. /\ \A r \in Peers : r # p => pipe'[r] = pipe[r]
        /\ pipe'[p] = Append(pipe[p], h) /\ pipe[p] \in Seq(Msgs)
    BY Zenon, <2>5
  <2>7. /\ \A m : In(pipe'[p], m) <=> In(pipe[p], m) \/ m = h
        /\ Injective(pipe'[p])
    <3>1. Injective(pipe[p]) /\ ~In(pipe[p], h)
      BY Zenon, <1>i, <1>r, <2>4 DEF OnceInv, Piped
    <3> HIDE DEF h
    <3> QED BY SMTT(30), <3>1, <2>1, <2>6, AppendFacts
  <2>8. \A m \in Msgs : Held(m)' <=> Held(m) /\ m # h
    <3>1. CASE t = Proc
      BY Zenon, <3>1, <1>6, <1>h DEF Pipes, Held
    <3>2. CASE t # Proc
      <4>1. ~Held(h)
        BY Zenon, <3>2, <2>1, <2>3, <1>i, <1>r DEF OnceInv
      <4> QED BY Zenon, <4>1, <3>2, <1>6, <1>h DEF Pipes, Held, OnlyTask
    <3> QED BY Zenon, <3>1, <3>2
  <2>9. queue' = queue /\ written' = written /\ lost' = lost /\ accepted' = accepted \cup {h}
    BY Zenon, <1>6 DEF Pipes
  <2> HIDE DEF h
  <2>10. \A r \in Peers : Injective(pipe'[r])
    BY Zenon, <2>6, <2>7, <1>i, <1>r DEF OnceInv
  <2>11. \A r \in Peers, m \in Msgs : In(pipe'[r], m) <=> In(pipe[r], m) \/ (r = p /\ m = h)
    BY Zenon, <2>6, <2>7
  <2> QED BY SMTT(30), <2>1, <2>4, <2>8, <2>9, <2>10, <2>11, <1>i, <1>r DEF OnceInv, Queued, Piped
<1>7. ASSUME NEW s \in Senders, Starts(s) \/ Fails(s) PROVE OnceInv'
  BY ZenonT(60), <1>7, <1>k, <1>h DEF Starts, Fails, OnlyTask
<1>8. ASSUME NEW s \in Senders, Queues(s) PROVE OnceInv'
  <2> DEFINE h == task[s].msg
  <2>1. h \in Msgs /\ h \notin accepted
    BY Zenon, <1>8, <1>h, <1>r, MsgFacts DEF Queues, Busy, IndInv, FreshInv
  <2>2. ~Queued(h) /\ ~Held(h) /\ written[h] = 0 /\ h \notin lost /\ \A r \in Peers : ~Piped(r, h)
    BY Zenon, <2>1, <1>i, <1>r DEF OnceInv
  <2>3. /\ \A m : In(queue', m) <=> In(queue, m) \/ m = h
        /\ Injective(queue')
    <3>1. queue' = Append(queue, h) /\ queue \in Seq(Msgs)
      BY Zenon, <1>8, MsgFacts DEF Queues
    <3>2. Injective(queue) /\ ~In(queue, h)
      BY Zenon, <1>i, <1>r, <2>2 DEF OnceInv, Queued
    <3> HIDE DEF h
    <3> QED BY Zenon, <3>1, <3>2, <2>1, AppendFacts
  <2>4. \A m \in Msgs : Held(m)' <=> Held(m)
    BY Zenon, <1>8, <1>h DEF Queues, Held, OnlyTask
  <2>5. pipe' = pipe /\ written' = written /\ lost' = lost /\ accepted' = accepted \cup {h}
    BY Zenon, <1>8 DEF Queues
  <2> HIDE DEF h
  <2> QED BY <2>1, <2>2, <2>3, <2>4, <2>5, <1>i, <1>r DEF OnceInv, Queued, Piped
<1>9. ASSUME NEW p \in Peers, Writes(p) PROVE OnceInv'
  <2> DEFINE h == Head(pipe[p])
  <2>1. pipe' = [pipe EXCEPT ![p] = Tail(@)] /\ pipe \in [Peers -> Seq(Msgs)] /\ pipe[p] # <<>>
    BY Zenon, <1>9 DEF Writes, IndInv, TypeOK
  <2>2. /\ \A r \in Peers : r # p => pipe'[r] = pipe[r]
        /\ pipe'[p] = Tail(pipe[p]) /\ pipe[p] \in Seq(Msgs)
    BY Zenon, <2>1
  <2>3. /\ h \in Msgs /\ Piped(p, h)
        /\ \A m : In(pipe'[p], m) <=> In(pipe[p], m) /\ m # h
        /\ Injective(pipe'[p])
    BY <2>1, <2>2, <1>i, <1>r, TailFacts DEF OnceInv, Piped
  <2>4. /\ ~Queued(h) /\ ~Held(h) /\ written[h] = 0 /\ h \notin lost
        /\ \A r \in Peers : Piped(r, h) => r = p
    BY ZenonT(60), <2>3, <1>i, <1>r DEF OnceInv
  <2>5. \A m \in Msgs : written'[m] = IF m = h THEN 1 ELSE written[m]
    <3>1. written' = [written EXCEPT ![h] = @ + 1] /\ written \in [Msgs -> Nat]
      BY Zenon, <1>9 DEF Writes, IndInv, TypeOK
    <3> HIDE DEF h
    <3> QED BY <3>1, <2>3, <2>4
  <2>6. queue' = queue /\ task' = task /\ lost' = lost /\ accepted' = accepted
    BY Zenon, <1>9 DEF Writes
  <2> HIDE DEF h
  <2>7. \A r \in Peers : Injective(pipe'[r])
    BY Zenon, <2>2, <2>3, <1>i, <1>r DEF OnceInv
  <2>8. \A r \in Peers, m \in Msgs : In(pipe'[r], m) <=> In(pipe[r], m) /\ ~(r = p /\ m = h)
    BY Zenon, <2>2, <2>3
  <2> QED BY <2>3, <2>4, <2>5, <2>6, <2>7, <2>8, <1>i, <1>r, SMTT(30) DEF OnceInv, Queued, Piped, Held
<1>10. ASSUME NEW p \in Peers, Ends(p) PROVE OnceInv'
  <2>1. pipe' = [pipe EXCEPT ![p] = <<>>] /\ pipe \in [Peers -> Seq(Msgs)]
    BY Zenon, <1>10 DEF Ends, IndInv, TypeOK
  <2>2. /\ \A r \in Peers : r # p => pipe'[r] = pipe[r]
        /\ pipe'[p] = <<>>
    BY Zenon, <2>1
  <2>3. \A r \in Peers : Injective(pipe'[r])
    BY Zenon, <2>2, <1>i, <1>r, EmptyFacts DEF OnceInv
  <2>4. \A r \in Peers, m \in Msgs : In(pipe'[r], m) <=> In(pipe[r], m) /\ r # p
    BY Zenon, <2>2, EmptyFacts
  <2>5. \A m \in Msgs : m \in lost' <=> m \in lost \/ In(pipe[p], m)
    BY Zenon, <1>10 DEF Ends, In
  <2>6. queue' = queue /\ task' = task /\ written' = written /\ accepted' = accepted
    BY Zenon, <1>10 DEF Ends
  <2> QED BY SMTT(30), <2>3, <2>4, <2>5, <2>6, <1>i, <1>r DEF OnceInv, Queued, Piped, Held
<1> QED BY Zenon, <1>1, <1>2, <1>3, <1>4, <1>5, <1>6, <1>7, <1>8, <1>9, <1>10 DEF Kind

-----------------------------------------------------------------------------
(* Each action keeps TypeOK and is of one of the kinds.                    *)

LbType(l) == l \in Seq(Peers) /\ Injective(l)
SemType == [Peers -> Tasks \cup {None, "free"}]
Rest ==
    /\ sndtimeo \in Timeos /\ running \in BOOLEAN /\ stopping \in {"no", "signalled", "done"}
    /\ conn \in [Peers -> ConnStates] /\ LbType(lb) /\ semaphore \in SemType
    /\ pipe \in [Peers -> Seq(Msgs)] /\ \A p \in Peers : Len(pipe[p]) <= PipeCap
    /\ written \in [Msgs -> Nat] /\ queue \in Seq(Msgs)
    /\ calls \in 0..MaxMsgs /\ cancels \in 0..MaxCancels
    /\ accepted \subseteq Msgs /\ lost \subseteq Msgs /\ evicted \subseteq Peers

(* TypeOK said of the task table, the notifications and the rest.          *)
LEMMA TypeParts ==
    /\ TypeOK <=> Rest /\ task \in TaskType /\ notify \in NotifyType
    /\ TypeOK' <=> Rest' /\ task' \in TaskType /\ notify' \in NotifyType
BY Zenon DEF TypeOK, Rest, LbType, SemType, Injective, TaskType, NotifyType

(* k is task with the record of t at another place.                        *)
Edit(k, t, at, msg, peer) ==
    /\ k \in TaskType
    /\ k[t].at = at /\ k[t].msg = msg /\ k[t].peer = peer
    /\ \A u \in Tasks : u # t => /\ k[u].at = task[u].at /\ k[u].msg = task[u].msg
                                  /\ k[u].peer = task[u].peer

(* Go moves one task and leaves it its message and its peer.               *)
LEMMA GoEdit ==
    ASSUME task \in TaskType, NEW t \in Tasks, NEW at \in Places
    PROVE  Edit(Go(t, at), t, at, task[t].msg, task[t].peer)
<1>1. Go(t, at) \in TaskType
  BY Zenon DEF Go, TaskType
<1> QED BY Zenon, <1>1 DEF Edit, Go, TaskType

(* Leave moves one task and takes its peer away.                           *)
LEMMA LeaveEdit ==
    ASSUME task \in TaskType, NEW t \in Tasks, NEW at \in Places
    PROVE  Edit(Leave(t, at), t, at, task[t].msg, None)
<1> DEFINE r == [task[t] EXCEPT !.at = at, !.peer = None,
                                !.left = IF at = "choose" THEN @ ELSE 0]
<1>1. Leave(t, at) = [task EXCEPT ![t] = r]
  BY Zenon DEF Leave
<1>2. /\ r \in [at : Places, msg : Msgs \cup {NoMsg}, left : Nat, peer : Peers \cup {None},
                woken : [Notifies -> {"no", "one", "all"}]]
      /\ r.at = at /\ r.msg = task[t].msg /\ r.peer = None
  BY Zenon DEF TaskType
<1> HIDE DEF r
<1>3. Leave(t, at) \in TaskType
  BY Zenon, <1>1, <1>2 DEF TaskType
<1> QED BY Zenon, <1>1, <1>2, <1>3 DEF Edit, TaskType

(* Done takes the message and the peer away: a sender is idle again, the   *)
(* processor goes round its loop.                                          *)
LEMMA DoneEdit ==
    ASSUME task \in TaskType, NEW t \in Tasks
    PROVE  Edit(Done(t), t, IF t = Proc THEN "register" ELSE "idle", NoMsg, None)
<1>1. Asleep \in [Notifies -> {"no", "one", "all"}]
  BY Zenon DEF Asleep
<1>2. Done(t) \in TaskType
  BY Zenon, <1>1 DEF Done, TaskType, Places
<1> QED BY Zenon, <1>2 DEF Edit, Done, TaskType

(* The notifications do not disturb an edit.                               *)
LEMMA SettleEdit ==
    ASSUME NEW k, NEW t \in Tasks, NEW at, NEW msg, NEW peer, Edit(k, t, at, msg, peer),
           NEW l \in TaskType, Same(k, l)
    PROVE  Edit(l, t, at, msg, peer)
BY Zenon DEF Edit, Same

(* The pair of notifications and tasks that an action starts from.         *)
LEMMA NSFacts ==
    ASSUME notify \in NotifyType, NEW k \in TaskType
    PROVE  NS(k) \in NSType /\ NS(k).k = k /\ NS(k).n = notify
BY Zenon DEF NS, NSType

(* Both parts of such a pair are well typed.                               *)
LEMMA NSParts ==
    ASSUME NEW ns \in NSType
    PROVE  ns.n \in NotifyType /\ ns.k \in TaskType
BY Zenon DEF NSType

(* notify_one on a table that agrees with task leaves one that does.       *)
LEMMA NotifyOneStays ==
    ASSUME NEW ns \in NSType, Same(task, ns.k), NEW c \in Notifies
    PROVE  notify_one(ns, c) \in NSType /\ Same(task, notify_one(ns, c).k)
<1>1. notify_one(ns, c) \in NSType /\ Same(ns.k, notify_one(ns, c).k)
  BY Zenon, NotifyOne
<1> QED BY Zenon, <1>1 DEF Same

(* The same for notify_waiters.                                            *)
LEMMA NotifyWaitersStays ==
    ASSUME NEW ns \in NSType, Same(task, ns.k), NEW c \in Notifies
    PROVE  notify_waiters(ns, c) \in NSType /\ Same(task, notify_waiters(ns, c).k)
<1>1. notify_waiters(ns, c) \in NSType /\ Same(ns.k, notify_waiters(ns, c).k)
  BY NotifyWaiters
<1> QED BY Zenon, <1>1 DEF Same

(* An edit followed by a notification is still that edit.                  *)
LEMMA SettleFacts ==
    ASSUME notify \in NotifyType, NEW k, NEW t \in Tasks, NEW at, NEW msg, NEW peer,
           Edit(k, t, at, msg, peer), NEW c \in Notifies
    PROVE  /\ settle(notify_one(NS(k), c)) =>
                 notify' \in NotifyType /\ Edit(task', t, at, msg, peer)
           /\ settle(notify_waiters(NS(k), c)) =>
                 notify' \in NotifyType /\ Edit(task', t, at, msg, peer)
<1>1. k \in TaskType
  BY Zenon DEF Edit
<1>2. NS(k) \in NSType /\ NS(k).k = k
  BY Zenon, <1>1, NSFacts
<1>3. ASSUME NEW ns \in NSType, Same(k, ns.k), settle(ns)
      PROVE  notify' \in NotifyType /\ Edit(task', t, at, msg, peer)
  BY Zenon, <1>3, SettleEdit, NSParts DEF settle
<1> QED BY Zenon, <1>2, <1>3, NotifyOne, NotifyWaiters

(* The rotation of the load balancer has no peer twice, whatever is added, *)
(* removed or rotated.                                                     *)
LEMMA LbFacts ==
    ASSUME LbType(lb)
    PROVE  /\ \A p \in Peers : LbType(remove_connection(p)) /\ LbType(add_connection(p))
           /\ lb # <<>> => LbType(get_next_connection_uri(lb)) /\ Head(lb) \in Peers
<1>1. ASSUME NEW p \in Peers PROVE LbType(remove_connection(p)) /\ LbType(add_connection(p))
  <2>1. LbType(remove_connection(p))
    BY Zenon, WithoutFacts DEF LbType, remove_connection
  <2>2. CASE In(lb, p)
    BY Zenon, <2>1, <2>2 DEF In, add_connection
  <2>3. CASE ~In(lb, p)
    <3>1. add_connection(p) = Append(lb, p)
      BY Zenon, <2>3 DEF In, add_connection
    <3> QED BY <2>1, <2>3, <3>1, AppendFacts DEF LbType
  <2> QED BY Zenon, <2>2, <2>3
<1>2. ASSUME lb # <<>> PROVE LbType(get_next_connection_uri(lb)) /\ Head(lb) \in Peers
  <2>1. /\ Tail(lb) \in Seq(Peers) /\ Head(lb) \in Peers
        /\ Injective(Tail(lb)) /\ ~In(Tail(lb), Head(lb))
    BY Zenon, <1>2, TailFacts DEF LbType
  <2> QED BY ZenonT(60), <2>1, AppendFacts DEF LbType, get_next_connection_uri
<1> QED BY Zenon, <1>1, <1>2

(* A semaphore stays well typed when it is taken, released or dropped.     *)
LEMMA SemFacts ==
    ASSUME semaphore \in SemType, NEW p \in Peers, NEW t \in Tasks
    PROVE  /\ remove_pipe(p) \in SemType /\ release(p, t) \in SemType
           /\ [semaphore EXCEPT ![p] = t] \in SemType
           /\ [semaphore EXCEPT ![p] = "free"] \in SemType
BY Zenon DEF SemType, remove_pipe, release

(* The parts of the inductive invariant that the actions need.             *)
LEMMA Now ==
    ASSUME IndInv
    PROVE  Rest /\ task \in TaskType /\ notify \in NotifyType /\ TasksInv
BY Zenon, TypeParts DEF IndInv

(* An edit of task touches one task only.                                  *)
LEMMA EditTask ==
    ASSUME NEW t \in Tasks, NEW at, NEW msg, NEW peer, Edit(task', t, at, msg, peer)
    PROVE  /\ OnlyTask(t) /\ task' \in TaskType
           /\ task'[t].at = at /\ task'[t].msg = msg /\ task'[t].peer = peer
BY Zenon DEF Edit, OnlyTask

(* A task that keeps its message and goes to a place for such a message.   *)
LEMMA MoveStep ==
    ASSUME NEW t \in Tasks, NEW at, NEW peer, Edit(task', t, at, task[t].msg, peer),
           at \in {"permit", "write"} => peer \in Peers,
           t = Proc => /\ at \notin {"idle", "queue", "push"}
                       /\ Busy(t) <=> at \in {"count", "choose", "permit", "write", "requeue"},
           t # Proc => at \notin {"requeue", "stopped", "idle"} /\ Busy(t),
           running /\ at = "push" => HasRoom,
           UNCHANGED <<running, queue, pipe, written, lost, accepted, calls>>
    PROVE  Kind
<1>1. OnlyTask(t) /\ task'[t].at = at /\ task'[t].msg = task[t].msg /\ task'[t].peer = peer
  BY EditTask
<1>2. Placed(t)
  BY Zenon, <1>1 DEF Placed
<1>3. Busy(t)' <=> Busy(t)
  BY Zenon, <1>1 DEF Busy
<1> QED BY ZenonT(60), <1>1, <1>2, <1>3 DEF Kind, Moves

(* No task changes place.                                                  *)
LEMMA StayStep ==
    ASSUME IndInv, NEW ns \in NSType, Same(task, ns.k), settle(ns),
           running' => running, UNCHANGED <<queue, pipe, written, lost, accepted, calls>>
    PROVE  Kind /\ task' \in TaskType /\ notify' \in NotifyType
<1>1. task' \in TaskType /\ notify' \in NotifyType /\ Same(task, task')
  BY Zenon, NSParts DEF settle
<1>2. Stays
  BY Zenon, <1>1 DEF Stays, Same
<1> QED BY Zenon, <1>1, <1>2 DEF Kind

(* The loop over the peers.                                                *)
LEMMA PeerLoopStep ==
    ASSUME IndInv, NEW t \in Tasks, PeerLoop(t)
    PROVE  TypeOK' /\ Kind
<1>n. Rest /\ task \in TaskType /\ notify \in NotifyType /\ TasksInv
  BY Zenon, Now
<1>l. LbType(lb) /\ semaphore \in SemType
  BY Zenon, <1>n DEF Rest
<1>p. "peer" \in Notifies /\ "queue" \in Notifies
  BY Zenon DEF Notifies
<1>a. {"choose", "permit", "write", "queue", "requeue"} \subseteq Places
  BY Zenon DEF Places
<1>b. t # Proc => (Busy(t) <=> task[t].at # "idle")
  BY Zenon DEF Busy
<1>c. t = Proc => (Busy(t) <=> task[t].at \in {"count", "choose", "permit", "write", "requeue"})
  BY Zenon DEF Busy
<1>w. task[t].at \in {"permit", "write"} => task[t].peer \in Peers
  BY Zenon, <1>n DEF TasksInv
<1>1. CASE choose_closing(t)
  <2>1. CASE t = Proc
    <3>1. /\ queue' = <<task[t].msg>> \o queue
          /\ settle(notify_one(NS(Leave(t, "requeue")), "queue"))
      BY Zenon, <1>1, <2>1 DEF choose_closing
    <3>2. Edit(task', t, "requeue", task[t].msg, None) /\ notify' \in NotifyType
      BY Zenon, <3>1, <1>n, <1>a, <1>p, LeaveEdit, SettleFacts
    <3>3. task[t].msg \in Msgs /\ queue \in Seq(Msgs)
      BY Zenon, <1>1, <2>1, MsgFacts DEF choose_closing, Busy
    <3>4. queue' \in Seq(Msgs)
      BY Zenon, <3>1, <3>3, ConsFacts
    <3>5. Rest'
      BY ZenonT(60), <1>1, <1>n, <3>4 DEF choose_closing, modeVars, peerVars, userVars, Rest, LbType
    <3>6. Closes
      BY ZenonT(60), <1>1, <2>1, <3>2, EditTask DEF choose_closing, modeVars, peerVars, userVars, Closes
    <3> QED BY Zenon, <3>2, <3>5, <3>6, TypeParts DEF Kind, Edit
  <2>2. CASE t # Proc
    <3>1. task' = Done(t) /\ notify' = notify /\ queue' = queue
      BY Zenon, <1>1, <2>2 DEF choose_closing, settle, NS
    <3>2. Edit(task', t, "idle", NoMsg, None)
      BY Zenon, <3>1, <2>2, <1>n, DoneEdit
    <3>3. Rest'
      BY ZenonT(60), <1>1, <1>n, <3>1 DEF choose_closing, modeVars, peerVars, userVars, Rest, LbType
    <3>4. t \in Senders /\ Fails(t)
      BY ZenonT(60), <1>1, <2>2, <3>1, <3>2, EditTask, Facts
      DEF choose_closing, modeVars, peerVars, userVars, Fails
    <3> QED BY ZenonT(60), <3>1, <3>2, <3>3, <3>4, <1>n, TypeParts DEF Kind, Edit
  <2> QED BY Zenon, <2>1, <2>2
<1>2. CASE choose_peer(t)
  <2>1. UNCHANGED <<sndtimeo, running, stopping, conn, semaphore, pipe, written, queue,
                    calls, cancels, accepted, lost, evicted>>
    BY Zenon, <1>2 DEF choose_peer, modeVars, userVars
  <2>2. Busy(t)
    BY Zenon, <1>2 DEF choose_peer, Busy
  <2>3. CASE task[t].left = 0 \/ lb = <<>>
    <3>1. task' = Leave(t, GiveUp(t)) /\ lb' = lb /\ notify' = notify
      BY Zenon, <1>2, <2>3 DEF choose_peer
    <3>2. Edit(task', t, GiveUp(t), task[t].msg, None)
      BY Zenon, <3>1, <1>n, <1>a, LeaveEdit DEF GiveUp
    <3>3. Kind
      BY SMTT(60), <3>2, <2>1, <2>2, MoveStep DEF GiveUp
    <3>4. Rest'
      BY Zenon, <2>1, <3>1, <1>n DEF Rest, LbType
    <3> QED BY Zenon, <3>1, <3>2, <3>3, <3>4, <1>n, TypeParts DEF Edit
  <2>4. CASE ~(task[t].left = 0 \/ lb = <<>>)
    <3> DEFINE p == Head(lb)
               k == [task EXCEPT ![t].left = @ - 1]
    <3>1. p \in Peers
      BY Zenon, <2>4, <1>l, LbFacts
    <3>2. Edit(k, t, task[t].at, task[t].msg, task[t].peer)
      <4>1. task[t].left - 1 \in Nat
        BY <2>4, <1>n DEF TaskType
      <4>2. k \in TaskType
        BY ZenonT(60), <4>1, <1>n DEF TaskType
      <4> QED BY Zenon, <4>2, <1>n DEF Edit, TaskType
    <3>3. CASE Endpoint(p)
      <4>1. /\ lb' = get_next_connection_uri(lb) /\ notify' = notify
            /\ task' = [k EXCEPT ![t].at = "permit", ![t].peer = p]
        BY Zenon, <1>2, <2>4, <3>3 DEF choose_peer
      <4>2. Edit(task', t, "permit", task[t].msg, p)
        <5>1. k \in TaskType
          BY Zenon, <3>2 DEF Edit
        <5> HIDE DEF k, p
        <5>2. task' \in TaskType
          BY ZenonT(60), <4>1, <5>1, <3>1, <1>a DEF TaskType
        <5> QED BY Zenon, <4>1, <5>1, <5>2, <3>1, <3>2 DEF Edit, TaskType
      <4>3. Kind
        BY <4>2, <3>1, <2>1, <2>2, MoveStep
      <4>4. LbType(lb')
        BY Zenon, <4>1, <2>4, <1>l, LbFacts
      <4>5. Rest'
        BY Zenon, <2>1, <4>4, <1>n DEF Rest, LbType
      <4> QED BY Zenon, <4>1, <4>2, <4>3, <4>5, <1>n, TypeParts DEF Edit
    <3>4. CASE ~Endpoint(p)
      <4>1. lb' = remove_connection(p) /\ settle(notify_waiters(NS(k), "peer"))
        BY Zenon, <1>2, <2>4, <3>4 DEF choose_peer
      <4>2. Edit(task', t, task[t].at, task[t].msg, task[t].peer) /\ notify' \in NotifyType
        BY Zenon, <4>1, <3>2, <1>n, <1>p, SettleFacts
      <4>3. task[t].at = "choose"
        BY Zenon, <1>2 DEF choose_peer
      <4>4. Kind
        BY Zenon, <4>2, <4>3, <2>1, <2>2, MoveStep
      <4>5. LbType(lb')
        BY ZenonT(60), <4>1, <3>1, <1>l, LbFacts
      <4>6. Rest'
        BY <2>1, <4>5, <1>n DEF Rest, LbType
      <4> QED BY Zenon, <4>2, <4>4, <4>6, <1>n, TypeParts DEF Edit
    <3> QED BY Zenon, <3>3, <3>4
  <2> QED BY Zenon, <2>3, <2>4
<1>3. CASE permit_unreachable(t)
  <2> DEFINE p == task[t].peer
  <2>1. /\ UNCHANGED <<sndtimeo, running, stopping, conn, semaphore, pipe, written, queue,
                       calls, cancels, accepted, lost>>
        /\ lb' = remove_connection(p) /\ p \in Peers /\ evicted' \subseteq evicted \cup {p}
        /\ settle(notify_waiters(NS(Leave(t, "choose")), "peer"))
    BY Zenon, <1>3, <1>w DEF permit_unreachable, modeVars, userVars
  <2>2. Busy(t)
    BY Zenon, <1>3 DEF permit_unreachable, Busy
  <2>3. Edit(task', t, "choose", task[t].msg, None) /\ notify' \in NotifyType
    BY ZenonT(60), <2>1, <1>n, <1>a, <1>p, LeaveEdit, SettleFacts
  <2>4. Kind
    <3>1. UNCHANGED <<running, queue, pipe, written, lost, accepted, calls>>
      BY Zenon, <2>1
    <3> QED BY <3>1, <2>2, <2>3, MoveStep
  <2>5. LbType(lb')
    BY Zenon, <2>1, <1>l, LbFacts
  <2>6. Rest'
    BY Zenon, <2>1, <2>5, <1>n DEF Rest, LbType
  <2> QED BY Zenon, <2>3, <2>4, <2>6, TypeParts DEF Edit
<1>4. CASE acquire_send_permit(t)
  <2> DEFINE p == task[t].peer
  <2>1. /\ UNCHANGED <<sndtimeo, running, stopping, conn, lb, pipe, written, queue, notify,
                       calls, cancels, accepted, lost, evicted>>
        /\ semaphore' = [semaphore EXCEPT ![p] = t] /\ p \in Peers
        /\ task' = Go(t, "write")
    BY Zenon, <1>4, <1>w DEF acquire_send_permit, modeVars, userVars
  <2>2. Busy(t)
    BY Zenon, <1>4 DEF acquire_send_permit, Busy
  <2>3. Edit(task', t, "write", task[t].msg, p)
    BY Zenon, <2>1, <1>n, <1>a, GoEdit
  <2>4. Kind
    BY SMTT(60), <2>1, <2>2, <2>3, MoveStep
  <2>5. semaphore' \in SemType
    BY ZenonT(60), <2>1, <1>l, SemFacts
  <2>6. Rest'
    BY Zenon, <2>1, <2>5, <1>n DEF Rest, LbType
  <2> QED BY ZenonT(60), <2>1, <2>3, <2>4, <2>6, <1>n, TypeParts DEF Edit
<1>5. CASE permit_times_out(t)
  <2> DEFINE at == IF t = Proc THEN "choose" ELSE "queue"
  <2>1. /\ UNCHANGED <<sndtimeo, running, stopping, conn, lb, semaphore, pipe, written, queue,
                       notify, calls, cancels, accepted, lost, evicted>>
        /\ task' = Leave(t, at)
    BY Zenon, <1>5 DEF permit_times_out, modeVars, userVars, peerVars
  <2>2. Busy(t)
    BY Zenon, <1>5 DEF permit_times_out, Busy
  <2>3. Edit(task', t, at, task[t].msg, None)
    BY Zenon, <2>1, <1>n, <1>a, LeaveEdit
  <2>4. Kind
    BY <2>1, <2>2, <2>3, MoveStep
  <2>5. Rest'
    BY Zenon, <2>1, <1>n DEF Rest, LbType
  <2> QED BY Zenon, <2>1, <2>3, <2>4, <2>5, <1>n, TypeParts DEF Edit
<1>6. CASE write_succeeds(t)
  <2> DEFINE p == task[t].peer
  <2>1. /\ UNCHANGED <<sndtimeo, running, stopping, conn, lb, written, queue, notify,
                       calls, cancels, lost, evicted>>
        /\ semaphore' = release(p, t) /\ p \in Peers /\ task' = Done(t)
        /\ task[t].at = "write" /\ Len(pipe[p]) < PipeCap
        /\ pipe' = [pipe EXCEPT ![p] = Append(@, task[t].msg)]
        /\ accepted' = accepted \cup {task[t].msg}
    BY Zenon, <1>6, <1>w DEF write_succeeds, modeVars, userVars
  <2>2. task[t].msg \in Msgs
    BY ZenonT(60), <2>1, MsgFacts DEF Busy
  <2>3. Edit(task', t, IF t = Proc THEN "register" ELSE "idle", NoMsg, None)
    BY ZenonT(60), <2>1, <1>n, DoneEdit
  <2>4. Pipes(t, p)
    BY ZenonT(60), <2>1, <2>3, EditTask DEF Pipes
  <2>5. semaphore' \in SemType
    BY Zenon, <2>1, <1>l, SemFacts
  <2>6. pipe' \in [Peers -> Seq(Msgs)] /\ \A r \in Peers : Len(pipe'[r]) <= PipeCap
    <3>1. pipe \in [Peers -> Seq(Msgs)] /\ \A r \in Peers : Len(pipe[r]) <= PipeCap
      BY Zenon, <1>n DEF Rest
    <3>2. Append(pipe[p], task[t].msg) \in Seq(Msgs) /\ Len(Append(pipe[p], task[t].msg)) <= PipeCap
      <4>1. Len(pipe[p]) \in Nat /\ pipe[p] \in Seq(Msgs)
        BY <2>1, <3>1
      <4> HIDE DEF p
      <4>2. Len(pipe[p]) + 1 <= PipeCap
        BY <4>1, <2>1, Facts
      <4> QED BY SMTT(60), <4>1, <4>2, <2>2, AppendFacts
    <3> HIDE DEF p
    <3> QED BY Zenon, <2>1, <3>1, <3>2
  <2>7. Rest'
    BY Zenon, <2>1, <2>2, <2>5, <2>6, <1>n DEF Rest, LbType
  <2> QED BY ZenonT(60), <2>1, <2>3, <2>4, <2>7, <1>n, TypeParts DEF Edit, Kind
<1>7. CASE write_times_out(t)
  <2> DEFINE p == task[t].peer
  <2>1. /\ UNCHANGED <<sndtimeo, running, stopping, conn, lb, pipe, written, queue, notify,
                       calls, cancels, accepted, lost, evicted>>
        /\ semaphore' = release(p, t) /\ p \in Peers /\ task' = Leave(t, "choose")
    BY ZenonT(60), <1>7, <1>w DEF write_times_out, modeVars, userVars
  <2>2. Busy(t)
    BY Zenon, <1>7 DEF write_times_out, Busy
  <2>3. Edit(task', t, "choose", task[t].msg, None)
    BY Zenon, <2>1, <1>n, <1>a, LeaveEdit
  <2>4. Kind
    BY <2>1, <2>2, <2>3, MoveStep
  <2>5. semaphore' \in SemType
    BY ZenonT(60), <2>1, <1>l, SemFacts
  <2>6. Rest'
    BY Zenon, <2>1, <2>5, <1>n DEF Rest, LbType
  <2> QED BY ZenonT(60), <2>1, <2>3, <2>4, <2>6, <1>n, TypeParts DEF Edit
<1>8. CASE write_closed(t)
  <2> DEFINE p == task[t].peer
  <2>1. /\ UNCHANGED <<sndtimeo, running, stopping, conn, pipe, written, queue,
                       calls, cancels, accepted, lost, evicted>>
        /\ lb' = remove_connection(p) /\ semaphore' = remove_pipe(p) /\ p \in Peers
        /\ settle(notify_waiters(NS(Leave(t, "choose")), "peer"))
    BY ZenonT(60), <1>8, <1>w DEF write_closed, modeVars, userVars
  <2>2. Busy(t)
    BY ZenonT(60), <1>8 DEF write_closed, Busy
  <2>3. Edit(task', t, "choose", task[t].msg, None) /\ notify' \in NotifyType
    BY ZenonT(60), <2>1, <1>n, <1>a, <1>p, LeaveEdit, SettleFacts
  <2>4. Kind
    BY <2>1, <2>2, <2>3, MoveStep
  <2>5. LbType(lb') /\ semaphore' \in SemType
    BY Zenon, <2>1, <1>l, LbFacts, SemFacts
  <2>6. Rest'
    BY Zenon, <2>1, <2>5, <1>n DEF Rest, LbType
  <2> QED BY <2>3, <2>4, <2>6, TypeParts DEF Edit
<1> QED BY Zenon, <1>1, <1>2, <1>3, <1>4, <1>5, <1>6, <1>7, <1>8 DEF PeerLoop

(* A task that has been notified: the processor takes a message if it can, *)
(* a sender looks at the queue again.                                      *)
LEMMA WakeStep ==
    ASSUME IndInv, NEW t \in Tasks, task[t].at \in {"register", "blocked"},
           NEW ns \in NSType, Same(task, ns.k), wake(t, ns),
           UNCHANGED <<modeVars, peerVars, userVars>>
    PROVE  TypeOK' /\ Kind
<1>n. Rest /\ task \in TaskType /\ notify \in NotifyType
  BY Zenon, Now
<1>u. UNCHANGED <<sndtimeo, running, stopping, conn, lb, semaphore, pipe, written, lost, evicted,
                  calls, cancels, accepted>>
  BY Zenon DEF modeVars, peerVars, userVars
<1>k. ns.k \in TaskType /\ notify' \in NotifyType
  BY Zenon, NSParts DEF wake
<1>a. /\ {"count", "register", "queue"} \subseteq Places
      /\ Asleep \in [Notifies -> {"no", "one", "all"}]
  BY Zenon DEF Places, Asleep
<1>1. CASE t = Proc /\ queue # <<>> /\ lb # <<>>
  <2>1. /\ queue' = Tail(queue)
        /\ task' = [ns.k EXCEPT ![Proc] = [ns.k[Proc] EXCEPT !.at = "count", !.msg = Head(queue),
                                                             !.woken = Asleep]]
    BY Zenon, <1>1 DEF wake, take
  <2>2. Head(queue) \in Msgs /\ queue' \in Seq(Msgs)
    BY <1>1, <1>n, <2>1, TailFacts DEF Rest
  <2> DEFINE h == Head(queue)
             w == Asleep
             k == ns.k
             r == [k[Proc] EXCEPT !.at = "count", !.msg = h, !.woken = w]
  <2>3. task' = [k EXCEPT ![Proc] = r]
    BY Zenon, <2>1
  <2>4. k \in TaskType /\ h \in Msgs /\ w \in [Notifies -> {"no", "one", "all"}]
        /\ Same(task, k)
    BY Zenon, <2>2, <1>k, <1>a
  <2> HIDE DEF h, w, k
  <2>r. r \in TaskRecord /\ r.at = "count" /\ r.msg = h
    BY ZenonT(60), <2>2, <2>4, <1>1, <1>a DEF TaskType, TaskRecord
  <2> HIDE DEF r
  <2>5. task' \in TaskType
    BY Zenon, <2>3, <2>4, <2>r DEF TaskType, TaskRecord
  <2>6. OnlyTask(Proc) /\ task'[Proc].at = "count" /\ task'[Proc].msg = h
    BY Zenon, <2>3, <2>4, <2>r, <1>1 DEF OnlyTask, Same, TaskType
  <2>7. Takes
    BY Zenon, <2>1, <2>6, <1>1, <1>u DEF Takes, h
  <2>8. Rest'
    BY Zenon, <2>2, <1>u, <1>n DEF Rest, LbType
  <2> QED BY Zenon, <2>5, <2>7, <2>8, <1>k, TypeParts DEF Kind
<1>2. CASE ~(t = Proc /\ queue # <<>> /\ lb # <<>>)
  <2> DEFINE at == IF t = Proc THEN "register" ELSE "queue"
             k == ns.k
             w == Asleep
             r == [k[t] EXCEPT !.at = at, !.woken = w]
  <2>1. queue' = queue /\ task' = [k EXCEPT ![t] = r]
    BY Zenon, <1>2 DEF wake, take
  <2>2. k \in TaskType /\ at \in Places /\ Same(task, k)
        /\ w \in [Notifies -> {"no", "one", "all"}]
    BY Zenon, <1>k, <1>a
  <2> HIDE DEF at, k, w
  <2>r. r \in TaskRecord /\ r.at = at /\ r.msg = k[t].msg /\ r.peer = k[t].peer
    BY ZenonT(60), <2>2 DEF TaskType, TaskRecord
  <2> HIDE DEF r
  <2>3. task' \in TaskType
    BY Zenon, <2>1, <2>2, <2>r DEF TaskType, TaskRecord
  <2>4. Edit(task', t, at, task[t].msg, task[t].peer)
    BY Zenon, <2>1, <2>2, <2>3, <2>r DEF Edit, Same, TaskType
  <2>b. (t = Proc => ~Busy(t)) /\ (t # Proc => Busy(t))
    BY Zenon DEF Busy
  <2>5. Kind
    <3>1. UNCHANGED <<running, queue, pipe, written, lost, accepted, calls>>
      BY ZenonT(60), <2>1, <1>u
    <3>2. (t = Proc => at = "register") /\ (t # Proc => at = "queue")
      BY Zenon DEF at
    <3> QED BY ZenonT(60), <3>1, <3>2, <2>4, <2>b, MoveStep
  <2>6. Rest'
    BY Zenon, <2>1, <1>u, <1>n DEF Rest, LbType
  <2> QED BY Zenon, <2>3, <2>5, <2>6, <1>k, TypeParts
<1> QED BY ZenonT(60), <1>1, <1>2

(* register, woken.                                                        *)
LEMMA WaitStep ==
    ASSUME IndInv, NEW t \in Tasks, register(t) \/ woken(t)
    PROVE  TypeOK' /\ Kind
<1>n. Rest /\ task \in TaskType /\ notify \in NotifyType
  BY Zenon, Now
<1>a. "blocked" \in Places
  BY Zenon DEF Places
<1>1. CASE register(t)
  <2> DEFINE ready == {c \in Awaited(t) : notify[c].permit}
  <2>1. task[t].at = "register" /\ UNCHANGED <<modeVars, peerVars, userVars>>
    BY ZenonT(60), <1>1 DEF register
  <2>2. CASE ready = {}
    <3>1. /\ notify' = [c \in Notifies |->
                          IF c \in Awaited(t)
                          THEN [notify[c] EXCEPT !.waiters = Append(@, t)] ELSE notify[c]]
          /\ task' = Go(t, "blocked") /\ queue' = queue
      BY ZenonT(60), <1>1, <2>2 DEF register
    <3>2. notify' \in NotifyType
      <4>1. \A c \in Notifies : Append(notify[c].waiters, t) \in Seq(Tasks)
        BY <1>n DEF NotifyType
      <4> QED BY ZenonT(60), <3>1, <4>1, <1>n DEF NotifyType
    <3>3. Edit(task', t, "blocked", task[t].msg, task[t].peer)
      BY Zenon, <3>1, <1>n, <1>a, GoEdit
    <3>4. UNCHANGED <<sndtimeo, running, stopping, conn, lb, semaphore, pipe, written, lost,
                      evicted, calls, cancels, accepted>>
      BY Zenon, <2>1 DEF modeVars, peerVars, userVars
    <3>b. (t = Proc => ~Busy(t)) /\ (t # Proc => Busy(t))
      BY Zenon, <2>1 DEF Busy
    <3>5. Kind
      <4>1. UNCHANGED <<running, queue, pipe, written, lost, accepted, calls>>
        BY Zenon, <3>1, <3>4
      <4> QED BY <4>1, <3>3, <3>b, MoveStep
    <3>6. Rest'
      BY Zenon, <3>1, <3>4, <1>n DEF Rest, LbType
    <3> QED BY ZenonT(60), <3>2, <3>3, <3>5, <3>6, TypeParts DEF Edit
  <2>3. CASE ready # {}
    <3>1. PICK c \in ready : wake(t, [n |-> [notify EXCEPT ![c].permit = FALSE], k |-> task])
      BY Zenon, <1>1, <2>3 DEF register
    <3>2. c \in Notifies
      BY Zenon DEF Awaited, Notifies
    <3> DEFINE n == [notify EXCEPT ![c].permit = FALSE]
    <3>3. n \in NotifyType
      BY Zenon, <3>2, <1>n DEF NotifyType
    <3> HIDE DEF n, ready
    <3>4. [n |-> n, k |-> task] \in NSType /\ Same(task, [n |-> n, k |-> task].k)
      BY Zenon, <3>3, <1>n, PairNS DEF Same
    <3>5. wake(t, [n |-> n, k |-> task])
      BY Zenon, <3>1 DEF n
    <3> QED BY Zenon, <2>1, <3>4, <3>5, WakeStep
  <2> QED BY Zenon, <2>2, <2>3
<1>2. CASE woken(t)
  <2>1. task[t].at = "blocked" /\ UNCHANGED <<modeVars, peerVars, userVars>>
    BY Zenon, <1>2 DEF woken
  <2>2. PICK c \in Notifies : wake(t, drop_all(NS([task EXCEPT ![t].woken[c] = "no"]), t))
    BY Zenon, <1>2 DEF woken, Woken
  <2> DEFINE k == [task EXCEPT ![t].woken[c] = "no"]
  <2>3. k \in TaskType
    BY ZenonT(60), <1>n DEF TaskType
  <2>4. Same(task, k)
    BY Zenon, <1>n DEF TaskType, Same
  <2> HIDE DEF k
  <2>5. NS(k) \in NSType /\ NS(k).k = k
    BY Zenon, <2>3, <1>n, NSFacts
  <2> DEFINE ns == drop_all(NS(k), t)
  <2>6. ns \in NSType /\ Same(k, ns.k)
    BY Zenon, <2>5, DropAll
  <2>7. wake(t, ns)
    BY Zenon, <2>2 DEF k
  <2> HIDE DEF ns
  <2>8. Same(task, ns.k)
    BY ZenonT(60), <2>4, <2>6 DEF Same
  <2> QED BY ZenonT(60), <2>1, <2>6, <2>7, <2>8, WakeStep
<1> QED BY Zenon, <1>1, <1>2

(* A future that is dropped while its task waits.                          *)
LEMMA DropEdit ==
    ASSUME task \in TaskType, notify \in NotifyType, NEW s \in Tasks
    PROVE  LET ns == drop_all(NS(task), s)
           IN  /\ ns.n \in NotifyType /\ ns.k \in TaskType /\ Same(task, ns.k)
               /\ Edit([ns.k EXCEPT ![s] = Done(s)[s]], s,
                       IF s = Proc THEN "register" ELSE "idle", NoMsg, None)
<1> DEFINE ns == drop_all(NS(task), s)
           r == Done(s)[s]
<1>1. ns.n \in NotifyType /\ ns.k \in TaskType /\ Same(task, ns.k)
  BY ZenonT(60), NSFacts, DropAll, NSParts
<1>2. /\ r.at = IF s = Proc THEN "register" ELSE "idle"
      /\ r.msg = NoMsg /\ r.peer = None
  BY Zenon, DoneEdit DEF Edit
<1>3. r \in TaskRecord
  BY DoneEdit DEF Edit, TaskType, TaskRecord
<1> HIDE DEF ns, r
<1>4. [ns.k EXCEPT ![s] = r] \in TaskType
  BY ZenonT(60), <1>1, <1>3 DEF TaskType, TaskRecord
<1>5. Edit([ns.k EXCEPT ![s] = r], s, IF s = Proc THEN "register" ELSE "idle", NoMsg, None)
  BY Zenon, <1>1, <1>2, <1>4 DEF Edit, Same, TaskType
<1> QED BY ZenonT(60), <1>1, <1>5 DEF ns, r

(* What only a sender does.                                                *)
LEMMA SenderSteps ==
    ASSUME IndInv, NEW s \in Senders,
           \/ queue_checks(s) \/ queue_pushes(s) \/ send_logical_message(s)
           \/ wait_times_out(s) \/ cancel(s)
    PROVE  TypeOK' /\ Kind
<1>n. Rest /\ task \in TaskType /\ notify \in NotifyType /\ TasksInv
  BY Zenon, Now
<1>s. s \in Tasks /\ s # Proc
  BY Zenon, Facts
<1>a. {"push", "register", "choose"} \subseteq Places
  BY Zenon DEF Places
<1>b. Busy(s) <=> task[s].at # "idle"
  BY Zenon, <1>s DEF Busy
<1>d. ASSUME Edit(task', s, "idle", NoMsg, None), notify' \in NotifyType,
             UNCHANGED <<running, queue, pipe, written, lost, accepted, calls>>, Rest'
      PROVE  TypeOK' /\ Kind
  <2>1. Fails(s)
    BY ZenonT(60), <1>d, <1>s, EditTask DEF Fails
  <2> QED BY ZenonT(60), <1>d, <2>1, TypeParts DEF Kind, Edit
<1>1. CASE queue_checks(s)
  <2>1. UNCHANGED <<sndtimeo, running, stopping, conn, lb, semaphore, pipe, written, lost, evicted,
                    queue, notify, calls, cancels, accepted>>
    BY ZenonT(60), <1>1 DEF queue_checks, modeVars, peerVars, userVars
  <2>2. Rest'
    BY Zenon, <2>1, <1>n DEF Rest, LbType
  <2>3. notify' \in NotifyType /\ UNCHANGED <<running, queue, pipe, written, lost, accepted, calls>>
    BY Zenon, <2>1, <1>n
  <2>4. CASE task' = Done(s)
    BY <2>2, <2>3, <2>4, <1>n, <1>s, <1>d, DoneEdit
  <2>5. ASSUME NEW at \in {"push", "register"}, task' = Go(s, at), at = "push" => HasRoom
        PROVE  TypeOK' /\ Kind
    <3>1. Edit(task', s, at, task[s].msg, task[s].peer)
      BY ZenonT(60), <2>5, <1>n, <1>s, <1>a, GoEdit
    <3>2. Busy(s)
      BY Zenon, <1>1, <1>b DEF queue_checks
    <3>3. Kind
      BY ZenonT(60), <3>1, <3>2, <2>3, <2>5, <1>s, MoveStep
    <3> QED BY ZenonT(60), <2>2, <2>3, <3>1, <3>3, TypeParts DEF Edit
  <2> QED BY ZenonT(60), <1>1, <2>4, <2>5 DEF queue_checks
<1>2. CASE queue_pushes(s)
  <2>1. /\ UNCHANGED <<sndtimeo, running, stopping, conn, lb, semaphore, pipe, written, lost,
                       evicted, calls, cancels>>
        /\ task[s].at = "push" /\ queue' = Append(queue, task[s].msg)
        /\ accepted' = accepted \cup {task[s].msg}
        /\ settle(notify_one(NS(Done(s)), "queue"))
    BY ZenonT(60), <1>2 DEF queue_pushes, modeVars, peerVars
  <2>2. task[s].msg \in Msgs
    BY ZenonT(60), <2>1, <1>b, <1>s, MsgFacts
  <2>3. Edit(task', s, "idle", NoMsg, None) /\ notify' \in NotifyType
    <3>1. Edit(Done(s), s, "idle", NoMsg, None) /\ "queue" \in Notifies
      BY Zenon, <1>n, <1>s, DoneEdit DEF Notifies
    <3> QED BY ZenonT(60), <3>1, <2>1, <1>n, <1>s, SettleFacts
  <2>4. queue' \in Seq(Msgs) /\ accepted' \subseteq Msgs
    <3>1. queue \in Seq(Msgs) /\ accepted \subseteq Msgs
      BY Zenon, <1>n DEF Rest
    <3>2. Append(queue, task[s].msg) \in Seq(Msgs)
      BY Zenon, <3>1, <2>2, AppendFacts
    <3> QED BY Zenon, <3>1, <3>2, <2>1, <2>2
  <2>5. Rest'
    BY Zenon, <2>1, <2>4, <1>n DEF Rest, LbType
  <2>6. Queues(s)
    BY ZenonT(60), <2>1, <2>3, <1>s, EditTask DEF Queues
  <2> QED BY ZenonT(60), <2>3, <2>5, <2>6, TypeParts DEF Kind, Edit
<1>3. CASE send_logical_message(s)
  <2> DEFINE n == IF lb = <<>> THEN 1 ELSE Len(lb)
             c == calls + 1
             r == [task[s] EXCEPT !.at = "choose", !.msg = c, !.left = n]
  <2>1. /\ UNCHANGED <<sndtimeo, running, stopping, conn, lb, semaphore, pipe, written, lost,
                       evicted, queue, notify, cancels, accepted>>
        /\ task[s].at = "idle" /\ running /\ calls < MaxMsgs /\ calls' = c
        /\ task' = [task EXCEPT ![s] = r]
    BY Zenon, <1>3 DEF send_logical_message, modeVars, peerVars
  <2>2. n \in Nat /\ c \in Msgs /\ calls' \in 0..MaxMsgs
    BY <2>1, <1>n, Facts DEF Rest, LbType, Msgs
  <2>c. c = calls + 1
    BY Zenon
  <2> HIDE DEF n, c
  <2>r. r \in TaskRecord /\ r.at = "choose" /\ r.msg = c
    BY ZenonT(60), <2>2, <1>n, <1>s, <1>a DEF TaskType, TaskRecord
  <2> HIDE DEF r
  <2>3. task' \in TaskType
    BY Zenon, <2>1, <2>r, <1>n, <1>s DEF TaskType, TaskRecord
  <2>4. OnlyTask(s) /\ task'[s].at = "choose" /\ task'[s].msg = c
    BY Zenon, <2>1, <2>r, <1>n, <1>s DEF TaskType, OnlyTask
  <2>5. Starts(s)
    BY Zenon, <2>1, <2>4, <2>c DEF Starts
  <2>6. Rest'
    BY Zenon, <2>1, <2>2, <1>n DEF Rest, LbType
  <2> QED BY Zenon, <2>1, <2>3, <2>5, <2>6, <1>n, TypeParts DEF Kind
<1>4. CASE wait_times_out(s)
  <2>1. /\ UNCHANGED <<sndtimeo, running, stopping, conn, lb, semaphore, pipe, written, lost,
                       evicted, queue, calls, cancels, accepted>>
        /\ LET ns == drop_all(NS(task), s)
           IN  notify' = ns.n /\ task' = [ns.k EXCEPT ![s] = Done(s)[s]]
    BY ZenonT(60), <1>4 DEF wait_times_out, modeVars, peerVars, userVars
  <2>2. Edit(task', s, "idle", NoMsg, None) /\ notify' \in NotifyType
    BY ZenonT(60), <2>1, <1>n, <1>s, DropEdit
  <2>3. Rest'
    BY ZenonT(60), <2>1, <1>n DEF Rest, LbType
  <2>4. UNCHANGED <<running, queue, pipe, written, lost, accepted, calls>>
    BY ZenonT(60), <2>1
  <2> QED BY Zenon, <2>2, <2>3, <2>4, <1>d
<1>5. CASE cancel(s)
  <2>1. /\ UNCHANGED <<sndtimeo, running, stopping, conn, lb, pipe, written, lost,
                       evicted, queue, calls, accepted>>
        /\ cancels < MaxCancels /\ cancels' = cancels + 1
        /\ semaphore' = IF task[s].peer = None THEN semaphore ELSE release(task[s].peer, s)
        /\ LET ns == drop_all(NS(task), s)
           IN  notify' = ns.n /\ task' = [ns.k EXCEPT ![s] = Done(s)[s]]
    BY ZenonT(60), <1>5 DEF cancel, modeVars
  <2>2. Edit(task', s, "idle", NoMsg, None) /\ notify' \in NotifyType
    BY ZenonT(60), <2>1, <1>n, <1>s, DropEdit
  <2>3. semaphore' \in SemType
    <3>1. task[s].peer \in Peers \cup {None} /\ semaphore \in SemType
      BY Zenon, <1>n, <1>s DEF TaskType, Rest
    <3> QED BY ZenonT(60), <2>1, <3>1, <1>s, SemFacts
  <2>c. cancels' \in 0..MaxCancels
    <3>1. cancels \in 0..MaxCancels /\ MaxCancels \in Nat
      BY Zenon, <1>n, ConstantsAssumption DEF Rest
    <3>2. cancels < MaxCancels /\ cancels' = cancels + 1
      BY Zenon, <2>1
    <3> QED BY <3>1, <3>2
  <2>4. Rest'
    BY Zenon, <2>1, <2>3, <2>c, <1>n DEF Rest, LbType
  <2>5. UNCHANGED <<running, queue, pipe, written, lost, accepted, calls>>
    BY Zenon, <2>1
  <2> QED BY <2>2, <2>4, <2>5, <1>d
<1> QED BY Zenon, <1>1, <1>2, <1>3, <1>4, <1>5

(* What only the processor does.                                           *)
LEMMA ProcessorSteps ==
    ASSUME IndInv, requeue \/ processor_stops \/ connection_count
    PROVE  TypeOK' /\ Kind
<1>n. Rest /\ task \in TaskType /\ notify \in NotifyType
  BY Zenon, Now
<1>s. Proc \in Tasks
  BY Zenon, Facts
<1>1. CASE requeue
  <2>1. /\ UNCHANGED <<sndtimeo, running, stopping, conn, lb, semaphore, pipe, written, lost,
                       evicted, calls, cancels, accepted>>
        /\ task[Proc].at = "requeue" /\ queue' = <<task[Proc].msg>> \o queue
        /\ settle(notify_one(NS(Done(Proc)), "queue"))
    BY ZenonT(60), <1>1 DEF requeue, modeVars, peerVars, userVars
  <2>2. task[Proc].msg \in Msgs
    BY ZenonT(60), <2>1, <1>s, MsgFacts DEF Busy
  <2>3. Edit(task', Proc, "register", NoMsg, None) /\ notify' \in NotifyType
    <3>1. Edit(Done(Proc), Proc, "register", NoMsg, None) /\ "queue" \in Notifies
      BY Zenon, <1>n, <1>s, DoneEdit DEF Notifies
    <3> QED BY ZenonT(60), <3>1, <2>1, <1>n, <1>s, SettleFacts
  <2>4. queue' \in Seq(Msgs)
    BY ZenonT(60), <2>1, <2>2, <1>n, ConsFacts DEF Rest
  <2>5. Rest'
    BY ZenonT(60), <2>1, <2>4, <1>n DEF Rest, LbType
  <2>6. PutsBack
    BY Zenon, <2>1, <2>3, <1>s, EditTask DEF PutsBack
  <2> QED BY Zenon, <2>3, <2>5, <2>6, TypeParts DEF Kind, Edit
<1>2. CASE processor_stops
  <2> DEFINE k == drop_all(NS(task), Proc).k
  <2>1. /\ UNCHANGED <<sndtimeo, running, stopping, conn, lb, semaphore, pipe, written, lost,
                       evicted, queue, calls, cancels, accepted>>
        /\ task[Proc].at \in {"register", "blocked"}
        /\ notify' = drop_all(NS(task), Proc).n /\ task' = [k EXCEPT ![Proc].at = "stopped"]
    BY Zenon, <1>2 DEF processor_stops, modeVars, peerVars, userVars
  <2>2. notify' \in NotifyType /\ k \in TaskType /\ Same(task, k)
    BY Zenon, <2>1, <1>n, <1>s, DropEdit
  <2> HIDE DEF k
  <2>3. task' \in TaskType
    BY <2>1, <2>2, <1>s DEF TaskType, Places
  <2>4. Edit(task', Proc, "stopped", task[Proc].msg, task[Proc].peer)
    BY Zenon, <2>1, <2>2, <2>3, <1>s DEF Edit, Same, TaskType
  <2>5. ~Busy(Proc) /\ UNCHANGED <<running, queue, pipe, written, lost, accepted, calls>>
    BY Zenon, <2>1 DEF Busy
  <2>6. Kind
    BY <2>4, <2>5, <1>s, MoveStep
  <2>7. Rest'
    BY Zenon, <2>1, <1>n DEF Rest, LbType
  <2> QED BY Zenon, <2>2, <2>3, <2>6, <2>7, TypeParts
<1>3. CASE connection_count
  <2> DEFINE n == IF lb = <<>> THEN 1 ELSE Len(lb)
             r == [task[Proc] EXCEPT !.at = "choose", !.left = n]
  <2>1. /\ UNCHANGED <<sndtimeo, running, stopping, conn, lb, semaphore, pipe, written, lost,
                       evicted, queue, notify, calls, cancels, accepted>>
        /\ task[Proc].at = "count"
        /\ task' = [task EXCEPT ![Proc] = r]
    BY Zenon, <1>3 DEF connection_count, modeVars, peerVars, userVars
  <2>2. n \in Nat /\ "choose" \in Places
    BY <1>n DEF Rest, LbType, Places
  <2> HIDE DEF n
  <2>r. /\ r \in TaskRecord /\ r.at = "choose"
        /\ r.msg = task[Proc].msg /\ r.peer = task[Proc].peer
    BY ZenonT(60), <2>2, <1>n, <1>s DEF TaskType, TaskRecord
  <2> HIDE DEF r
  <2>3. task' \in TaskType
    BY Zenon, <2>1, <2>r, <1>n, <1>s DEF TaskType, TaskRecord
  <2>4. Edit(task', Proc, "choose", task[Proc].msg, task[Proc].peer)
    BY Zenon, <2>1, <2>3, <2>r, <1>n, <1>s DEF Edit, TaskType
  <2>5. Busy(Proc) /\ UNCHANGED <<running, queue, pipe, written, lost, accepted, calls>>
    BY Zenon, <2>1 DEF Busy
  <2>6. Kind
    BY <2>4, <2>5, <1>s, MoveStep
  <2>7. Rest'
    BY Zenon, <2>1, <1>n DEF Rest, LbType
  <2> QED BY Zenon, <2>1, <2>3, <2>6, <2>7, <1>n, TypeParts
<1> QED BY Zenon, <1>1, <1>2, <1>3

(* What the core and the sessions do.                                      *)
LEMMA PeerSteps ==
    ASSUME IndInv, NEW p \in Peers,
           \/ connect(p) \/ pipe_balanced(p) \/ pipe_attached(p)
           \/ session_writes(p) \/ session_ends(p) \/ remove_endpoint(p) \/ pipe_detached(p)
    PROVE  TypeOK' /\ Kind
<1>n. Rest /\ task \in TaskType /\ notify \in NotifyType
  BY Zenon, Now
<1>l. LbType(lb) /\ semaphore \in SemType /\ conn \in [Peers -> ConnStates]
  BY Zenon, <1>n DEF Rest
<1>s. NS(task) \in NSType /\ Same(task, NS(task).k) /\ "peer" \in Notifies /\ "queue" \in Notifies
  BY Zenon, <1>n, NSFacts DEF Same, Notifies
<1>c. \A x \in ConnStates : [conn EXCEPT ![p] = x] \in [Peers -> ConnStates]
  BY Zenon, <1>l
<1>p. pipe \in [Peers -> Seq(Msgs)] /\ \A r \in Peers : Len(pipe[r]) <= PipeCap
  BY Zenon, <1>n DEF Rest
<1>1. CASE connect(p)
  <2> DEFINE ns == notify_one(NS(task), "peer")
  <2>1. /\ UNCHANGED <<sndtimeo, running, stopping, conn, lb, semaphore, pipe, written, lost,
                       evicted, queue, calls, cancels, accepted>>
        /\ settle(ns)
    BY Zenon, <1>1 DEF connect, modeVars, peerVars, userVars
  <2>2. ns \in NSType /\ Same(task, ns.k)
    BY Zenon, <1>s, NotifyOneStays
  <2> HIDE DEF ns
  <2>3. Kind /\ task' \in TaskType /\ notify' \in NotifyType
    BY Zenon, <2>1, <2>2, StayStep
  <2>4. Rest'
    BY ZenonT(60), <2>1, <1>n DEF Rest, LbType
  <2> QED BY Zenon, <2>3, <2>4, TypeParts
<1>2. CASE pipe_balanced(p)
  <2>1. /\ UNCHANGED <<sndtimeo, running, stopping, semaphore, pipe, written, lost,
                       evicted, queue, task, notify, calls, cancels, accepted>>
        /\ conn' = [conn EXCEPT ![p] = "balanced"] /\ lb' = add_connection(p)
    BY Zenon, <1>2 DEF pipe_balanced, modeVars, userVars
  <2>2. conn' \in [Peers -> ConnStates] /\ LbType(lb')
    BY Zenon, <2>1, <1>c, <1>l, LbFacts DEF ConnStates
  <2>3. Rest'
    BY ZenonT(60), <2>1, <2>2, <1>n DEF Rest, LbType
  <2>4. Stays
    BY Zenon, <2>1 DEF Stays
  <2> QED BY Zenon, <2>1, <2>3, <2>4, <1>n, TypeParts DEF Kind
<1>3. CASE pipe_attached(p)
  <2> DEFINE one == notify_one(NS(task), "peer")
             ns == notify_one(one, "queue")
  <2>1. /\ UNCHANGED <<sndtimeo, running, stopping, lb, pipe, written, lost,
                       evicted, queue, calls, cancels, accepted>>
        /\ conn' = [conn EXCEPT ![p] = "attached"]
        /\ semaphore' = [semaphore EXCEPT ![p] = "free"]
        /\ settle(ns)
    BY ZenonT(60), <1>3 DEF pipe_attached, modeVars, userVars
  <2>2. one \in NSType /\ Same(task, one.k)
    BY <1>s, NotifyOneStays
  <2> HIDE DEF one
  <2>3. ns \in NSType /\ Same(one.k, ns.k)
    BY ZenonT(60), <1>s, <2>2, NotifyOne
  <2> HIDE DEF ns
  <2>4. Same(task, ns.k)
    BY Zenon, <2>2, <2>3 DEF Same
  <2>5. Kind /\ task' \in TaskType /\ notify' \in NotifyType
    BY Zenon, <2>1, <2>3, <2>4, StayStep
  <2>6. conn' \in [Peers -> ConnStates] /\ semaphore' \in SemType
    BY ZenonT(60), <2>1, <1>c, <1>l DEF ConnStates, SemType
  <2>7. Rest'
    BY ZenonT(60), <2>1, <2>6, <1>n DEF Rest, LbType
  <2> QED BY <2>5, <2>7, TypeParts
<1>4. CASE session_writes(p)
  <2>1. /\ UNCHANGED <<sndtimeo, running, stopping, conn, lb, semaphore, lost,
                       evicted, queue, task, notify, calls, cancels, accepted>>
        /\ pipe[p] # <<>> /\ pipe' = [pipe EXCEPT ![p] = Tail(@)]
        /\ written' = [written EXCEPT ![Head(pipe[p])] = @ + 1]
    BY Zenon, <1>4 DEF session_writes, modeVars, userVars
  <2>2. Tail(pipe[p]) \in Seq(Msgs) /\ Head(pipe[p]) \in Msgs /\ Len(Tail(pipe[p])) <= PipeCap
    BY <2>1, <1>p, Facts, TailFacts
  <2>3. pipe' \in [Peers -> Seq(Msgs)] /\ \A r \in Peers : Len(pipe'[r]) <= PipeCap
    BY Zenon, <2>1, <2>2, <1>p
  <2>4. written' \in [Msgs -> Nat]
    BY <2>1, <2>2, <1>n DEF Rest
  <2>5. Rest'
    BY Zenon, <2>1, <2>3, <2>4, <1>n DEF Rest, LbType
  <2>6. Writes(p)
    BY Zenon, <2>1 DEF Writes
  <2> QED BY Zenon, <2>1, <2>5, <2>6, <1>n, TypeParts DEF Kind
<1>5. CASE session_ends(p)
  <2>1. /\ UNCHANGED <<sndtimeo, running, stopping, lb, semaphore, written,
                       evicted, queue, task, notify, calls, cancels, accepted>>
        /\ conn' = [conn EXCEPT ![p] = "ended"] /\ pipe' = [pipe EXCEPT ![p] = <<>>]
        /\ lost' = lost \cup {pipe[p][i] : i \in 1..Len(pipe[p])}
    BY Zenon, <1>5 DEF session_ends, modeVars, userVars
  <2>2. conn' \in [Peers -> ConnStates]
    BY Zenon, <2>1, <1>c DEF ConnStates
  <2>3. pipe' \in [Peers -> Seq(Msgs)] /\ \A r \in Peers : Len(pipe'[r]) <= PipeCap
    <3>1. <<>> \in Seq(Msgs) /\ Len(<<>>) <= PipeCap
      BY Facts
    <3> QED BY Zenon, <2>1, <3>1, <1>p
  <2>4. lost' \subseteq Msgs
    BY <2>1, <1>p, <1>n DEF Rest
  <2>5. Rest'
    BY ZenonT(60), <2>1, <2>2, <2>3, <2>4, <1>n DEF Rest, LbType
  <2>6. Ends(p)
    BY Zenon, <2>1 DEF Ends
  <2> QED BY Zenon, <2>1, <2>5, <2>6, <1>n, TypeParts DEF Kind
<1>6. CASE pipe_detached(p)
  <2> DEFINE ns == notify_waiters(NS(task), "peer")
  <2>1. /\ UNCHANGED <<sndtimeo, running, stopping, pipe, written, lost,
                       evicted, queue, calls, cancels, accepted>>
        /\ conn' = [conn EXCEPT ![p] = "detached"] /\ lb' = remove_connection(p)
        /\ semaphore' = remove_pipe(p)
        /\ settle(ns)
    BY Zenon, <1>6 DEF pipe_detached, modeVars, userVars
  <2>2. ns \in NSType /\ Same(task, ns.k)
    BY <1>s, NotifyWaitersStays
  <2> HIDE DEF ns
  <2>3. Kind /\ task' \in TaskType /\ notify' \in NotifyType
    BY Zenon, <2>1, <2>2, StayStep
  <2>4. conn' \in [Peers -> ConnStates] /\ LbType(lb') /\ semaphore' \in SemType
    BY ZenonT(60), <2>1, <1>c, <1>l, LbFacts DEF ConnStates, SemType, remove_pipe
  <2>5. Rest'
    BY Zenon, <2>1, <2>4, <1>n DEF Rest, LbType
  <2> QED BY <2>3, <2>5, TypeParts
<1>7. CASE remove_endpoint(p)
  <2>1. /\ UNCHANGED <<sndtimeo, running, stopping, lb, semaphore, pipe, written, lost,
                       evicted, queue, task, notify, calls, cancels, accepted>>
        /\ conn' = [conn EXCEPT ![p] = "removed"]
    BY Zenon, <1>7 DEF remove_endpoint, modeVars, userVars
  <2>2. conn' \in [Peers -> ConnStates]
    BY Zenon, <2>1, <1>c DEF ConnStates
  <2>3. Rest'
    BY ZenonT(60), <2>1, <2>2, <1>n DEF Rest, LbType
  <2>4. Stays
    BY Zenon, <2>1 DEF Stays
  <2> QED BY Zenon, <2>1, <2>3, <2>4, <1>n, TypeParts DEF Kind
<1> QED BY Zenon, <1>1, <1>2, <1>3, <1>4, <1>5, <1>6, <1>7

(* close, process_command_stop, process_command_wakes.                     *)
LEMMA ClosingSteps ==
    ASSUME IndInv, close \/ process_command_stop \/ process_command_wakes
    PROVE  TypeOK' /\ Kind
<1>n. Rest /\ task \in TaskType /\ notify \in NotifyType
  BY Zenon, Now
<1>s. NS(task) \in NSType /\ Same(task, NS(task).k) /\ "peer" \in Notifies /\ "queue" \in Notifies
  BY Zenon, <1>n, NSFacts DEF Same, Notifies
<1>1. CASE close \/ process_command_stop
  <2>1. /\ UNCHANGED <<sndtimeo, conn, lb, semaphore, pipe, written, lost,
                       evicted, queue, task, notify, calls, cancels, accepted>>
        /\ running' \in BOOLEAN /\ (running' => running)
        /\ stopping' \in {"no", "signalled", "done"}
    <3>1. CASE close
      BY Zenon, <3>1, <1>n DEF close, peerVars, userVars, Rest
    <3>2. CASE process_command_stop
      BY Zenon, <3>2, <1>n DEF process_command_stop, peerVars, userVars, Rest
    <3> QED BY Zenon, <1>1, <3>1, <3>2
  <2>2. Rest'
    BY Zenon, <2>1, <1>n DEF Rest, LbType
  <2>3. Stays
    BY Zenon, <2>1 DEF Stays
  <2> QED BY ZenonT(60), <2>1, <2>2, <2>3, <1>n, TypeParts DEF Kind
<1>2. CASE process_command_wakes
  <2> DEFINE one == notify_waiters(NS(task), "queue")
             ns == notify_waiters(one, "peer")
  <2>1. /\ UNCHANGED <<sndtimeo, running, conn, lb, semaphore, pipe, written, lost,
                       evicted, queue, calls, cancels, accepted>>
        /\ stopping' = "done" /\ settle(ns)
    BY Zenon, <1>2 DEF process_command_wakes, peerVars, userVars
  <2>2. one \in NSType /\ Same(task, one.k)
    BY ZenonT(60), <1>s, NotifyWaitersStays
  <2> HIDE DEF one
  <2>3. ns \in NSType /\ Same(one.k, ns.k)
    BY Zenon, <1>s, <2>2, NotifyWaiters
  <2> HIDE DEF ns
  <2>4. Same(task, ns.k)
    BY ZenonT(60), <2>2, <2>3 DEF Same
  <2>5. Kind /\ task' \in TaskType /\ notify' \in NotifyType
    BY Zenon, <2>1, <2>3, <2>4, StayStep
  <2>6. Rest'
    BY Zenon, <2>1, <1>n DEF Rest, LbType
  <2> QED BY Zenon, <2>5, <2>6, TypeParts
<1> QED BY Zenon, <1>1, <1>2

-----------------------------------------------------------------------------
(* A step that changes nothing is of the first kind.                       *)
LEMMA Stutter ==
    ASSUME IndInv, UNCHANGED vars
    PROVE  TypeOK' /\ Kind
<1>1. UNCHANGED <<sndtimeo, running, stopping, conn, lb, semaphore, pipe, written, lost,
                  evicted, queue, task, notify, calls, cancels, accepted>>
  BY Zenon DEF vars, modeVars, peerVars, userVars
<1>2. Stays
  BY Zenon, <1>1 DEF Stays
<1>3. TypeOK'
  BY ZenonT(60), <1>1, Now, TypeParts DEF Rest, LbType
<1> QED BY Zenon, <1>2, <1>3 DEF Kind

(* The inductive invariant holds at first.                                 *)
LEMMA InitOK ==
    ASSUME Init
    PROVE  IndInv
<1>1. Rest
  <2>1. <<>> \in Seq(Peers) /\ <<>> \in Seq(Msgs) /\ Len(<<>>) <= PipeCap
    BY Facts
  <2>2. /\ conn \in [Peers -> ConnStates] /\ semaphore \in SemType
        /\ pipe \in [Peers -> Seq(Msgs)] /\ \A p \in Peers : Len(pipe[p]) <= PipeCap
        /\ written \in [Msgs -> Nat]
    BY Zenon, <2>1 DEF Init, SemType, ConnStates
  <2>3. /\ sndtimeo \in Timeos /\ running \in BOOLEAN /\ stopping \in {"no", "signalled", "done"}
        /\ calls \in 0..MaxMsgs /\ cancels \in 0..MaxCancels
        /\ accepted \subseteq Msgs /\ lost \subseteq Msgs /\ evicted \subseteq Peers
    BY ConstantsAssumption DEF Init
  <2>4. LbType(lb) /\ queue \in Seq(Msgs)
    BY Zenon, <2>1, EmptyFacts DEF Init, LbType
  <2> QED BY Zenon, <2>2, <2>3, <2>4 DEF Rest
<1>2. task \in TaskType /\ notify \in NotifyType
  <2>1. Asleep \in [Notifies -> {"no", "one", "all"}]
    BY Zenon DEF Asleep
  <2>2. \A t \in Tasks : (IF t = Proc THEN "register" ELSE "idle") \in Places
    BY Zenon DEF Places
  <2>3. task \in TaskType
    BY Zenon, <2>1, <2>2 DEF Init, TaskType
  <2>4. <<>> \in Seq(Tasks)
    BY SMTT(30)
  <2>5. notify \in NotifyType
    BY Zenon, <2>4 DEF Init, NotifyType
  <2> QED BY Zenon, <2>3, <2>5
<1>3. \A t \in Tasks : task[t].msg = NoMsg /\ task[t].at = IF t = Proc THEN "register" ELSE "idle"
  BY Zenon DEF Init
<1>4. TasksInv
  BY <1>3 DEF Init, TasksInv, Busy, NoMsg
<1>5. BoundInv
  <2>1. Len(queue) = 0 /\ Len(Hand) = 0
    BY Zenon, <1>3, Facts DEF Init, Hand
  <2>2. Pushers = {}
    BY Zenon, <1>3, Facts DEF Pushers
  <2> QED BY SMTT(30), <2>1, <2>2, FS_EmptySet, Facts DEF BoundInv
<1>6. FreshInv
  BY Zenon, <1>3, Facts DEF Init, FreshInv
<1>7. OnceInv
  <2>1. \A m \in Msgs : ~Queued(m) /\ ~Held(m) /\ written[m] = 0 /\ m \notin lost /\ m \notin accepted
    BY Zenon, <1>3, Facts, EmptyFacts DEF Init, Queued, Held
  <2>2. \A p \in Peers : Injective(pipe[p]) /\ \A m \in Msgs : ~Piped(p, m)
    BY Zenon, EmptyFacts DEF Init, Piped
  <2>3. Injective(queue)
    BY Zenon, EmptyFacts DEF Init
  <2> QED BY SMTT(30), <2>1, <2>2, <2>3 DEF OnceInv
<1> QED BY Zenon, <1>1, <1>2, <1>4, <1>5, <1>6, <1>7, TypeParts DEF IndInv

(* The inductive invariant: every action, whoever takes it, preserves it.  *)
THEOREM Inductive == Spec => []IndInv
<1>1. Init => IndInv
  BY Zenon, InitOK
<1>2. ASSUME IndInv, [Next]_vars
      PROVE  IndInv'
  <2>1. TypeOK' /\ Kind
    <3>1. CASE UNCHANGED vars
      BY Zenon, <1>2, <3>1, Stutter
    <3>2. CASE ProcessorStep
      BY ZenonT(60), <1>2, <3>2, Facts, PeerLoopStep, WaitStep, ProcessorSteps DEF ProcessorStep, Step
    <3>3. ASSUME NEW s \in Senders,
                 SenderStep(s) \/ send_logical_message(s) \/ wait_times_out(s) \/ cancel(s)
          PROVE  TypeOK' /\ Kind
      BY Zenon, <1>2, <3>3, Facts, PeerLoopStep, WaitStep, SenderSteps DEF SenderStep, Step
    <3>4. ASSUME NEW p \in Peers,
                 \/ connect(p) \/ pipe_balanced(p) \/ pipe_attached(p)
                 \/ session_writes(p) \/ session_ends(p) \/ remove_endpoint(p) \/ pipe_detached(p)
          PROVE  TypeOK' /\ Kind
      BY ZenonT(60), <1>2, <3>4, PeerSteps
    <3>5. CASE close \/ process_command_stop \/ process_command_wakes
      BY Zenon, <1>2, <3>5, ClosingSteps
    <3> QED BY Zenon, <1>2, <3>1, <3>2, <3>3, <3>4, <3>5 DEF Next
  <2> QED BY Zenon, <1>2, <2>1, TasksNext, BoundNext, FreshNext, OnceNext DEF IndInv
<1> QED BY <1>1, <1>2, PTL DEF Spec

(* Every variable keeps its type; no URI is in the balancer twice, and no  *)
(* pipe holds more than its capacity.                                      *)
THEOREM TypeCorrect == Spec => []TypeOK
BY Inductive, PTL DEF IndInv

(* SNDHWM is exceeded by at most one message for each sender, for every    *)
(* SNDHWM and every number of senders.                                     *)
THEOREM QueueBounded == Spec => []QueueBound
<1>1. IndInv => QueueBound
  <2> SUFFICES ASSUME IndInv, running
               PROVE  Len(queue) + Len(Hand) <= SndHwm + Cardinality(Senders)
    BY Zenon DEF QueueBound
  <2>1. Len(queue) + Len(Hand) + Cardinality(Pushers) <= SndHwm + Cardinality(Senders)
    BY Zenon DEF IndInv, BoundInv
  <2>2. Cardinality(Pushers) \in Nat
    BY Zenon, Facts, FS_Subset, FS_CardinalityType DEF Pushers
  <2>3. Len(queue) \in Nat
    BY MsgFacts
  <2>4. Len(Hand) \in Nat
    BY Zenon DEF Hand
  <2> QED BY <2>1, <2>2, <2>3, <2>4, Facts
<1> QED BY <1>1, Inductive, PTL

(* A message that is in a sequence once, and how InSeq counts it.          *)
LEMMA InSeqFacts ==
    ASSUME NEW q, Injective(q), NEW m
    PROVE  /\ In(q, m) => \E i : InSeq(m, q) = {i}
           /\ ~In(q, m) => InSeq(m, q) = {}
<1>1. ASSUME NEW i \in 1..Len(q), q[i] = m PROVE InSeq(m, q) = {i}
  BY Zenon, <1>1 DEF InSeq, Injective
<1> QED BY Zenon, <1>1 DEF In, InSeq

(* While the socket runs, an accepted message is in exactly one place and  *)
(* any other in none.                                                      *)
THEOREM EachOnce == Spec => []ExactlyOnce
<1>1. ASSUME IndInv, running, NEW m \in Msgs
      PROVE  Copies(m) + (IF m \in lost THEN 1 ELSE 0) = IF m \in accepted THEN 1 ELSE 0
  <2>o. OnceInv
    BY Zenon, <1>1 DEF IndInv
  <2>m. queue \in Seq(Msgs) /\ task[Proc].msg \in Msgs \cup {NoMsg} /\ m # NoMsg
    BY Zenon, <1>1, MsgFacts, Facts
  <2> DEFINE q == queue \o Hand
             u == UNION {{p} \X InSeq(m, pipe[p]) : p \in Peers}
  <2>1. Injective(q) /\ (In(q, m) <=> Queued(m) \/ Held(m))
    <3>1. CASE task[Proc].msg = NoMsg
      <4>1. q = queue
        BY ZenonT(60), <3>1, <2>m, ConcatEmptySeq DEF Hand
      <4> QED BY Zenon, <4>1, <3>1, <2>m, <2>o, <1>1 DEF OnceInv, Queued, Held
    <3>2. CASE task[Proc].msg # NoMsg
      <4>1. q = Append(queue, task[Proc].msg)
        BY Zenon, <3>2, <2>m, AppendIsConcat DEF Hand
      <4>2. ~In(queue, task[Proc].msg)
        BY Zenon, <3>2, <2>m, <2>o, <1>1 DEF OnceInv, Queued, Held
      <4> HIDE DEF q
      <4>3. task[Proc].msg \in Msgs /\ Injective(queue)
        BY Zenon, <3>2, <2>m, <2>o, <1>1 DEF OnceInv
      <4> QED BY <4>1, <4>2, <4>3, <2>m, AppendFacts DEF Queued, Held
    <3> QED BY ZenonT(60), <3>1, <3>2
  <2> HIDE DEF q
  <2>2. Cardinality(InSeq(m, q)) = IF Queued(m) \/ Held(m) THEN 1 ELSE 0
    <3>1. CASE In(q, m)
      <4>1. PICK i : InSeq(m, q) = {i}
        BY Zenon, <3>1, <2>1, InSeqFacts
      <4> QED BY Zenon, <4>1, <3>1, <2>1, FS_Singleton
    <3>2. CASE ~In(q, m)
      <4>1. InSeq(m, q) = {}
        BY ZenonT(60), <3>2, <2>1, InSeqFacts
      <4> QED BY Zenon, <4>1, <3>2, <2>1, FS_EmptySet
    <3> QED BY Zenon, <3>1, <3>2
  <2>3. ASSUME NEW p \in Peers, Piped(p, m) PROVE Cardinality(u) = 1
    <3>1. PICK i : InSeq(m, pipe[p]) = {i}
      BY Zenon, <2>3, <2>o, <1>1, InSeqFacts DEF OnceInv, Piped
    <3>2. \A r \in Peers : r # p => InSeq(m, pipe[r]) = {}
      BY Zenon, <2>3, <2>o, <1>1, InSeqFacts DEF OnceInv, Piped
    <3>3. u = {<<p, i>>}
      BY <3>1, <3>2
    <3> QED BY Zenon, <3>3, FS_Singleton
  <2>4. ASSUME \A p \in Peers : ~Piped(p, m) PROVE Cardinality(u) = 0
    <3>1. \A r \in Peers : InSeq(m, pipe[r]) = {}
      BY Zenon, <2>4, <2>o, <1>1, InSeqFacts DEF OnceInv, Piped
    <3>2. u = {}
      BY Zenon, <3>1
    <3> QED BY Zenon, <3>2, FS_EmptySet
  <2>5. Cardinality(u) = IF \E p \in Peers : Piped(p, m) THEN 1 ELSE 0
    BY Zenon, <2>3, <2>4
  <2>6. Copies(m) = Cardinality(InSeq(m, q)) + written[m] + Cardinality(u)
    BY Zenon DEF Copies, q
  <2> HIDE DEF u
  <2>7. /\ written[m] \in {0, 1}
        /\ m \in accepted <=> \/ Queued(m) \/ Held(m) \/ written[m] = 1 \/ m \in lost
                              \/ \E p \in Peers : Piped(p, m)
        /\ Queued(m) => ~Held(m) /\ written[m] = 0 /\ m \notin lost
        /\ Held(m) => written[m] = 0 /\ m \notin lost
        /\ written[m] = 1 => m \notin lost
        /\ (\E p \in Peers : Piped(p, m)) =>
                  ~Queued(m) /\ ~Held(m) /\ written[m] = 0 /\ m \notin lost
    BY Zenon, <2>o, <1>1 DEF OnceInv
  <2> QED BY <2>2, <2>5, <2>6, <2>7
<1>2. IndInv => ExactlyOnce
  BY Zenon, <1>1 DEF ExactlyOnce
<1> QED BY <1>2, Inductive, PTL

=============================================================================
