-------------------------- MODULE ContextTermProofs --------------------------
(***************************************************************************)
(* The WaitGroup's count is exact, and a term() it releases has outlived   *)
(* every actor that was counted when term() was called: for any number of  *)
(* sockets, children and concurrent term() calls.                          *)
(***************************************************************************)
EXTENDS ContextTerm, FiniteSetTheorems, TLAPS

(* The WaitGroup's view of an actor follows its task's.                    *)
UserFollowsTask ==
    \A a \in Users :
        /\ task[a] \in {"none", "spawned"} => user[a] = "out"
        /\ task[a] = "running" => user[a] = "in"
        /\ task[a] = "ended" => user[a] \in {"leaving", "notify", "gone"}

CountedHaveRun ==
    \A w \in Waiters : \A a \in countedBefore[w] : task[a] \in {"running", "ended"}

(* The counter and the terms, strengthened until they are inductive.       *)
IndInv ==
    /\ TypeOK
    /\ CountTracksUsers
    /\ UserFollowsTask
    /\ CountedHaveRun
    /\ TermOutlivesRegistered

(* The number of registered users is a natural number, zero only when      *)
(* there are none.                                                         *)
LEMMA RegisteredFinite ==
    /\ IsFiniteSet(Registered)
    /\ Cardinality(Registered) \in Nat
    /\ Cardinality(Registered) = 0 <=> Registered = {}
<1>1. IsFiniteSet(Registered)
  BY UsersFinite, FS_Subset DEF Registered
<1> QED
  BY <1>1, FS_CardinalityType, FS_EmptySet

(* A user that enters or leaves the group changes their number by one.     *)
LEMMA RegisteredSteps ==
    ASSUME NEW a \in Users, NEW S, S = Registered
    PROVE  /\ a \notin S => Cardinality(S \cup {a}) = Cardinality(S) + 1
           /\ a \in S => /\ Cardinality(S) > 0
                         /\ Cardinality(S \ {a}) = Cardinality(S) - 1
<1>1. IsFiniteSet(S) /\ Cardinality(S) \in Nat /\ (Cardinality(S) = 0 <=> S = {})
  BY RegisteredFinite
<1>2. a \notin S => Cardinality(S \cup {a}) = Cardinality(S) + 1
  BY <1>1, FS_AddElement
<1>3. a \in S => Cardinality(S \ {a}) = Cardinality(S) - 1
  BY <1>1, FS_RemoveElement
<1> QED
  BY <1>1, <1>2, <1>3

(* Initially nothing is registered and nobody waits.                       *)
LEMMA InitIndInv == Init => IndInv
<1> SUFFICES ASSUME Init PROVE IndInv
  OBVIOUS
<1>1. Registered = {}
  BY DEF Init, WGInit, Registered
<1>2. CountTracksUsers
  BY <1>1, FS_EmptySet DEF Init, WGInit, CountTracksUsers
<1> QED
  BY <1>2 DEF Init, WGInit, IndInv, TypeOK, WGTypeOK, UserStates, WaiterStates, TaskStates,
     TermStates, UserFollowsTask, CountedHaveRun, TermOutlivesRegistered

(* The invariant is preserved by every step of the context and its actors. *)
LEMMA NextIndInv == IndInv /\ [Next]_vars => IndInv'
<1> SUFFICES ASSUME IndInv, [Next]_vars PROVE IndInv'
  OBVIOUS
<1> USE DEF IndInv
<1>1. ASSUME NEW s \in Sockets, socket(s) PROVE IndInv'
  <2>1. s \in Users
    BY ParentAssumption
  <2>2. CountTracksUsers'
    BY <1>1 DEF socket, wgVars, CountTracksUsers, Registered
  <2> QED
    BY <1>1, <2>1, <2>2 DEF socket, wgVars, TypeOK, WGTypeOK, TaskStates, UserFollowsTask,
       CountedHaveRun, TermOutlivesRegistered
<1>2. ASSUME NEW s \in Sockets, close(s) PROVE IndInv'
  <2>1. s \in Users
    BY ParentAssumption
  <2>2. CountTracksUsers'
    BY <1>2 DEF close, wgVars, CountTracksUsers, Registered
  <2>3. stop' \subseteq Users
    BY <1>2, <2>1 DEF close, TypeOK, Children
  <2> QED
    BY <1>2, <2>2, <2>3 DEF close, wgVars, TypeOK, WGTypeOK, UserFollowsTask,
       CountedHaveRun, TermOutlivesRegistered
<1>3. ASSUME NEW c \in Children, spawn_child(c) PROVE IndInv'
  <2>1. c \in Users
    BY DEF Children
  <2>2. CountTracksUsers'
    BY <1>3 DEF spawn_child, wgVars, CountTracksUsers, Registered
  <2> QED
    BY <1>3, <2>1, <2>2 DEF spawn_child, wgVars, TypeOK, WGTypeOK, TaskStates, UserFollowsTask,
       CountedHaveRun, TermOutlivesRegistered
<1>4. ASSUME NEW a \in Users, publish_actor_started(a) PROVE IndInv'
  <2>1. user[a] = "out" /\ count' = count + 1 /\ user' = [user EXCEPT ![a] = "in"]
    BY <1>4 DEF publish_actor_started, add
  <2>2. a \notin Registered /\ Registered' = Registered \cup {a}
    BY <2>1 DEF Registered, TypeOK, WGTypeOK
  <2>3. CountTracksUsers'
    BY <2>1, <2>2, RegisteredSteps DEF CountTracksUsers
  <2>4. TypeOK'
    BY <1>4, <2>1 DEF publish_actor_started, add, TypeOK, WGTypeOK, TaskStates, UserStates
  <2> QED
    BY <1>4, <2>1, <2>3, <2>4 DEF publish_actor_started, add, TypeOK, WGTypeOK, UserFollowsTask,
       CountedHaveRun, TermOutlivesRegistered
<1>5. ASSUME NEW a \in Users, publish_actor_stopping(a) PROVE IndInv'
  <2>1. user[a] = "in" /\ a \in Registered
    BY <1>5 DEF publish_actor_stopping, UserFollowsTask, Registered
  <2>2. count > 0
    BY <2>1, RegisteredSteps DEF CountTracksUsers
  <2>3. leave(a)
    BY <1>5, <2>2 DEF publish_actor_stopping
  <2>4. Registered' = Registered
    BY <2>1, <2>3 DEF leave, Registered, TypeOK, WGTypeOK
  <2>5. CountTracksUsers'
    BY <2>3, <2>4 DEF CountTracksUsers, leave
  <2>6. TypeOK'
    BY <1>5, <2>3 DEF publish_actor_stopping, leave, TypeOK, WGTypeOK, TaskStates, UserStates
  <2> QED
    BY <1>5, <2>3, <2>5, <2>6 DEF publish_actor_stopping, leave, TypeOK, WGTypeOK,
       UserFollowsTask, CountedHaveRun, TermOutlivesRegistered
<1>6. ASSUME NEW a \in Users, finish_done(a) PROVE IndInv'
  <2>1. CASE done(a)
    <3>1. a \in Registered
      BY <2>1 DEF done, Registered
    <3>2. count > 0 /\ Cardinality(Registered \ {a}) = count - 1
      BY <3>1, RegisteredSteps DEF CountTracksUsers
    <3>3. /\ count' = count - 1
          /\ user' = [user EXCEPT ![a] = IF count = 1 THEN "notify" ELSE "gone"]
      <4>1. count # 0
        BY <3>2
      <4> QED
        BY <2>1, <4>1, Zenon DEF done
    <3>4. Registered' = Registered \ {a}
      BY <3>3 DEF Registered, TypeOK, WGTypeOK
    <3>5. CountTracksUsers'
      BY <3>2, <3>3, <3>4 DEF CountTracksUsers
    <3>6. user[a] = "leaving" /\ task[a] = "ended"
      BY <2>1 DEF done, UserFollowsTask, TypeOK, TaskStates
    <3>7. count' \in Nat
      BY <3>2, <3>3 DEF TypeOK, WGTypeOK
    <3> QED
      BY <1>6, <2>1, <3>3, <3>5, <3>6, <3>7 DEF finish_done, ctxVars, done, TypeOK, WGTypeOK,
         UserStates, UserFollowsTask, CountedHaveRun, TermOutlivesRegistered
  <2>2. CASE notify_waiters(a)
    <3>1. Registered' = Registered
      BY <2>2 DEF notify_waiters, Registered, TypeOK, WGTypeOK
    <3>2. CountTracksUsers'
      BY <2>2, <3>1 DEF CountTracksUsers, notify_waiters
    <3>3. task[a] = "ended"
      BY <2>2 DEF notify_waiters, UserFollowsTask, TypeOK, TaskStates
    <3>4. TypeOK'
      BY <1>6, <2>2 DEF finish_done, ctxVars, notify_waiters, TypeOK, WGTypeOK, UserStates,
         WaiterStates
    <3> QED
      BY <1>6, <2>2, <3>2, <3>3, <3>4 DEF finish_done, ctxVars, notify_waiters, TypeOK, WGTypeOK,
         UserFollowsTask, CountedHaveRun, TermOutlivesRegistered
  <2> QED
    BY <1>6, <2>1, <2>2 DEF finish_done
<1>7. ASSUME NEW w \in Waiters, call_term(w) PROVE IndInv'
  <2>1. CountTracksUsers'
    BY <1>7 DEF call_term, wgVars, CountTracksUsers, Registered
  <2>2. \A a \in Registered : task[a] \in {"running", "ended"}
    BY DEF Registered, UserFollowsTask, TypeOK, TaskStates
  <2>3. TypeOK'
    BY <1>7 DEF call_term, wgVars, TypeOK, WGTypeOK, TermStates, Registered, Spawned
  <2> QED
    BY <1>7, <2>1, <2>2, <2>3 DEF call_term, wgVars, TypeOK, WGTypeOK, UserFollowsTask,
       CountedHaveRun, TermOutlivesRegistered, TermStates
<1>8. ASSUME NEW w \in Waiters, wait_for_termination(w) PROVE IndInv'
  <2>1. UNCHANGED <<count, user, task, stop, shutdown_initiated, countedBefore>>
    BY <1>8 DEF wait_for_termination, WaiterStep, wait, notified, recheck
  <2>2. CountTracksUsers'
    BY <2>1 DEF CountTracksUsers, Registered
  <2>3. TypeOK'
    BY <1>8, <2>1 DEF wait_for_termination, WaiterStep, wait, notified, recheck, TypeOK, WGTypeOK,
       WaiterStates, TermStates
  <2>4. waiter'[w] = "returned" => count = 0
    BY <1>8 DEF wait_for_termination, WaiterStep, wait, notified, recheck, TypeOK, WGTypeOK
  <2>5. count = 0 => \A a \in countedBefore[w] : task[a] = "ended"
    <3>1. count = 0 => Registered = {}
      BY RegisteredFinite DEF CountTracksUsers
    <3>2. \A a \in Users : task[a] = "running" => a \in Registered
      BY DEF UserFollowsTask, Registered
    <3> QED
      BY <3>1, <3>2 DEF CountedHaveRun, TypeOK
  <2>6. TermOutlivesRegistered'
    BY <1>8, <2>1, <2>4, <2>5 DEF wait_for_termination, TermOutlivesRegistered, TypeOK
  <2> QED
    BY <2>1, <2>2, <2>3, <2>6 DEF UserFollowsTask, CountedHaveRun
<1>9. ASSUME NEW w \in Waiters, term_timeout(w) PROVE IndInv'
  <2>1. CountTracksUsers'
    BY <1>9 DEF term_timeout, wgVars, CountTracksUsers, Registered
  <2> QED
    BY <1>9, <2>1 DEF term_timeout, wgVars, TypeOK, WGTypeOK, TermStates, UserFollowsTask,
       CountedHaveRun, TermOutlivesRegistered
<1>10. CASE UNCHANGED vars
  BY <1>10 DEF vars, wgVars, ctxVars, TypeOK, WGTypeOK, CountTracksUsers, Registered,
     UserFollowsTask, CountedHaveRun, TermOutlivesRegistered
<1> QED
  BY <1>1, <1>2, <1>3, <1>4, <1>5, <1>6, <1>7, <1>8, <1>9, <1>10 DEF Next, ActorStep

(* The invariant holds throughout.                                         *)
THEOREM IndInvHolds == Spec => []IndInv
BY InitIndInv, NextIndInv, PTL DEF Spec

(* Every state of the context is well typed.                               *)
THEOREM TypeCorrect == Spec => []TypeOK
<1>1. IndInv => TypeOK
  BY DEF IndInv
<1> QED
  BY <1>1, IndInvHolds, PTL

(* publish_actor_started and publish_actor_stopping keep the count equal   *)
(* to the number of live guards, so done() never panics.                   *)
THEOREM CountIsExact == Spec => []CountTracksActors
<1>1. IndInv => CountTracksActors
  <2> SUFFICES ASSUME IndInv PROVE CountTracksActors
    OBVIOUS
  <2>1. \A a \in Users : user[a] = "in" => count > 0
    BY RegisteredSteps DEF IndInv, CountTracksUsers, Registered
  <2>2. NoPanic
    BY DEF IndInv, UserFollowsTask, NoPanic, TypeOK, TaskStates
  <2> QED
    BY <2>1, <2>2 DEF IndInv, UserFollowsTask, CountTracksActors
<1> QED
  BY <1>1, IndInvHolds, PTL

(* A term() released by the WaitGroup has outlived the actors that were    *)
(* registered when it was called.                                          *)
THEOREM TermWaits == Spec => []TermOutlivesRegistered
<1>1. IndInv => TermOutlivesRegistered
  BY DEF IndInv
<1> QED
  BY <1>1, IndInvHolds, PTL

=============================================================================
