------------------------------ MODULE WaitGroup ------------------------------
(***************************************************************************)
(* The counter that Context::term() waits on (runtime/waitgroup.rs).       *)
(*                                                                         *)
(* A user is an actor task: it calls add(1) once, when it starts, and      *)
(* done() once, when it ends.  A waiter is one call of wait().  Atomic     *)
(* operations on the counter are one step each; done()'s fetch_sub and its *)
(* notify_waiters() are two, and so are wait()'s load and its notified().  *)
(* tokio's Notify::notify_waiters wakes the futures that notified() has    *)
(* already created and stores nothing for later ones.                      *)
(***************************************************************************)
EXTENDS Integers, FiniteSets

CONSTANTS
    Users,      \* the actor tasks
    Waiters     \* the calls of wait()

ASSUME UsersFinite == IsFiniteSet(Users)

VARIABLES
    count,      \* the AtomicUsize
    user,       \* where each user is
    waiter      \* where each call of wait() is

wgVars == <<count, user, waiter>>

(* "leaving" has decided to call done(), "notify" is between the fetch_sub *)
(* that reached zero and notify_waiters().                                 *)
UserStates == {"out", "in", "leaving", "notify", "gone", "panicked"}
WaiterStates == {"idle", "unenrolled", "enrolled", "woken", "returned"}

WGTypeOK ==
    /\ count \in Nat
    /\ user \in [Users -> UserStates]
    /\ waiter \in [Waiters -> WaiterStates]

WGInit ==
    /\ count = 0
    /\ user = [u \in Users |-> "out"]
    /\ waiter = [w \in Waiters |-> "idle"]

-----------------------------------------------------------------------------
(* Mutant: an actor that starts without being counted.                     *)
add_uncounted(u) ==
    /\ user[u] = "out"
    /\ user' = [user EXCEPT ![u] = "in"]
    /\ UNCHANGED <<count, waiter>>

add(u) ==
    /\ user[u] = "out"
    /\ count' = count + 1
    /\ user' = [user EXCEPT ![u] = "in"]
    /\ UNCHANGED waiter

(* Mutant: the last user leaves without waking anyone (old_count == 0 in   *)
(* place of old_count == 1).                                               *)
done_silent(u) ==
    /\ user[u] = "leaving"
    /\ count' = IF count = 0 THEN 0 ELSE count - 1
    /\ user' = [user EXCEPT ![u] = IF count = 0 THEN "panicked" ELSE "gone"]
    /\ UNCHANGED waiter

(* Mutant: an actor that counts itself down in its task and again when its *)
(* guard is dropped, without the check for zero.                           *)
done_twice(u) ==
    /\ user[u] = "leaving"
    /\ count' = count - 2
    /\ user' = [user EXCEPT ![u] = IF count = 1 THEN "notify" ELSE "gone"]
    /\ UNCHANGED waiter

(* fetch_sub; with a count of zero the code restores it and panics.        *)
done(u) ==
    /\ user[u] = "leaving"
    /\ count' = IF count = 0 THEN 0 ELSE count - 1
    /\ user' = [user EXCEPT ![u] = IF count = 0 THEN "panicked"
                                   ELSE IF count = 1 THEN "notify" ELSE "gone"]
    /\ UNCHANGED waiter

(* The part of done() after a fetch_sub that reached zero.                 *)
notify_waiters(u) ==
    /\ user[u] = "notify"
    /\ user' = [user EXCEPT ![u] = "gone"]
    /\ waiter' = [w \in Waiters |-> IF waiter[w] = "enrolled" THEN "woken"
                                    ELSE waiter[w]]
    /\ UNCHANGED count

(* Mutant: the fast path returns on a group with one user left.            *)
wait_off_by_one(w) ==
    /\ waiter[w] = "idle"
    /\ waiter' = [waiter EXCEPT ![w] = IF count <= 1 THEN "returned" ELSE "unenrolled"]
    /\ UNCHANGED <<count, user>>

(* The fast path, and the load it makes.                                   *)
wait(w) ==
    /\ waiter[w] = "idle"
    /\ waiter' = [waiter EXCEPT ![w] = IF count = 0 THEN "returned" ELSE "unenrolled"]
    /\ UNCHANGED <<count, user>>

(* notified(): from here on notify_waiters() reaches this call.            *)
notified(w) ==
    /\ waiter[w] = "unenrolled"
    /\ waiter' = [waiter EXCEPT ![w] = "enrolled"]
    /\ UNCHANGED <<count, user>>

(* The load after a wake-up.                                               *)
recheck(w) ==
    /\ waiter[w] = "woken"
    /\ waiter' = [waiter EXCEPT ![w] = IF count = 0 THEN "returned" ELSE "unenrolled"]
    /\ UNCHANGED <<count, user>>

(* What the users of the group do on their own: end once they have begun.  *)
leave(u) ==
    /\ user[u] = "in"
    /\ user' = [user EXCEPT ![u] = "leaving"]
    /\ UNCHANGED <<count, waiter>>

WaiterStep(w) == wait(w) \/ notified(w) \/ recheck(w)

-----------------------------------------------------------------------------
Registered == {u \in Users : user[u] \in {"in", "leaving"}}

(* The counter is the number of actors whose drop guard is alive, so       *)
(* done() always finds it above zero and its panic branch is dead.         *)
CountTracksUsers == count = Cardinality(Registered)

NoPanic == \A u \in Users : user[u] # "panicked"

=============================================================================
