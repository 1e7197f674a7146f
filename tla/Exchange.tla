------------------------------ MODULE Exchange ------------------------------
(***************************************************************************)
(* What a REQ socket promises its application: a conversation in lock      *)
(* step.  A request is asked only when none is pending; a reply belongs to *)
(* a request of this client that has had no reply yet, and it is the       *)
(* pending one unless an earlier request was given up (a receive that      *)
(* ended in an error, a peer that went away).                              *)
(***************************************************************************)

CONSTANTS Clients, Requests

VARIABLES pending,     \* the request whose reply a client waits for, as a set
          answered,    \* the requests whose reply it has
          lost         \* the requests it gave up

vars == <<pending, answered, lost>>

Init ==
    /\ pending = [c \in Clients |-> {}]
    /\ answered = [c \in Clients |-> {}]
    /\ lost = [c \in Clients |-> {}]

Asked(c) == pending[c] \cup answered[c] \cup lost[c]

Ask(c, q) ==
    /\ pending[c] = {}
    /\ \A d \in Clients : q \notin Asked(d)
    /\ pending' = [pending EXCEPT ![c] = {q}]
    /\ UNCHANGED <<answered, lost>>

GiveUp(c) ==
    /\ pending[c] # {}
    /\ pending' = [pending EXCEPT ![c] = {}]
    /\ lost' = [lost EXCEPT ![c] = @ \cup pending[c]]
    /\ UNCHANGED answered

(* A late reply to q ends the wait for the pending request, too.           *)
Answer(c, q) ==
    /\ q \in pending[c] \cup lost[c]
    /\ pending' = [pending EXCEPT ![c] = {}]
    /\ answered' = [answered EXCEPT ![c] = @ \cup {q}]
    /\ lost' = [lost EXCEPT ![c] = (@ \cup pending[c]) \ {q}]

Next == \E c \in Clients :
            \/ GiveUp(c)
            \/ \E q \in Requests : Ask(c, q) \/ Answer(c, q)

Spec == Init /\ [][Next]_vars

-----------------------------------------------------------------------------
TypeOK ==
    /\ pending \in [Clients -> SUBSET Requests]
    /\ answered \in [Clients -> SUBSET Requests]
    /\ lost \in [Clients -> SUBSET Requests]

(* A request is pending, answered or given up, never two of these, and no  *)
(* request of one client is ever another's: a reply is handed out at most  *)
(* once, and only to the client that asked for it.                         *)
OneFate ==
    /\ \A c \in Clients :
           /\ answered[c] \cap lost[c] = {}
           /\ pending[c] \cap (answered[c] \cup lost[c]) = {}
    /\ \A c, d \in Clients : c # d => Asked(c) \cap Asked(d) = {}

(* A client that has given nothing up gets, with every reply, the one to   *)
(* the request it asked last.                                              *)
RepliesToPending ==
    \A c \in Clients : lost[c] = {} => answered'[c] \subseteq answered[c] \cup pending[c]
InStep == [][RepliesToPending]_vars
=============================================================================
