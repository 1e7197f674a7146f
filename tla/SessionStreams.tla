--------------------------- MODULE SessionStreams -----------------------------
(***************************************************************************)
(* What the proofs about Session rest on: the inductive invariant, for     *)
(* every set of security options and any number of messages and PINGs,     *)
(* what the steps do to the streams between the ends, and the steps that   *)
(* are the same for every kind of peer.                                    *)
(***************************************************************************)
EXTENDS Session, TLAPS

(* What the proofs say of a state they say of values: w is the setup, ss   *)
(* the sessions, uu the units that each end has not handled, cl the closed *)
(* ends.  An end runs the mechanism its peer has proposed.                 *)
Own(w, e) == Preferred(w[2][e])

(* The end can run what its peer proposes.                                 *)
Able(w, e) ==
    LET m == Own(w, Peer(e))
        c == w[2][e]
    IN  /\ IF m = "NULL" THEN c.use = {} ELSE m \in c.use
        /\ m \in {"CURVE", "NOISE_XX"} => m \in c.keys

(* What an end knows once its mechanism is through.                        *)
Fits(w, e) ==
    /\ Own(w, e) = Own(w, Peer(e)) /\ Able(w, e)
    /\ Own(w, e) = "NULL" \/ (Able(w, Peer(e)) /\ w[3])

(* The tokens of a mechanism: how many an end sends, which, and how many   *)
(* it has sent and received before a step of its script.                   *)
Sends(e, m) == IF m = "NULL" THEN 0 ELSE IF e = "client" /\ m # "PLAIN" THEN 2 ELSE 1
SendTok(e, m, j) ==
    IF m = "NOISE_XX"
    THEN IF e = "server" THEN "e_ee_s_es" ELSE IF j = 1 THEN "e" ELSE "s_se"
    ELSE IF e = "server" THEN "WELCOME" ELSE IF j = 1 THEN "HELLO" ELSE "INITIATE"
SentBy(e, k) == IF k >= (IF e = "client" THEN 2 ELSE 3) THEN 1 ELSE 0
GotBy(e, k) == IF k >= (IF e = "client" THEN 3 ELSE 2) THEN 1 ELSE 0
Steps(m) == IF m = "NULL" THEN 0 ELSE IF m = "PLAIN" THEN 2 ELSE 3

(* What the j-th token of an end says of both.                             *)
Vouch(w, p, j) ==
    /\ Able(w, p)
    /\ p = "server" \/ j = 2 => Own(w, p) = Own(w, Peer(p)) /\ Able(w, Peer(p))
    /\ (p = "server" /\ Own(w, p) = "PLAIN") \/ (p = "client" /\ j = 2) => w[3]

(* The tokens that an end is sent.                                         *)
Tokens(w, e) == Sends(Peer(e), Own(w, e))

Ready(w, e) == Unit("READY", IF w[2][e].id THEN "id" ELSE "anonymous", "NULL")

(* The i-th unit of the stream towards e, counted from its beginning.      *)
UnitOK(w, e, i, u) ==
    /\ i = 1 => u = Unit("prelude", "0x03", "NULL")
    /\ i = 2 => u = Unit("v3tail", Own(w, Peer(e)), "NULL")
    /\ i \in 3..(2 + Tokens(w, e)) =>
          /\ u = Unit("token", SendTok(Peer(e), Own(w, e), i - 2), Own(w, e))
          /\ Vouch(w, Peer(e), i - 2)
    /\ i = 3 + Tokens(w, e) => u = Ready(w, Peer(e)) /\ Fits(w, Peer(e))
    /\ i > 3 + Tokens(w, e) =>
          /\ u.t \in {"data", "PING", "PONG"} /\ u.key = Own(w, e)
          /\ Fits(w, Peer(e))

Greeting == {"GreetingExchange", "WaitingForPeerRevision", "WaitingForGreeting"}
Secured == {"ReadyExchange", "ClientSentReady", "ServerReceivedReady", "Done"}

(* The units of the handshake that an end has handled and has written.     *)
Taken(w, e, s) ==
    IF s.sub \in Greeting THEN 0
    ELSE IF s.sub = "SecurityHandshake" THEN 2 + GotBy(e, s.step)
    ELSE IF s.sub \in {"ReadyExchange", "ClientSentReady"} THEN 2 + Tokens(w, e)
    ELSE 3 + Tokens(w, e)
Written(w, e, s) ==
    IF s.sub = "GreetingExchange" THEN 0
    ELSE IF s.sub = "WaitingForPeerRevision" THEN 1
    ELSE IF s.sub = "WaitingForGreeting" THEN 2
    ELSE IF s.sub = "SecurityHandshake" THEN 2 + SentBy(e, s.step)
    ELSE IF s.sub \in {"ReadyExchange", "ServerReceivedReady"} THEN 2 + Tokens(w, Peer(e))
    ELSE 3 + Tokens(w, Peer(e))

Secure(m) == IF m = "NULL" THEN "none" ELSE "security"

(* The session of an rzmq end that has not closed its stream.              *)
Local(w, e, s) ==
    /\ s.at = "start" /\ s.sub # "V2IdentityExchange" /\ s.phase # "External"
    /\ s.phase \in {"WaitingForPipes", "Operational"} => s.sub = "Done"
    /\ s.phase = "HandshakeInProgress" => s.sub # "Done"
    /\ s.sub = "GreetingExchange" => s.buf = <<>>
    /\ s.sub \in Greeting \/ s.sub \in Secured => s.mech = "NULL" /\ s.step = 0
    /\ s.sub \in Greeting \cup {"SecurityHandshake"} => s.id = "none" /\ s.framer = "NULL"
    /\ s.sub = "SecurityHandshake" =>
          /\ s.version = "V3" /\ s.peer_mech = Own(w, Peer(e))
          /\ \/ s.mech = "NULL" /\ s.step = 0
             \/ /\ s.mech # "NULL" /\ s.mech = Own(w, Peer(e)) /\ Able(w, e)
                /\ s.step \in 1..Steps(s.mech)
                /\ GotBy(e, s.step) = 1 =>
                      /\ Own(w, e) = Own(w, Peer(e)) /\ Able(w, Peer(e))
                      /\ e = "client" \/ s.mech = "PLAIN" => w[3]
    /\ s.sub \in Secured =>
          s.version = "V3" /\ s.framer = Own(w, Peer(e)) /\ Fits(w, e)
    /\ s.sub \in {"ReadyExchange", "ClientSentReady", "ServerReceivedReady"} =>
          s.id = Secure(s.framer)
    /\ s.sub = "ClientSentReady" => e = "client"
    /\ s.sub = "ServerReceivedReady" =>
          e = "server" /\ s.from_ready = w[2][Peer(e)].id /\ Fits(w, Peer(e))
    /\ s.sub = "Done" =>
          /\ Fits(w, Peer(e))
          /\ s.id = IF w[2][Peer(e)].id THEN "READY" ELSE Secure(s.framer)

(* The stream from the peer, whose session is q, to e.                     *)
Stream(w, e, s, q, u, cl) ==
    e \notin cl =>
        /\ \A i \in 1..Len(u) : UnitOK(w, e, Taken(w, e, s) + i, u[i])
        /\ Peer(e) \notin cl =>
              IF q.sub = "Done" THEN Taken(w, e, s) + Len(u) >= 3 + Tokens(w, e)
              ELSE Taken(w, e, s) + Len(u) = Written(w, Peer(e), q)

(* The units ahead of both ends are no more than the ends have written, a  *)
(* PING and the PONG that answers it counted once.                         *)
Most(w, e, ss, cl, n, pg) == (IF e \in cl THEN 5 ELSE Written(w, e, ss[e])) + n[e] + pg[e]
Few(w, ss, uu, cl, n, pg) ==
    Len(uu["client"]) + Len(uu["server"])
        <= Most(w, "client", ss, cl, n, pg) + Most(w, "server", ss, cl, n, pg)

V3Inv(w, ss, uu, cl, n, pg, rs) ==
    /\ ~rs
    /\ \A e \in Ends : e \notin cl => Local(w, e, ss[e])
    /\ \A e \in Ends : Stream(w, e, ss[e], ss[Peer(e)], uu[e], cl)
    /\ Few(w, ss, uu, cl, n, pg)

-----------------------------------------------------------------------------
(* The same for a ZMTP/2.0 peer; a restart has it lose count.              *)
V2UnitOK(i, u) ==
    /\ u.key = "NULL" /\ u.t \in {"prelude", "v2tail", "identity", "data"}
    /\ i = 1 => u.t = "prelude" /\ u.v = "0x01"
    /\ i = 2 => u.t = "v2tail"
    /\ i = 3 => u.t = "identity"
    /\ i > 3 => u.t = "data"
V2Taken(s) ==
    IF s.sub = "Done" THEN 3 ELSE IF s.at = "identity" THEN 2 ELSE 0
V2Written(s) ==
    IF s.sub = "GreetingExchange" THEN 0 ELSE IF s.sub = "WaitingForPeerRevision" THEN 1 ELSE 2
V2Seen(v) == IF v = 0 THEN 0 ELSE v - 1

V2Local(w, s, rs) ==
    /\ s.phase # "External" /\ s.mech = "NULL" /\ s.framer = "NULL"
    /\ s.sub \in {"GreetingExchange", "WaitingForPeerRevision", "V2IdentityExchange", "Done"}
    /\ s.phase \in {"WaitingForPipes", "Operational"} => s.sub = "Done"
    /\ s.phase = "HandshakeInProgress" => s.sub # "Done"
    /\ s.sub = "GreetingExchange" => s.buf = <<>>
    /\ s.at = "identity" => s.sub = "V2IdentityExchange"
    /\ s.sub \in {"GreetingExchange", "WaitingForPeerRevision"} => ~rs
    /\ s.sub \in {"V2IdentityExchange", "Done"} => s.version = "V2" /\ w[4]
    /\ s.at = "identity" \/ s.sub = "Done" => w[3] \/ rs

(* What is ahead of the end: v units and the messages have been written.   *)
V2Stream(s, u, v, rs) ==
    /\ \A i \in 1..Len(u) : u[i].key = "NULL" /\ u[i].t \notin Commands
    /\ ~rs => /\ \A i \in 1..Len(u) : V2UnitOK(V2Taken(s) + i, u[i])
              /\ v < 3 => V2Taken(s) + Len(u) = v
              /\ v = 3 => V2Taken(s) + Len(u) >= 3

(* What is ahead of the peer.                                              *)
V2NoData(r, v) == \A i \in 1..Len(r) : V2Seen(v) + i <= 2 => r[i].t # "data"
V2Back(s, r, v) ==
    /\ V2Written(s) < 2 => V2Seen(v) + Len(r) = V2Written(s)
    /\ V2Written(s) = 2 => V2Seen(v) + Len(r) >= 2
V2Few(s, lu, lr, v, ns, nc) ==
    lu <= v + ns /\ lu + 2 * lr <= v + ns + 2 * V2Written(s) + 2 * nc

V2Inv(w, ss, uu, cl, v, n, g, rs) ==
    LET s == ss["client"]
        u == uu["client"]
        r == uu["server"]
    IN  /\ ss["server"].phase = "External" /\ ss["server"].buf = <<>>
        /\ "server" \notin cl /\ g["server"] = <<>>
        /\ "client" \notin cl => V2Local(w, s, rs) /\ V2Stream(s, u, v, rs) /\ V2Back(s, r, v)
        /\ V2NoData(r, v)
        /\ V2Few(s, Len(u), Len(r), v, n["server"], n["client"])

-----------------------------------------------------------------------------
(* The data units of a stream: n sent, k of them handled.                  *)
Data(u) == {i \in 1..Len(u) : u[i].t = "data"}
Order(u, k, n, open) ==
    /\ k <= n
    /\ \A i \in Data(u) : u[i].v \in (k + 1)..n
    /\ \A i, j \in Data(u) : i < j => u[i].v < u[j].v
    /\ \A i \in Data(u) : \A m \in (k + 1)..u[i].v : \E j \in Data(u) : u[j].v = m
    /\ open /\ k < n => \E j \in Data(u) : u[j].v = n
Ordered(e, uu, g, n, cl) ==
    /\ \A i \in 1..Len(g[e]) : g[e][i] = i
    /\ Order(uu[e], Len(g[e]), n[Peer(e)], cl = {})

Unlost(w, uu, cl, g, n, rs) ==
    \A e \in Ends : w[1] = "v3" \/ e = "server" \/ ~rs => Ordered(e, uu, g, n, cl)

ClosedInv(ss, uu, cl) ==
    \A e \in cl : ss[e].phase \in {"ShuttingDownStream", "Terminating"} /\ uu[e] = <<>>

Streams(ss, wr) == [e \in Ends |-> ss[e].buf \o wr[e]]
streams == Streams(sess, wire)

UnitTypes == {"prelude", "v3tail", "v2tail", "identity", "data"} \cup Commands
Values == {"0x03", "0x01", "type", "id", "anonymous", "none", "HELLO", "WELCOME", "INITIATE",
           "e", "e_ee_s_es", "s_se"} \cup Mechanisms \cup Nat
Units == [t : UnitTypes, v : Values, key : Mechanisms]
Places == {"start", "identity"}
ScriptSteps == 0..4
Proposals == Mechanisms \cup {"none"}
Versions == {"none", "V2", "V3"}
Identities == {"none", "security", "READY"}
Flags == BOOLEAN
SessType ==
    [phase : Phases, sub : SubPhases, at : Places, buf : Seq(Units),
     mech : Mechanisms, step : ScriptSteps, peer_mech : Proposals,
     version : Versions, framer : Mechanisms, id : Identities, from_ready : Flags,
     attached : Flags, waiting_for_pong : Flags, cause : Causes]

Typed ==
    /\ kind \in {"v2", "v3"} /\ agree \in BOOLEAN /\ allow_zmtp2 \in BOOLEAN
    /\ config \in [Ends -> AllConfigs]
    /\ sess \in [Ends -> SessType] /\ wire \in [Ends -> Seq(Units)]
    /\ closed \subseteq Ends /\ v2peer \in 0..3 /\ restarted \in BOOLEAN
    /\ sent \in [Ends -> 0..MaxData] /\ pings \in [Ends -> 0..MaxPings]
    /\ got \in [Ends -> Seq(Values)]

IndInv ==
    /\ Typed /\ NoSpuriousError
    /\ ClosedInv(sess, streams, closed)
    /\ Unlost(setup, streams, closed, got, sent, restarted)
    /\ kind = "v3" => V3Inv(setup, sess, streams, closed, sent, pings, restarted)
    /\ kind = "v2" => V2Inv(setup, sess, streams, closed, v2peer, sent, got, restarted)

-----------------------------------------------------------------------------
(* There are two ends.                                                     *)
LEMMA TwoEnds ==
    ASSUME NEW e \in Ends
    PROVE  /\ Peer(e) \in Ends /\ Peer(e) # e /\ Peer(Peer(e)) = e
           /\ Ends = {e, Peer(e)} /\ e \in {"client", "server"}
BY Zenon DEF Ends, Peer

(* A sequence of units is its length and its elements.                     *)
LEMMA Lengths ==
    ASSUME NEW S, NEW u \in Seq(S)
    PROVE  /\ Len(u) \in Nat /\ (u = <<>> <=> Len(u) = 0)
           /\ \A i \in 1..Len(u) : u[i] \in S
OBVIOUS

(* What a write at the end of a sequence does.                             *)
LEMMA Added ==
    ASSUME NEW S, NEW u \in Seq(S), NEW x \in S
    PROVE  /\ Append(u, x) \in Seq(S) /\ Len(Append(u, x)) = Len(u) + 1
           /\ \A i \in 1..Len(u) : Append(u, x)[i] = u[i]
           /\ Append(u, x)[Len(u) + 1] = x
OBVIOUS

(* What taking the first element off does.                                 *)
LEMMA Behind ==
    ASSUME NEW S, NEW u \in Seq(S), u # <<>>
    PROVE  /\ Tail(u) \in Seq(S) /\ Len(Tail(u)) = Len(u) - 1
           /\ Head(u) \in S /\ Head(u) = u[1]
           /\ Len(u) \in Nat \ {0}
           /\ \A i \in 1..(Len(u) - 1) : Tail(u)[i] = u[i + 1]
OBVIOUS

(* Two sequences of units make one.                                        *)
LEMMA Joined ==
    ASSUME NEW u \in Seq(Units), NEW v \in Seq(Units)
    PROVE  u \o v \in Seq(Units) /\ Len(u \o v) = Len(u) + Len(v)
OBVIOUS

-----------------------------------------------------------------------------
(* The data units keep their order, whatever is added at the end, taken    *)
(* from the front or lost at the end.                                      *)
LEMMA OrderAppendOther ==
    ASSUME NEW u \in Seq(Units), NEW x \in Units, x.t # "data",
           NEW k \in Nat, NEW n \in Nat, NEW o \in BOOLEAN, Order(u, k, n, o)
    PROVE  Order(Append(u, x), k, n, o)
<1>1. /\ Len(u) \in Nat /\ Len(Append(u, x)) = Len(u) + 1
      /\ \A i \in 1..Len(u) : Append(u, x)[i] = u[i]
      /\ Append(u, x)[Len(u) + 1] = x
  BY Added
<1>2. \A i : i \in Data(Append(u, x)) <=> i \in Data(u)
  BY <1>1 DEF Data
<1>3. Data(Append(u, x)) = Data(u) /\ \A i \in Data(u) : Append(u, x)[i] = u[i]
  BY Zenon, <1>1, <1>2 DEF Data
<1> QED BY Zenon, <1>3 DEF Order

(* A message is written while both ends are open.                          *)
LEMMA OrderAppendData ==
    ASSUME NEW u \in Seq(Units), NEW x \in Units, NEW k \in Nat, NEW n \in Nat,
           x.t = "data", x.v = n + 1, Order(u, k, n, TRUE)
    PROVE  Order(Append(u, x), k, n + 1, TRUE)
<1>1. /\ Len(u) \in Nat /\ Len(Append(u, x)) = Len(u) + 1
      /\ \A i \in 1..Len(u) : Append(u, x)[i] = u[i]
      /\ Append(u, x)[Len(u) + 1] = x
  BY Added
<1> DEFINE D == Data(u)
           A == Append(u, x)
           l == Len(u) + 1
<1>2. \A i : i \in Data(A) <=> i \in D \/ i = l
  BY <1>1 DEF Data
<1>3. /\ l \in Nat /\ A[l].v = n + 1
      /\ \A i \in D : A[i] = u[i] /\ i \in Nat /\ i < l
  BY <1>1 DEF Data
<1>5. /\ k <= n
      /\ \A i \in D : u[i].v \in (k + 1)..n
      /\ \A i, j \in D : i < j => u[i].v < u[j].v
      /\ \A i \in D : \A m \in (k + 1)..u[i].v : \E j \in D : u[j].v = m
      /\ k < n => \E j \in D : u[j].v = n
  BY Zenon DEF Order
<1> HIDE DEF D, A, l
<1>6. \A i \in Data(A) : A[i].v \in (k + 1)..(n + 1)
  <2>1. \A i \in D : A[i].v \in (k + 1)..(n + 1)
    BY <1>3, <1>5
  <2>2. A[l].v \in (k + 1)..(n + 1)
    BY <1>3, <1>5
  <2> QED BY Zenon, <1>2, <2>1, <2>2
<1>7. \A i, j \in Data(A) : i < j => A[i].v < A[j].v
  <2> SUFFICES ASSUME NEW i \in Data(A), NEW j \in Data(A), i < j PROVE A[i].v < A[j].v
    BY Zenon
  <2>1. CASE i \in D /\ j \in D
    BY Zenon, <1>3, <1>5, <2>1
  <2>2. CASE i \in D /\ j = l
    <3>1. u[i].v \in (k + 1)..n /\ A[i] = u[i]
      BY Zenon, <1>3, <1>5, <2>2
    <3> QED BY <1>3, <2>2, <3>1
  <2>3. i # l
    BY <1>2, <1>3
  <2> QED BY Zenon, <1>2, <2>1, <2>2, <2>3
<1>8. \A i \in Data(A) : \A m \in (k + 1)..A[i].v : \E j \in Data(A) : A[j].v = m
  <2> SUFFICES ASSUME NEW i \in Data(A), NEW m \in (k + 1)..A[i].v
               PROVE  \E j \in Data(A) : A[j].v = m
    BY Zenon
  <2>1. CASE i \in D
    BY Zenon, <1>2, <1>3, <1>5, <2>1
  <2>2. CASE i = l /\ m = n + 1
    BY Zenon, <1>2, <1>3, <2>2
  <2>3. CASE i = l /\ m # n + 1
    <3>1. m \in (k + 1)..n /\ k < n
      BY <1>3, <2>3
    <3>2. PICK j \in D : u[j].v = n
      BY Zenon, <1>5, <3>1
    <3>3. PICK h \in D : u[h].v = m
      BY Zenon, <1>5, <3>1, <3>2
    <3> QED BY Zenon, <1>2, <1>3, <3>3
  <2> QED BY Zenon, <1>2, <2>1, <2>2, <2>3
<1>9. \E j \in Data(A) : A[j].v = n + 1
  BY Zenon, <1>2, <1>3
<1>10. k <= n + 1
  BY <1>5
<1>11. Order(A, k, n + 1, TRUE)
  BY <1>6, <1>7, <1>8, <1>9, <1>10, Zenon DEF Order
<1> QED BY Zenon, <1>11 DEF A

(* What is left when the first unit has been handled.                      *)
LEMMA OrderTail ==
    ASSUME NEW u \in Seq(Units), u # <<>>, NEW k \in Nat, NEW n \in Nat, NEW o \in BOOLEAN,
           Order(u, k, n, o)
    PROVE  /\ Head(u).t # "data" => Order(Tail(u), k, n, o)
           /\ Head(u).t = "data" => Head(u).v = k + 1 /\ k < n /\ Order(Tail(u), k + 1, n, o)
<1>1. /\ Len(u) \in Nat \ {0} /\ Len(Tail(u)) = Len(u) - 1
      /\ \A i \in 1..(Len(u) - 1) : Tail(u)[i] = u[i + 1]
      /\ Head(u) = u[1]
  BY Zenon, Behind
<1> DEFINE D == Data(u)
           E == Data(Tail(u))
           v == Tail(u)
<1>2. /\ \A i \in E : i \in Nat /\ i >= 1 /\ i + 1 \in D /\ v[i] = u[i + 1]
      /\ \A i \in D : i \in Nat /\ i >= 1 /\ (i # 1 => i - 1 \in E /\ v[i - 1] = u[i])
      /\ 1 \in D <=> Head(u).t = "data"
  BY <1>1 DEF Data
<1>4. /\ k <= n
      /\ \A i \in D : u[i].v \in (k + 1)..n
      /\ \A i, j \in D : i < j => u[i].v < u[j].v
      /\ \A i \in D : \A m \in (k + 1)..u[i].v : \E j \in D : u[j].v = m
      /\ o /\ k < n => \E j \in D : u[j].v = n
  BY Zenon DEF Order
<1>5. u[1] = Head(u)
  BY Zenon, <1>1
<1> HIDE DEF D, E, v
<1>6. \A i, j \in E : i < j => v[i].v < v[j].v
  <2> SUFFICES ASSUME NEW i \in E, NEW j \in E, i < j PROVE v[i].v < v[j].v
    BY Zenon
  <2>1. i + 1 \in D /\ j + 1 \in D /\ i + 1 < j + 1
    BY <1>2
  <2> QED BY Zenon, <1>2, <1>4, <2>1
<1>7. ASSUME Head(u).t # "data" PROVE Order(v, k, n, o)
  <2>1. \A i \in E : v[i].v \in (k + 1)..n
    BY Zenon, <1>2, <1>4
  <2>2. \A i \in E : \A m \in (k + 1)..v[i].v : \E j \in E : v[j].v = m
    <3> SUFFICES ASSUME NEW i \in E, NEW m \in (k + 1)..v[i].v PROVE \E j \in E : v[j].v = m
      BY Zenon
    <3>1. PICK j \in D : u[j].v = m
      BY <1>2, <1>4
    <3> QED BY Zenon, <1>2, <1>7, <3>1
  <2>3. o /\ k < n => \E j \in E : v[j].v = n
    BY Zenon, <1>2, <1>4, <1>7
  <2>4. k <= n
    BY Zenon, <1>4
  <2> QED BY <1>6, <2>1, <2>2, <2>3, <2>4, Zenon DEF Order, E, v
<1>8. ASSUME Head(u).t = "data" PROVE Head(u).v = k + 1 /\ k < n /\ Order(v, k + 1, n, o)
  <2>1. 1 \in D /\ u[1].v \in (k + 1)..n
    BY Zenon, <1>2, <1>4, <1>8
  <2>2. PICK h \in D : u[h].v = k + 1
    BY <1>4, <2>1
  <2>3. u[1].v = k + 1
    <3>1. CASE h = 1
      BY Zenon, <2>2, <3>1
    <3>2. CASE h # 1
      <4>1. 1 < h
        BY <1>2, <3>2
      <4>2. u[1].v < k + 1
        BY ZenonT(60), <1>4, <2>1, <2>2, <4>1
      <4> QED BY <2>1, <4>2
    <3> QED BY Zenon, <3>1, <3>2
  <2>4. \A i \in E : v[i].v \in (k + 1 + 1)..n
    <3> SUFFICES ASSUME NEW i \in E PROVE v[i].v \in (k + 1 + 1)..n
      BY Zenon
    <3>1. i + 1 \in D /\ v[i] = u[i + 1] /\ 1 < i + 1
      BY <1>2
    <3>2. u[1].v < u[i + 1].v /\ u[i + 1].v \in (k + 1)..n
      BY Zenon, <1>4, <2>1, <3>1
    <3> QED BY <2>3, <3>1, <3>2
  <2>5. \A i \in E : \A m \in (k + 1 + 1)..v[i].v : \E j \in E : v[j].v = m
    <3> SUFFICES ASSUME NEW i \in E, NEW m \in (k + 1 + 1)..v[i].v PROVE \E j \in E : v[j].v = m
      BY Zenon
    <3>1. m \in (k + 1)..u[i + 1].v /\ i + 1 \in D /\ m # k + 1
      BY <1>2, <2>4
    <3>2. PICK j \in D : u[j].v = m
      BY Zenon, <1>4, <3>1
    <3> QED BY Zenon, <1>2, <2>3, <3>1, <3>2
  <2>6. o /\ k + 1 < n => \E j \in E : v[j].v = n
    <3> SUFFICES ASSUME o, k + 1 < n PROVE \E j \in E : v[j].v = n
      BY Zenon
    <3>1. PICK j \in D : u[j].v = n
      BY <1>4
    <3>2. j # 1
      BY <2>3, <3>1
    <3> QED BY Zenon, <1>2, <3>1, <3>2
  <2>7. k + 1 <= n /\ k < n
    BY <2>1
  <2> QED BY <1>5, <1>6, <2>3, <2>4, <2>5, <2>6, <2>7, Zenon DEF Order, E, v
<1> QED BY Zenon, <1>7, <1>8 DEF v

(* The end of a stream is lost, or a message is counted that never gets    *)
(* into it.                                                                *)
Begins(v, u) == Len(v) <= Len(u) /\ \A i \in 1..Len(v) : v[i] = u[i]

(* A stream that is cut short keeps its order, however many more are sent. *)
LEMMA OrderCut ==
    ASSUME NEW u \in Seq(Units), NEW v \in Seq(Units), Begins(v, u),
           NEW k \in Nat, NEW n \in Nat, NEW m \in Nat, n <= m, NEW o, Order(u, k, n, o)
    PROVE  Order(v, k, m, FALSE)
<1> DEFINE D == Data(u)
           E == Data(v)
<1>1. Len(u) \in Nat /\ Len(v) \in Nat
  OBVIOUS
<1>2. /\ \A i \in E : i \in D /\ v[i] = u[i] /\ i \in Nat
      /\ \A i \in D : \A j \in E : i <= j => i \in E
      /\ \A i \in D : i \in Nat
  BY <1>1 DEF Data, Begins
<1>3. /\ k <= n
      /\ \A i \in D : u[i].v \in (k + 1)..n
      /\ \A i, j \in D : i < j => u[i].v < u[j].v
      /\ \A i \in D : \A h \in (k + 1)..u[i].v : \E j \in D : u[j].v = h
  BY Zenon DEF Order
<1> HIDE DEF D, E
<1>4. \A i \in E : v[i].v \in (k + 1)..m
  <2>1. ASSUME NEW i \in E PROVE v[i].v \in (k + 1)..m
    <3>1. u[i].v \in (k + 1)..n /\ v[i] = u[i]
      BY Zenon, <1>2, <1>3
    <3> QED BY <3>1
  <2> QED BY Zenon, <2>1
<1>5. \A i, j \in E : i < j => v[i].v < v[j].v
  BY Zenon, <1>2, <1>3
<1>6. \A i \in E : \A h \in (k + 1)..v[i].v : \E j \in E : v[j].v = h
  <2> SUFFICES ASSUME NEW i \in E, NEW h \in (k + 1)..v[i].v PROVE \E j \in E : v[j].v = h
    BY Zenon
  <2>1. PICK j \in D : u[j].v = h
    BY Zenon, <1>2, <1>3
  <2>2. i \in D /\ u[i].v \in (k + 1)..n /\ v[i] = u[i]
    BY Zenon, <1>2, <1>3
  <2>3. j <= i
    <3>1. SUFFICES ASSUME i < j PROVE FALSE
      BY <1>2, <2>2
    <3>2. u[i].v < u[j].v
      BY Zenon, <1>3, <2>2, <3>1
    <3> QED BY <2>1, <2>2, <3>2
  <2> QED BY Zenon, <1>2, <2>1, <2>3
<1>7. k <= m
  BY <1>3
<1> QED BY <1>4, <1>5, <1>6, <1>7, Zenon DEF Order, E
-----------------------------------------------------------------------------
(* A write adds a unit to those ahead of an end, which are what it has     *)
(* buffered and what is on the wire.                                       *)
LEMMA SeqWrite ==
    ASSUME NEW b \in Seq(Units), NEW r \in Seq(Units), NEW x \in Units
    PROVE  b \o Append(r, x) = Append(b \o r, x)
OBVIOUS

(* Handling a unit takes the first one away.                               *)
LEMMA SeqTake ==
    ASSUME NEW b \in Seq(Units), NEW r \in Seq(Units), b # <<>>
    PROVE  /\ b \o r # <<>> /\ Head(b \o r) = Head(b) /\ Head(b) \in Units
           /\ Tail(b) \in Seq(Units) /\ Tail(b) \o r = Tail(b \o r)
OBVIOUS

(* The greeting is two units.                                              *)
LEMMA SeqTakeTwo ==
    ASSUME NEW b \in Seq(Units), NEW r \in Seq(Units), Len(b) >= 2
    PROVE  /\ b \o r # <<>> /\ Tail(b \o r) # <<>>
           /\ Head(b \o r) = b[1] /\ Head(Tail(b \o r)) = b[2] /\ b[2] \in Units
           /\ SubSeq(b, 3, Len(b)) \in Seq(Units)
           /\ SubSeq(b, 3, Len(b)) \o r = Tail(Tail(b \o r))
<1>1. /\ b # <<>> /\ b[1] = Head(b) /\ b[2] \in Units
      /\ Tail(b) \in Seq(Units) /\ Tail(b) # <<>> /\ Head(Tail(b)) = b[2]
  <2>1. b # <<>> /\ b[1] = Head(b) /\ b[2] \in Units
    OBVIOUS
  <2>2. Tail(b) \in Seq(Units) /\ Len(Tail(b)) >= 1
    BY <2>1
  <2>3. Tail(b) # <<>>
    <3> DEFINE t == Tail(b)
    <3>1. t \in Seq(Units) /\ Len(t) >= 1
      BY Zenon, <2>2
    <3> HIDE DEF t
    <3>2. t # <<>>
      BY <3>1
    <3> QED BY Zenon, <3>2 DEF t
  <2>4. Head(Tail(b)) = b[2]
    OBVIOUS
  <2> QED BY Zenon, <2>1, <2>2, <2>3, <2>4
<1>2. Tail(Tail(b)) = SubSeq(b, 3, Len(b))
  OBVIOUS
<1>3. b \o r # <<>> /\ Head(b \o r) = Head(b) /\ Tail(b) \o r = Tail(b \o r)
  BY Zenon, <1>1, SeqTake
<1>4. /\ Tail(b) \o r # <<>> /\ Head(Tail(b) \o r) = Head(Tail(b))
      /\ Tail(Tail(b)) \in Seq(Units) /\ Tail(Tail(b)) \o r = Tail(Tail(b) \o r)
  BY Zenon, <1>1, SeqTake
<1> QED BY Zenon, <1>1, <1>2, <1>3, <1>4

(* Whatever is joined first.                                               *)
LEMMA Assoc ==
    ASSUME NEW b \in Seq(Units), NEW x \in Seq(Units), NEW y \in Seq(Units)
    PROVE  (b \o x) \o y = b \o (x \o y)
OBVIOUS

(* A read moves units from the wire to the buffer, and changes nothing.    *)
LEMMA SeqRead ==
    ASSUME NEW b \in Seq(Units), NEW r \in Seq(Units), NEW n \in 1..Len(r)
    PROVE  /\ b \o SubSeq(r, 1, n) \in Seq(Units) /\ SubSeq(r, n + 1, Len(r)) \in Seq(Units)
           /\ (b \o SubSeq(r, 1, n)) \o SubSeq(r, n + 1, Len(r)) = b \o r
<1> DEFINE x == SubSeq(r, 1, n)
           y == SubSeq(r, n + 1, Len(r))
<1>1. x \in Seq(Units) /\ y \in Seq(Units) /\ x \o y = r
  <2>1. x \in Seq(Units)
    OBVIOUS
  <2>2. y \in Seq(Units)
    OBVIOUS
  <2>3. x \o y = r
    OBVIOUS
  <2> QED BY Zenon, <2>1, <2>2, <2>3
<1> HIDE DEF x, y
<1>2. b \o x \in Seq(Units) /\ (b \o x) \o y = b \o (x \o y)
  <2>1. b \o x \in Seq(Units)
    BY <1>1, Joined, Zenon
  <2>2. (b \o x) \o y = b \o (x \o y)
    BY <1>1, Assoc, Zenon
  <2> QED BY Zenon, <2>1, <2>2
<1> QED BY Zenon, <1>1, <1>2 DEF x, y

-----------------------------------------------------------------------------
(* The scripts of the mechanisms in a table: who sends which token when.   *)
LEMMA ScriptFacts ==
    ASSUME NEW e \in Ends, NEW m \in Mechanisms, m # "NULL"
    PROVE  /\ Len(Script(e, m)) = Steps(m) /\ Steps(m) \in {2, 3}
           /\ \A k \in 1..Steps(m) :
                 /\ Script(e, m)[k].op = IF (e = "client") <=> (k = 2) THEN "recv" ELSE "send"
                 /\ Script(e, m)[k].tok =
                       SendTok(IF k = 2 THEN "server" ELSE "client", m, IF k = 3 THEN 2 ELSE 1)
<1>0. /\ \A t : Snd(t).op = "send" /\ Snd(t).tok = t
      /\ \A t : Rcv(t).op = "recv" /\ Rcv(t).tok = t
  BY Zenon DEF Snd, Rcv
<1>1. CASE m = "PLAIN"
  <2>1. Script(e, m) = plain_script(e) /\ Steps(m) = 2
    BY Zenon, <1>1 DEF Script, Steps
  <2>2. \A k \in 1..2 : k = 1 \/ k = 2
    OBVIOUS
  <2>3. SendTok("client", m, 1) = "HELLO" /\ SendTok("server", m, 1) = "WELCOME"
    BY Zenon, <1>1 DEF SendTok
  <2>4. CASE e = "client"
    <3>1. Script(e, m) = <<Snd("HELLO"), Rcv("WELCOME")>>
      BY Zenon, <2>1, <2>4 DEF plain_script
    <3>2. Len(Script(e, m)) = 2 /\ Script(e, m)[1] = Snd("HELLO") /\ Script(e, m)[2] = Rcv("WELCOME")
      BY <3>1
    <3> QED BY <1>0, <2>1, <2>2, <2>3, <2>4, <3>2
  <2>5. CASE e = "server"
    <3>1. Script(e, m) = <<Rcv("HELLO"), Snd("WELCOME")>>
      BY Zenon, <2>1, <2>5 DEF plain_script
    <3>2. Len(Script(e, m)) = 2 /\ Script(e, m)[1] = Rcv("HELLO") /\ Script(e, m)[2] = Snd("WELCOME")
      BY <3>1
    <3> QED BY <1>0, <2>1, <2>2, <2>3, <2>5, <3>2
  <2> QED BY Zenon, <2>4, <2>5 DEF Ends
<1>2. CASE m = "CURVE"
  <2>1. Script(e, m) = curve_script(e) /\ Steps(m) = 3
    BY Zenon, <1>2 DEF Script, Steps
  <2>2. \A k \in 1..3 : k = 1 \/ k = 2 \/ k = 3
    OBVIOUS
  <2>3. SendTok("client", m, 1) = "HELLO" /\ SendTok("server", m, 1) = "WELCOME"
          /\ SendTok("client", m, 2) = "INITIATE"
    BY <1>2 DEF SendTok
  <2>4. CASE e = "client"
    <3>1. Script(e, m) = <<Snd("HELLO"), Rcv("WELCOME"), Snd("INITIATE")>>
      BY Zenon, <2>1, <2>4 DEF curve_script
    <3>2. Len(Script(e, m)) = 3 /\ Script(e, m)[1] = Snd("HELLO")
            /\ Script(e, m)[2] = Rcv("WELCOME") /\ Script(e, m)[3] = Snd("INITIATE")
      BY <3>1
    <3> QED BY <1>0, <2>1, <2>2, <2>3, <2>4, <3>2
  <2>5. CASE e = "server"
    <3>1. Script(e, m) = <<Rcv("HELLO"), Snd("WELCOME"), Rcv("INITIATE")>>
      BY Zenon, <2>1, <2>5 DEF curve_script
    <3>2. Len(Script(e, m)) = 3 /\ Script(e, m)[1] = Rcv("HELLO")
            /\ Script(e, m)[2] = Snd("WELCOME") /\ Script(e, m)[3] = Rcv("INITIATE")
      BY <3>1
    <3> QED BY <1>0, <2>1, <2>2, <2>3, <2>5, <3>2
  <2> QED BY <2>4, <2>5 DEF Ends
<1>3. CASE m = "NOISE_XX"
  <2>1. Script(e, m) = noise_script(e) /\ Steps(m) = 3
    BY Zenon, <1>3 DEF Script, Steps
  <2>2. \A k \in 1..3 : k = 1 \/ k = 2 \/ k = 3
    OBVIOUS
  <2>3. SendTok("client", m, 1) = "e" /\ SendTok("server", m, 1) = "e_ee_s_es"
          /\ SendTok("client", m, 2) = "s_se"
    BY <1>3 DEF SendTok
  <2>4. CASE e = "client"
    <3>1. Script(e, m) = <<Snd("e"), Rcv("e_ee_s_es"), Snd("s_se")>>
      BY Zenon, <2>1, <2>4 DEF noise_script
    <3>2. Len(Script(e, m)) = 3 /\ Script(e, m)[1] = Snd("e")
            /\ Script(e, m)[2] = Rcv("e_ee_s_es") /\ Script(e, m)[3] = Snd("s_se")
      BY <3>1
    <3> QED BY <1>0, <2>1, <2>2, <2>3, <2>4, <3>2
  <2>5. CASE e = "server"
    <3>1. Script(e, m) = <<Rcv("e"), Snd("e_ee_s_es"), Rcv("s_se")>>
      BY Zenon, <2>1, <2>5 DEF noise_script
    <3>2. Len(Script(e, m)) = 3 /\ Script(e, m)[1] = Rcv("e")
            /\ Script(e, m)[2] = Snd("e_ee_s_es") /\ Script(e, m)[3] = Rcv("s_se")
      BY <3>1
    <3> QED BY <1>0, <2>1, <2>2, <2>3, <2>5, <3>2
  <2> QED BY <2>4, <2>5 DEF Ends
<1> QED BY Zenon, <1>1, <1>2, <1>3 DEF Mechanisms

(* The places in a stream are numbers, and the handshake has an end.       *)
LEMMA Numbers ==
    ASSUME NEW w, NEW e \in Ends, NEW s \in SessType
    PROVE  /\ Tokens(w, e) \in 0..2 /\ Tokens(w, Peer(e)) \in 0..2
           /\ Taken(w, e, s) \in Nat /\ Taken(w, e, s) <= 3 + Tokens(w, e)
           /\ Written(w, e, s) \in Nat /\ Written(w, e, s) <= 3 + Tokens(w, Peer(e))
<1>1. Tokens(w, e) \in 0..2 /\ Tokens(w, Peer(e)) \in 0..2
  BY DEF Tokens, Sends
<1>2. GotBy(e, s.step) \in {0, 1} /\ SentBy(e, s.step) \in {0, 1}
  BY Zenon DEF GotBy, SentBy
<1> QED BY <1>1, <1>2 DEF Taken, Written

-----------------------------------------------------------------------------
(* A stream after a step of its reader or of its writer.  The reader has   *)
(* handled n units of the handshake.                                       *)
LEMMA StreamTake ==
    ASSUME NEW w, NEW e \in Ends, NEW s \in SessType, NEW r \in SessType, NEW q, NEW cl,
           NEW u \in Seq(Units), NEW v \in Seq(Units), NEW n \in Nat,
           Stream(w, e, s, q, u, cl), Taken(w, e, r) = Taken(w, e, s) + n,
           Len(v) = Len(u) - n, \A i \in 1..Len(v) : v[i] = u[i + n]
    PROVE  Stream(w, e, r, q, v, cl)
<1> SUFFICES ASSUME e \notin cl PROVE Stream(w, e, r, q, v, cl)
  BY Zenon DEF Stream
<1> DEFINE t == Taken(w, e, s)
           l == Len(u)
<1>1. t \in Nat /\ l \in Nat /\ Len(v) \in Nat /\ Tokens(w, e) \in 0..2
  <2>1. t \in Nat /\ Tokens(w, e) \in 0..2
    BY Numbers, Zenon
  <2> QED BY Zenon, <2>1, Lengths
<1>2. \A i \in 1..l : UnitOK(w, e, t + i, u[i])
  BY Zenon DEF Stream
<1>3. Peer(e) \notin cl =>
          IF q.sub = "Done" THEN t + l >= 3 + Tokens(w, e) ELSE t + l = Written(w, Peer(e), q)
  BY Zenon DEF Stream
<1>4. Taken(w, e, r) + Len(v) = t + l
  BY <1>1
<1>5. ASSUME NEW i \in 1..Len(v) PROVE UnitOK(w, e, Taken(w, e, r) + i, v[i])
  <2>1. i + n \in 1..l /\ t + (i + n) = Taken(w, e, r) + i
    BY <1>1
  <2>2. UnitOK(w, e, t + (i + n), u[i + n])
    BY Zenon, <1>2, <2>1
  <2> QED BY Zenon, <2>1, <2>2
<1> HIDE DEF t, l
<1> QED BY <1>3, <1>4, <1>5, Zenon DEF Stream

(* The writer goes on without writing.                                     *)
LEMMA StreamIdle ==
    ASSUME NEW w, NEW e \in Ends, NEW s, NEW q \in SessType, NEW r \in SessType, NEW cl,
           NEW u, Stream(w, e, s, q, u, cl),
           Taken(w, e, s) \in Nat, Len(u) \in Nat,
           Written(w, Peer(e), r) = Written(w, Peer(e), q),
           r.sub = "Done" => q.sub = "Done" \/ Written(w, Peer(e), q) = 3 + Tokens(w, e),
           q.sub = "Done" => r.sub = "Done"
    PROVE  Stream(w, e, s, r, u, cl)
<1>1. Tokens(w, e) \in 0..2
  BY Zenon, Numbers
<1> QED BY <1>1 DEF Stream

(* The writer writes the next unit of its handshake.                       *)
LEMMA StreamWrite ==
    ASSUME NEW w, NEW e \in Ends, NEW s \in SessType, NEW q \in SessType, NEW r \in SessType,
           NEW cl, NEW u \in Seq(Units), NEW x \in Units, Stream(w, e, s, q, u, cl),
           Peer(e) \notin cl, q.sub # "Done",
           Written(w, Peer(e), r) = Written(w, Peer(e), q) + 1,
           r.sub = "Done" => Written(w, Peer(e), r) = 3 + Tokens(w, e),
           UnitOK(w, e, Written(w, Peer(e), r), x)
    PROVE  e \notin cl => Stream(w, e, s, r, Append(u, x), cl)
<1> SUFFICES ASSUME e \notin cl PROVE Stream(w, e, s, r, Append(u, x), cl)
  BY Zenon
<1> DEFINE t == Taken(w, e, s)
           l == Len(u)
           a == Append(u, x)
           k == Written(w, Peer(e), q)
<1>1. t \in Nat /\ l \in Nat /\ Tokens(w, e) \in 0..2 /\ k \in Nat
  BY Numbers, TwoEnds
<1>2. (\A i \in 1..l : UnitOK(w, e, t + i, u[i])) /\ t + l = k
  BY Zenon DEF Stream
<1>3. Len(a) = l + 1 /\ (\A i \in 1..l : a[i] = u[i]) /\ a[l + 1] = x
  BY Added
<1> HIDE DEF a, t, l, k
<1>4. t + Len(a) = Written(w, Peer(e), r)
  BY <1>1, <1>2, <1>3 DEF k
<1>5. ASSUME NEW i \in 1..Len(a) PROVE UnitOK(w, e, t + i, a[i])
  <2>1. CASE i \in 1..l
    BY Zenon, <1>2, <1>3, <2>1
  <2>2. CASE i = l + 1
    BY Zenon, <1>3, <1>4, <2>2
  <2> QED BY <1>1, <1>3, <2>1, <2>2
<1>6. r.sub = "Done" => t + Len(a) >= 3 + Tokens(w, e)
  BY <1>1, <1>4
<1> QED BY <1>4, <1>5, <1>6, Zenon DEF Stream, t, a

(* In the data phase the places no longer matter.                          *)
LEMMA StreamHandle ==
    ASSUME NEW w, NEW e \in Ends, NEW s \in SessType, NEW r \in SessType, NEW q, NEW cl,
           NEW u \in Seq(Units), NEW v \in Seq(Units), Stream(w, e, s, q, u, cl),
           s.sub = "Done", r.sub = "Done", Len(u) > 0,
           Len(v) = Len(u) - 1, \A i \in 1..Len(v) : v[i] = u[i + 1]
    PROVE  /\ e \notin cl => UnitOK(w, e, 4 + Tokens(w, e), u[1])
           /\ e \notin cl /\ Peer(e) \notin cl => q.sub = "Done"
           /\ Stream(w, e, r, q, v, cl)
<1> SUFFICES ASSUME e \notin cl
             PROVE  /\ UnitOK(w, e, 4 + Tokens(w, e), u[1])
                    /\ Peer(e) \notin cl => q.sub = "Done"
                    /\ Stream(w, e, r, q, v, cl)
  BY Zenon DEF Stream
<1> DEFINE t == 3 + Tokens(w, e)
           l == Len(u)
<1>1. Taken(w, e, s) = t /\ Taken(w, e, r) = t
  BY Zenon DEF Taken, Greeting
<1>2. Tokens(w, e) \in 0..2
  BY Numbers, Zenon
<1>3. t \in Nat /\ l \in Nat
  BY <1>2, Lengths
<1>4. \A i \in 1..l : UnitOK(w, e, t + i, u[i])
  BY <1>1, Zenon DEF Stream
<1>5. Peer(e) \notin cl =>
          IF q.sub = "Done" THEN t + l >= t ELSE t + l = Written(w, Peer(e), q)
  BY <1>1, Zenon DEF Stream
<1>6. Peer(e) \notin cl => q.sub = "Done"
  <2>1. Written(w, Peer(e), q) <= t
    <3>1. SentBy(Peer(e), q.step) \in {0, 1} /\ Peer(Peer(e)) = e
      BY Zenon, TwoEnds DEF SentBy
    <3> QED BY <1>2, <3>1 DEF Written
  <2>2. t + l # Written(w, Peer(e), q)
    <3>1. Written(w, Peer(e), q) \in Nat
      <4>1. SentBy(Peer(e), q.step) \in {0, 1} /\ Peer(Peer(e)) = e
        BY TwoEnds DEF SentBy
      <4> QED BY SMTT(30), <1>2, <4>1 DEF Written
    <3> QED BY <1>3, <2>1, <3>1
  <2> QED BY Zenon, <1>5, <2>2
<1>7. ASSUME NEW i \in 1..Len(v) PROVE UnitOK(w, e, t + i, v[i])
  <2>1. i + 1 \in 1..l /\ t + i > 3 + Tokens(w, e) /\ t + (i + 1) > 3 + Tokens(w, e)
    BY <1>2, <1>3
  <2>2. UnitOK(w, e, t + (i + 1), u[i + 1])
    BY Zenon, <1>4, <2>1
  <2>3. /\ t + i \notin 3..(2 + Tokens(w, e)) /\ t + i # 1 /\ t + i # 2
        /\ t + i # 3 + Tokens(w, e)
    BY <1>2, <1>3
  <2>4. v[i] = u[i + 1]
    BY Zenon
  <2> HIDE DEF t
  <2>5. /\ u[i + 1].t \in {"data", "PING", "PONG"} /\ u[i + 1].key = Own(w, e)
        /\ Fits(w, Peer(e))
    BY Zenon, <2>1, <2>2 DEF UnitOK
  <2> QED BY Zenon, <2>3, <2>4, <2>5 DEF UnitOK
<1>8. UnitOK(w, e, 4 + Tokens(w, e), u[1])
  <2>1. t + 1 = 4 + Tokens(w, e) /\ 1 \in 1..l
    BY <1>2, <1>3
  <2> QED BY Zenon, <1>4, <2>1
<1>9. t + Len(v) >= t
  BY <1>3
<1> HIDE DEF t, l
<1>10. Stream(w, e, r, q, v, cl)
  BY <1>1, <1>6, <1>7, <1>9, Zenon DEF Stream, t
<1> QED BY Zenon, <1>6, <1>8, <1>10

(* A unit of the messages written at the end of a stream.                  *)
LEMMA StreamMore ==
    ASSUME NEW w, NEW e \in Ends, NEW s \in SessType, NEW q, NEW r, NEW cl,
           NEW u \in Seq(Units), NEW x \in Units, Stream(w, e, s, q, u, cl),
           Peer(e) \notin cl, q.sub = "Done", r.sub = "Done",
           UnitOK(w, e, 4 + Tokens(w, e), x)
    PROVE  e \notin cl => Stream(w, e, s, r, Append(u, x), cl)
<1> SUFFICES ASSUME e \notin cl PROVE Stream(w, e, s, r, Append(u, x), cl)
  BY Zenon
<1> DEFINE t == Taken(w, e, s)
           l == Len(u)
           a == Append(u, x)
           k == Tokens(w, e)
<1>1. t \in Nat /\ k \in 0..2
  BY Numbers, Zenon
<1>2. l \in Nat
  BY Zenon, Lengths
<1>3. (\A i \in 1..l : UnitOK(w, e, t + i, u[i])) /\ t + l >= 3 + k
  BY Zenon DEF Stream
<1>4. Len(a) = l + 1 /\ (\A i \in 1..l : a[i] = u[i]) /\ a[l + 1] = x
  BY Added
<1> HIDE DEF a, t, l
<1>5. UnitOK(w, e, t + (l + 1), x)
  <2>1. /\ t + (l + 1) > 3 + k /\ 4 + k > 3 + k
        /\ t + (l + 1) # 1 /\ t + (l + 1) # 2 /\ t + (l + 1) \notin 3..(2 + k)
        /\ t + (l + 1) # 3 + k
    BY <1>1, <1>2, <1>3
  <2> QED BY Zenon, <2>1 DEF UnitOK
<1>6. ASSUME NEW i \in 1..Len(a) PROVE UnitOK(w, e, t + i, a[i])
  <2>1. CASE i \in 1..l
    BY Zenon, <1>3, <1>4, <2>1
  <2>2. CASE i = l + 1
    BY Zenon, <1>4, <1>5, <2>2
  <2> QED BY <1>2, <1>4, <2>1, <2>2
<1>7. t + Len(a) >= 3 + k
  BY <1>1, <1>2, <1>3, <1>4
<1> QED BY <1>6, <1>7, Zenon DEF Stream, t, a

(* The peer is gone, and the end of its stream may be lost.                *)
LEMMA StreamCut ==
    ASSUME NEW w, NEW e \in Ends, NEW s, NEW q, NEW r, NEW cl, NEW cm, cl \subseteq cm,
           NEW u, NEW v, Stream(w, e, s, q, u, cl), Begins(v, u),
           Len(u) \in Nat, Len(v) \in Nat, Peer(e) \in cm
    PROVE  Stream(w, e, s, r, v, cm)
<1> SUFFICES ASSUME e \notin cm PROVE \A i \in 1..Len(v) : UnitOK(w, e, Taken(w, e, s) + i, v[i])
  BY Zenon DEF Stream
<1>1. \A i \in 1..Len(u) : UnitOK(w, e, Taken(w, e, s) + i, u[i])
  BY Zenon DEF Stream
<1>2. \A i \in 1..Len(v) : i \in 1..Len(u) /\ v[i] = u[i]
  BY DEF Begins
<1> QED BY Zenon, <1>1, <1>2
-----------------------------------------------------------------------------
(* What an action does to the sessions and to the units ahead of the ends. *)
Sent(e, x) ==
    streams'[Peer(e)] = IF Peer(e) \in closed THEN streams[Peer(e)]
                        ELSE Append(streams[Peer(e)], x)
Becomes(e, s) ==
    /\ sess' \in [Ends -> SessType] /\ wire' \in [Ends -> Seq(Units)]
    /\ sess'[e] = s /\ sess'[Peer(e)] = sess[Peer(e)]

(* The units ahead of an end are those in its buffer and those on the      *)
(* wire.                                                                   *)
LEMMA StreamTypes ==
    ASSUME Typed, NEW e \in Ends
    PROVE  /\ streams[e] \in Seq(Units) /\ streams[e] = sess[e].buf \o wire[e]
           /\ streams' [e] = sess'[e].buf \o wire'[e]
           /\ sess[e] \in SessType /\ sess[e].buf \in Seq(Units) /\ wire[e] \in Seq(Units)
           /\ Len(streams[e]) \in Nat
<1>1. sess[e] \in SessType /\ sess[e].buf \in Seq(Units) /\ wire[e] \in Seq(Units)
  BY Zenon DEF Typed, SessType
<1>2. streams[e] = sess[e].buf \o wire[e] /\ streams'[e] = sess'[e].buf \o wire'[e]
  BY Zenon DEF streams, Streams
<1>3. streams[e] \in Seq(Units)
  BY Zenon, <1>1, <1>2, Joined
<1> QED BY Zenon, <1>1, <1>2, <1>3, Lengths

(* What become leaves of the sessions.                                     *)
LEMMA BecomeFacts ==
    ASSUME Typed, NEW e \in Ends, NEW s \in SessType, become(e, s),
           wire' \in [Ends -> Seq(Units)]
    PROVE  Becomes(e, s)
BY Zenon, TwoEnds DEF Becomes, become, Typed

(* What write does to the wires: the unit is the last one ahead of the     *)
(* peer, unless the peer has closed its stream.                            *)
LEMMA WriteFacts ==
    ASSUME Typed, NEW e \in Ends, NEW x \in Units, write(e, x)
    PROVE  /\ wire' \in [Ends -> Seq(Units)] /\ wire'[e] = wire[e]
           /\ sess'[Peer(e)] = sess[Peer(e)] => Sent(e, x)
<1>1. Peer(e) \in Ends /\ Peer(e) # e
  BY Zenon, TwoEnds
<1>2. Append(wire[Peer(e)], x) \in Seq(Units)
  BY Zenon, <1>1, StreamTypes, Added
<1>3. /\ wire' \in [Ends -> Seq(Units)] /\ wire'[e] = wire[e]
      /\ wire'[Peer(e)] = IF Peer(e) \in closed THEN wire[Peer(e)]
                          ELSE Append(wire[Peer(e)], x)
  BY Zenon, <1>1, <1>2 DEF write, Typed
<1>4. sess[Peer(e)].buf \o Append(wire[Peer(e)], x)
        = Append(sess[Peer(e)].buf \o wire[Peer(e)], x)
  BY Zenon, <1>1, StreamTypes, SeqWrite
<1>5. /\ streams[Peer(e)] = sess[Peer(e)].buf \o wire[Peer(e)]
      /\ streams'[Peer(e)] = sess'[Peer(e)].buf \o wire'[Peer(e)]
  BY Zenon, <1>1, StreamTypes
<1> QED BY Zenon, <1>3, <1>4, <1>5 DEF Sent
-----------------------------------------------------------------------------
(* A step is calm for a stream if no message is written and, as long as    *)
(* the order is promised (g), no message handled.                          *)
Plain(x) == x \in Units /\ x.t # "data"
Calm(u, v, g) ==
    \/ v = u
    \/ \E x \in Units : Plain(x) /\ v = Append(u, x)
    \/ u # <<>> /\ v = Tail(u) /\ (g => Head(u).t # "data")
    \/ /\ u # <<>> /\ Tail(u) # <<>> /\ v = Tail(Tail(u))
       /\ g => Head(u).t # "data" /\ Head(Tail(u)).t # "data"

(* Such a step of a stream keeps what it says of the messages.             *)
LEMMA CalmFacts ==
    ASSUME NEW u \in Seq(Units), NEW v, NEW g, Calm(u, v, g)
    PROVE  /\ v \in Seq(Units)
           /\ \A k, n \in Nat : \A o \in BOOLEAN : g /\ Order(u, k, n, o) => Order(v, k, n, o)
<1>1. CASE v = u
  BY Zenon, <1>1
<1>2. ASSUME NEW x \in Units, Plain(x), v = Append(u, x)
      PROVE  /\ v \in Seq(Units)
             /\ \A k, n \in Nat : \A o \in BOOLEAN : Order(u, k, n, o) => Order(v, k, n, o)
  <2>1. x.t # "data" /\ v \in Seq(Units)
    BY Zenon, <1>2, Added DEF Plain
  <2> QED BY Zenon, <1>2, <2>1, OrderAppendOther
<1>3. ASSUME NEW a \in Seq(Units), a # <<>>
      PROVE  /\ Tail(a) \in Seq(Units)
             /\ Head(a).t # "data" =>
                  \A k, n \in Nat : \A o \in BOOLEAN : Order(a, k, n, o) => Order(Tail(a), k, n, o)
  BY <1>3, OrderTail
<1>4. CASE u # <<>> /\ v = Tail(u) /\ (g => Head(u).t # "data")
  BY Zenon, <1>3, <1>4
<1>5. CASE /\ u # <<>> /\ Tail(u) # <<>> /\ v = Tail(Tail(u))
           /\ g => Head(u).t # "data" /\ Head(Tail(u)).t # "data"
  <2> DEFINE a == Tail(u)
  <2>1. /\ a \in Seq(Units) /\ a # <<>> /\ v = Tail(a)
        /\ g => \A k, n \in Nat : \A o \in BOOLEAN : Order(u, k, n, o) => Order(a, k, n, o)
        /\ g => Head(a).t # "data"
    BY Zenon, <1>3, <1>5
  <2> HIDE DEF a
  <2>2. /\ Tail(a) \in Seq(Units)
        /\ g => \A k, n \in Nat : \A o \in BOOLEAN : Order(a, k, n, o) => Order(Tail(a), k, n, o)
    BY Zenon, <1>3, <2>1
  <2> QED BY Zenon, <2>1, <2>2
<1> QED BY Zenon, <1>1, <1>2, <1>4, <1>5 DEF Calm

(* A stream to whose end a unit other than a message may be added.         *)
Grows(u, v) == v = u \/ \E x \in Units : Plain(x) /\ v = Append(u, x)

(* It keeps its messages in order.                                         *)
LEMMA GrowsOrder ==
    ASSUME NEW u \in Seq(Units), NEW v, Grows(u, v), NEW k \in Nat, NEW n \in Nat,
           NEW o \in BOOLEAN, Order(u, k, n, o)
    PROVE  Order(v, k, n, o)
BY Zenon, OrderAppendOther DEF Grows, Plain

(* A step that is calm for both streams.                                   *)
Promised(x, rs) == kind = "v3" \/ x = "server" \/ ~rs
Quiet ==
    /\ setup' = setup /\ sent' = sent /\ got' = got
    /\ \A x \in Ends : Calm(streams[x], streams'[x], Promised(x, restarted'))

(* It keeps the messages in order.                                         *)
LEMMA QuietStep ==
    ASSUME Typed, Unlost(setup, streams, closed, got, sent, restarted), Quiet,
           closed' = closed, restarted => restarted'
    PROVE  Unlost(setup, streams, closed, got, sent, restarted)'
<1>1. kind' = kind /\ sent' = sent /\ got' = got /\ setup[1] = kind
  BY Zenon DEF Quiet, setup
<1>2. ASSUME NEW x \in Ends
      PROVE  /\ streams'[x] \in Seq(Units)
             /\ \A k, n \in Nat : \A o \in BOOLEAN :
                   Promised(x, restarted') /\ Order(streams[x], k, n, o) => Order(streams'[x], k, n, o)
  <2>1. streams[x] \in Seq(Units)
    BY Zenon, StreamTypes
  <2> QED BY <2>1, CalmFacts DEF Quiet
<1>3. ASSUME NEW x \in Ends, Promised(x, restarted')
      PROVE  Ordered(x, streams', got, sent, closed)
  <2>1. Ordered(x, streams, got, sent, closed)
    BY Zenon, <1>1, <1>3 DEF Unlost, Promised
  <2>2. Len(got[x]) \in Nat /\ sent[Peer(x)] \in Nat /\ (closed = {}) \in BOOLEAN
    BY TwoEnds, ConstantsAssumption DEF Typed
  <2> QED BY Zenon, <1>2, <1>3, <2>1, <2>2 DEF Ordered
<1>4. setup'[1] = kind
  BY Zenon, <1>1 DEF setup
<1> QED BY Zenon, <1>1, <1>3, <1>4 DEF Unlost, Promised

(* The bound on the units says the same of either end first.               *)
LEMMA FewOf ==
    ASSUME NEW w, NEW ss, NEW uu, NEW cl, NEW n, NEW pg, NEW e \in Ends,
           Len(uu["client"]) \in Nat, Len(uu["server"]) \in Nat,
           Most(w, "client", ss, cl, n, pg) \in Nat, Most(w, "server", ss, cl, n, pg) \in Nat
    PROVE  Few(w, ss, uu, cl, n, pg) <=>
             Len(uu[e]) + Len(uu[Peer(e)])
               <= Most(w, e, ss, cl, n, pg) + Most(w, Peer(e), ss, cl, n, pg)
<1> DEFINE a == Len(uu["client"])
           b == Len(uu["server"])
           c == Most(w, "client", ss, cl, n, pg)
           d == Most(w, "server", ss, cl, n, pg)
<1>1. Few(w, ss, uu, cl, n, pg) <=> a + b <= c + d
  BY Zenon DEF Few
<1>2. (e = "client" /\ Peer(e) = "server") \/ (e = "server" /\ Peer(e) = "client")
  BY Zenon DEF Ends, Peer
<1>3. a \in Nat /\ b \in Nat /\ c \in Nat /\ d \in Nat
  BY Zenon
<1> HIDE DEF a, b, c, d
<1>4. a + b <= c + d <=> b + a <= d + c
  BY <1>3
<1> QED BY Zenon, <1>1, <1>2, <1>4 DEF a, b, c, d

(* What an end may have written is a number.                               *)
LEMMA MostOf ==
    ASSUME NEW w, NEW ss \in [Ends -> SessType], NEW cl, NEW n \in [Ends -> 0..MaxData],
           NEW pg \in [Ends -> 0..MaxPings], NEW e \in Ends
    PROVE  /\ Most(w, e, ss, cl, n, pg) \in Nat /\ n[e] \in Nat /\ pg[e] \in Nat
           /\ n[e] <= MaxData /\ pg[e] <= MaxPings
           /\ Written(w, e, ss[e]) \in Nat /\ Written(w, e, ss[e]) <= 5
           /\ Most(w, e, ss, cl, n, pg) <= 5 + n[e] + pg[e]
           /\ e \notin cl => Most(w, e, ss, cl, n, pg) = Written(w, e, ss[e]) + n[e] + pg[e]
           /\ e \in cl => Most(w, e, ss, cl, n, pg) = 5 + n[e] + pg[e]
<1>1. ss[e] \in SessType /\ n[e] \in 0..MaxData /\ pg[e] \in 0..MaxPings
  BY Zenon
<1>2. /\ Written(w, e, ss[e]) \in Nat /\ Tokens(w, Peer(e)) \in 0..2
      /\ Written(w, e, ss[e]) <= 3 + Tokens(w, Peer(e))
  BY <1>1, Numbers, Zenon
<1>3. /\ e \notin cl => Most(w, e, ss, cl, n, pg) = Written(w, e, ss[e]) + n[e] + pg[e]
      /\ e \in cl => Most(w, e, ss, cl, n, pg) = 5 + n[e] + pg[e]
  BY Zenon DEF Most
<1> DEFINE a == Written(w, e, ss[e])
           b == n[e]
           c == pg[e]
           m == Most(w, e, ss, cl, n, pg)
<1>4. a \in Nat /\ a <= 5 /\ b \in Nat /\ c \in Nat /\ b <= MaxData /\ c <= MaxPings
  BY <1>1, <1>2, ConstantsAssumption
<1>5. (e \notin cl => m = a + b + c) /\ (e \in cl => m = 5 + b + c)
  BY Zenon, <1>3
<1> HIDE DEF a, b, c, m
<1>6. m \in Nat /\ m <= 5 + b + c
  BY <1>4, <1>5
<1> QED BY Zenon, <1>3, <1>4, <1>6 DEF a, b, c, m

(* An open end goes on, and the units ahead of the ends grow by no more    *)
(* than what it writes of its handshake, of messages and of PINGs.         *)
LEMMA FewStep ==
    ASSUME IndInv, kind = "v3", NEW e \in Ends, NEW s \in SessType, e \notin closed,
           Becomes(e, s), setup' = setup, closed' = closed,
           sent' \in [Ends -> 0..MaxData], pings' \in [Ends -> 0..MaxPings], NEW n \in Nat,
           sent'[e] + pings'[e] = sent[e] + pings[e] + n,
           sent'[Peer(e)] = sent[Peer(e)], pings'[Peer(e)] = pings[Peer(e)],
           \A x \in Ends : Len(streams'[x]) \in Nat,
           Len(streams'[e]) + Len(streams'[Peer(e)]) + Written(setup, e, sess[e])
             <= Len(streams[e]) + Len(streams[Peer(e)]) + Written(setup, e, s) + n
    PROVE  Few(setup, sess, streams, closed, sent, pings)'
<1> DEFINE p == Peer(e)
           M(x) == Most(setup, x, sess, closed, sent, pings)
           N(x) == Most(setup, x, sess', closed, sent', pings')
<1>1. p \in Ends /\ "client" \in Ends /\ "server" \in Ends
  BY Zenon, TwoEnds DEF Ends
<1>2. /\ sess \in [Ends -> SessType] /\ sess' \in [Ends -> SessType]
      /\ sent \in [Ends -> 0..MaxData] /\ pings \in [Ends -> 0..MaxPings]
      /\ sess'[e] = s /\ sess'[p] = sess[p] /\ Typed
  BY Zenon DEF IndInv, Typed, Becomes
<1>3. \A x \in Ends : M(x) \in Nat /\ N(x) \in Nat /\ Len(streams[x]) \in Nat
  BY Zenon, <1>2, MostOf, StreamTypes
<1>4. M(e) = Written(setup, e, sess[e]) + sent[e] + pings[e]
  BY Zenon DEF Most
<1>5. N(e) = Written(setup, e, s) + sent'[e] + pings'[e]
  BY <1>2, Zenon DEF Most
<1>6. N(p) = M(p)
  BY Zenon, <1>2 DEF Most
<1>7. Len(streams[e]) + Len(streams[p]) <= M(e) + M(p)
  <2>1. Few(setup, sess, streams, closed, sent, pings)
    BY Zenon DEF IndInv, V3Inv
  <2> HIDE DEF M
  <2>2. Few(setup, sess, streams, closed, sent, pings)
          <=> Len(streams[e]) + Len(streams[p]) <= M(e) + M(p)
    BY <1>1, <1>3, FewOf, Zenon DEF M
  <2> QED BY Zenon, <2>1, <2>2
<1>8. Len(streams'[e]) + Len(streams'[p]) <= N(e) + N(p)
  <2> DEFINE a == Len(streams[e])
             b == Len(streams[p])
             a1 == Len(streams'[e])
             b1 == Len(streams'[p])
             k == Written(setup, e, sess[e])
             l == Written(setup, e, s)
             m == M(p)
             c == sent[e]
             d == pings[e]
             c1 == sent'[e]
             d1 == pings'[e]
  <2>1. /\ a \in Nat /\ b \in Nat /\ a1 \in Nat /\ b1 \in Nat /\ m \in Nat
        /\ c \in Nat /\ d \in Nat /\ c1 \in Nat /\ d1 \in Nat
    <3>1. c \in Nat /\ d \in Nat /\ c1 \in Nat /\ d1 \in Nat
      BY <1>2, ConstantsAssumption
    <3> QED BY <1>1, <1>3, <3>1, Zenon
  <2>2. k \in Nat /\ l \in Nat
    BY <1>2, Numbers, Zenon
  <2>3. /\ a + b <= (k + c + d) + m
        /\ c1 + d1 = c + d + n
        /\ a1 + b1 + k <= a + b + l + n
    BY <1>4, <1>7, Zenon
  <2> HIDE DEF a, b, a1, b1, k, l, m, c, d, c1, d1
  <2>4. a1 + b1 <= (l + c1 + d1) + m
    BY <2>1, <2>2, <2>3
  <2> QED BY <1>5, <1>6, <2>4, Zenon DEF a, b, a1, b1, k, l, m, c, d, c1, d1
<1> HIDE DEF N
<1>9. Few(setup, sess', streams', closed, sent', pings')
  BY <1>1, <1>3, <1>8, FewOf, Zenon DEF N
<1> QED BY Zenon, <1>9

(* A step of an open end of a connection between two rzmq ends.            *)
LEMMA V3Step ==
    ASSUME IndInv, kind = "v3", NEW e \in Ends, NEW s \in SessType, e \notin closed,
           Becomes(e, s), setup' = setup, closed' = closed, v2peer' = v2peer,
           restarted' = restarted, got' \in [Ends -> Seq(Values)],
           sent' \in [Ends -> 0..MaxData], pings' \in [Ends -> 0..MaxPings],
           Unlost(setup, streams, closed, got, sent, restarted)',
           Few(setup, sess, streams, closed, sent, pings)',
           Local(setup, e, s),
           Stream(setup, e, s, sess[Peer(e)], streams'[e], closed),
           Stream(setup, Peer(e), sess[Peer(e)], s, streams'[Peer(e)], closed),
           Peer(e) \in closed => streams'[Peer(e)] = streams[Peer(e)],
           Compatible => s.cause # "protocol"
    PROVE  IndInv'
<1> DEFINE p == Peer(e)
<1>1. p \in Ends /\ p # e /\ Peer(p) = e /\ Ends = {e, p}
  BY Zenon, TwoEnds
<1>2. Typed'
  BY Zenon DEF IndInv, Typed, Becomes, setup
<1>3. NoSpuriousError'
  <2>1. Compatible' = Compatible
    BY DEF Compatible, setup
  <2>2. restarted' = restarted /\ sess'[e] = s /\ sess'[p] = sess[p]
    BY Zenon DEF Becomes
  <2> QED BY SMTT(60), <1>1, <2>1, <2>2 DEF IndInv, NoSpuriousError
<1>4. ClosedInv(sess, streams, closed)'
  BY ZenonT(60), <1>1 DEF IndInv, ClosedInv, Becomes, Typed
<1>6. V3Inv(setup, sess, streams, closed, sent, pings, restarted)'
  <2>1. sess'[e] = s /\ sess'[p] = sess[p]
    BY SMTT(30) DEF Becomes
  <2>2. \A x \in Ends : x \notin closed => Local(setup, x, sess'[x])
    BY ZenonT(60), <1>1, <2>1 DEF IndInv, V3Inv
  <2>3. \A x \in Ends : Stream(setup, x, sess'[x], sess'[Peer(x)], streams'[x], closed)
    BY ZenonT(60), <1>1, <2>1
  <2>4. ~restarted
    BY ZenonT(60) DEF IndInv, V3Inv
  <2> QED BY Zenon, <2>2, <2>3, <2>4 DEF V3Inv
<1>7. kind' = "v3"
  BY ZenonT(60) DEF setup
<1> QED BY ZenonT(60), <1>2, <1>3, <1>4, <1>6, <1>7 DEF IndInv

(* A step that handles and writes no message.                              *)
LEMMA V3Act ==
    ASSUME IndInv, kind = "v3", NEW e \in Ends, NEW s \in SessType, e \notin closed,
           Becomes(e, s), Quiet, counts' = counts, closed' = closed, v2peer' = v2peer,
           restarted' = restarted, Local(setup, e, s),
           Stream(setup, e, s, sess[Peer(e)], streams'[e], closed),
           Stream(setup, Peer(e), sess[Peer(e)], s, streams'[Peer(e)], closed),
           Peer(e) \in closed => streams'[Peer(e)] = streams[Peer(e)],
           Compatible => s.cause # "protocol", Len(streams'[e]) <= Len(streams[e]),
           Len(streams'[Peer(e)]) + Written(setup, e, sess[e])
             <= Len(streams[Peer(e)]) + Written(setup, e, s)
    PROVE  IndInv'
<1>1. /\ Typed /\ sent' = sent /\ pings' = pings /\ got' = got /\ setup' = setup
      /\ Peer(e) \in Ends
  BY ZenonT(60), TwoEnds DEF IndInv, counts, Quiet
<1>2. sent[e] \in Nat /\ pings[e] \in Nat
  BY SMTT(60), <1>1, ConstantsAssumption DEF Typed
<1>3. \A x \in Ends : Len(streams'[x]) \in Nat /\ Len(streams[x]) \in Nat
  <2>1. \A x \in Ends : streams[x] \in Seq(Units)
    BY Zenon, <1>1, StreamTypes
  <2>2. \A x \in Ends : streams'[x] \in Seq(Units)
    BY Zenon, <2>1, CalmFacts DEF Quiet
  <2> QED BY Zenon, <2>1, <2>2, Lengths
<1>4. Written(setup, e, s) \in Nat /\ Written(setup, e, sess[e]) \in Nat /\ 0 \in Nat
  BY <1>1, Numbers, StreamTypes, Zenon
<1>5. Few(setup, sess, streams, closed, sent, pings)'
  <2>1. sent[e] + pings[e] = sent[e] + pings[e] + 0
    BY <1>2
  <2>2. Len(streams'[e]) + Len(streams'[Peer(e)]) + Written(setup, e, sess[e])
          <= Len(streams[e]) + Len(streams[Peer(e)]) + Written(setup, e, s) + 0
    <3> DEFINE a == Len(streams[e])
               b == Len(streams[Peer(e)])
               a1 == Len(streams'[e])
               b1 == Len(streams'[Peer(e)])
               k == Written(setup, e, sess[e])
               l == Written(setup, e, s)
    <3>1. /\ a \in Nat /\ b \in Nat /\ a1 \in Nat /\ b1 \in Nat /\ k \in Nat /\ l \in Nat
          /\ a1 <= a /\ b1 + k <= b + l
      BY <1>1, <1>3, <1>4, Zenon
    <3> HIDE DEF a, b, a1, b1, k, l
    <3>2. a1 + b1 + k <= a + b + l + 0
      BY SMTT(30), <3>1
    <3> QED BY <3>2, Zenon DEF a, b, a1, b1, k, l
  <2>3. sent \in [Ends -> 0..MaxData] /\ pings \in [Ends -> 0..MaxPings]
    BY Zenon, <1>1 DEF Typed
  <2> QED BY <1>1, <1>3, <1>4, <2>1, <2>2, <2>3, FewStep, Zenon
<1>6. Unlost(setup, streams, closed, got, sent, restarted)'
  BY Zenon, QuietStep DEF IndInv
<1> QED BY ZenonT(60), <1>1, <1>5, <1>6, V3Step DEF Typed

(* A step that only cuts streams short, of a connection that is closing.   *)
Cuts ==
    /\ setup' = setup /\ counts' = counts /\ v2peer' = v2peer /\ restarted' = restarted
    /\ \A x \in Ends : streams'[x] \in Seq(Units) /\ Begins(streams'[x], streams[x])
    /\ closed \subseteq closed' /\ closed' # {}
    /\ sess' \in [Ends -> SessType] /\ \A x \in Ends : x \notin closed' => sess'[x] = sess[x]

(* It keeps the messages in order and the units few.                       *)
LEMMA CutStep ==
    ASSUME Typed, Unlost(setup, streams, closed, got, sent, restarted), Cuts
    PROVE  /\ Unlost(setup, streams, closed, got, sent, restarted)'
           /\ Few(setup, sess, streams, closed, sent, pings)
                => Few(setup, sess, streams, closed, sent, pings)'
<1>1. kind' = kind /\ sent' = sent /\ got' = got /\ pings' = pings /\ setup' = setup
  BY Zenon DEF Cuts, setup, counts
<1>2. \A x \in Ends : streams[x] \in Seq(Units)
  BY Zenon, StreamTypes
<1>3. ASSUME NEW x \in Ends, Ordered(x, streams, got, sent, closed)
      PROVE  Ordered(x, streams', got, sent, closed')
  <2>1. Len(got[x]) \in Nat /\ sent[Peer(x)] \in Nat /\ sent[Peer(x)] <= sent[Peer(x)]
    BY TwoEnds, ConstantsAssumption DEF Typed
  <2>2. Order(streams[x], Len(got[x]), sent[Peer(x)], closed = {})
    BY Zenon, <1>3 DEF Ordered
  <2>3. Order(streams'[x], Len(got[x]), sent[Peer(x)], FALSE)
    BY Zenon, <1>2, <2>1, <2>2, OrderCut DEF Cuts
  <2>4. (closed' = {}) = FALSE
    BY Zenon DEF Cuts
  <2> QED BY Zenon, <1>3, <2>3, <2>4 DEF Ordered
<1>4. Unlost(setup, streams, closed, got, sent, restarted)'
  BY Zenon, <1>1, <1>3 DEF Unlost, Cuts
<1>5. ASSUME Few(setup, sess, streams, closed, sent, pings)
      PROVE  Few(setup, sess', streams', closed', sent, pings)
  <2> DEFINE M(x) == Most(setup, x, sess, closed, sent, pings)
             N(x) == Most(setup, x, sess', closed', sent, pings)
  <2>1. ASSUME NEW x \in Ends
        PROVE  /\ Len(streams[x]) \in Nat /\ Len(streams'[x]) \in Nat
               /\ M(x) \in Nat /\ N(x) \in Nat /\ M(x) <= N(x)
               /\ Len(streams'[x]) <= Len(streams[x])
    <3>1. Len(streams[x]) \in Nat /\ Len(streams'[x]) \in Nat /\ Len(streams'[x]) <= Len(streams[x])
      BY <1>2 DEF Cuts, Begins
    <3>2. sess \in [Ends -> SessType] /\ sess' \in [Ends -> SessType]
      BY Zenon DEF Typed, Cuts
    <3>3. sent \in [Ends -> 0..MaxData] /\ pings \in [Ends -> 0..MaxPings]
      BY Zenon DEF Typed
    <3>4. M(x) \in Nat /\ N(x) \in Nat /\ M(x) <= 5 + sent[x] + pings[x]
      BY <3>2, <3>3, MostOf, Zenon
    <3>5. CASE x \in closed'
      <4>1. N(x) = 5 + sent[x] + pings[x]
        BY SMTT(30), <3>2, <3>3, <3>5, MostOf
      <4> QED BY Zenon, <3>1, <3>4, <4>1
    <3>6. CASE x \notin closed'
      <4>1. sess'[x] = sess[x] /\ x \notin closed
        BY Zenon, <3>6 DEF Cuts
      <4>2. N(x) = M(x)
        BY Zenon, <3>6, <4>1 DEF Most
      <4> HIDE DEF M, N
      <4> QED BY <3>1, <3>4, <4>2
    <3> QED BY Zenon, <3>5, <3>6
  <2>2. "client" \in Ends /\ "server" \in Ends
    BY Zenon DEF Ends
  <2> DEFINE a == Len(streams["client"])
             b == Len(streams["server"])
             a1 == Len(streams'["client"])
             b1 == Len(streams'["server"])
             m == M("client")
             k == M("server")
             m1 == N("client")
             k1 == N("server")
  <2>3. a + b <= m + k
    BY Zenon, <1>5 DEF Few
  <2>4. /\ a \in Nat /\ b \in Nat /\ a1 \in Nat /\ b1 \in Nat /\ a1 <= a /\ b1 <= b
        /\ m \in Nat /\ k \in Nat /\ m1 \in Nat /\ k1 \in Nat /\ m <= m1 /\ k <= k1
    BY <2>1, <2>2, Zenon
  <2> HIDE DEF a, b, a1, b1, m, k, m1, k1
  <2>5. a1 + b1 <= m1 + k1
    BY <2>3, <2>4
  <2> QED BY Zenon, <2>5 DEF Few, a1, b1, m1, k1
<1> QED BY Zenon, <1>1, <1>4, <1>5

(* initiate_stream_shutdown: an end closes its stream.                     *)
LEMMA Quit ==
    ASSUME IndInv, NEW e \in Ends, NEW s \in SessType, initiate_stream_shutdown(e, s),
           s.phase \in {"ShuttingDownStream", "Terminating"}, s.sub = sess[e].sub,
           sess[e].phase # "External",
           setup' = setup, v2peer' = v2peer, counts' = counts, restarted' = restarted,
           Compatible /\ ~restarted => s.cause # "protocol"
    PROVE  IndInv'
<1> DEFINE p == Peer(e)
           r == clear_handshake_state(s)
<1>1. p \in Ends /\ p # e /\ Peer(p) = e /\ Ends = {e, p}
  BY Zenon, TwoEnds
<1>2. /\ r \in SessType /\ r.buf = <<>> /\ r.phase = s.phase /\ r.sub = s.sub
      /\ r.cause = s.cause
  <2>1. <<>> \in Seq(Units)
    OBVIOUS
  <2>2. /\ "start" \in Places /\ "NULL" \in Mechanisms /\ 0 \in ScriptSteps
        /\ "none" \in Proposals /\ "none" \in Versions
    BY DEF Places, Mechanisms, ScriptSteps, Proposals, Versions
  <2> QED BY Zenon, <2>1, <2>2 DEF clear_handshake_state, SessType
<1> HIDE DEF r
<1>3. Typed
  BY Zenon DEF IndInv
<1>4. wire' \in [Ends -> Seq(Units)] /\ wire'[e] = <<>> /\ wire'[p] = wire[p]
  BY <1>1, <1>3 DEF initiate_stream_shutdown, Typed
<1>5. Becomes(e, r)
  BY Zenon, <1>2, <1>3, <1>4, BecomeFacts DEF initiate_stream_shutdown, r
<1>6. streams'[e] = <<>> /\ streams'[p] = streams[p]
  <2>1. streams'[e] = <<>> \o <<>>
    BY Zenon, <1>2, <1>3, <1>4, <1>5, StreamTypes DEF Becomes
  <2>2. streams'[p] = streams[p]
    BY Zenon, <1>1, <1>3, <1>4, <1>5, StreamTypes DEF Becomes
  <2> QED BY <2>1, <2>2
<1>7. closed' = closed \cup {e}
  BY Zenon DEF initiate_stream_shutdown
<1>8. Typed'
  BY Zenon, <1>3, <1>5, <1>7 DEF Typed, Becomes, setup, counts
<1>9. NoSpuriousError'
  <2>1. Compatible' = Compatible
    BY SMTT(30) DEF Compatible, setup
  <2> QED BY Zenon, <1>1, <1>2, <1>5, <2>1 DEF IndInv, NoSpuriousError, Becomes
<1>10. ClosedInv(sess, streams, closed)'
  BY ZenonT(60), <1>1, <1>2, <1>5, <1>6, <1>7 DEF IndInv, ClosedInv, Becomes, Typed
<1>11. Cuts
  <2>1. streams[e] \in Seq(Units) /\ streams[p] \in Seq(Units)
    BY Zenon, <1>1, <1>3, StreamTypes
  <2>2. streams'[p] \in Seq(Units) /\ Begins(streams'[p], streams[p])
    BY <1>6, <2>1 DEF Begins
  <2>3. streams'[e] \in Seq(Units) /\ Begins(streams'[e], streams[e])
    BY <1>6, <2>1 DEF Begins
  <2>4. \A x \in Ends : streams'[x] \in Seq(Units) /\ Begins(streams'[x], streams[x])
    BY <1>1, <2>2, <2>3, Zenon
  <2>5. sess' \in [Ends -> SessType] /\ \A x \in Ends : x \notin closed' => sess'[x] = sess[x]
    BY Zenon, <1>1, <1>5, <1>7 DEF Becomes
  <2> QED BY Zenon, <1>7, <2>4, <2>5 DEF Cuts
<1>12. /\ Unlost(setup, streams, closed, got, sent, restarted)'
       /\ Few(setup, sess, streams, closed, sent, pings)
            => Few(setup, sess, streams, closed, sent, pings)'
  BY ZenonT(60), <1>3, <1>11, CutStep DEF IndInv
<1>13. CASE kind = "v3"
  <2>1. V3Inv(setup, sess, streams, closed, sent, pings, restarted)
    BY Zenon, <1>13 DEF IndInv
  <2>2. \A x \in Ends : x \notin closed' => Local(setup, x, sess'[x])
    BY Zenon, <1>1, <1>5, <1>7, <2>1 DEF V3Inv, Becomes
  <2>3. Stream(setup, e, sess'[e], sess'[p], streams'[e], closed')
    BY Zenon, <1>7 DEF Stream
  <2>4. Stream(setup, p, sess'[p], sess'[e], streams'[p], closed')
    <3>1. Stream(setup, p, sess[p], sess[e], streams[p], closed)
      BY Zenon, <1>1, <2>1 DEF V3Inv
    <3>2. Begins(streams[p], streams[p]) /\ Len(streams[p]) \in Nat
      BY SMTT(30), <1>1, <1>3, StreamTypes DEF Begins
    <3>3. Stream(setup, p, sess[p], r, streams[p], closed')
      BY Zenon, <1>1, <1>7, <3>1, <3>2, StreamCut
    <3> QED BY Zenon, <1>5, <1>6, <3>3 DEF Becomes
  <2>5. \A x \in Ends : Stream(setup, x, sess'[x], sess'[Peer(x)], streams'[x], closed')
    BY Zenon, <1>1, <2>3, <2>4
  <2>6. V3Inv(setup, sess, streams, closed, sent, pings, restarted)'
    BY Zenon, <1>12, <2>1, <2>2, <2>5 DEF V3Inv
  <2>7. kind' = "v3"
    BY Zenon, <1>13 DEF setup
  <2> QED BY ZenonT(60), <1>8, <1>9, <1>10, <1>12, <2>6, <2>7 DEF IndInv
<1>14. CASE kind = "v2"
  <2>1. V2Inv(setup, sess, streams, closed, v2peer, sent, got, restarted)
    BY ZenonT(60), <1>14 DEF IndInv
  <2>2. e = "client" /\ p = "server"
    BY Zenon, <1>1, <2>1 DEF V2Inv, Ends
  <2>3. Len(streams'["client"]) = 0 /\ "client" \in closed' /\ "server" \notin closed'
    BY <1>6, <1>7, <2>1, <2>2 DEF V2Inv
  <2>4. V2Written(sess'["client"]) = V2Written(sess["client"])
    BY Zenon, <1>2, <1>5, <2>2 DEF V2Written, Becomes
  <2>5. sent' = sent /\ got' = got
    BY SMTT(30) DEF counts
  <2>6. /\ v2peer \in Nat /\ sent["server"] \in Nat /\ sent["client"] \in Nat
        /\ V2Written(sess["client"]) \in Nat
        /\ Len(streams["client"]) \in Nat /\ Len(streams["server"]) \in Nat
    BY <1>1, <1>3, <2>2, StreamTypes, ConstantsAssumption DEF Typed, V2Written, Ends
  <2>7. V2Few(sess'["client"], Len(streams'["client"]), Len(streams'["server"]), v2peer,
              sent["server"], sent["client"])
    <3> DEFINE l == Len(streams["client"])
               r0 == Len(streams["server"])
               x == V2Written(sess["client"])
               n == sent["server"]
               c == sent["client"]
    <3>1. l + 2 * r0 <= v2peer + n + 2 * x + 2 * c
      BY Zenon, <2>1 DEF V2Inv, V2Few
    <3>2. l \in Nat /\ r0 \in Nat /\ x \in Nat /\ n \in Nat /\ c \in Nat /\ v2peer \in Nat
      BY Zenon, <2>6
    <3> HIDE DEF l, r0, x, n, c
    <3>3. 0 <= v2peer + n /\ 0 + 2 * r0 <= v2peer + n + 2 * x + 2 * c
      BY <3>1, <3>2
    <3> QED BY Zenon, <1>6, <2>2, <2>3, <2>4, <3>3 DEF l, r0, x, n, c, V2Few
  <2>9. V2Inv(setup, sess, streams, closed, v2peer, sent, got, restarted)'
    BY Zenon, <1>5, <1>6, <2>1, <2>2, <2>3, <2>5, <2>7 DEF V2Inv, Becomes
  <2>10. kind' = "v2"
    BY Zenon, <1>14 DEF setup
  <2> QED BY ZenonT(60), <1>8, <1>9, <1>10, <1>12, <2>9, <2>10 DEF IndInv
<1> QED BY Zenon, <1>3, <1>13, <1>14 DEF Typed

(* set_fatal_error, for any reason but an error of the protocol that       *)
(* compatible ends do not make.                                            *)
LEMMA Fatal ==
    ASSUME IndInv, NEW e \in Ends, NEW why \in Causes, set_fatal_error(e, why),
           sess[e].phase # "External",
           setup' = setup, v2peer' = v2peer, counts' = counts, restarted' = restarted,
           Compatible /\ ~restarted => why # "protocol"
    PROVE  IndInv'
<1> DEFINE s == transition_to_shutdown_stream(sess[e], why)
<1>1. sess[e] \in SessType
  BY Zenon DEF IndInv, Typed
<1>2. "ShuttingDownStream" \in Phases
  BY Zenon DEF Phases
<1>3. /\ s \in SessType /\ s.phase = "ShuttingDownStream" /\ s.sub = sess[e].sub
      /\ s.cause = why
  BY <1>1, <1>2, Zenon DEF transition_to_shutdown_stream, SessType
<1>4. initiate_stream_shutdown(e, s)
  BY Zenon DEF set_fatal_error
<1> HIDE DEF s
<1> QED BY Zenon, <1>3, <1>4, Quit

-----------------------------------------------------------------------------
(* What the code computes from the options is what the invariant says of   *)
(* them.                                                                   *)
LEMMA Options ==
    ASSUME Typed, NEW e \in Ends
    PROVE  /\ setup[1] = kind /\ setup[2] = config /\ setup[3] = agree /\ setup[4] = allow_zmtp2
           /\ Own(setup, e) \in Mechanisms /\ determine_own_greeting_mechanism(e) = Own(setup, e)
           /\ READY(e) = Ready(setup, e)
           /\ Able(setup, e) <=> /\ is_locally_enabled(e, Own(setup, Peer(e)))
                                 /\ initializes(e, Own(setup, Peer(e)))
<1>1. setup[1] = kind /\ setup[2] = config /\ setup[3] = agree /\ setup[4] = allow_zmtp2
  BY Zenon DEF setup
<1>2. Own(setup, e) = Preferred(config[e])
  BY Zenon, <1>1 DEF Own
<1>3. Own(setup, e) \in Mechanisms
  BY Zenon, <1>2 DEF Preferred, Mechanisms
<1>4. determine_own_greeting_mechanism(e) = Own(setup, e)
  BY Zenon, <1>2 DEF determine_own_greeting_mechanism, Preferred
<1>5. READY(e) = Ready(setup, e)
  BY Zenon, <1>1 DEF READY, Ready
<1>6. Able(setup, e) <=> /\ is_locally_enabled(e, Own(setup, Peer(e)))
                         /\ initializes(e, Own(setup, Peer(e)))
  BY <1>1, Zenon DEF Able, is_locally_enabled, initializes
<1> QED BY Zenon, <1>1, <1>3, <1>4, <1>5, <1>6

(* Two rzmq ends are compatible exactly when each can end the handshake.   *)
LEMMA CompatibleMeans ==
    ASSUME Typed, kind = "v3", NEW e \in Ends
    PROVE  /\ Compatible <=> /\ Own(setup, e) = Own(setup, Peer(e))
                             /\ Able(setup, e) /\ Able(setup, Peer(e))
                             /\ Own(setup, e) = "NULL" \/ agree
           /\ Compatible <=> Fits(setup, e) /\ Fits(setup, Peer(e))
<1> DEFINE c == "client"
           d == "server"
           m == Own(setup, c)
<1>1. setup[2] = config /\ Peer(c) = d /\ Peer(d) = c /\ setup[3] = agree
  BY Zenon DEF setup, Peer
<1>2. ASSUME NEW x \in Ends
      PROVE  Preferred(config[x]) \in Usable(config[x]) <=>
                /\ IF Own(setup, x) = "NULL" THEN config[x].use = {} ELSE Own(setup, x) \in config[x].use
                /\ Own(setup, x) \in {"CURVE", "NOISE_XX"} => Own(setup, x) \in config[x].keys
  <2>1. config[x].use \subseteq Mechanisms \ {"NULL"}
    BY Zenon DEF Typed, AllConfigs
  <2>2. Own(setup, x) = Preferred(config[x])
    BY Zenon, <1>1 DEF Own
  <2> QED BY Zenon, <2>1, <2>2 DEF Usable
<1>3. Own(setup, c) = Own(setup, d) =>
        \A x \in Ends : Preferred(config[x]) \in Usable(config[x]) <=> Able(setup, x)
  BY <1>1, <1>2, Zenon DEF Able, Ends
<1>4. Compatible <=> /\ Own(setup, c) = Own(setup, d)
                     /\ Able(setup, c) /\ Able(setup, d)
                     /\ Own(setup, c) = "NULL" \/ agree
  BY Zenon, <1>1, <1>3 DEF Compatible, Own, Ends
<1>5. e = c \/ e = d
  BY Zenon DEF Ends
<1>6. Compatible <=> /\ Own(setup, e) = Own(setup, Peer(e))
                     /\ Able(setup, e) /\ Able(setup, Peer(e))
                     /\ Own(setup, e) = "NULL" \/ agree
  BY Zenon, <1>1, <1>4, <1>5
<1>7. Compatible <=> Fits(setup, e) /\ Fits(setup, Peer(e))
  BY Zenon, <1>1, <1>6, TwoEnds DEF Fits
<1> QED BY Zenon, <1>6, <1>7
-----------------------------------------------------------------------------
(* An end that is running has not closed its stream.                       *)
LEMMA Running ==
    ASSUME IndInv, NEW e \in Ends, Alive(e)
    PROVE  /\ e \notin closed /\ sess[e].phase # "External"
           /\ sess[e].phase \notin {"ShuttingDownStream", "Terminating"}
           /\ Typed /\ sess[e] \in SessType /\ sess[Peer(e)] \in SessType
           /\ sess[e].buf \in Seq(Units) /\ wire[e] \in Seq(Units)
           /\ kind = "v3" => /\ Local(setup, e, sess[e])
                             /\ Stream(setup, e, sess[e], sess[Peer(e)], streams[e], closed)
                             /\ Stream(setup, Peer(e), sess[Peer(e)], sess[e],
                                       streams[Peer(e)], closed)
                             /\ Peer(e) \notin closed => Local(setup, Peer(e), sess[Peer(e)])
<1>1. e \notin closed /\ sess[e].phase \notin {"ShuttingDownStream", "Terminating", "External"}
  BY Zenon DEF IndInv, ClosedInv, Alive
<1>2. /\ Typed /\ sess[e] \in SessType /\ sess[Peer(e)] \in SessType
      /\ sess[e].buf \in Seq(Units) /\ wire[e] \in Seq(Units)
  BY Zenon, TwoEnds, StreamTypes DEF IndInv
<1>3. ASSUME kind = "v3"
      PROVE  /\ Local(setup, e, sess[e])
             /\ Stream(setup, e, sess[e], sess[Peer(e)], streams[e], closed)
             /\ Stream(setup, Peer(e), sess[Peer(e)], sess[e], streams[Peer(e)], closed)
             /\ Peer(e) \notin closed => Local(setup, Peer(e), sess[Peer(e)])
  <2>1. V3Inv(setup, sess, streams, closed, sent, pings, restarted)
    BY Zenon, <1>3 DEF IndInv
  <2> QED BY <1>1, <2>1, TwoEnds, Zenon DEF V3Inv
<1> QED BY Zenon, <1>1, <1>2, <1>3

(* The first two units of a stream, and the rest.                          *)
LEMMA TwoOff ==
    ASSUME NEW u \in Seq(Units), u # <<>>, Tail(u) # <<>>
    PROVE  /\ Len(u) \in Nat /\ Len(u) >= 2 /\ Head(u) = u[1] /\ Head(Tail(u)) = u[2]
           /\ Tail(Tail(u)) \in Seq(Units) /\ Len(Tail(Tail(u))) = Len(u) - 2
           /\ \A i \in 1..Len(Tail(Tail(u))) : Tail(Tail(u))[i] = u[i + 2]
<1> DEFINE a == Tail(u)
<1>1. /\ a \in Seq(Units) /\ Len(a) = Len(u) - 1 /\ a # <<>> /\ Len(u) \in Nat
      /\ \A i \in 1..Len(a) : a[i] = u[i + 1]
  BY Zenon, Behind
<1> HIDE DEF a
<1>2. /\ Tail(a) \in Seq(Units) /\ Len(Tail(a)) = Len(a) - 1 /\ Len(a) \in Nat /\ Len(a) # 0
      /\ \A i \in 1..Len(Tail(a)) : Tail(a)[i] = a[i + 1]
      /\ Head(a) = a[1]
  BY Zenon, <1>1, Behind
<1>3. Len(u) >= 2 /\ Head(a) = u[2]
  BY <1>1, <1>2
<1>4. \A i \in 1..Len(Tail(a)) : i + 1 \in 1..Len(a) /\ (i + 1) + 1 = i + 2
  BY <1>1, <1>2
<1>5. Len(Tail(a)) = Len(u) - 2 /\ \A i \in 1..Len(Tail(a)) : Tail(a)[i] = u[i + 2]
  BY <1>1, <1>2, <1>4
<1>6. Head(u) = u[1]
  OBVIOUS
<1> QED BY Zenon, <1>1, <1>2, <1>3, <1>5, <1>6 DEF a

(* handle_handshake_progression once the handshake is done.                *)
LEMMA DoneFacts ==
    ASSUME NEW o \in SessType
    PROVE  LET s == handshake_done(o)
           IN  /\ s \in SessType /\ s.sub = "Done" /\ s.phase \in {"WaitingForPipes", "Operational"}
               /\ s.at = o.at /\ s.buf = o.buf
               /\ s.mech = o.mech /\ s.step = o.step /\ s.version = o.version
               /\ s.framer = o.framer /\ s.id = o.id /\ s.cause = o.cause
               /\ s.from_ready = o.from_ready
<1> DEFINE n == IF o.attached THEN "Operational" ELSE "WaitingForPipes"
           s == [o EXCEPT !.sub = "Done", !.phase = n]
<1>1. n \in Phases /\ n \in {"WaitingForPipes", "Operational"} /\ "Done" \in SubPhases
  BY Zenon DEF Phases, SubPhases
<1> HIDE DEF n
<1>2. s \in SessType
  BY <1>1, Zenon DEF SessType
<1>3. /\ s.sub = "Done" /\ s.phase = n /\ s.at = o.at /\ s.buf = o.buf
      /\ s.mech = o.mech /\ s.step = o.step /\ s.version = o.version
      /\ s.framer = o.framer /\ s.id = o.id /\ s.cause = o.cause
      /\ s.from_ready = o.from_ready
  BY Zenon DEF SessType
<1>4. handshake_done(o) = s
  BY Zenon DEF handshake_done, n
<1> HIDE DEF s
<1> QED BY Zenon, <1>1, <1>2, <1>3, <1>4

(* What read_buf does to a session and to the units ahead of it.           *)
LEMMA ReadFacts ==
    ASSUME Typed, NEW e \in Ends, NEW n \in 1..Len(wire[e]),
           become(e, [sess[e] EXCEPT !.buf = @ \o SubSeq(wire[e], 1, n)]),
           wire' = [wire EXCEPT ![e] = SubSeq(@, n + 1, Len(@))]
    PROVE  LET o == sess[e]
               s == sess'[e]
           IN  /\ become(e, s) /\ s \in SessType /\ wire' \in [Ends -> Seq(Units)]
               /\ streams'[e] = streams[e] /\ wire'[Peer(e)] = wire[Peer(e)]
               /\ s.phase = o.phase /\ s.sub = o.sub /\ s.at = o.at /\ s.mech = o.mech
               /\ s.step = o.step /\ s.peer_mech = o.peer_mech /\ s.version = o.version
               /\ s.framer = o.framer /\ s.id = o.id /\ s.from_ready = o.from_ready
               /\ s.cause = o.cause
<1> DEFINE o == sess[e]
           r == wire[e]
           b == o.buf \o SubSeq(r, 1, n)
           c == SubSeq(r, n + 1, Len(r))
           s == [o EXCEPT !.buf = b]
<1>1. /\ o \in SessType /\ o.buf \in Seq(Units) /\ r \in Seq(Units)
      /\ sess \in [Ends -> SessType] /\ wire \in [Ends -> Seq(Units)]
      /\ streams[e] = o.buf \o r /\ streams'[e] = sess'[e].buf \o wire'[e]
  BY Zenon, StreamTypes DEF Typed
<1>2. Peer(e) \in Ends /\ Peer(e) # e
  BY Zenon, TwoEnds
<1>3. b \in Seq(Units) /\ c \in Seq(Units) /\ b \o c = o.buf \o r
  BY <1>1, SeqRead, Zenon
<1>4. sess' = [sess EXCEPT ![e] = s] /\ wire' = [wire EXCEPT ![e] = c]
  BY Zenon DEF become
<1> HIDE DEF o, b, c, r
<1>5. s \in SessType
  BY <1>1, <1>3, Zenon DEF SessType
<1>6. /\ s.phase = o.phase /\ s.sub = o.sub /\ s.at = o.at /\ s.mech = o.mech
      /\ s.step = o.step /\ s.peer_mech = o.peer_mech /\ s.version = o.version
      /\ s.framer = o.framer /\ s.id = o.id /\ s.from_ready = o.from_ready
      /\ s.cause = o.cause /\ s.buf = b
  BY <1>1, Zenon DEF SessType
<1> HIDE DEF s
<1>7. sess'[e] = s /\ wire'[e] = c /\ wire'[Peer(e)] = wire[Peer(e)]
  BY ZenonT(60), <1>1, <1>2, <1>4
<1>8. wire' \in [Ends -> Seq(Units)]
  BY Zenon, <1>1, <1>3, <1>4
<1>9. become(e, sess'[e])
  BY Zenon, <1>4, <1>7 DEF become
<1>10. streams'[e] = streams[e]
  BY Zenon, <1>1, <1>3, <1>6, <1>7
<1> QED BY Zenon, <1>5, <1>6, <1>7, <1>8, <1>9, <1>10 DEF o

-----------------------------------------------------------------------------
(* The steps that do not depend on what the far end is.                    *)

(* perform_graceful_shutdown.                                              *)
LEMMA Graceful ==
    ASSUME IndInv, NEW e \in Ends, perform_graceful_shutdown(e)
    PROVE  IndInv'
<1> DEFINE o == sess[e]
           s == [o EXCEPT !.phase = "Terminating", !.attached = FALSE]
<1>1. o \in SessType /\ o.phase = "ShuttingDownStream" /\ initiate_stream_shutdown(e, s)
  BY Zenon DEF IndInv, Typed, perform_graceful_shutdown
<1>2. "Terminating" \in Phases /\ FALSE \in Flags
  BY Zenon DEF Phases, Flags
<1> HIDE DEF o
<1>3. s \in SessType
  BY <1>1, <1>2, Zenon DEF SessType
<1>4. s.phase = "Terminating" /\ s.sub = o.sub /\ s.cause = o.cause
  BY <1>1, Zenon DEF SessType
<1> HIDE DEF s
<1>5. Compatible /\ ~restarted => s.cause # "protocol"
  BY Zenon, <1>4 DEF IndInv, NoSpuriousError, o
<1>6. setup' = setup /\ v2peer' = v2peer /\ counts' = counts /\ restarted' = restarted
  BY Zenon DEF perform_graceful_shutdown
<1> QED BY Zenon, <1>1, <1>3, <1>4, <1>5, <1>6, Quit DEF o

(* connection_reset: the units on the wire are lost, the ones in the       *)
(* buffer stay.                                                            *)
LEMMA Reset ==
    ASSUME IndInv, NEW e \in Ends, connection_reset(e)
    PROVE  IndInv'
<1> DEFINE p == Peer(e)
<1>1. p \in Ends /\ p # e /\ Peer(p) = e /\ Ends = {e, p}
  BY Zenon, TwoEnds
<1>2. /\ Typed /\ p \in closed /\ wire[e] # <<>> /\ sess' = sess /\ closed' = closed
      /\ setup' = setup /\ v2peer' = v2peer /\ counts' = counts /\ restarted' = restarted
      /\ wire' = [wire EXCEPT ![e] = <<>>]
  BY Zenon DEF IndInv, connection_reset
<1>3. wire' \in [Ends -> Seq(Units)] /\ wire'[e] = <<>> /\ wire'[p] = wire[p]
  BY SMTT(30), <1>1, <1>2 DEF Typed
<1>4. /\ sess[e].buf \in Seq(Units) /\ wire[e] \in Seq(Units) /\ streams[p] \in Seq(Units)
      /\ streams[e] \in Seq(Units)
      /\ streams[e] = sess[e].buf \o wire[e] /\ streams'[e] = sess'[e].buf \o wire'[e]
      /\ streams[p] = sess[p].buf \o wire[p] /\ streams'[p] = sess'[p].buf \o wire'[p]
  BY ZenonT(60), <1>1, <1>2, StreamTypes
<1>5. streams'[e] = sess[e].buf /\ streams'[p] = streams[p]
  <2>1. sess[e].buf \o <<>> = sess[e].buf
    BY <1>4
  <2> QED BY Zenon, <1>2, <1>3, <1>4, <2>1
<1>6. /\ Begins(streams'[e], streams[e]) /\ Begins(streams'[p], streams[p])
      /\ Len(streams[e]) \in Nat /\ Len(streams'[e]) \in Nat
  <2> DEFINE b == sess[e].buf
             r == wire[e]
             q == streams[p]
  <2>1. /\ b \in Seq(Units) /\ r \in Seq(Units) /\ streams[e] = b \o r /\ q \in Seq(Units)
        /\ streams'[e] = b /\ streams'[p] = q
    BY Zenon, <1>4, <1>5
  <2> HIDE DEF b, r, q
  <2>2. Begins(b, b \o r) /\ Len(b) \in Nat /\ Len(b \o r) \in Nat
    BY <2>1 DEF Begins
  <2>3. Begins(q, q)
    BY <2>1 DEF Begins
  <2> QED BY Zenon, <2>1, <2>2, <2>3 DEF q
<1>7. streams[e] # <<>>
  <2> DEFINE b == sess[e].buf
             r == wire[e]
  <2>1. b \in Seq(Units) /\ r \in Seq(Units) /\ r # <<>> /\ streams[e] = b \o r
    BY Zenon, <1>2, <1>4
  <2> HIDE DEF b, r
  <2>2. b \o r # <<>>
    BY SMTT(30), <2>1
  <2> QED BY Zenon, <2>1, <2>2
<1>8. e \notin closed
  BY ZenonT(60), <1>7 DEF IndInv, ClosedInv
<1>9. Typed'
  BY Zenon, <1>2, <1>3 DEF Typed, setup, counts
<1>10. NoSpuriousError'
  BY SMTT(60), <1>2 DEF IndInv, NoSpuriousError, Compatible, setup
<1>11. ClosedInv(sess, streams, closed)'
  <2>1. \A x \in closed :
           sess[x].phase \in {"ShuttingDownStream", "Terminating"} /\ streams[x] = <<>>
    BY ZenonT(60) DEF IndInv, ClosedInv
  <2>2. closed = {p}
    BY Zenon, <1>1, <1>2, <1>8 DEF Typed
  <2> QED BY Zenon, <1>2, <1>5, <2>1, <2>2 DEF ClosedInv
<1>12. Cuts
  <2>1. \A x \in Ends : streams'[x] \in Seq(Units) /\ Begins(streams'[x], streams[x])
    BY ZenonT(60), <1>1, <1>4, <1>5, <1>6
  <2> QED BY Zenon, <1>2, <2>1 DEF Cuts, Typed
<1>13. /\ Unlost(setup, streams, closed, got, sent, restarted)'
       /\ Few(setup, sess, streams, closed, sent, pings)
            => Few(setup, sess, streams, closed, sent, pings)'
  BY ZenonT(60), <1>2, <1>12, CutStep DEF IndInv
<1>14. CASE kind = "v3"
  <2>1. V3Inv(setup, sess, streams, closed, sent, pings, restarted)
    BY <1>14 DEF IndInv
  <2>2. Stream(setup, e, sess[e], sess[p], streams'[e], closed)
    <3>1. Stream(setup, e, sess[e], sess[p], streams[e], closed)
      BY Zenon, <2>1 DEF V3Inv
    <3> QED BY Zenon, <1>2, <1>6, <3>1, StreamCut
  <2>3. Stream(setup, p, sess[p], sess[e], streams'[p], closed)
    BY Zenon, <1>2 DEF Stream
  <2>4. \A x \in Ends : Stream(setup, x, sess[x], sess[Peer(x)], streams'[x], closed)
    BY Zenon, <1>1, <2>2, <2>3
  <2>5. V3Inv(setup, sess, streams, closed, sent, pings, restarted)'
    BY Zenon, <1>2, <1>13, <2>1, <2>4 DEF V3Inv
  <2>6. kind' = "v3"
    BY Zenon, <1>2, <1>14 DEF setup
  <2> QED BY ZenonT(60), <1>9, <1>10, <1>11, <1>13, <2>5, <2>6 DEF IndInv
<1>15. CASE kind = "v2"
  <2>1. V2Inv(setup, sess, streams, closed, v2peer, sent, got, restarted)
    BY Zenon, <1>15 DEF IndInv
  <2>2. e = "server" /\ p = "client"
    BY Zenon, <1>1, <1>2, <2>1 DEF V2Inv, Ends
  <2>3. streams'["server"] = <<>> /\ streams["client"] = <<>> /\ streams'["client"] = <<>>
    BY Zenon, <1>2, <1>5, <2>1, <2>2 DEF V2Inv, IndInv, ClosedInv
  <2>4. sent' = sent /\ got' = got
    BY Zenon, <1>2 DEF counts
  <2>5. /\ v2peer \in Nat /\ sent["server"] \in Nat /\ sent["client"] \in Nat
        /\ V2Written(sess["client"]) \in Nat
    BY <1>1, <1>2, <2>2, ConstantsAssumption DEF Typed, V2Written, Ends
  <2>6. Len(streams'["server"]) = 0 /\ Len(streams'["client"]) = 0
    BY Zenon, <2>3
  <2>7. V2Few(sess["client"], 0, 0, v2peer, sent["server"], sent["client"])
    BY <2>5 DEF V2Few
  <2>8. V2NoData(streams'["server"], v2peer)
    BY SMTT(30), <2>6 DEF V2NoData
  <2>9. V2Inv(setup, sess, streams, closed, v2peer, sent, got, restarted)'
    BY Zenon, <1>2, <2>1, <2>2, <2>4, <2>6, <2>7, <2>8 DEF V2Inv
  <2>10. kind' = "v2"
    BY Zenon, <1>2, <1>15 DEF setup
  <2> QED BY ZenonT(60), <1>9, <1>10, <1>11, <1>13, <2>9, <2>10 DEF IndInv
<1> QED BY Zenon, <1>2, <1>14, <1>15 DEF Typed

(* A message is written: it is the next one of its stream, or nobody is    *)
(* there to read it.                                                       *)
LEMMA WriteOrder ==
    ASSUME Typed, Unlost(setup, streams, closed, got, sent, restarted), NEW e \in Ends,
           e \notin closed, sent[e] < MaxData, sent' = [sent EXCEPT ![e] = @ + 1],
           got' = got, closed' = closed, setup' = setup, restarted' = restarted,
           NEW m \in Mechanisms, Sent(e, Unit("data", sent[e] + 1, m)),
           streams'[e] = streams[e]
    PROVE  /\ Unlost(setup, streams, closed, got, sent, restarted)'
           /\ sent' \in [Ends -> 0..MaxData] /\ sent'[e] = sent[e] + 1
           /\ sent'[Peer(e)] = sent[Peer(e)]
           /\ Unit("data", sent[e] + 1, m) \in Units
<1> DEFINE p == Peer(e)
           x == Unit("data", sent[e] + 1, m)
<1>1. p \in Ends /\ p # e /\ Peer(p) = e /\ Ends = {e, p}
  BY Zenon, TwoEnds
<1>2. /\ sent' \in [Ends -> 0..MaxData] /\ sent'[e] = sent[e] + 1 /\ sent'[p] = sent[p]
      /\ sent[e] \in Nat /\ sent[p] \in Nat
  BY SMTT(60), <1>1, ConstantsAssumption DEF Typed
<1>3. x \in Units /\ x.t = "data" /\ x.v = sent[e] + 1
  <2>1. sent[e] + 1 \in Values /\ "data" \in UnitTypes
    BY <1>2 DEF Values, UnitTypes
  <2> QED BY Zenon, <2>1 DEF Unit, Units
<1>4. Len(got[p]) \in Nat /\ streams[p] \in Seq(Units) /\ sent[e] <= sent[e] + 1
  <2>1. got[p] \in Seq(Values) /\ streams[p] \in Seq(Units)
    BY ZenonT(60), <1>1, StreamTypes DEF Typed
  <2>2. Len(got[p]) \in Nat
    BY SMTT(30), <2>1
  <2> QED BY SMTT(30), <1>2, <2>1, <2>2
<1>5. ASSUME Ordered(p, streams, got, sent, closed)
      PROVE  Ordered(p, streams', got, sent', closed)
  <2>1. Order(streams[p], Len(got[p]), sent[e], closed = {})
    BY ZenonT(60), <1>1, <1>5 DEF Ordered
  <2>2. Order(streams'[p], Len(got[p]), sent[e] + 1, closed = {})
    <3>1. CASE p \in closed
      <4>1. (closed = {}) = FALSE /\ streams'[p] = streams[p]
        BY Zenon, <3>1 DEF Sent
      <4>2. Begins(streams[p], streams[p])
        BY <1>4 DEF Begins
      <4>3. sent[e] + 1 \in Nat
        BY SMTT(30), <1>2
      <4>4. Order(streams[p], Len(got[p]), sent[e] + 1, FALSE)
        <5> DEFINE u == streams[p]
                   k == Len(got[p])
                   n == sent[e]
                   l == sent[e] + 1
                   o == closed = {}
        <5>1. /\ u \in Seq(Units) /\ k \in Nat /\ n \in Nat /\ l \in Nat /\ n <= l
              /\ Begins(u, u) /\ Order(u, k, n, o)
          BY Zenon, <1>2, <1>4, <2>1, <4>2, <4>3
        <5> HIDE DEF u, k, n, l, o
        <5>2. Order(u, k, l, FALSE)
          BY <5>1, OrderCut, Zenon
        <5> QED BY Zenon, <5>2 DEF u, k, l
      <4> QED BY ZenonT(60), <4>1, <4>4
    <3>2. CASE p \notin closed
      <4>1. closed = {}
        BY Zenon, <1>1, <3>2 DEF Typed
      <4>2. streams'[p] = Append(streams[p], x)
        BY Zenon, <3>2 DEF Sent
      <4>3. Order(streams[p], Len(got[p]), sent[e], TRUE)
        BY Zenon, <2>1, <4>1
      <4> HIDE DEF x
      <4>4. Order(Append(streams[p], x), Len(got[p]), sent[e] + 1, TRUE)
        BY Zenon, <1>2, <1>3, <1>4, <4>3, OrderAppendData
      <4> QED BY Zenon, <4>1, <4>2, <4>4
    <3> QED BY Zenon, <3>1, <3>2
  <2> QED BY ZenonT(60), <1>1, <1>2, <1>5, <2>2 DEF Ordered
<1>6. Ordered(e, streams, got, sent, closed) => Ordered(e, streams', got, sent', closed)
  BY ZenonT(60), <1>2 DEF Ordered
<1>7. Unlost(setup, streams', closed, got, sent', restarted)
  BY Zenon, <1>1, <1>5, <1>6 DEF Unlost
<1> QED BY Zenon, <1>2, <1>3, <1>7

(* A unit is handled: a message is the next one that is due.               *)
LEMMA HandleOrder ==
    ASSUME Typed, Unlost(setup, streams, closed, got, sent, restarted), NEW e \in Ends,
           NEW h, h = Head(streams[e]), streams[e] # <<>>, streams'[e] = Tail(streams[e]),
           Grows(streams[Peer(e)], streams'[Peer(e)]),
           got' = [got EXCEPT ![e] = IF h.t \in Commands THEN @
                                     ELSE Append(@, IF h.t = "data" THEN h.v ELSE 0)],
           sent' = sent, closed' = closed, setup' = setup, restarted' = restarted,
           Promised(e, restarted) => h.t \in Commands \cup {"data"}
    PROVE  /\ Unlost(setup, streams, closed, got, sent, restarted)'
           /\ got' \in [Ends -> Seq(Values)] /\ got'[Peer(e)] = got[Peer(e)]
<1> DEFINE p == Peer(e)
           u == streams[e]
           g == got[e]
           d == IF h.t = "data" THEN h.v ELSE 0
<1>1. p \in Ends /\ p # e /\ Peer(p) = e /\ Ends = {e, p}
  BY Zenon, TwoEnds
<1>2. /\ u \in Seq(Units) /\ streams[p] \in Seq(Units) /\ g \in Seq(Values)
      /\ got \in [Ends -> Seq(Values)] /\ sent[p] \in Nat /\ sent[e] \in Nat
      /\ got[p] \in Seq(Values)
  <2>1. u \in Seq(Units) /\ streams[p] \in Seq(Units)
    BY Zenon, <1>1, StreamTypes
  <2>2. sent[p] \in Nat /\ sent[e] \in Nat
    BY <1>1, ConstantsAssumption DEF Typed
  <2> QED BY Zenon, <1>1, <2>1, <2>2 DEF Typed
<1>3. h \in Units /\ d \in Values
  <2>1. h \in Units
    BY <1>2
  <2>2. h.v \in Values /\ 0 \in Values
    BY Zenon, <2>1 DEF Units, Values
  <2> QED BY Zenon, <2>1, <2>2
<1>4. /\ got' \in [Ends -> Seq(Values)] /\ got'[p] = got[p]
      /\ h.t \in Commands => got'[e] = g
      /\ h.t \notin Commands => got'[e] = Append(g, d)
  <2> HIDE DEF d
  <2>1. Append(g, d) \in Seq(Values)
    BY <1>2, <1>3
  <2>2. got' = [got EXCEPT ![e] = IF h.t \in Commands THEN g ELSE Append(g, d)]
    BY Zenon DEF d
  <2> HIDE DEF g
  <2> QED BY SMTT(60), <1>1, <1>2, <2>1, <2>2
<1>5. ASSUME Ordered(p, streams, got, sent, closed)
      PROVE  Ordered(p, streams', got', sent, closed)
  <2>1. Order(streams[p], Len(got[p]), sent[e], closed = {})
    BY Zenon, <1>1, <1>5 DEF Ordered
  <2>3. Len(got[p]) \in Nat /\ (closed = {}) \in BOOLEAN
    <3>1. got[p] \in Seq(Values)
      BY Zenon, <1>2
    <3>2. Len(got[p]) \in Nat
      BY <3>1, Lengths, Zenon
    <3> QED BY Zenon, <3>2
  <2>4. Order(streams'[p], Len(got[p]), sent[e], closed = {})
    BY <1>2, <2>1, <2>3, GrowsOrder, Zenon
  <2> QED BY Zenon, <1>1, <1>4, <1>5, <2>4 DEF Ordered
<1>6. ASSUME Ordered(e, streams, got, sent, closed), h.t \in Commands \cup {"data"}
      PROVE  Ordered(e, streams', got', sent, closed)
  <2> DEFINE k == Len(g)
             n == sent[p]
             o == closed = {}
  <2>1. k \in Nat /\ n \in Nat /\ o \in BOOLEAN /\ Order(u, k, n, o)
    BY SMTT(60), <1>2, <1>6 DEF Ordered
  <2>2. \A i \in 1..k : g[i] = i
    BY ZenonT(60), <1>6 DEF Ordered
  <2> HIDE DEF k, n, o, u
  <2>3. /\ Head(u).t # "data" => Order(Tail(u), k, n, o)
        /\ Head(u).t = "data" => Head(u).v = k + 1 /\ k < n /\ Order(Tail(u), k + 1, n, o)
    BY SMTT(60), <1>2, <2>1, OrderTail DEF u
  <2>4. CASE h.t = "data"
    <3>1. h.t \notin Commands /\ d = k + 1
      BY Zenon, <2>3, <2>4 DEF Commands, u
    <3>2. got'[e] = Append(g, k + 1)
      BY Zenon, <1>4, <3>1
    <3>3. Len(got'[e]) = k + 1 /\ \A i \in 1..Len(got'[e]) : got'[e][i] = i
      <4> HIDE DEF g, d
      <4>1. g \in Seq(Values) /\ k + 1 \in Values
        BY Zenon, <1>2, <1>3, <3>1
      <4>2. /\ Len(Append(g, k + 1)) = Len(g) + 1
            /\ \A i \in 1..Len(g) : Append(g, k + 1)[i] = g[i]
            /\ Append(g, k + 1)[Len(g) + 1] = k + 1
        BY <4>1, Added
      <4>3. Len(g) = k
        BY Zenon DEF k
      <4> QED BY SMTT(30), <2>1, <2>2, <3>2, <4>2, <4>3
    <3>4. Order(Tail(u), k + 1, n, o)
      BY Zenon, <2>3, <2>4 DEF u
    <3> QED BY Zenon, <3>3, <3>4 DEF Ordered, n, o, u
  <2>5. CASE h.t \in Commands
    <3>1. h.t # "data"
      BY Zenon, <2>5 DEF Commands
    <3>2. Order(Tail(u), k, n, o)
      BY Zenon, <2>3, <3>1 DEF u
    <3> QED BY Zenon, <1>4, <1>6, <2>5, <3>2 DEF Ordered, k, n, o, u
  <2> QED BY Zenon, <1>6, <2>4, <2>5
<1>7. ASSUME NEW x \in Ends, setup[1] = "v3" \/ x = "server" \/ ~restarted
      PROVE  Ordered(x, streams', got', sent, closed)
  <2>1. Ordered(x, streams, got, sent, closed)
    BY Zenon, <1>7 DEF Unlost
  <2>2. Promised(x, restarted)
    BY Zenon, <1>7 DEF Promised, setup
  <2> QED BY Zenon, <1>1, <1>5, <1>6, <2>1, <2>2
<1>8. Unlost(setup, streams', closed, got', sent, restarted)
  BY Zenon, <1>7 DEF Unlost
<1> QED BY Zenon, <1>4, <1>8

(* A step of a session that has no part in the other variables.            *)
Leaves(e, s) ==
    /\ setup' = setup /\ closed' = closed /\ v2peer' = v2peer /\ counts' = counts
    /\ restarted' = restarted /\ become(e, s)

(* The timers of a session, and a write that fails.                        *)
LEMMA TimedOut ==
    ASSUME IndInv, NEW e \in Ends, handshake_timeout(e) \/ pong_timed_out(e) \/ write_fails(e)
    PROVE  IndInv'
<1>1. /\ Alive(e) /\ (set_fatal_error(e, "timeout") \/ set_fatal_error(e, "closed"))
      /\ setup' = setup /\ v2peer' = v2peer /\ counts' = counts /\ restarted' = restarted
  BY Zenon DEF handshake_timeout, pong_timed_out, write_fails, Handshaking, Operational, Alive
<1>2. sess[e].phase # "External" /\ "timeout" \in Causes /\ "closed" \in Causes
  BY Zenon, <1>1 DEF Alive, Causes
<1> QED BY Zenon, <1>1, <1>2, Fatal

(* A session that ends, because it is stopped or has read the end of its   *)
(* stream, leaves its stream to the next round of the loop or drops it at  *)
(* once.                                                                   *)
LEMMA Ended ==
    ASSUME IndInv, NEW e \in Ends, stop(e) \/ read_eof(e)
    PROVE  /\ Alive(e)
           /\ \/ IndInv'
              \/ \E why \in Causes : /\ why # "protocol" /\ wire' = wire
                                     /\ Leaves(e, transition_to_shutdown_stream(sess[e], why))
<1>1. "stopped" \in Causes /\ "closed" \in Causes
  BY SMTT(30) DEF Causes
<1>2. /\ Alive(e) /\ setup' = setup /\ v2peer' = v2peer
      /\ counts' = counts /\ restarted' = restarted
  BY Zenon DEF stop, read_eof, Reads, Handshaking, Operational, Alive
<1>3. \E why \in Causes :
        /\ why # "protocol"
        /\ \/ /\ become(e, transition_to_shutdown_stream(sess[e], why))
              /\ wire' = wire /\ closed' = closed
           \/ set_fatal_error(e, why)
  <2>1. CASE stop(e)
    <3>1. \/ /\ become(e, transition_to_shutdown_stream(sess[e], "stopped"))
             /\ wire' = wire /\ closed' = closed
          \/ set_fatal_error(e, "stopped")
      BY Zenon, <2>1 DEF stop
    <3> QED BY Zenon, <1>1, <3>1
  <2>2. CASE read_eof(e)
    <3>1. \/ /\ become(e, transition_to_shutdown_stream(sess[e], "closed"))
             /\ wire' = wire /\ closed' = closed
          \/ set_fatal_error(e, "closed")
      BY Zenon, <2>2 DEF read_eof
    <3> QED BY Zenon, <1>1, <3>1
  <2> QED BY Zenon, <2>1, <2>2
<1>4. PICK why \in Causes :
        /\ why # "protocol"
        /\ \/ /\ become(e, transition_to_shutdown_stream(sess[e], why))
              /\ wire' = wire /\ closed' = closed
           \/ set_fatal_error(e, why)
  BY Zenon, <1>3
<1>5. CASE set_fatal_error(e, why)
  <2>1. sess[e].phase # "External"
    BY Zenon, <1>2 DEF Alive
  <2> QED BY Zenon, <1>2, <1>4, <1>5, <2>1, Fatal
<1>6. CASE /\ become(e, transition_to_shutdown_stream(sess[e], why))
           /\ wire' = wire /\ closed' = closed
  BY Zenon, <1>2, <1>4, <1>6 DEF Leaves
<1> QED BY Zenon, <1>2, <1>4, <1>5, <1>6
=============================================================================
