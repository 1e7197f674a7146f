--------------------------- MODULE SessionProofs ------------------------------
(***************************************************************************)
(* Proofs about Session for every set of security options, any number of   *)
(* messages and PINGs: every step with a ZMTP/2.0 peer keeps the           *)
(* invariant too, and what follows from it.                                *)
(***************************************************************************)
EXTENDS SessionV3

-----------------------------------------------------------------------------
(* A ZMTP/2.0 peer.  What the counts of the invariant are.                 *)
LEMMA V2Numbers ==
    ASSUME NEW s
    PROVE  V2Taken(s) \in 0..3 /\ V2Written(s) \in 0..2
BY DEF V2Taken, V2Written

(* Of a connection of kind "v2" only the client is a session, and the      *)
(* other end is never closed.                                              *)
LEMMA V2Running ==
    ASSUME IndInv, kind = "v2", NEW e \in Ends, sess[e].phase # "External"
    PROVE  /\ e = "client" /\ Peer(e) = "server" /\ "server" \notin closed
           /\ "client" \in Ends /\ "server" \in Ends /\ Typed
           /\ sess["client"] \in SessType /\ sess["server"] \in SessType
           /\ V2Inv(setup, sess, streams, closed, v2peer, sent, got, restarted)
           /\ streams["client"] \in Seq(Units) /\ streams["server"] \in Seq(Units)
           /\ setup[3] = agree /\ setup[4] = allow_zmtp2
           /\ v2peer \in 0..3 /\ sent["client"] \in Nat /\ sent["server"] \in Nat
           /\ "client" \notin closed =>
                V2Local(setup, sess["client"], restarted) /\ closed = {}
<1>1. Typed /\ V2Inv(setup, sess, streams, closed, v2peer, sent, got, restarted)
  BY Zenon DEF IndInv
<1>2. "client" \in Ends /\ "server" \in Ends
  BY Zenon DEF Ends
<1>3. e = "client" /\ Peer(e) = "server" /\ "server" \notin closed
  BY Zenon, <1>1 DEF V2Inv, Ends, Peer
<1>4. /\ streams["client"] \in Seq(Units) /\ streams["server"] \in Seq(Units)
      /\ sess["client"] \in SessType /\ sess["server"] \in SessType
  BY Zenon, <1>1, <1>2, StreamTypes
<1>5. v2peer \in 0..3 /\ sent["client"] \in Nat /\ sent["server"] \in Nat
  BY <1>1, <1>2, ConstantsAssumption DEF Typed
<1>6. setup[3] = agree /\ setup[4] = allow_zmtp2
  BY Zenon DEF setup
<1>7. ASSUME "client" \notin closed
      PROVE  V2Local(setup, sess["client"], restarted) /\ closed = {}
  BY Zenon, <1>1, <1>3, <1>7 DEF V2Inv, Typed, Ends
<1> QED BY Zenon, <1>1, <1>2, <1>3, <1>4, <1>5, <1>6, <1>7

(* The parts of the invariant of an open client.                           *)
LEMMA V2Open ==
    ASSUME V2Inv(setup, sess, streams, closed, v2peer, sent, got, restarted),
           "client" \notin closed
    PROVE  /\ V2Stream(sess["client"], streams["client"], v2peer, restarted)
           /\ V2Back(sess["client"], streams["server"], v2peer)
           /\ V2NoData(streams["server"], v2peer)
           /\ V2Few(sess["client"], Len(streams["client"]), Len(streams["server"]), v2peer,
                    sent["server"], sent["client"])
BY Zenon DEF V2Inv

(* A step of an open client.                                               *)
LEMMA V2Step ==
    ASSUME IndInv, kind = "v2", "client" \notin closed, sess["client"].phase # "External",
           NEW s \in SessType, Becomes("client", s), setup' = setup, closed' = closed,
           v2peer' = v2peer, restarted => restarted', restarted' \in BOOLEAN,
           got' \in [Ends -> Seq(Values)], got'["server"] = got["server"],
           sent' \in [Ends -> 0..MaxData], pings' \in [Ends -> 0..MaxPings],
           Unlost(setup, streams, closed, got, sent, restarted)',
           V2Local(setup, s, restarted'),
           V2Stream(s, streams'["client"], v2peer, restarted'),
           V2Back(s, streams'["server"], v2peer), V2NoData(streams'["server"], v2peer),
           V2Few(s, Len(streams'["client"]), Len(streams'["server"]), v2peer,
                 sent'["server"], sent'["client"]),
           s.cause = sess["client"].cause \/ s.cause # "protocol"
    PROVE  IndInv'
<1>1. "client" \in Ends /\ "server" \in Ends /\ Ends = {"client", "server"}
  BY Zenon DEF Ends
<1>2. /\ Typed /\ "server" \notin closed /\ closed = {}
      /\ V2Inv(setup, sess, streams, closed, v2peer, sent, got, restarted)
  BY Zenon, <1>1, V2Running
<1>3. Typed'
  BY Zenon, <1>2 DEF Typed, Becomes, setup
<1>4. sess'["client"] = s /\ sess'["server"] = sess["server"]
  BY Zenon DEF Becomes, Peer
<1>5. NoSpuriousError'
  <2>1. Compatible' = Compatible
    BY DEF Compatible, setup
  <2> QED BY Zenon, <1>1, <1>4, <2>1 DEF IndInv, NoSpuriousError
<1>6. ClosedInv(sess, streams, closed)'
  BY Zenon, <1>2 DEF ClosedInv
<1>7. /\ sess["server"].phase = "External" /\ sess["server"].buf = <<>>
      /\ got["server"] = <<>>
  BY Zenon, <1>2 DEF V2Inv
<1>8. V2Inv(setup, sess', streams', closed, v2peer, sent', got', restarted')
  BY <1>2, <1>4, <1>7, Zenon DEF V2Inv
<1>9. kind' = "v2"
  BY Zenon DEF setup
<1> QED BY Zenon, <1>3, <1>5, <1>6, <1>8, <1>9 DEF IndInv

(* The stream towards the client: nothing is handled, or n units of the    *)
(* handshake are, or a message is.                                         *)
LEMMA V2StreamSame ==
    ASSUME NEW s, NEW r, NEW u, NEW v, NEW a \in BOOLEAN, NEW b \in BOOLEAN, V2Stream(s, u, v, a),
           a => b, V2Taken(r) = V2Taken(s) \/ b
    PROVE  V2Stream(r, u, v, b)
BY Zenon DEF V2Stream

(* The first n units ahead of the end are handled.                         *)
LEMMA V2StreamTake ==
    ASSUME NEW s, NEW r, NEW u \in Seq(Units), NEW x \in Seq(Units), NEW v \in 0..3,
           NEW a \in BOOLEAN, V2Stream(s, u, v, a), NEW n \in Nat,
           V2Taken(r) = V2Taken(s) + n, Len(x) = Len(u) - n, \A i \in 1..Len(x) : x[i] = u[i + n]
    PROVE  V2Stream(r, x, v, a)
<1> DEFINE t == V2Taken(s)
           l == Len(u)
           k == Len(x)
<1>1. t \in Nat /\ l \in Nat /\ k \in Nat
  BY V2Numbers, Lengths
<1>2. k = l - n /\ V2Taken(r) = t + n
  BY Zenon
<1> HIDE DEF t, l, k
<1>3. \A i \in 1..k : i + n \in 1..l /\ (t + n) + i = t + (i + n)
  BY <1>1, <1>2
<1>4. (t + n) + k = t + l
  BY <1>1, <1>2
<1>5. ASSUME NEW i \in 1..k PROVE x[i].key = "NULL" /\ x[i].t \notin Commands
  BY Zenon, <1>3 DEF V2Stream, l, k
<1>6. ASSUME ~a, NEW i \in 1..k PROVE V2UnitOK(V2Taken(r) + i, x[i])
  <2>1. V2UnitOK(t + (i + n), u[i + n])
    BY Zenon, <1>3, <1>6 DEF V2Stream, l, t
  <2> QED BY Zenon, <1>2, <1>3, <2>1 DEF k
<1>7. ~a => (v < 3 => t + l = v) /\ (v = 3 => t + l >= 3)
  BY Zenon DEF V2Stream, t, l
<1> QED BY Zenon, <1>2, <1>4, <1>5, <1>6, <1>7 DEF V2Stream, k

(* A message is handled.                                                   *)
LEMMA V2StreamHandle ==
    ASSUME NEW s, NEW r, NEW u \in Seq(Units), u # <<>>, NEW v \in 0..3, NEW a \in BOOLEAN,
           V2Stream(s, u, v, a), s.sub = "Done", r.sub = "Done"
    PROVE  /\ V2Stream(r, Tail(u), v, a)
           /\ Head(u).key = "NULL" /\ Head(u).t \notin Commands /\ (~a => Head(u).t = "data")
<1> DEFINE x == Tail(u)
           l == Len(u)
<1>1. /\ l \in Nat /\ l # 0 /\ Len(x) = l - 1 /\ \A i \in 1..(l - 1) : x[i] = u[i + 1]
      /\ Head(u) = u[1]
  BY Zenon, Behind
<1>2. V2Taken(s) = 3 /\ V2Taken(r) = 3
  BY Zenon DEF V2Taken
<1> HIDE DEF x, l
<1>3. 1 \in 1..l /\ \A i \in 1..(l - 1) : i + 1 \in 1..l
  BY <1>1
<1>4. \A i \in 1..l : u[i].key = "NULL" /\ u[i].t \notin Commands
  BY Zenon DEF V2Stream, l
<1>5. ASSUME ~a
      PROVE  /\ v = 3 /\ \A i \in 1..l : V2UnitOK(3 + i, u[i])
             /\ \A i \in 1..l : u[i].t = "data"
  <2>1. /\ \A i \in 1..l : V2UnitOK(3 + i, u[i])
        /\ v < 3 => 3 + l = v
    BY <1>2, <1>5, Zenon DEF V2Stream, l
  <2>2. v = 3
    BY <1>1, <2>1
  <2>3. \A i \in 1..l : 3 + i > 3
    BY <1>1
  <2>4. \A i \in 1..l : u[i].t = "data"
    BY Zenon, <2>1, <2>3 DEF V2UnitOK
  <2> QED BY Zenon, <2>1, <2>2, <2>4
<1>6. ASSUME ~a, NEW i \in 1..(l - 1) PROVE V2UnitOK(3 + i, x[i])
  <2>1. i + 1 \in 1..l /\ x[i] = u[i + 1]
    BY Zenon, <1>1, <1>3
  <2>2. V2UnitOK(3 + (i + 1), x[i]) /\ x[i].t = "data"
    BY <1>5, <1>6, <2>1, Zenon
  <2>3. 3 + i # 1 /\ 3 + i # 2 /\ 3 + i # 3
    BY <1>1
  <2> QED BY Zenon, <2>2, <2>3 DEF V2UnitOK
<1>7. ~a => 3 + Len(x) >= 3 /\ ~(v < 3)
  BY <1>1, <1>5
<1>8. ASSUME NEW i \in 1..Len(x) PROVE x[i].key = "NULL" /\ x[i].t \notin Commands
  <2>1. i + 1 \in 1..l /\ x[i] = u[i + 1]
    BY Zenon, <1>1, <1>3, <1>8
  <2> QED BY Zenon, <1>4, <2>1
<1>9. V2Stream(r, x, v, a)
  <2>1. ~a => \A i \in 1..Len(x) : V2UnitOK(3 + i, x[i])
    BY Zenon, <1>1, <1>6
  <2> QED BY <1>2, <1>7, <1>8, <2>1, Zenon DEF V2Stream
<1>10. Head(u).key = "NULL" /\ Head(u).t \notin Commands /\ (~a => Head(u).t = "data")
  BY Zenon, <1>1, <1>3, <1>4, <1>5
<1> QED BY Zenon, <1>9, <1>10 DEF x

(* The peer writes its next unit, or a message.                            *)
LEMMA V2StreamAdd ==
    ASSUME NEW s, NEW u \in Seq(Units), NEW x \in Units, NEW v \in 0..3, NEW w \in 0..3,
           NEW a \in BOOLEAN, V2Stream(s, u, v, a), x.key = "NULL", x.t \notin Commands,
           \/ v < 3 /\ w = v + 1 /\ V2UnitOK(w, x)
           \/ v = 3 /\ w = 3 /\ x.t = "data"
    PROVE  V2Stream(s, Append(u, x), w, a)
<1> DEFINE t == V2Taken(s)
           l == Len(u)
           y == Append(u, x)
<1>1. t \in 0..3 /\ l \in Nat
  BY Zenon, V2Numbers, Lengths
<1>2. Len(y) = l + 1 /\ (\A i \in 1..l : y[i] = u[i]) /\ y[l + 1] = x
  BY Added
<1>3. /\ \A i \in 1..l : u[i].key = "NULL" /\ u[i].t \notin Commands
      /\ ~a => /\ \A i \in 1..l : V2UnitOK(t + i, u[i])
               /\ v < 3 => t + l = v
               /\ v = 3 => t + l >= 3
  BY Zenon DEF V2Stream
<1> HIDE DEF t, l, y
<1>4. \A i \in 1..(l + 1) : i \in 1..l \/ i = l + 1
  BY <1>1
<1>5. \A i \in 1..Len(y) : y[i].key = "NULL" /\ y[i].t \notin Commands
  BY Zenon, <1>2, <1>3, <1>4
<1>6. ASSUME ~a
      PROVE  /\ V2UnitOK(t + (l + 1), x)
             /\ w < 3 => t + (l + 1) = w
             /\ w = 3 => t + (l + 1) >= 3
  <2>1. CASE v < 3 /\ w = v + 1 /\ V2UnitOK(w, x)
    <3>1. t + (l + 1) = w
      BY <1>1, <1>3, <1>6, <2>1
    <3> QED BY <2>1, <3>1
  <2>2. CASE v = 3 /\ w = 3 /\ x.t = "data"
    <3>1. t + l >= 3
      BY Zenon, <1>3, <1>6, <2>2
    <3>2. /\ t + (l + 1) >= 3 /\ t + (l + 1) # 1 /\ t + (l + 1) # 2 /\ t + (l + 1) # 3
      BY <1>1, <3>1
    <3>3. V2UnitOK(t + (l + 1), x)
      BY Zenon, <2>2, <3>2 DEF V2UnitOK
    <3> QED BY <2>2, <3>2, <3>3
  <2> QED BY Zenon, <2>1, <2>2
<1>7. ASSUME ~a, NEW i \in 1..(l + 1) PROVE V2UnitOK(t + i, y[i])
  <2>1. CASE i \in 1..l
    BY Zenon, <1>2, <1>3, <1>7, <2>1
  <2>2. CASE i = l + 1
    BY Zenon, <1>2, <1>6, <1>7, <2>2
  <2> QED BY Zenon, <1>4, <2>1, <2>2
<1>8. V2Stream(s, y, w, a)
  <2>1. ~a => \A i \in 1..Len(y) : V2UnitOK(t + i, y[i])
    BY Zenon, <1>2, <1>7
  <2>2. ~a => (w < 3 => t + Len(y) = w) /\ (w = 3 => t + Len(y) >= 3)
    BY Zenon, <1>2, <1>6
  <2> QED BY <1>5, <2>1, <2>2, Zenon DEF V2Stream, t
<1> QED BY Zenon, <1>8 DEF y

(* What the client writes goes behind what the peer has not seen.          *)
LEMMA V2BackWrite ==
    ASSUME NEW s, NEW r, NEW q \in Seq(Units), NEW x \in Units, NEW v \in 0..3,
           V2Back(s, q, v), V2NoData(q, v),
           \/ V2Written(r) = V2Written(s) + 1
           \/ V2Written(r) = V2Written(s) /\ V2Written(s) = 2,
           x.t # "data" \/ V2Written(s) = 2
    PROVE  V2Back(r, Append(q, x), v) /\ V2NoData(Append(q, x), v)
<1> DEFINE l == Len(q)
           y == Append(q, x)
           k == V2Written(s)
           m == V2Seen(v)
<1>1. l \in Nat /\ k \in 0..2 /\ V2Written(r) \in 0..2 /\ m \in 0..2
  BY V2Numbers, Lengths DEF V2Seen
<1>2. Len(y) = l + 1 /\ (\A i \in 1..l : y[i] = q[i]) /\ y[l + 1] = x
  BY Added
<1>3. (k < 2 => m + l = k) /\ (k = 2 => m + l >= 2)
  BY Zenon DEF V2Back
<1>4. \A i \in 1..l : m + i <= 2 => q[i].t # "data"
  BY Zenon DEF V2NoData
<1> HIDE DEF l, y, k, m
<1>5. V2Written(r) = k + 1 \/ (V2Written(r) = k /\ k = 2)
  BY Zenon DEF k
<1>6. V2Back(r, y, v)
  <2>1. (V2Written(r) < 2 => m + (l + 1) = V2Written(r)) /\ (V2Written(r) = 2 => m + (l + 1) >= 2)
    BY <1>1, <1>3, <1>5
  <2> QED BY Zenon, <1>2, <2>1 DEF V2Back, m
<1>7. ASSUME NEW i \in 1..(l + 1), m + i <= 2 PROVE y[i].t # "data"
  <2>1. CASE i \in 1..l
    BY Zenon, <1>2, <1>4, <1>7, <2>1
  <2>2. CASE i = l + 1
    <3>1. k # 2
      BY <1>1, <1>3, <1>7, <2>2
    <3> QED BY Zenon, <1>2, <2>2, <3>1 DEF k
  <2> QED BY <1>1, <2>1, <2>2
<1>8. V2NoData(y, v)
  BY Zenon, <1>2, <1>7 DEF V2NoData, m
<1> QED BY Zenon, <1>6, <1>8 DEF y

(* The bound on what is under way, when a step changes the lengths.        *)
V2Lengths(k, l, a, b, c, d) ==
    \/ d = b /\ l = k
    \/ d = b + 1 /\ (l = k + 1 \/ (l = k /\ c + 2 <= a))

(* The bound on the units in transit, from one count of units to the next. *)
LEMMA V2Bound ==
    ASSUME NEW o, NEW s, NEW a \in Nat, NEW b \in Nat, NEW c \in Nat, NEW d, NEW v \in 0..3,
           NEW n \in Nat, NEW m \in Nat, c <= a, V2Few(o, a, b, v, n, m),
           V2Lengths(V2Written(o), V2Written(s), a, b, c, d)
    PROVE  V2Few(s, c, d, v, n, m)
<1> DEFINE k == V2Written(o)
           l == V2Written(s)
<1>1. k \in 0..2 /\ l \in 0..2 /\ V2Lengths(k, l, a, b, c, d)
  BY Zenon, V2Numbers
<1>2. a <= v + n /\ a + 2 * b <= v + n + 2 * k + 2 * m
  BY Zenon DEF V2Few
<1> HIDE DEF k, l
<1>3. c <= v + n /\ c + 2 * d <= v + n + 2 * l + 2 * m
  BY <1>1, <1>2 DEF V2Lengths
<1> QED BY Zenon, <1>3 DEF V2Few, l

(* A step of the client that handles and writes no message: it writes      *)
(* nothing, the next unit of its greeting, or its identity for a greeting. *)
LEMMA V2Act ==
    ASSUME IndInv, kind = "v2", Alive("client"), NEW s \in SessType, become("client", s),
           setup' = setup, closed' = closed, v2peer' = v2peer, counts' = counts,
           restarted => restarted', restarted' \in BOOLEAN, wire' \in [Ends -> Seq(Units)],
           Calm(streams["client"], streams'["client"], Promised("client", restarted')),
           V2Local(setup, s, restarted'),
           V2Stream(s, streams'["client"], v2peer, restarted'),
           s.cause = sess["client"].cause \/ s.cause # "protocol",
           Len(streams'["client"]) <= Len(streams["client"]),
           \/ /\ streams'["server"] = streams["server"]
              /\ V2Written(s) = V2Written(sess["client"])
           \/ \E x \in Units :
                 /\ Plain(x) /\ streams'["server"] = Append(streams["server"], x)
                 /\ \/ V2Written(s) = V2Written(sess["client"]) + 1
                    \/ /\ V2Written(s) = V2Written(sess["client"])
                       /\ V2Written(sess["client"]) = 2
                       /\ Len(streams'["client"]) + 2 <= Len(streams["client"])
    PROVE  IndInv'
<1> DEFINE o == sess["client"]
           u == streams["client"]
           v == streams'["client"]
           q == streams["server"]
           r == streams'["server"]
<1>1. "client" \in Ends /\ "server" \in Ends /\ Ends = {"client", "server"}
      /\ Peer("client") = "server"
  BY Zenon DEF Ends, Peer
<1>2. "client" \notin closed /\ o.phase # "External"
  BY Zenon, <1>1, Running
<1>3. /\ Typed /\ u \in Seq(Units) /\ q \in Seq(Units) /\ v2peer \in 0..3
      /\ sent["client"] \in Nat /\ sent["server"] \in Nat
      /\ V2Inv(setup, sess, streams, closed, v2peer, sent, got, restarted)
  BY Zenon, <1>1, <1>2, V2Running
<1>4. /\ V2Back(o, q, v2peer) /\ V2NoData(q, v2peer)
      /\ V2Few(o, Len(u), Len(q), v2peer, sent["server"], sent["client"])
  BY Zenon, <1>2, <1>3, V2Open
<1>5. Becomes("client", s)
  BY Zenon, <1>1, <1>3, BecomeFacts
<1>6. /\ sent' = sent /\ got' = got /\ pings' = pings /\ got' \in [Ends -> Seq(Values)]
      /\ sent' \in [Ends -> 0..MaxData] /\ pings' \in [Ends -> 0..MaxPings]
  BY Zenon, <1>3 DEF counts, Typed
<1>7. Quiet
  <2>1. Calm(q, r, Promised("server", restarted'))
    BY Zenon DEF Calm
  <2> QED BY Zenon, <1>1, <1>6, <2>1 DEF Quiet
<1>8. Unlost(setup, streams, closed, got, sent, restarted)'
  BY Zenon, <1>3, <1>7, QuietStep DEF IndInv
<1>9. V2Back(s, r, v2peer) /\ V2NoData(r, v2peer)
  <2>1. CASE r = q /\ V2Written(s) = V2Written(o)
    BY Zenon, <1>4, <2>1 DEF V2Back
  <2>2. ASSUME NEW x \in Units, Plain(x), r = Append(q, x),
               \/ V2Written(s) = V2Written(o) + 1
               \/ V2Written(s) = V2Written(o) /\ V2Written(o) = 2
        PROVE  V2Back(s, r, v2peer) /\ V2NoData(r, v2peer)
    <3>1. x.t # "data"
      BY Zenon, <2>2 DEF Plain
    <3>2. q \in Seq(Units) /\ v2peer \in 0..3 /\ V2Back(o, q, v2peer) /\ V2NoData(q, v2peer)
      BY Zenon, <1>3, <1>4
    <3>3. V2Back(s, Append(q, x), v2peer) /\ V2NoData(Append(q, x), v2peer)
      BY <2>2, <3>1, <3>2, V2BackWrite, Zenon
    <3> QED BY Zenon, <2>2, <3>3
  <2> QED BY Zenon, <2>1, <2>2
<1>10. V2Few(s, Len(v), Len(r), v2peer, sent["server"], sent["client"])
  <2>1. v \in Seq(Units)
    BY Zenon, <1>3, CalmFacts
  <2>2. Len(u) \in Nat /\ Len(q) \in Nat /\ Len(v) \in Nat
    BY Zenon, <1>3, <2>1, Lengths
  <2>3. \A x \in Units : Len(Append(q, x)) = Len(q) + 1
    BY <1>3, Added
  <2>4. V2Lengths(V2Written(o), V2Written(s), Len(u), Len(q), Len(v), Len(r))
    BY <2>3, Zenon DEF V2Lengths
  <2> QED BY <1>3, <1>4, <2>2, <2>4, V2Bound, Zenon
<1> QED BY Zenon, <1>2, <1>5, <1>6, <1>8, <1>9, <1>10, V2Step

(* send_signature.                                                         *)
LEMMA V2Signature ==
    ASSUME IndInv, kind = "v2", NEW e \in Ends, send_signature(e)
    PROVE  IndInv'
<1> DEFINE o == sess[e]
           s == [o EXCEPT !.sub = "WaitingForPeerRevision", !.buf = <<>>]
           x == Unit("prelude", "0x03", "NULL")
<1>1. /\ Alive(e) /\ o.phase = "HandshakeInProgress" /\ o.sub = "GreetingExchange"
      /\ write(e, x) /\ Leaves(e, s)
  BY Zenon DEF send_signature, In, Handshaking, Alive, Leaves
<1>2. e \notin closed /\ o.phase # "External"
  BY Zenon, <1>1, Running
<1>3. /\ e = "client" /\ Peer(e) = "server" /\ "server" \notin closed /\ Typed /\ o \in SessType
      /\ V2Local(setup, o, restarted) /\ v2peer \in 0..3
      /\ V2Inv(setup, sess, streams, closed, v2peer, sent, got, restarted)
      /\ streams[e] \in Seq(Units)
  BY Zenon, <1>2, V2Running
<1>4. x \in Units /\ Plain(x)
  <2>1. "prelude" \in UnitTypes /\ "0x03" \in Values /\ "NULL" \in Mechanisms
    BY Zenon DEF UnitTypes, Values, Mechanisms
  <2>2. x \in Units /\ x.t = "prelude"
    BY Zenon, <2>1 DEF Units, Unit
  <2> QED BY Zenon, <2>2 DEF Plain
<1>5. o.buf = <<>>
  BY Zenon, <1>1, <1>3 DEF V2Local
<1>6. "WaitingForPeerRevision" \in SubPhases /\ <<>> \in Seq(Units)
  BY DEF SubPhases
<1> HIDE DEF o, x
<1>7. s \in SessType
  BY <1>3, <1>6, Zenon DEF SessType
<1>8. /\ s.phase = o.phase /\ s.sub = "WaitingForPeerRevision" /\ s.at = o.at /\ s.buf = <<>>
      /\ s.mech = o.mech /\ s.framer = o.framer /\ s.version = o.version /\ s.cause = o.cause
  BY <1>3, <1>6, Zenon DEF SessType
<1> HIDE DEF s
<1>9. o.at = "start"
  <2>1. o.at \in Places /\ o.at # "identity"
    BY Zenon, <1>1, <1>3 DEF V2Local, SessType
  <2> QED BY Zenon, <2>1 DEF Places
<1>10. V2Local(setup, s, restarted)
  BY Zenon, <1>1, <1>3, <1>8, <1>9 DEF V2Local
<1>11. wire' \in [Ends -> Seq(Units)] /\ wire'[e] = wire[e]
  BY ZenonT(60), <1>1, <1>3, <1>4, WriteFacts
<1>12. Becomes(e, s)
  BY Zenon, <1>1, <1>3, <1>7, <1>11, BecomeFacts DEF Leaves
<1>13. streams'["server"] = Append(streams["server"], x)
  BY ZenonT(60), <1>1, <1>3, <1>4, <1>12, WriteFacts DEF Sent, Becomes
<1>14. streams'[e] = streams[e]
  <2>1. streams[e] = o.buf \o wire[e] /\ streams'[e] = sess'[e].buf \o wire'[e]
    BY Zenon, <1>3, StreamTypes DEF o
  <2> QED BY Zenon, <1>5, <1>8, <1>11, <1>12, <2>1 DEF Becomes
<1>15. V2Stream(s, streams'[e], v2peer, restarted)
  <2>1. V2Stream(o, streams[e], v2peer, restarted)
    BY Zenon, <1>2, <1>3, V2Open DEF o
  <2>2. V2Taken(s) = V2Taken(o) /\ restarted \in BOOLEAN
    BY Zenon, <1>1, <1>3, <1>8 DEF V2Taken, Typed
  <2> QED BY Zenon, <1>14, <2>1, <2>2, V2StreamSame
<1>16. V2Written(s) = V2Written(o) + 1
  BY <1>1, <1>8 DEF V2Written
<1>17. /\ Calm(streams[e], streams'[e], Promised(e, restarted')) /\ restarted' \in BOOLEAN
       /\ Len(streams'[e]) <= Len(streams[e])
  <2>1. Len(streams[e]) \in Nat
    BY <1>3
  <2> QED BY <1>1, <1>3, <1>14, <2>1 DEF Calm, Typed, Leaves
<1> QED BY Zenon, <1>1, <1>3, <1>4, <1>7, <1>8, <1>10, <1>11, <1>13, <1>15, <1>16, <1>17, V2Act
        DEF Leaves, o
(* What is known of a running client.                                      *)
LEMMA V2Alive ==
    ASSUME IndInv, kind = "v2", NEW e \in Ends, Alive(e)
    PROVE  /\ e = "client" /\ Peer(e) = "server" /\ "server" \notin closed /\ e \notin closed
           /\ Typed /\ sess[e] \in SessType /\ sess[e].phase # "External"
           /\ V2Local(setup, sess[e], restarted)
           /\ V2Stream(sess[e], streams[e], v2peer, restarted)
           /\ streams[e] \in Seq(Units) /\ streams[e] = sess[e].buf \o wire[e]
           /\ sess[e].buf \in Seq(Units) /\ wire[e] \in Seq(Units)
           /\ v2peer \in 0..3 /\ restarted \in BOOLEAN
           /\ setup[3] = agree /\ setup[4] = allow_zmtp2
<1>1. /\ e \notin closed /\ sess[e].phase # "External" /\ Typed /\ sess[e] \in SessType
      /\ sess[e].buf \in Seq(Units) /\ wire[e] \in Seq(Units)
  BY Zenon, Running
<1>2. /\ e = "client" /\ Peer(e) = "server" /\ "server" \notin closed
      /\ V2Inv(setup, sess, streams, closed, v2peer, sent, got, restarted)
      /\ setup[3] = agree /\ setup[4] = allow_zmtp2
  BY Zenon, <1>1, V2Running
<1>3. V2Local(setup, sess[e], restarted)
  BY Zenon, <1>1, <1>2, V2Running
<1>4. V2Stream(sess[e], streams[e], v2peer, restarted)
  BY Zenon, <1>1, <1>2, V2Open
<1>5. streams[e] \in Seq(Units) /\ streams[e] = sess[e].buf \o wire[e]
  BY Zenon, <1>1, StreamTypes
<1>6. v2peer \in 0..3 /\ restarted \in BOOLEAN
  BY Zenon, <1>1 DEF Typed
<1> QED BY Zenon, <1>1, <1>2, <1>3, <1>4, <1>5, <1>6

(* The first unit of its buffer.                                           *)
LEMMA V2Head ==
    ASSUME IndInv, kind = "v2", NEW e \in Ends, Alive(e), sess[e].buf # <<>>
    PROVE  /\ ~restarted => V2UnitOK(V2Taken(sess[e]) + 1, Head(sess[e].buf))
           /\ Head(sess[e].buf) \in Units /\ Tail(sess[e].buf) \in Seq(Units)
           /\ streams[e] # <<>> /\ Head(streams[e]) = Head(sess[e].buf)
           /\ Tail(sess[e].buf) \o wire[e] = Tail(streams[e])
<1> DEFINE b == sess[e].buf
           r == wire[e]
           u == streams[e]
<1>1. b \in Seq(Units) /\ r \in Seq(Units) /\ b # <<>> /\ u = b \o r /\ u \in Seq(Units)
  BY Zenon, V2Alive
<1>2. ~restarted => \A i \in 1..Len(u) : V2UnitOK(V2Taken(sess[e]) + i, u[i])
  <2>1. V2Stream(sess[e], u, v2peer, restarted)
    BY Zenon, V2Alive
  <2> QED BY Zenon, <2>1 DEF V2Stream
<1> HIDE DEF b, r, u
<1>3. /\ b \o r # <<>> /\ Head(b \o r) = Head(b) /\ Head(b) \in Units
      /\ Tail(b) \in Seq(Units) /\ Tail(b) \o r = Tail(b \o r)
  BY <1>1, SeqTake, Zenon
<1>4. u # <<>> /\ Head(u) = Head(b) /\ Tail(b) \o r = Tail(u)
  BY <1>1, <1>3, Zenon
<1>5. 1 \in 1..Len(u) /\ Head(u) = u[1]
  <2>1. u \in Seq(Units) /\ u # <<>>
    BY <1>1, <1>4, Zenon
  <2> QED BY <2>1
<1>6. ~restarted => V2UnitOK(V2Taken(sess[e]) + 1, Head(b))
  BY <1>2, <1>4, <1>5, Zenon
<1> QED BY <1>3, <1>4, <1>6, Zenon DEF b, r, u

(* wait_for_peer_revision: the peer is known for what it is.               *)
LEMMA V2Revision ==
    ASSUME IndInv, kind = "v2", NEW e \in Ends, wait_for_peer_revision(e)
    PROVE  IndInv'
<1> DEFINE o == sess[e]
           s == [o EXCEPT !.version = "V2", !.sub = "V2IdentityExchange"]
           x == Unit("v2tail", "type", "NULL")
<1>1. /\ Alive(e) /\ o.phase = "HandshakeInProgress" /\ o.sub = "WaitingForPeerRevision"
      /\ o.buf # <<>> /\ setup' = setup /\ v2peer' = v2peer /\ counts' = counts
      /\ restarted' = restarted
  BY Zenon DEF wait_for_peer_revision, In, Handshaking, Alive, peeks_revision
<1>2. /\ e = "client" /\ Peer(e) = "server" /\ "server" \notin closed /\ e \notin closed
      /\ Typed /\ o \in SessType /\ o.phase # "External" /\ V2Local(setup, o, restarted)
      /\ V2Stream(o, streams[e], v2peer, restarted) /\ streams[e] \in Seq(Units)
      /\ v2peer \in 0..3 /\ restarted \in BOOLEAN /\ setup[4] = allow_zmtp2
  BY Zenon, <1>1, V2Alive
<1>3. ~restarted /\ o.at = "start"
  <2>1. o.at \in Places /\ o.at # "identity" /\ ~restarted
    BY Zenon, <1>1, <1>2 DEF V2Local, SessType
  <2> QED BY Zenon, <2>1 DEF Places
<1>4. Head(o.buf).v = "0x01"
  <2>1. V2Taken(o) = 0
    BY Zenon, <1>1, <1>3 DEF V2Taken
  <2>2. V2UnitOK(V2Taken(o) + 1, Head(o.buf))
    BY Zenon, <1>1, <1>3, V2Head
  <2>3. V2UnitOK(1, Head(o.buf))
    BY <2>1, <2>2
  <2> QED BY Zenon, <2>3 DEF V2UnitOK
<1>5. \/ ~allow_zmtp2 /\ set_fatal_error(e, "protocol")
      \/ allow_zmtp2 /\ write(e, x) /\ become(e, s) /\ closed' = closed
  BY Zenon, <1>4 DEF wait_for_peer_revision
<1>6. CASE ~allow_zmtp2 /\ set_fatal_error(e, "protocol")
  <2>1. ~Compatible /\ "protocol" \in Causes
    BY Zenon, <1>6 DEF Compatible, Causes
  <2> QED BY Zenon, <1>1, <1>2, <1>6, <2>1, Fatal
<1>7. CASE allow_zmtp2 /\ write(e, x) /\ become(e, s) /\ closed' = closed
  <2>1. x \in Units /\ Plain(x)
    <3>1. "v2tail" \in UnitTypes /\ "type" \in Values /\ "NULL" \in Mechanisms
      BY Zenon DEF UnitTypes, Values, Mechanisms
    <3>2. x \in Units /\ x.t = "v2tail"
      BY Zenon, <3>1 DEF Units, Unit
    <3> QED BY Zenon, <3>2 DEF Plain
  <2>2. "V2IdentityExchange" \in SubPhases /\ "V2" \in Versions
    BY Zenon DEF SubPhases, Versions
  <2> HIDE DEF o, x
  <2>3. s \in SessType
    BY <1>2, <2>2, Zenon DEF SessType
  <2>4. /\ s.phase = o.phase /\ s.sub = "V2IdentityExchange" /\ s.at = o.at /\ s.buf = o.buf
        /\ s.mech = o.mech /\ s.framer = o.framer /\ s.version = "V2" /\ s.cause = o.cause
    BY <1>2, <2>2, Zenon DEF SessType
  <2> HIDE DEF s
  <2>5. V2Local(setup, s, restarted)
    BY ZenonT(60), <1>1, <1>2, <1>3, <1>7, <2>4 DEF V2Local
  <2>6. wire' \in [Ends -> Seq(Units)] /\ wire'[e] = wire[e]
    BY Zenon, <1>2, <1>7, <2>1, WriteFacts
  <2>7. Becomes(e, s)
    BY ZenonT(60), <1>2, <1>7, <2>3, <2>6, BecomeFacts
  <2>8. streams'["server"] = Append(streams["server"], x)
    <3>1. sess'[Peer(e)] = sess[Peer(e)]
      BY ZenonT(60), <2>7 DEF Becomes
    <3>2. Sent(e, x)
      BY Zenon, <1>2, <1>7, <2>1, <3>1, WriteFacts
    <3> QED BY Zenon, <1>2, <3>2 DEF Sent
  <2>9. streams'[e] = streams[e]
    <3>1. streams[e] = o.buf \o wire[e] /\ streams'[e] = sess'[e].buf \o wire'[e]
      BY Zenon, <1>2, StreamTypes DEF o
    <3> QED BY ZenonT(60), <2>4, <2>6, <2>7, <3>1 DEF Becomes
  <2>10. V2Stream(s, streams'[e], v2peer, restarted)
    <3>1. V2Taken(s) = V2Taken(o)
      BY Zenon, <1>1, <1>3, <2>4 DEF V2Taken
    <3> QED BY ZenonT(60), <1>2, <2>9, <3>1, V2StreamSame
  <2>11. V2Written(s) = V2Written(o) + 1
    BY <1>1, <2>4 DEF V2Written
  <2>12. /\ Calm(streams[e], streams'[e], Promised(e, restarted')) /\ restarted' \in BOOLEAN
         /\ Len(streams'[e]) <= Len(streams[e])
    <3>1. Len(streams[e]) \in Nat
      BY <1>2
    <3> QED BY <1>1, <1>2, <2>9, <3>1 DEF Calm
  <2> QED BY ZenonT(60), <1>1, <1>2, <1>7, <2>1, <2>3, <2>4, <2>5, <2>6, <2>8, <2>10, <2>11, <2>12, V2Act
          DEF o
<1> QED BY Zenon, <1>5, <1>6, <1>7

(* exchange_v2_identity.  Twelve bytes are the greeting of the peer, unless *)
(* the step was begun anew.                                                *)
LEMMA V2Identity ==
    ASSUME IndInv, kind = "v2", NEW e \in Ends, exchange_v2_identity(e)
    PROVE  IndInv'
<1> DEFINE o == sess[e]
           u == streams[e]
           b == SubSeq(o.buf, 3, Len(o.buf))
           s == [o EXCEPT !.buf = b, !.at = "identity"]
           x == Unit("identity", "anonymous", "NULL")
<1>1. /\ Alive(e) /\ o.phase = "HandshakeInProgress" /\ o.sub = "V2IdentityExchange"
      /\ o.at = "start" /\ Len(o.buf) >= 2 /\ setup' = setup /\ v2peer' = v2peer
      /\ counts' = counts /\ restarted' = restarted
  BY Zenon DEF exchange_v2_identity, In, Handshaking, Alive
<1>2. /\ e = "client" /\ Peer(e) = "server" /\ "server" \notin closed /\ e \notin closed
      /\ Typed /\ o \in SessType /\ o.phase # "External" /\ V2Local(setup, o, restarted)
      /\ V2Stream(o, u, v2peer, restarted) /\ u \in Seq(Units) /\ u = o.buf \o wire[e]
      /\ v2peer \in 0..3 /\ restarted \in BOOLEAN /\ setup[3] = agree
      /\ o.buf \in Seq(Units) /\ wire[e] \in Seq(Units)
  BY ZenonT(60), <1>1, V2Alive
<1>3. /\ u # <<>> /\ Tail(u) # <<>> /\ Head(u) = o.buf[1] /\ Head(Tail(u)) = o.buf[2]
      /\ o.buf[2] \in Units /\ b \in Seq(Units) /\ b \o wire[e] = Tail(Tail(u))
  <2> DEFINE c == o.buf
             d == wire[e]
  <2>1. c \in Seq(Units) /\ d \in Seq(Units) /\ Len(c) >= 2 /\ u = c \o d
    BY ZenonT(60), <1>1, <1>2
  <2> HIDE DEF c, d, u
  <2>2. /\ c \o d # <<>> /\ Tail(c \o d) # <<>>
        /\ Head(c \o d) = c[1] /\ Head(Tail(c \o d)) = c[2] /\ c[2] \in Units
        /\ SubSeq(c, 3, Len(c)) \in Seq(Units)
        /\ SubSeq(c, 3, Len(c)) \o d = Tail(Tail(c \o d))
    BY <2>1, SeqTakeTwo, Zenon
  <2> QED BY <2>1, <2>2, Zenon DEF c, d
<1> HIDE DEF u, b
<1> DEFINE v == Tail(Tail(u))
<1>4. /\ v \in Seq(Units) /\ Len(u) \in Nat /\ Len(v) = Len(u) - 2 /\ Len(v) \in Nat
      /\ \A i \in 1..Len(v) : v[i] = u[i + 2]
      /\ 1 \in 1..Len(u) /\ 2 \in 1..Len(u) /\ Head(u) = u[1] /\ Head(Tail(u)) = u[2]
  <2>1. /\ Len(u) \in Nat /\ Len(u) >= 2 /\ Head(u) = u[1] /\ Head(Tail(u)) = u[2]
        /\ v \in Seq(Units) /\ Len(v) = Len(u) - 2
        /\ \A i \in 1..Len(v) : v[i] = u[i + 2]
    BY <1>2, <1>3, TwoOff, Zenon
  <2> HIDE DEF v
  <2> QED BY <2>1
<1>5. V2Taken(o) = 0
  BY Zenon, <1>1 DEF V2Taken
<1>6. ~restarted => Head(u).t = "prelude" /\ Head(Tail(u)).t = "v2tail"
  <2>1. ~restarted => \A i \in 1..Len(u) : V2UnitOK(V2Taken(o) + i, u[i])
    BY Zenon, <1>2 DEF V2Stream
  <2>2. ~restarted => V2UnitOK(1, Head(u)) /\ V2UnitOK(2, Head(Tail(u)))
    BY <1>4, <1>5, <2>1
  <2> QED BY Zenon, <2>2 DEF V2UnitOK
<1>7. \/ /\ agree \/ o.buf[2].t # "v2tail"
         /\ write(e, x) /\ become(e, s) /\ closed' = closed
      \/ /\ ~agree \/ o.buf[2].t # "v2tail"
         /\ set_fatal_error(e, "protocol")
  <2>1. Rest(o, 2) = b
    BY DEF Rest, b
  <2> QED BY Zenon, <2>1 DEF exchange_v2_identity
<1>8. ASSUME ~agree \/ o.buf[2].t # "v2tail", set_fatal_error(e, "protocol")
      PROVE  IndInv'
  <2>1. ~(Compatible /\ ~restarted) /\ "protocol" \in Causes
    BY Zenon, <1>3, <1>6, <1>8 DEF Compatible, Causes
  <2> QED BY Zenon, <1>1, <1>2, <1>8, <2>1, Fatal
<1>9. ASSUME agree \/ o.buf[2].t # "v2tail", write(e, x), become(e, s), closed' = closed
      PROVE  IndInv'
  <2>1. x \in Units /\ Plain(x)
    <3>1. "identity" \in UnitTypes /\ "anonymous" \in Values /\ "NULL" \in Mechanisms
      BY Zenon DEF UnitTypes, Values, Mechanisms
    <3>2. x \in Units /\ x.t = "identity"
      BY Zenon, <3>1 DEF Units, Unit
    <3> QED BY Zenon, <3>2 DEF Plain
  <2>2. "identity" \in Places
    BY Zenon DEF Places
  <2> HIDE DEF o, x
  <2>3. s \in SessType
    BY <1>2, <1>3, <2>2, Zenon DEF SessType
  <2>4. /\ s.phase = o.phase /\ s.sub = o.sub /\ s.at = "identity" /\ s.buf = b
        /\ s.mech = o.mech /\ s.framer = o.framer /\ s.version = o.version /\ s.cause = o.cause
    BY <1>2, <1>3, <2>2, Zenon DEF SessType
  <2> HIDE DEF s
  <2>5. agree \/ restarted
    BY ZenonT(60), <1>3, <1>6, <1>9
  <2>6. V2Local(setup, s, restarted)
    BY Zenon, <1>1, <1>2, <2>4, <2>5 DEF V2Local
  <2>7. wire' \in [Ends -> Seq(Units)] /\ wire'[e] = wire[e]
    BY ZenonT(60), <1>2, <1>9, <2>1, WriteFacts
  <2>8. Becomes(e, s)
    BY Zenon, <1>2, <1>9, <2>3, <2>7, BecomeFacts
  <2>9. streams'["server"] = Append(streams["server"], x)
    <3>1. sess'[Peer(e)] = sess[Peer(e)]
      BY <2>8 DEF Becomes
    <3>2. Sent(e, x)
      BY Zenon, <1>2, <1>9, <2>1, <3>1, WriteFacts
    <3> QED BY ZenonT(60), <1>2, <3>2 DEF Sent
  <2>10. streams'[e] = v
    <3>1. streams'[e] = sess'[e].buf \o wire'[e]
      BY Zenon, <1>2, StreamTypes
    <3> QED BY ZenonT(60), <1>3, <2>4, <2>7, <2>8, <3>1 DEF Becomes
  <2> HIDE DEF v
  <2>11. V2Stream(s, v, v2peer, restarted)
    <3>1. V2Taken(s) = 2
      BY Zenon, <1>1, <2>4 DEF V2Taken
    <3>2. V2Taken(s) = V2Taken(o) + 2 /\ 2 \in Nat
      BY <1>5, <3>1
    <3>3. /\ u \in Seq(Units) /\ v \in Seq(Units) /\ Len(v) = Len(u) - 2
          /\ \A i \in 1..Len(v) : v[i] = u[i + 2]
          /\ V2Stream(o, u, v2peer, restarted) /\ v2peer \in 0..3 /\ restarted \in BOOLEAN
      BY <1>2, <1>4, Zenon
    <3> QED BY ZenonT(60), <3>2, <3>3, V2StreamTake
  <2>12. V2Written(s) = V2Written(o) /\ V2Written(o) = 2
    BY Zenon, <1>1, <2>4 DEF V2Written
  <2>13. Calm(u, v, Promised(e, restarted'))
    <3>1. Promised(e, restarted') => Head(u).t # "data" /\ Head(Tail(u)).t # "data"
      BY Zenon, <1>1, <1>2, <1>6 DEF Promised
    <3> QED BY ZenonT(60), <1>3, <3>1 DEF Calm, v
  <2>14. Len(v) <= Len(u) /\ Len(v) + 2 <= Len(u) /\ restarted' \in BOOLEAN
    <3> DEFINE a == Len(u)
               c == Len(v)
    <3>1. a \in Nat /\ c = a - 2
      BY <1>4, Zenon
    <3> HIDE DEF a, c
    <3>2. c <= a /\ c + 2 <= a
      BY <3>1
    <3> QED BY ZenonT(60), <1>1, <1>2, <3>2 DEF a, c
  <2> QED BY Zenon, <1>1, <1>2, <1>9, <2>1, <2>3, <2>4, <2>6, <2>7, <2>9, <2>10, <2>11, <2>12, <2>13,
            <2>14, V2Act DEF o, u
<1> QED BY Zenon, <1>7, <1>8, <1>9

(* A step of the client that handles and writes nothing.                   *)
LEMMA V2Still ==
    ASSUME IndInv, kind = "v2", NEW e \in Ends, Alive(e), NEW s \in SessType, become(e, s),
           setup' = setup, closed' = closed, v2peer' = v2peer, counts' = counts,
           restarted => restarted', restarted' \in BOOLEAN, wire' \in [Ends -> Seq(Units)],
           streams'[e] = streams[e], wire'[Peer(e)] = wire[Peer(e)],
           s.sub = sess[e].sub, s.at = sess[e].at \/ restarted',
           V2Local(setup, s, restarted'), s.cause = sess[e].cause \/ s.cause # "protocol"
    PROVE  IndInv'
<1> DEFINE o == sess[e]
           u == streams[e]
<1>1. /\ e = "client" /\ Peer(e) = "server" /\ Typed /\ o \in SessType
      /\ V2Stream(o, u, v2peer, restarted) /\ u \in Seq(Units) /\ restarted \in BOOLEAN
  BY Zenon, V2Alive
<1>2. "server" \in Ends /\ e \in Ends
  BY Zenon DEF Ends
<1>3. streams'["server"] = streams["server"]
  <2>1. sess'["server"] = sess["server"]
    BY ZenonT(60), <1>1, <1>2 DEF become, Typed
  <2> QED BY Zenon, <1>1, <1>2, <2>1, StreamTypes
<1>4. V2Stream(s, u, v2peer, restarted')
  <2>1. CASE restarted'
    BY ZenonT(60), <1>1, <2>1 DEF V2Stream
  <2>2. CASE ~restarted'
    <3>1. V2Taken(s) = V2Taken(o) /\ ~restarted
      BY Zenon, <2>2 DEF V2Taken
    <3> QED BY Zenon, <1>1, <2>2, <3>1 DEF V2Stream
  <2> QED BY Zenon, <2>1, <2>2
<1>5. V2Written(s) = V2Written(o)
  BY Zenon DEF V2Written
<1>6. /\ Calm(u, streams'[e], Promised(e, restarted')) /\ Len(streams'[e]) <= Len(u)
  <2>1. Len(u) \in Nat
    BY <1>1
  <2> QED BY <2>1 DEF Calm
<1> QED BY ZenonT(60), <1>1, <1>3, <1>4, <1>5, <1>6, V2Act

(* read_v2_identity_frame.                                                 *)
LEMMA V2Frame ==
    ASSUME IndInv, kind = "v2", NEW e \in Ends, read_v2_identity_frame(e),
           become(e, [handshake_done(sess[e]) EXCEPT !.buf = Tail(@), !.at = "start"]),
           UNCHANGED <<wire, closed>>
    PROVE  IndInv'
<1> DEFINE o == sess[e]
           u == streams[e]
           b == Tail(o.buf)
           h == handshake_done(o)
           s == [h EXCEPT !.buf = Tail(h.buf), !.at = "start"]
<1>1. /\ Alive(e) /\ o.phase = "HandshakeInProgress" /\ o.sub = "V2IdentityExchange"
      /\ o.at = "identity" /\ o.buf # <<>> /\ setup' = setup /\ v2peer' = v2peer
      /\ counts' = counts /\ restarted' = restarted /\ become(e, s) /\ wire' = wire
      /\ closed' = closed
  BY Zenon DEF read_v2_identity_frame, In, Handshaking, Alive
<1>2. /\ e = "client" /\ Peer(e) = "server" /\ Typed /\ o \in SessType
      /\ V2Local(setup, o, restarted) /\ V2Stream(o, u, v2peer, restarted)
      /\ u \in Seq(Units) /\ v2peer \in 0..3 /\ restarted \in BOOLEAN
  BY Zenon, <1>1, V2Alive
<1>3. /\ ~restarted => V2UnitOK(V2Taken(o) + 1, Head(u))
      /\ b \in Seq(Units) /\ u # <<>> /\ b \o wire[e] = Tail(u)
  BY ZenonT(60), <1>1, V2Head
<1>4. /\ h \in SessType /\ h.sub = "Done" /\ h.phase \in {"WaitingForPipes", "Operational"}
      /\ h.buf = o.buf /\ h.mech = o.mech /\ h.version = o.version
      /\ h.framer = o.framer /\ h.cause = o.cause
  BY Zenon, <1>2, DoneFacts
<1>5. "start" \in Places
  BY Zenon DEF Places
<1>6. V2Taken(o) = 2 /\ V2Written(o) = 2
  BY Zenon, <1>1 DEF V2Taken, V2Written
<1> HIDE DEF o, h, u, b
<1>7. s = [h EXCEPT !.buf = b, !.at = "start"]
  BY ZenonT(60), <1>4 DEF b
<1> DEFINE r == [h EXCEPT !.buf = b, !.at = "start"]
<1>8. r \in SessType
  BY <1>3, <1>4, <1>5, Zenon DEF SessType
<1>9. /\ r.phase = h.phase /\ r.sub = h.sub /\ r.at = "start" /\ r.buf = b
      /\ r.mech = h.mech /\ r.framer = h.framer /\ r.version = h.version /\ r.cause = h.cause
  BY <1>3, <1>4, <1>5, Zenon DEF SessType
<1> HIDE DEF s, r
<1>10. V2Local(setup, r, restarted)
  BY Zenon, <1>1, <1>2, <1>4, <1>9 DEF V2Local
<1>11. wire' \in [Ends -> Seq(Units)] /\ become(e, r)
  BY ZenonT(60), <1>1, <1>2, <1>7 DEF Typed, r
<1>12. Becomes(e, r)
  BY Zenon, <1>2, <1>8, <1>11, BecomeFacts
<1>13. streams'["server"] = streams["server"] /\ streams'[e] = Tail(u)
  <2>1. "server" \in Ends /\ sess'[e] = r /\ sess'["server"] = sess["server"]
    BY Zenon, <1>2, <1>12 DEF Becomes, Ends
  <2>2. /\ streams'[e] = sess'[e].buf \o wire'[e]
        /\ streams'["server"] = sess'["server"].buf \o wire'["server"]
        /\ streams["server"] = sess["server"].buf \o wire["server"]
    BY ZenonT(60), <1>2, <2>1, StreamTypes
  <2> QED BY Zenon, <1>1, <1>3, <1>9, <2>1, <2>2
<1> DEFINE v == Tail(u)
<1>14. /\ v \in Seq(Units) /\ Len(u) \in Nat /\ Len(v) = Len(u) - 1
       /\ \A i \in 1..Len(v) : v[i] = u[i + 1]
  BY Zenon, <1>2, <1>3, Behind
<1> HIDE DEF v
<1>15. V2Stream(r, v, v2peer, restarted)
  <2>1. V2Taken(r) = V2Taken(o) + 1 /\ 1 \in Nat
    BY <1>4, <1>6, <1>9 DEF V2Taken
  <2> QED BY Zenon, <1>2, <1>14, <2>1, V2StreamTake
<1>16. V2Written(r) = V2Written(o)
  BY Zenon, <1>4, <1>6, <1>9 DEF V2Written
<1>17. Calm(u, v, Promised(e, restarted'))
  <2>1. ~restarted => Head(u).t = "identity"
    <3>1. ~restarted => V2UnitOK(3, Head(u))
      BY <1>3, <1>6
    <3> QED BY Zenon, <3>1 DEF V2UnitOK
  <2>2. Promised(e, restarted') => Head(u).t # "data"
    BY Zenon, <1>1, <1>2, <2>1 DEF Promised
  <2> QED BY Zenon, <1>3, <2>2 DEF Calm, v
<1>18. Len(v) <= Len(u)
  BY <1>14
<1>19. streams'[e] = v /\ restarted' \in BOOLEAN
  BY Zenon, <1>1, <1>2, <1>13 DEF v
<1> QED BY ZenonT(60), <1>1, <1>2, <1>4, <1>8, <1>9, <1>10, <1>11, <1>13, <1>15, <1>16, <1>17, <1>18, <1>19,
          V2Act DEF o, u

(* ... and a frame that is no identity.                                    *)
LEMMA V2NoFrame ==
    ASSUME IndInv, kind = "v2", NEW e \in Ends, read_v2_identity_frame(e),
           Head(sess[e].buf).t # "identity", set_fatal_error(e, "protocol")
    PROVE  IndInv'
<1>1. /\ Alive(e) /\ sess[e].sub = "V2IdentityExchange" /\ sess[e].at = "identity"
      /\ sess[e].buf # <<>> /\ sess[e].phase # "External"
      /\ setup' = setup /\ v2peer' = v2peer /\ counts' = counts /\ restarted' = restarted
  BY Zenon DEF read_v2_identity_frame, In, Handshaking, Alive
<1>2. ~restarted => V2UnitOK(V2Taken(sess[e]) + 1, Head(sess[e].buf))
  BY Zenon, <1>1, V2Head
<1>3. V2Taken(sess[e]) + 1 = 3
  BY <1>1 DEF V2Taken
<1>4. restarted
  BY Zenon, <1>2, <1>3 DEF V2UnitOK
<1>5. "protocol" \in Causes /\ ~(Compatible /\ ~restarted)
  BY Zenon, <1>4 DEF Causes
<1> QED BY Zenon, <1>1, <1>5, Fatal

(* read_buf.                                                               *)
LEMMA V2Read ==
    ASSUME IndInv, kind = "v2", NEW e \in Ends, read_buf(e)
    PROVE  IndInv'
<1> DEFINE o == sess[e]
           s == sess'[e]
<1>1. PICK n \in 1..Len(wire[e]) :
          /\ become(e, [sess[e] EXCEPT !.buf = @ \o SubSeq(wire[e], 1, n)])
          /\ wire' = [wire EXCEPT ![e] = SubSeq(@, n + 1, Len(@))]
  BY Zenon DEF read_buf
<1>2. /\ Alive(e) /\ (o.phase = "HandshakeInProgress" => o.sub # "GreetingExchange")
      /\ setup' = setup /\ closed' = closed /\ v2peer' = v2peer /\ counts' = counts
      /\ restarted' = restarted
  <2>1. /\ Reads(e) /\ setup' = setup /\ closed' = closed /\ v2peer' = v2peer
        /\ counts' = counts /\ restarted' = restarted
    BY Zenon DEF read_buf
  <2>2. Alive(e)
    BY Zenon, <2>1 DEF Reads, Handshaking, Operational, Alive
  <2>3. ASSUME o.phase = "HandshakeInProgress" PROVE o.sub # "GreetingExchange"
    <3>1. SUFFICES ASSUME o.sub = "GreetingExchange" PROVE FALSE
      BY Zenon
    <3>2. Wanted(e) = 0
      BY ZenonT(60), <2>3, <3>1 DEF Wanted, Operational
    <3>3. Len(sess[e].buf) \in Nat
      BY <2>2, Running
    <3> QED BY <2>1, <3>2, <3>3 DEF Reads
  <2> QED BY Zenon, <2>1, <2>2, <2>3
<1>3. Typed /\ V2Local(setup, o, restarted) /\ restarted \in BOOLEAN
  BY Zenon, <1>2, V2Alive
<1>4. /\ become(e, s) /\ s \in SessType /\ wire' \in [Ends -> Seq(Units)]
      /\ streams'[e] = streams[e] /\ wire'[Peer(e)] = wire[Peer(e)]
      /\ s.phase = o.phase /\ s.sub = o.sub /\ s.at = o.at /\ s.mech = o.mech
      /\ s.version = o.version /\ s.framer = o.framer /\ s.cause = o.cause
  BY ZenonT(60), <1>1, <1>3, ReadFacts
<1> HIDE DEF s, o
<1>5. V2Local(setup, s, restarted)
  <2>1. o.sub # "GreetingExchange"
    BY Zenon, <1>2, <1>3 DEF V2Local, Alive, o
  <2> QED BY Zenon, <1>3, <1>4, <2>1 DEF V2Local
<1> QED BY ZenonT(60), <1>2, <1>3, <1>4, <1>5, V2Still DEF o

(* initialize_pipes and any other event of the bus: the future of an       *)
(* identity exchange may be lost.                                          *)
LEMMA V2Dropped ==
    ASSUME IndInv, kind = "v2", NEW e \in Ends, Alive(e), NEW s \in SessType, become(e, s),
           wire' = wire, restarted' = (restarted \/ sess[e].at = "identity"),
           setup' = setup, closed' = closed, v2peer' = v2peer, counts' = counts,
           sess[e].phase \in {"HandshakeInProgress", "WaitingForPipes"},
           \/ s.phase = sess[e].phase
           \/ sess[e].phase = "WaitingForPipes" /\ s.phase = "Operational",
           s.sub = sess[e].sub, s.at = "start", s.buf = sess[e].buf, s.mech = sess[e].mech,
           s.version = sess[e].version, s.framer = sess[e].framer, s.cause = sess[e].cause
    PROVE  IndInv'
<1> DEFINE o == sess[e]
<1>1. /\ Typed /\ o \in SessType /\ V2Local(setup, o, restarted) /\ restarted \in BOOLEAN
  BY Zenon, V2Alive
<1>2. s.at = o.at \/ restarted'
  <2>1. o.at \in Places
    BY <1>1, Zenon DEF SessType
  <2> QED BY Zenon, <2>1 DEF Places
<1>3. V2Local(setup, s, restarted')
  BY Zenon, <1>1, <1>2 DEF V2Local
<1>4. wire' \in [Ends -> Seq(Units)] /\ wire'[Peer(e)] = wire[Peer(e)] /\ restarted' \in BOOLEAN
  BY Zenon, <1>1 DEF Typed
<1>5. streams'[e] = streams[e]
  <2>1. sess'[e] = s
    BY Zenon, <1>1 DEF become, Typed
  <2>2. streams[e] = o.buf \o wire[e] /\ streams'[e] = sess'[e].buf \o wire'[e]
    BY Zenon, <1>1, StreamTypes
  <2> QED BY Zenon, <2>1, <2>2
<1> QED BY ZenonT(60), <1>1, <1>2, <1>3, <1>4, <1>5, V2Still

(* initialize_pipes.                                                       *)
LEMMA V2Pipes ==
    ASSUME IndInv, kind = "v2", NEW e \in Ends, initialize_pipes(e)
    PROVE  IndInv'
<1> DEFINE o == sess[e]
           d == drop_future(o)
           f == IF d.phase = "WaitingForPipes" THEN "Operational" ELSE d.phase
           s == [d EXCEPT !.attached = TRUE, !.phase = f]
<1>1. /\ Alive(e) /\ o.phase \in {"HandshakeInProgress", "WaitingForPipes"}
      /\ become(e, s) /\ wire' = wire /\ restarted' = (restarted \/ o.at = "identity")
      /\ setup' = setup /\ closed' = closed /\ v2peer' = v2peer /\ counts' = counts
  BY Zenon DEF initialize_pipes, Alive, Restarts
<1>2. o \in SessType
  BY ZenonT(60), <1>1, Running
<1> HIDE DEF o
<1>3. /\ d \in SessType /\ d.phase = o.phase /\ d.sub = o.sub /\ d.at = "start"
      /\ d.buf = o.buf /\ d.mech = o.mech /\ d.version = o.version /\ d.framer = o.framer
      /\ d.cause = o.cause
  <2>1. "start" \in Places
    BY DEF Places
  <2> QED BY <1>2, <2>1, Zenon DEF drop_future, SessType
<1>4. f \in Phases /\ (f = o.phase \/ (o.phase = "WaitingForPipes" /\ f = "Operational"))
  BY Zenon, <1>1, <1>3 DEF Phases
<1> HIDE DEF d, f
<1>5. TRUE \in Flags
  BY Zenon DEF Flags
<1>6. s \in SessType
  BY <1>3, <1>4, <1>5, Zenon DEF SessType
<1>7. /\ s.phase = f /\ s.sub = d.sub /\ s.at = d.at /\ s.buf = d.buf /\ s.mech = d.mech
      /\ s.version = d.version /\ s.framer = d.framer /\ s.cause = d.cause
  BY <1>3, Zenon DEF SessType
<1> HIDE DEF s
<1> QED BY ZenonT(60), <1>1, <1>3, <1>4, <1>6, <1>7, V2Dropped DEF o

(* process_other_event.                                                    *)
LEMMA V2Event ==
    ASSUME IndInv, kind = "v2", NEW e \in Ends, process_other_event(e)
    PROVE  IndInv'
<1> DEFINE o == sess[e]
           d == drop_future(o)
<1>1. /\ Alive(e) /\ o.phase \in {"HandshakeInProgress", "WaitingForPipes"}
      /\ become(e, d) /\ wire' = wire /\ restarted' = (restarted \/ o.at = "identity")
      /\ setup' = setup /\ closed' = closed /\ v2peer' = v2peer /\ counts' = counts
  BY Zenon DEF process_other_event, Alive, Restarts, Handshaking
<1>2. o \in SessType
  BY ZenonT(60), <1>1, Running
<1> HIDE DEF o
<1>3. /\ d \in SessType /\ d.phase = o.phase /\ d.sub = o.sub /\ d.at = "start"
      /\ d.buf = o.buf /\ d.mech = o.mech /\ d.version = o.version /\ d.framer = o.framer
      /\ d.cause = o.cause
  <2>1. "start" \in Places
    BY DEF Places
  <2> QED BY <1>2, <2>1, Zenon DEF drop_future, SessType
<1> HIDE DEF d
<1> QED BY Zenon, <1>1, <1>3, V2Dropped DEF o

(* transition_to_shutdown_stream.                                          *)
LEMMA V2Shut ==
    ASSUME IndInv, kind = "v2", NEW e \in Ends, Alive(e), NEW why \in Causes, why # "protocol",
           Leaves(e, transition_to_shutdown_stream(sess[e], why)), wire' = wire
    PROVE  IndInv'
<1> DEFINE o == sess[e]
           s == [o EXCEPT !.phase = "ShuttingDownStream", !.cause = why]
<1>1. /\ Typed /\ o \in SessType /\ V2Local(setup, o, restarted) /\ restarted \in BOOLEAN
      /\ wire \in [Ends -> Seq(Units)]
  BY Zenon, V2Alive DEF Typed
<1>2. Leaves(e, s)
  BY Zenon DEF transition_to_shutdown_stream
<1>3. "ShuttingDownStream" \in Phases
  BY Zenon DEF Phases
<1> HIDE DEF o
<1>4. s \in SessType
  BY <1>1, <1>3, Zenon DEF SessType
<1>5. /\ s.phase = "ShuttingDownStream" /\ s.sub = o.sub /\ s.at = o.at /\ s.buf = o.buf
      /\ s.mech = o.mech /\ s.version = o.version /\ s.framer = o.framer /\ s.cause = why
  BY <1>1, Zenon DEF SessType
<1> HIDE DEF s
<1>6. V2Local(setup, s, restarted)
  BY Zenon, <1>1, <1>5 DEF V2Local
<1>7. streams'[e] = streams[e]
  <2>1. sess'[e] = s
    BY Zenon, <1>1, <1>2 DEF Leaves, become, Typed
  <2>2. streams[e] = o.buf \o wire[e] /\ streams'[e] = sess'[e].buf \o wire'[e]
    BY Zenon, <1>1, StreamTypes DEF o
  <2> QED BY Zenon, <1>5, <2>1, <2>2
<1> QED BY <1>1, <1>2, <1>4, <1>5, <1>6, <1>7, V2Still DEF o, Leaves

(* The bound, when a message is written or handled.                        *)
LEMMA V2Counted ==
    ASSUME NEW o, NEW s, NEW a \in Nat, NEW b \in Nat, NEW c \in Nat, NEW d \in Nat,
           NEW v \in 0..3, NEW n \in Nat, NEW m \in Nat, V2Written(s) = V2Written(o),
           V2Few(o, a, b, v, n, m)
    PROVE  /\ c = a /\ d = b + 1 => V2Few(s, c, d, v, n, m + 1)
           /\ c <= a /\ d = b => V2Few(s, c, d, v, n, m)
<1> DEFINE k == V2Written(o)
<1>1. k \in 0..2 /\ V2Written(s) = k
  BY Zenon, V2Numbers
<1>2. a <= v + n /\ a + 2 * b <= v + n + 2 * k + 2 * m
  BY Zenon DEF V2Few
<1> HIDE DEF k
<1>3. c = a /\ d = b + 1 => c <= v + n /\ c + 2 * d <= v + n + 2 * k + 2 * (m + 1)
  BY <1>1, <1>2
<1>4. c <= a /\ d = b => c <= v + n /\ c + 2 * d <= v + n + 2 * k + 2 * m
  BY <1>1, <1>2
<1> QED BY ZenonT(60), <1>1, <1>3, <1>4 DEF V2Few

(* write_data_msgs.                                                        *)
LEMMA V2Message ==
    ASSUME IndInv, kind = "v2", NEW e \in Ends, write_data_msgs(e)
    PROVE  IndInv'
<1> DEFINE s == sess[e]
           x == Unit("data", sent[e] + 1, s.framer)
           u == streams["client"]
           q == streams["server"]
<1>1. /\ Operational(e) /\ sent[e] < MaxData /\ sent' = [sent EXCEPT ![e] = @ + 1]
      /\ write(e, x) /\ setup' = setup /\ sess' = sess /\ closed' = closed
      /\ v2peer' = v2peer /\ got' = got /\ pings' = pings /\ restarted' = restarted
  BY Zenon DEF write_data_msgs
<1>2. Alive(e)
  BY Zenon, <1>1 DEF Operational, Alive
<1>3. /\ e = "client" /\ Peer(e) = "server" /\ "server" \notin closed /\ e \notin closed
      /\ Typed /\ s \in SessType /\ s.phase # "External" /\ V2Local(setup, s, restarted)
      /\ V2Stream(s, u, v2peer, restarted) /\ u \in Seq(Units)
      /\ v2peer \in 0..3 /\ restarted \in BOOLEAN
  BY ZenonT(60), <1>2, V2Alive
<1>4. /\ q \in Seq(Units) /\ sent["client"] \in Nat /\ sent["server"] \in Nat
      /\ V2Back(s, q, v2peer) /\ V2NoData(q, v2peer)
      /\ V2Few(s, Len(u), Len(q), v2peer, sent["server"], sent["client"])
  BY Zenon, <1>3, V2Running, V2Open
<1>5. s.framer \in Mechanisms
  BY Zenon, <1>3 DEF SessType
<1>6. V2Written(s) = 2
  BY Zenon, <1>1, <1>3 DEF V2Local, V2Written, Operational
<1>7. x \in Units
  <2>1. sent[e] + 1 \in Values /\ "data" \in UnitTypes
    BY <1>3, <1>4 DEF Values, UnitTypes
  <2> QED BY ZenonT(60), <1>5, <2>1 DEF Unit, Units
<1> HIDE DEF x
<1>8. wire' \in [Ends -> Seq(Units)] /\ wire'[e] = wire[e] /\ Sent(e, x)
  BY Zenon, <1>1, <1>3, <1>7, WriteFacts
<1>9. Becomes("client", s)
  BY ZenonT(60), <1>1, <1>3, <1>8 DEF Becomes, Typed
<1>10. streams'[e] = streams[e]
  BY Zenon, <1>1, <1>3, <1>8, StreamTypes
<1>11. streams'["server"] = Append(q, x)
  BY Zenon, <1>3, <1>8 DEF Sent
<1>12. /\ Unlost(setup, streams, closed, got, sent, restarted)'
       /\ sent' \in [Ends -> 0..MaxData] /\ sent'["client"] = sent["client"] + 1
       /\ sent'["server"] = sent["server"]
  <2>1. Sent(e, Unit("data", sent[e] + 1, s.framer))
    BY Zenon, <1>8 DEF x
  <2>2. Unlost(setup, streams, closed, got, sent, restarted)
    BY Zenon DEF IndInv
  <2>3. /\ Unlost(setup, streams, closed, got, sent, restarted)'
        /\ sent' \in [Ends -> 0..MaxData] /\ sent'[e] = sent[e] + 1
        /\ sent'[Peer(e)] = sent[Peer(e)]
    BY ZenonT(60), <1>1, <1>3, <1>5, <1>10, <2>1, <2>2, WriteOrder
  <2> QED BY Zenon, <1>3, <2>3
<1>13. /\ pings' \in [Ends -> 0..MaxPings] /\ got' \in [Ends -> Seq(Values)]
       /\ got'["server"] = got["server"]
  BY Zenon, <1>1, <1>3 DEF Typed
<1>14. V2Back(s, Append(q, x), v2peer) /\ V2NoData(Append(q, x), v2peer)
  BY <1>3, <1>4, <1>6, <1>7, V2BackWrite, Zenon
<1>15. V2Few(s, Len(u), Len(Append(q, x)), v2peer, sent["server"], sent["client"] + 1)
  <2>1. Len(u) \in Nat /\ Len(q) \in Nat
    BY ZenonT(60), <1>3, <1>4, Lengths
  <2>2. Len(Append(q, x)) = Len(q) + 1
    BY <1>4, <1>7, Added
  <2>3. Len(q) + 1 \in Nat
    BY <2>1
  <2> HIDE DEF u, q, s
  <2> QED BY Zenon, <1>3, <1>4, <2>1, <2>2, <2>3, V2Counted
<1>16. u = streams'["client"]
  BY Zenon, <1>3, <1>10
<1> QED BY ZenonT(60), <1>1, <1>3, <1>9, <1>11, <1>12, <1>13, <1>14, <1>15, <1>16, V2Step

(* handle_incoming_from_network.                                           *)
LEMMA V2Handle ==
    ASSUME IndInv, kind = "v2", NEW e \in Ends, handle_incoming_from_network(e)
    PROVE  IndInv'
<1> DEFINE o == sess[e]
           h == Head(o.buf)
           b == Tail(o.buf)
           s == [o EXCEPT !.buf = b]
           u == streams["client"]
           q == streams["server"]
<1>1. /\ Operational(e) /\ o.buf # <<>> /\ setup' = setup /\ v2peer' = v2peer
      /\ restarted' = restarted
  BY Zenon DEF handle_incoming_from_network
<1>2. Alive(e)
  BY Zenon, <1>1 DEF Operational, Alive
<1>3. /\ e = "client" /\ Peer(e) = "server" /\ "server" \notin closed /\ e \notin closed
      /\ Typed /\ o \in SessType /\ o.phase # "External" /\ V2Local(setup, o, restarted)
      /\ V2Stream(o, u, v2peer, restarted) /\ u \in Seq(Units)
      /\ v2peer \in 0..3 /\ restarted \in BOOLEAN /\ "server" \in Ends
  <2>1. "server" \in Ends
    BY Zenon DEF Ends
  <2> QED BY Zenon, <1>2, <2>1, V2Alive
<1>4. /\ q \in Seq(Units) /\ sent["client"] \in Nat /\ sent["server"] \in Nat
      /\ V2Back(o, q, v2peer) /\ V2NoData(q, v2peer)
      /\ V2Few(o, Len(u), Len(q), v2peer, sent["server"], sent["client"])
  BY Zenon, <1>3, V2Running, V2Open
<1>5. /\ o.sub = "Done" /\ o.framer = "NULL"
  BY ZenonT(60), <1>1, <1>3 DEF V2Local, Operational
<1>6. /\ h \in Units /\ b \in Seq(Units) /\ u # <<>> /\ Head(u) = h
      /\ b \o wire[e] = Tail(u)
  BY Zenon, <1>1, <1>2, <1>3, V2Head
<1>7. /\ h.key = "NULL" /\ h.t \notin Commands /\ (~restarted => h.t = "data")
      /\ \A r : r.sub = "Done" => V2Stream(r, Tail(u), v2peer, restarted)
  <2> HIDE DEF o, u, h
  <2>1. /\ Head(u).key = "NULL" /\ Head(u).t \notin Commands
        /\ ~restarted => Head(u).t = "data"
    BY Zenon, <1>3, <1>5, <1>6, V2StreamHandle
  <2>2. ASSUME NEW r, r.sub = "Done" PROVE V2Stream(r, Tail(u), v2peer, restarted)
    BY ZenonT(60), <1>3, <1>5, <1>6, <2>2, V2StreamHandle
  <2> QED BY ZenonT(60), <1>6, <2>1, <2>2
<1>8. h.t # "PING" /\ h.t # "PONG"
  BY Zenon, <1>7 DEF Commands
<1>9. s.framer = o.framer
  BY <1>3, Zenon DEF SessType
<1>10. /\ become(e, s) /\ closed' = closed /\ sent' = sent /\ pings' = pings /\ wire' = wire
       /\ got' = [got EXCEPT ![e] = IF h.t \in Commands THEN @
                                    ELSE Append(@, IF h.t = "data" THEN h.v ELSE 0)]
  <2>1. ~(h.key # s.framer \/ (h.t \in Commands /\ s.version = "V2"))
    BY ZenonT(60), <1>5, <1>7, <1>9
  <2> QED BY <1>8, <2>1, Zenon DEF handle_incoming_from_network
<1> HIDE DEF h, b, o
<1>11. /\ s \in SessType /\ s.phase = o.phase /\ s.sub = o.sub /\ s.at = o.at /\ s.buf = b
       /\ s.mech = o.mech /\ s.version = o.version /\ s.framer = o.framer /\ s.cause = o.cause
  BY <1>3, <1>6, Zenon DEF SessType
<1> HIDE DEF s
<1>12. V2Local(setup, s, restarted)
  <2>1. s.sub # "GreetingExchange"
    BY Zenon, <1>5, <1>11
  <2> QED BY ZenonT(60), <1>3, <1>11, <2>1 DEF V2Local
<1>13. Becomes(e, s)
  <2>1. wire' \in [Ends -> Seq(Units)]
    BY Zenon, <1>3, <1>10 DEF Typed
  <2> QED BY ZenonT(60), <1>3, <1>10, <1>11, <2>1, BecomeFacts
<1>14. streams'["client"] = Tail(u) /\ streams'["server"] = q
  <2>1. streams'[e] = sess'[e].buf \o wire'[e]
    BY Zenon, <1>3, StreamTypes
  <2>2. streams'["client"] = Tail(u)
    BY ZenonT(60), <1>3, <1>6, <1>10, <1>11, <1>13, <2>1 DEF Becomes
  <2>3. /\ streams["server"] = sess["server"].buf \o wire["server"]
        /\ streams'["server"] = sess'["server"].buf \o wire'["server"]
    BY Zenon, <1>3, StreamTypes
  <2>4. sess'["server"] = sess["server"]
    BY Zenon, <1>3, <1>13 DEF Becomes
  <2> QED BY ZenonT(60), <1>10, <2>2, <2>3, <2>4
<1>15. /\ Unlost(setup, streams, closed, got, sent, restarted)'
       /\ got' \in [Ends -> Seq(Values)] /\ got'["server"] = got["server"]
  <2>1. Grows(streams[Peer(e)], streams'[Peer(e)])
    BY ZenonT(60), <1>3, <1>14 DEF Grows
  <2>2. Promised(e, restarted) => h.t \in Commands \cup {"data"}
    BY Zenon, <1>3, <1>7 DEF Promised
  <2>3. Unlost(setup, streams, closed, got, sent, restarted)
    BY DEF IndInv
  <2>4. /\ h = Head(streams[e]) /\ streams[e] # <<>> /\ streams'[e] = Tail(streams[e])
    BY ZenonT(60), <1>3, <1>6, <1>14
  <2>5. /\ Unlost(setup, streams, closed, got, sent, restarted)'
        /\ got' \in [Ends -> Seq(Values)] /\ got'[Peer(e)] = got[Peer(e)]
    BY Zenon, <1>1, <1>3, <1>10, <2>1, <2>2, <2>3, <2>4, HandleOrder
  <2> QED BY Zenon, <1>3, <2>5
<1>16. /\ pings' \in [Ends -> 0..MaxPings] /\ sent' \in [Ends -> 0..MaxData]
       /\ sent'["client"] = sent["client"] /\ sent'["server"] = sent["server"]
  BY ZenonT(60), <1>3, <1>10 DEF Typed
<1>17. V2Written(s) = V2Written(o)
  BY Zenon, <1>11 DEF V2Written
<1>18. V2Few(s, Len(Tail(u)), Len(q), v2peer, sent["server"], sent["client"])
  <2> DEFINE a == Len(u)
             c == Len(Tail(u))
             d == Len(q)
  <2>1. a \in Nat /\ a # 0 /\ c = a - 1 /\ d \in Nat
    BY ZenonT(60), <1>3, <1>4, <1>6, Behind, Lengths
  <2>2. V2Few(o, a, d, v2peer, sent["server"], sent["client"])
    BY Zenon, <1>4
  <2> HIDE DEF a, c, d
  <2>3. c \in Nat /\ c <= a
    BY <2>1
  <2>4. V2Few(s, c, d, v2peer, sent["server"], sent["client"])
    BY ZenonT(60), <1>3, <1>4, <1>17, <2>1, <2>2, <2>3, V2Counted
  <2> QED BY ZenonT(60), <2>4 DEF c, d
<1>19. V2Back(s, q, v2peer)
  BY ZenonT(60), <1>4, <1>17 DEF V2Back
<1>20. V2Stream(s, Tail(u), v2peer, restarted)
  BY Zenon, <1>5, <1>7, <1>11
<1> HIDE DEF u, q
<1>21. /\ Becomes("client", s) /\ "client" \notin closed /\ sess["client"].phase # "External"
       /\ s.cause = sess["client"].cause
  BY ZenonT(60), <1>3, <1>11, <1>13 DEF o
<1> QED BY Zenon, <1>1, <1>3, <1>4, <1>10, <1>11, <1>12, <1>14, <1>15, <1>16, <1>18, <1>19, <1>20, <1>21,
        V2Step
(* A step of the ZMTP/2.0 peer.                                            *)
LEMMA V2PeerStep ==
    ASSUME IndInv, kind = "v2", sess' = sess, setup' = setup, closed' = closed, got' = got,
           pings' = pings, restarted' = restarted, wire' \in [Ends -> Seq(Units)],
           v2peer' \in 0..3, sent' \in [Ends -> 0..MaxData],
           Unlost(setup, streams, closed, got, sent, restarted)',
           "client" \in closed => streams'["client"] = streams["client"],
           "client" \notin closed =>
              /\ V2Stream(sess["client"], streams'["client"], v2peer', restarted)
              /\ V2Back(sess["client"], streams'["server"], v2peer'),
           V2NoData(streams'["server"], v2peer'),
           V2Few(sess["client"], Len(streams'["client"]), Len(streams'["server"]), v2peer',
                 sent'["server"], sent'["client"])
    PROVE  IndInv'
<1>1. /\ Typed /\ NoSpuriousError /\ ClosedInv(sess, streams, closed)
      /\ V2Inv(setup, sess, streams, closed, v2peer, sent, got, restarted)
  BY Zenon DEF IndInv
<1>2. Typed'
  BY Zenon, <1>1 DEF Typed, setup
<1>3. NoSpuriousError'
  <2>1. Compatible' = Compatible
    BY DEF Compatible, setup
  <2> QED BY Zenon, <1>1, <2>1 DEF NoSpuriousError
<1>4. "server" \notin closed /\ closed \subseteq {"client", "server"}
  BY Zenon, <1>1 DEF V2Inv, Typed, Ends
<1>5. ClosedInv(sess, streams, closed)'
  BY ZenonT(60), <1>1, <1>4 DEF ClosedInv
<1>6. V2Inv(setup, sess, streams', closed, v2peer', sent', got, restarted)
  BY <1>1, Zenon DEF V2Inv
<1>7. kind' = "v2"
  BY Zenon DEF setup
<1> QED BY Zenon, <1>2, <1>3, <1>5, <1>6, <1>7 DEF IndInv

(* The bound, when the peer has written a unit.                            *)
LEMMA V2PeerBound ==
    ASSUME NEW s, NEW a \in Nat, NEW b \in Nat, NEW c \in Nat, NEW d \in Nat,
           NEW v \in 0..3, NEW w \in 0..3, NEW n \in Nat, NEW l \in Nat, NEW m \in Nat,
           c <= a + 1, d <= b, w + l = v + n + 1, V2Few(s, a, b, v, n, m)
    PROVE  V2Few(s, c, d, w, l, m)
<1> DEFINE k == V2Written(s)
<1>1. k \in 0..2
  BY Zenon, V2Numbers
<1>2. a <= v + n /\ a + 2 * b <= v + n + 2 * k + 2 * m
  BY Zenon DEF V2Few
<1> HIDE DEF k
<1>3. c <= w + l /\ c + 2 * d <= w + l + 2 * k + 2 * m
  BY <1>1, <1>2
<1> QED BY Zenon, <1>3 DEF V2Few, k

(* The peer has seen a unit.                                               *)
LEMMA V2BackSeen ==
    ASSUME NEW q \in Seq(Units), q # <<>>, NEW v \in {1, 2}, V2NoData(q, v)
    PROVE  /\ Head(q).t # "data" /\ V2NoData(Tail(q), v + 1)
           /\ \A s : V2Back(s, q, v) => V2Back(s, Tail(q), v + 1)
<1> DEFINE l == Len(q)
           t == Tail(q)
           m == V2Seen(v)
<1>1. /\ l \in Nat \ {0} /\ Len(t) = l - 1 /\ Head(q) = q[1]
      /\ \A i \in 1..(l - 1) : t[i] = q[i + 1]
  BY Zenon, Behind
<1>2. m \in 0..1 /\ V2Seen(v + 1) = m + 1
  BY DEF V2Seen
<1>3. \A i \in 1..l : m + i <= 2 => q[i].t # "data"
  BY Zenon DEF V2NoData
<1> HIDE DEF l, t, m
<1>4. Head(q).t # "data"
  <2>1. 1 \in 1..l /\ m + 1 <= 2
    BY <1>1, <1>2
  <2> QED BY Zenon, <1>1, <1>3, <2>1
<1>5. V2NoData(t, v + 1)
  <2>1. ASSUME NEW i \in 1..(l - 1), (m + 1) + i <= 2 PROVE t[i].t # "data"
    <3>1. i + 1 \in 1..l /\ m + (i + 1) <= 2
      BY <1>1, <1>2, <2>1
    <3> QED BY Zenon, <1>1, <1>3, <3>1
  <2> QED BY Zenon, <1>1, <1>2, <2>1 DEF V2NoData
<1>6. ASSUME NEW s, V2Back(s, q, v) PROVE V2Back(s, t, v + 1)
  <2> DEFINE k == V2Written(s)
  <2>1. k \in 0..2 /\ (k < 2 => m + l = k) /\ (k = 2 => m + l >= 2)
    BY Zenon, <1>6, V2Numbers DEF V2Back, m, l
  <2> HIDE DEF k
  <2>2. (k < 2 => (m + 1) + (l - 1) = k) /\ (k = 2 => (m + 1) + (l - 1) >= 2)
    BY <1>1, <1>2, <2>1
  <2> QED BY Zenon, <1>1, <1>2, <2>2 DEF V2Back, k
<1> QED BY Zenon, <1>4, <1>5, <1>6 DEF t

(* The unit that the peer writes after v others.                           *)
V2Unit(v) ==
    IF v = 0 THEN Unit("prelude", "0x01", "NULL")
    ELSE IF v = 1 THEN Unit("v2tail", "type", "NULL") ELSE Unit("identity", "anonymous", "NULL")

(* It is the one the invariant expects.                                    *)
LEMMA V2UnitFacts ==
    ASSUME NEW v \in 0..2
    PROVE  /\ V2Unit(v) \in Units /\ Plain(V2Unit(v)) /\ V2Unit(v).key = "NULL"
           /\ V2Unit(v).t \notin Commands /\ V2UnitOK(v + 1, V2Unit(v)) /\ v + 1 \in 0..3
<1>1. /\ "prelude" \in UnitTypes /\ "v2tail" \in UnitTypes /\ "identity" \in UnitTypes
      /\ "0x01" \in Values /\ "type" \in Values /\ "anonymous" \in Values
      /\ "NULL" \in Mechanisms
  BY Zenon DEF UnitTypes, Values, Mechanisms
<1>2. CASE v = 0
  <2>1. /\ V2Unit(v) \in Units /\ V2Unit(v).t = "prelude" /\ V2Unit(v).v = "0x01"
        /\ V2Unit(v).key = "NULL"
    BY Zenon, <1>1, <1>2 DEF V2Unit, Unit, Units
  <2> QED BY <1>2, <2>1 DEF Plain, Commands, V2UnitOK
<1>3. CASE v = 1
  <2>1. V2Unit(v) \in Units /\ V2Unit(v).t = "v2tail" /\ V2Unit(v).key = "NULL"
    BY <1>1, <1>3 DEF V2Unit, Unit, Units
  <2> QED BY <1>3, <2>1 DEF Plain, Commands, V2UnitOK
<1>4. CASE v = 2
  <2>1. V2Unit(v) \in Units /\ V2Unit(v).t = "identity" /\ V2Unit(v).key = "NULL"
    BY <1>1, <1>4 DEF V2Unit, Unit, Units
  <2> QED BY <1>4, <2>1 DEF Plain, Commands, V2UnitOK
<1> QED BY <1>2, <1>3, <1>4

(* What the peer has written is the next unit ahead of the client.         *)
V2Adds(x) ==
    streams'["client"] = IF "client" \in closed THEN streams["client"]
                         ELSE Append(streams["client"], x)

(* The invariant of the streams after such a write.                        *)
LEMMA V2Writes ==
    ASSUME IndInv, kind = "v2", sess["server"].phase = "External", sess' = sess,
           setup' = setup, closed' = closed, got' = got,
           pings' = pings, restarted' = restarted, wire' \in [Ends -> Seq(Units)],
           v2peer' \in 0..3, sent' \in [Ends -> 0..MaxData],
           sent'["client"] = sent["client"],
           v2peer' + sent'["server"] = v2peer + sent["server"] + 1,
           Unlost(setup, streams, closed, got, sent, restarted)',
           NEW x \in Units, x.key = "NULL", x.t \notin Commands, V2Adds(x),
           \/ v2peer < 3 /\ v2peer' = v2peer + 1 /\ V2UnitOK(v2peer', x)
           \/ v2peer = 3 /\ v2peer' = 3 /\ x.t = "data",
           \/ streams'["server"] = streams["server"] /\ V2Seen(v2peer') = V2Seen(v2peer)
           \/ /\ v2peer \in {1, 2} /\ v2peer' = v2peer + 1 /\ streams["server"] # <<>>
              /\ streams'["server"] = Tail(streams["server"])
    PROVE  IndInv'
<1> DEFINE s == sess["client"]
           u == streams["client"]
           t == streams'["client"]
           q == streams["server"]
           r == streams'["server"]
           w == v2peer'
           l == sent'["server"]
<1>1. "client" \in Ends /\ "server" \in Ends
  BY Zenon DEF Ends
<1>2. /\ Typed /\ V2Inv(setup, sess, streams, closed, v2peer, sent, got, restarted)
  BY Zenon DEF IndInv
<1>3. /\ u \in Seq(Units) /\ q \in Seq(Units) /\ v2peer \in 0..3 /\ restarted \in BOOLEAN
      /\ sent["client"] \in Nat /\ sent["server"] \in Nat /\ l \in Nat
  <2>1. u \in Seq(Units) /\ q \in Seq(Units)
    BY Zenon, <1>1, <1>2, StreamTypes
  <2>2. v2peer \in 0..3 /\ restarted \in BOOLEAN
    BY ZenonT(60), <1>2 DEF Typed
  <2>3. sent["client"] \in Nat /\ sent["server"] \in Nat /\ l \in Nat
    BY <1>1, <1>2, ConstantsAssumption DEF Typed
  <2> QED BY ZenonT(60), <2>1, <2>2, <2>3
<1>4. /\ V2NoData(q, v2peer)
      /\ V2Few(s, Len(u), Len(q), v2peer, sent["server"], sent["client"])
      /\ "client" \notin closed => V2Stream(s, u, v2peer, restarted) /\ V2Back(s, q, v2peer)
  BY <1>2, Zenon DEF V2Inv
<1>5. "client" \notin closed => V2Stream(s, t, w, restarted)
  <2>1. ASSUME "client" \notin closed PROVE V2Stream(s, t, w, restarted)
    <3>1. t = Append(u, x) /\ V2Stream(s, u, v2peer, restarted)
      BY Zenon, <1>4, <2>1 DEF V2Adds
    <3> HIDE DEF u, s, t
    <3> QED BY Zenon, <1>3, <3>1, V2StreamAdd
  <2> QED BY Zenon, <2>1
<1>6. V2NoData(r, w) /\ ("client" \notin closed => V2Back(s, r, w))
  <2>1. CASE r = q /\ V2Seen(w) = V2Seen(v2peer)
    BY Zenon, <1>4, <2>1 DEF V2NoData, V2Back
  <2>2. CASE v2peer \in {1, 2} /\ w = v2peer + 1 /\ q # <<>> /\ r = Tail(q)
    <3> HIDE DEF q, r, w, s
    <3>1. V2NoData(Tail(q), v2peer + 1) /\ (V2Back(s, q, v2peer) => V2Back(s, Tail(q), v2peer + 1))
      BY Zenon, <1>3, <1>4, <2>2, V2BackSeen
    <3> QED BY Zenon, <1>4, <2>2, <3>1
  <2> QED BY Zenon, <2>1, <2>2
<1>7. V2Few(s, Len(t), Len(r), w, l, sent["client"])
  <2> DEFINE a == Len(u)
             b == Len(q)
             c == Len(t)
             d == Len(r)
  <2>1. a \in Nat /\ b \in Nat
    BY ZenonT(60), <1>3, Lengths
  <2>2. c = a \/ c = a + 1
    <3>1. t = u \/ t = Append(u, x)
      BY ZenonT(60) DEF V2Adds
    <3>2. Len(Append(u, x)) = a + 1
      BY <1>3, Added
    <3> QED BY Zenon, <3>1, <3>2
  <2>3. d = b \/ (b # 0 /\ d = b - 1)
    <3>1. r = q \/ (q # <<>> /\ r = Tail(q))
      BY Zenon
    <3>2. q # <<>> => Len(Tail(q)) = b - 1 /\ b # 0
      BY Zenon, <1>3, Behind
    <3> QED BY Zenon, <3>1, <3>2
  <2>4. V2Few(s, a, b, v2peer, sent["server"], sent["client"])
    BY Zenon, <1>4
  <2>5. w \in 0..3 /\ w + l = v2peer + sent["server"] + 1
    BY Zenon
  <2> HIDE DEF a, b, c, d, s, w, l
  <2>6. c \in Nat /\ d \in Nat /\ c <= a + 1 /\ d <= b
    BY <2>1, <2>2, <2>3
  <2>7. V2Few(s, c, d, w, l, sent["client"])
    BY ZenonT(60), <1>3, <2>1, <2>4, <2>5, <2>6, V2PeerBound
  <2> QED BY Zenon, <2>7 DEF c, d
<1>8. "client" \in closed => t = u
  BY ZenonT(60) DEF V2Adds
<1> QED BY ZenonT(60), <1>5, <1>6, <1>7, <1>8, V2PeerStep

(* v2_peer.                                                                *)
LEMMA V2Peer ==
    ASSUME IndInv, kind = "v2", NEW e \in Ends, v2_peer(e)
    PROVE  IndInv'
<1> DEFINE x == V2Unit(v2peer)
           y == Unit("data", sent[e] + 1, "NULL")
           q == streams["server"]
<1>1. /\ sess[e].phase = "External" /\ sess' = sess /\ setup' = setup /\ closed' = closed
      /\ got' = got /\ pings' = pings /\ restarted' = restarted
  BY Zenon DEF v2_peer
<1>2. /\ Typed /\ V2Inv(setup, sess, streams, closed, v2peer, sent, got, restarted)
      /\ Unlost(setup, streams, closed, got, sent, restarted)
  BY Zenon DEF IndInv
<1>3. e = "server"
  <2>1. sess["client"].phase # "External"
    BY Zenon, <1>2 DEF IndInv, V2Inv, V2Local, ClosedInv
  <2> QED BY ZenonT(60), <1>1, <2>1 DEF Ends
<1>4. /\ Peer(e) = "client" /\ "client" \in Ends /\ "server" \in Ends
      /\ "server" \notin closed /\ sess["server"].buf = <<>> /\ Ends = {"client", "server"}
  BY ZenonT(60), <1>2, <1>3 DEF Peer, Ends, V2Inv
<1>5. /\ wire["server"] \in Seq(Units) /\ wire["client"] \in Seq(Units) /\ v2peer \in 0..3
      /\ sent["server"] \in Nat /\ sent["client"] \in Nat
  BY <1>2, <1>4, ConstantsAssumption DEF Typed
<1>6. q = wire["server"] /\ (wire' \in [Ends -> Seq(Units)] => streams'["server"] = wire'["server"])
  <2>1. /\ q = sess["server"].buf \o wire["server"]
        /\ streams'["server"] = sess'["server"].buf \o wire'["server"]
    BY Zenon, <1>2, <1>4, StreamTypes
  <2>2. \A z \in Seq(Units) : <<>> \o z = z
    OBVIOUS
  <2>3. wire' \in [Ends -> Seq(Units)] => wire'["server"] \in Seq(Units)
    BY Zenon, <1>4
  <2> QED BY Zenon, <1>1, <1>4, <1>5, <2>1, <2>2, <2>3
<1>7. \/ v2peer = 0 /\ v2peer' = 1 /\ write(e, x) /\ sent' = sent
      \/ /\ v2peer \in {1, 2} /\ wire[e] # <<>> /\ v2peer' = v2peer + 1 /\ sent' = sent
         /\ wire' = [wire EXCEPT !["server"] = Tail(@),
                        !["client"] = IF "client" \in closed THEN @ ELSE Append(@, x)]
      \/ /\ v2peer = 3 /\ v2peer' = 3 /\ sent[e] < MaxData
         /\ sent' = [sent EXCEPT ![e] = @ + 1] /\ write(e, y)
  BY <1>3, <1>4 DEF v2_peer, V2Unit
<1>8. ASSUME v2peer \in 0..2, v2peer' = v2peer + 1, sent' = sent,
             wire' \in [Ends -> Seq(Units)], V2Adds(x),
             \/ streams'["server"] = q /\ v2peer = 0
             \/ v2peer # 0 /\ q # <<>> /\ streams'["server"] = Tail(q)
      PROVE  IndInv'
  <2>1. /\ x \in Units /\ Plain(x) /\ x.key = "NULL" /\ x.t \notin Commands
        /\ V2UnitOK(v2peer', x) /\ v2peer' \in 0..3
    BY Zenon, <1>8, V2UnitFacts
  <2> HIDE DEF x
  <2>2. Unlost(setup, streams, closed, got, sent, restarted)'
    <3>1. Calm(streams["client"], streams'["client"], Promised("client", restarted'))
      BY Zenon, <1>8, <2>1 DEF V2Adds, Calm
    <3>2. Calm(q, streams'["server"], Promised("server", restarted'))
      <4>1. v2peer # 0 => v2peer \in {1, 2}
        BY <1>8
      <4>2. q \in Seq(Units) /\ V2NoData(q, v2peer)
        BY Zenon, <1>2, <1>5, <1>6 DEF V2Inv
      <4>3. v2peer # 0 /\ q # <<>> => Head(q).t # "data"
        BY ZenonT(60), <4>1, <4>2, V2BackSeen
      <4> QED BY ZenonT(60), <1>8, <4>3 DEF Calm
    <3>3. Quiet
      BY Zenon, <1>1, <1>4, <1>8, <3>1, <3>2 DEF Quiet
    <3> QED BY ZenonT(60), <1>1, <1>2, <3>3, QuietStep
  <2>3. \/ streams'["server"] = q /\ V2Seen(v2peer') = V2Seen(v2peer)
        \/ /\ v2peer \in {1, 2} /\ v2peer' = v2peer + 1 /\ q # <<>>
           /\ streams'["server"] = Tail(q)
    BY <1>8 DEF V2Seen
  <2>4. /\ v2peer < 3 /\ sent' \in [Ends -> 0..MaxData]
        /\ sent'["client"] = sent["client"]
        /\ v2peer' + sent'["server"] = v2peer + sent["server"] + 1
    <3> DEFINE n == sent["server"]
               v == v2peer
    <3>1. /\ sent' \in [Ends -> 0..MaxData] /\ sent'["client"] = sent["client"]
          /\ sent'["server"] = n
      BY Zenon, <1>2, <1>8 DEF Typed
    <3>2. n \in Nat /\ v \in 0..2 /\ v2peer' = v + 1
      BY Zenon, <1>5, <1>8
    <3> HIDE DEF n, v
    <3>3. v < 3 /\ (v + 1) + n = v + n + 1
      BY <3>2
    <3> QED BY Zenon, <3>1, <3>2, <3>3 DEF n, v
  <2> QED BY Zenon, <1>1, <1>3, <1>8, <2>1, <2>2, <2>3, <2>4, V2Writes
<1>9. CASE v2peer = 0 /\ v2peer' = 1 /\ write(e, x) /\ sent' = sent
  <2>1. x \in Units
    BY <1>9, V2UnitFacts
  <2>2. wire' \in [Ends -> Seq(Units)] /\ wire'["server"] = wire["server"] /\ Sent(e, x)
    BY ZenonT(60), <1>1, <1>2, <1>3, <1>9, <2>1, WriteFacts
  <2>3. V2Adds(x) /\ streams'["server"] = q
    BY Zenon, <1>4, <1>6, <2>2 DEF Sent, V2Adds
  <2> QED BY <1>8, <1>9, <2>2, <2>3
<1>10. CASE /\ v2peer \in {1, 2} /\ wire[e] # <<>> /\ v2peer' = v2peer + 1 /\ sent' = sent
            /\ wire' = [wire EXCEPT !["server"] = Tail(@),
                           !["client"] = IF "client" \in closed THEN @ ELSE Append(@, x)]
  <2>1. x \in Units
    BY <1>10, V2UnitFacts
  <2> HIDE DEF x
  <2>2. Tail(wire["server"]) \in Seq(Units) /\ Append(wire["client"], x) \in Seq(Units)
    BY Zenon, <1>3, <1>5, <1>10, <2>1, Behind, Added
  <2>3. /\ wire' \in [Ends -> Seq(Units)] /\ wire'["server"] = Tail(wire["server"])
        /\ wire'["client"] = IF "client" \in closed THEN wire["client"]
                             ELSE Append(wire["client"], x)
    BY ZenonT(60), <1>2, <1>4, <1>10, <2>2 DEF Typed
  <2>4. V2Adds(x)
    <3> DEFINE b == sess["client"].buf
    <3>1. b \in Seq(Units) /\ streams["client"] = b \o wire["client"]
          /\ streams'["client"] = b \o wire'["client"]
      BY Zenon, <1>1, <1>2, <1>4, StreamTypes
    <3>2. b \o Append(wire["client"], x) = Append(b \o wire["client"], x)
      BY ZenonT(60), <1>5, <2>1, <3>1, SeqWrite
    <3> HIDE DEF b
    <3> QED BY Zenon, <2>3, <3>1, <3>2 DEF V2Adds
  <2>5. streams'["server"] = Tail(q) /\ q # <<>>
    BY <1>3, <1>6, <1>10, <2>3, Zenon
  <2>6. v2peer # 0 /\ v2peer \in 0..2
    BY <1>10
  <2> QED BY Zenon, <1>8, <1>10, <2>3, <2>4, <2>5, <2>6
<1>11. CASE /\ v2peer = 3 /\ v2peer' = 3 /\ sent[e] < MaxData
            /\ sent' = [sent EXCEPT ![e] = @ + 1] /\ write(e, y)
  <2>1. "NULL" \in Mechanisms /\ y \in Units /\ y.t = "data" /\ y.key = "NULL"
    <3>1. sent[e] + 1 \in Values /\ "data" \in UnitTypes /\ "NULL" \in Mechanisms
      BY <1>3, <1>5 DEF Values, UnitTypes, Mechanisms
    <3> QED BY Zenon, <3>1 DEF Unit, Units
  <2>2. wire' \in [Ends -> Seq(Units)] /\ wire'["server"] = wire["server"] /\ Sent(e, y)
    <3> HIDE DEF y
    <3> QED BY Zenon, <1>1, <1>2, <1>3, <1>11, <2>1, WriteFacts
  <2>3. V2Adds(y) /\ streams'["server"] = q
    BY Zenon, <1>4, <1>6, <2>2 DEF Sent, V2Adds
  <2>4. /\ Unlost(setup, streams, closed, got, sent, restarted)'
        /\ sent' \in [Ends -> 0..MaxData] /\ sent'[e] = sent[e] + 1
        /\ sent'[Peer(e)] = sent[Peer(e)]
    <3>1. Sent(e, Unit("data", sent[e] + 1, "NULL")) /\ e \notin closed /\ streams'[e] = streams[e]
      BY Zenon, <1>3, <1>4, <2>2, <2>3
    <3> QED BY Zenon, <1>1, <1>2, <1>11, <2>1, <3>1, WriteOrder
  <2>5. y.t \notin Commands
    BY Zenon, <2>1 DEF Commands
  <2>6. /\ sent'["client"] = sent["client"] /\ v2peer' \in 0..3
        /\ v2peer' + sent'["server"] = v2peer + sent["server"] + 1
        /\ V2Seen(v2peer') = V2Seen(v2peer)
    BY <1>3, <1>4, <1>5, <1>11, <2>4
  <2> HIDE DEF y
  <2> QED BY ZenonT(60), <1>1, <1>3, <1>11, <2>1, <2>2, <2>3, <2>4, <2>5, <2>6, V2Writes
<1> QED BY ZenonT(60), <1>7, <1>9, <1>10, <1>11, <1>5

(* A connection to a ZMTP/2.0 peer has no step of ZMTP/3 in it.            *)
LEMMA V2Never ==
    ASSUME IndInv, kind = "v2", NEW e \in Ends
    PROVE  /\ ~receive_greeting(e) /\ ~negotiate_security_mechanism(e) /\ ~produce_token(e)
           /\ ~process_token(e) /\ ~client_send_ready(e) /\ ~server_receive_ready(e)
           /\ ~server_send_ready(e) /\ ~client_receive_peer_ready(e) /\ ~try_send_ping(e)
<1> DEFINE o == sess[e]
<1>1. Alive(e) =>
        /\ o.sub \in {"GreetingExchange", "WaitingForPeerRevision", "V2IdentityExchange", "Done"}
        /\ o.phase = "Operational" => o.version = "V2"
  <2>1. ASSUME Alive(e) PROVE V2Local(setup, o, restarted)
    BY Zenon, <2>1, V2Alive
  <2> QED BY Zenon, <2>1 DEF V2Local
<1> QED BY Zenon, <1>1
        DEF receive_greeting, negotiate_security_mechanism, produce_token, process_token,
            client_send_ready, server_receive_ready, server_send_ready,
            client_receive_peer_ready, try_send_ping, In, Handshaking, Operational, Alive

(* Every step of a connection to a ZMTP/2.0 peer.                          *)
LEMMA V2Next ==
    ASSUME IndInv, kind = "v2", Next
    PROVE  IndInv'
<1>1. PICK e \in Ends :
        \/ NetworkStep(e) \/ write_data_msgs(e) \/ write_fails(e)
        \/ try_send_ping(e) \/ pong_timed_out(e)
        \/ initialize_pipes(e) \/ process_other_event(e) \/ stop(e) \/ handshake_timeout(e)
        \/ connection_reset(e) \/ perform_graceful_shutdown(e) \/ v2_peer(e)
  BY Zenon DEF Next
<1>2. /\ ~receive_greeting(e) /\ ~negotiate_security_mechanism(e) /\ ~produce_token(e)
      /\ ~process_token(e) /\ ~client_send_ready(e) /\ ~server_receive_ready(e)
      /\ ~server_send_ready(e) /\ ~client_receive_peer_ready(e) /\ ~try_send_ping(e)
  BY Zenon, V2Never
<1>3. CASE HandshakeStep(e)
  <2>1. CASE send_signature(e) \/ wait_for_peer_revision(e)
    BY Zenon, <2>1, V2Signature, V2Revision
  <2>2. CASE exchange_v2_identity(e) \/ read_v2_identity_frame(e)
    <3>1. CASE exchange_v2_identity(e)
      BY Zenon, <3>1, V2Identity
    <3>2. CASE read_v2_identity_frame(e)
      <4>1. \/ /\ become(e, [handshake_done(sess[e]) EXCEPT !.buf = Tail(@), !.at = "start"])
               /\ UNCHANGED <<wire, closed>>
            \/ Head(sess[e].buf).t # "identity" /\ set_fatal_error(e, "protocol")
        BY Zenon, <3>2 DEF read_v2_identity_frame
      <4> QED BY Zenon, <3>2, <4>1, V2Frame, V2NoFrame
    <3> QED BY Zenon, <2>2, <3>1, <3>2
  <2> QED BY ZenonT(60), <1>2, <1>3, <2>1, <2>2 DEF HandshakeStep
<1>4. CASE read_buf(e) \/ handle_incoming_from_network(e)
  BY ZenonT(60), <1>4, V2Read, V2Handle
<1>5. CASE stop(e) \/ read_eof(e)
  BY Zenon, <1>5, Ended, V2Shut
<1>6. CASE write_data_msgs(e) \/ initialize_pipes(e) \/ process_other_event(e)
  BY ZenonT(60), <1>6, V2Message, V2Pipes, V2Event
<1>7. CASE pong_timed_out(e) \/ handshake_timeout(e) \/ write_fails(e)
  BY Zenon, <1>7, TimedOut
<1>8. CASE connection_reset(e) \/ perform_graceful_shutdown(e)
  BY ZenonT(60), <1>8, Reset, Graceful
<1>9. CASE v2_peer(e)
  BY Zenon, <1>9, V2Peer
<1> QED BY ZenonT(60), <1>1, <1>2, <1>3, <1>4, <1>5, <1>6, <1>7, <1>8, <1>9 DEF NetworkStep

-----------------------------------------------------------------------------
(* Both streams are empty, and nothing has been said yet.                  *)
LEMMA InitOK == Init => IndInv
<1> SUFFICES ASSUME Init PROVE IndInv
  BY Zenon
<1> DEFINE z == [phase |-> "HandshakeInProgress",
                 sub |-> "GreetingExchange", at |-> "start", buf |-> <<>>,
                 mech |-> "NULL", step |-> 0, peer_mech |-> "none", version |-> "none",
                 framer |-> "NULL", id |-> "none", from_ready |-> FALSE,
                 attached |-> FALSE, waiting_for_pong |-> FALSE, cause |-> "none"]
           x == [phase |-> "External",
                 sub |-> "GreetingExchange", at |-> "start", buf |-> <<>>,
                 mech |-> "NULL", step |-> 0, peer_mech |-> "none", version |-> "none",
                 framer |-> "NULL", id |-> "none", from_ready |-> FALSE,
                 attached |-> FALSE, waiting_for_pong |-> FALSE, cause |-> "none"]
<1>1. \A e \in Ends : sess[e] = IF kind = "v2" /\ e = "server" THEN x ELSE z
  BY Zenon DEF Init
<1>2. /\ "client" \in Ends /\ "server" \in Ends /\ Ends = {"client", "server"}
      /\ Peer("client") = "server" /\ Peer("server") = "client"
  BY Zenon DEF Ends, Peer
<1>3. x \in SessType /\ z \in SessType
  <2>1. /\ "HandshakeInProgress" \in Phases /\ "External" \in Phases
        /\ "GreetingExchange" \in SubPhases /\ "start" \in Places /\ <<>> \in Seq(Units)
        /\ "NULL" \in Mechanisms /\ 0 \in ScriptSteps /\ "none" \in Proposals
        /\ "none" \in Versions /\ "none" \in Identities /\ FALSE \in Flags /\ "none" \in Causes
    BY DEF Phases, SubPhases, Places, Mechanisms, ScriptSteps, Proposals, Versions, Identities,
           Flags, Causes
  <2> QED BY <2>1, Zenon DEF SessType
<1>4. /\ z.phase = "HandshakeInProgress" /\ z.sub = "GreetingExchange" /\ z.at = "start"
      /\ z.buf = <<>> /\ z.mech = "NULL" /\ z.step = 0 /\ z.version = "none"
      /\ z.framer = "NULL" /\ z.id = "none" /\ z.cause = "none"
      /\ x.phase = "External" /\ x.buf = <<>> /\ x.cause = "none"
  BY Zenon
<1> HIDE DEF x, z
<1>5. /\ kind \in {"v2", "v3"} /\ closed = {} /\ v2peer = 0 /\ restarted = FALSE
      /\ sent = [e \in Ends |-> 0] /\ pings = [e \in Ends |-> 0]
      /\ got = [e \in Ends |-> <<>>] /\ wire = [e \in Ends |-> <<>>]
  BY Zenon, ConstantsAssumption DEF Init
<1>6. Typed
  <2>1. config \in [Ends -> AllConfigs] /\ agree \in BOOLEAN /\ allow_zmtp2 \in BOOLEAN
    BY Zenon, ConstantsAssumption DEF Init
  <2>2. sess \in [Ends -> SessType]
    <3>1. DOMAIN sess = Ends /\ sess = [e \in Ends |-> sess[e]]
      BY Zenon DEF Init
    <3>2. \A e \in Ends : sess[e] \in SessType
      BY ZenonT(60), <1>1, <1>3
    <3> QED BY <3>1, <3>2, Zenon
  <2>3. sent \in [Ends -> 0..MaxData] /\ pings \in [Ends -> 0..MaxPings]
    BY <1>5, ConstantsAssumption
  <2>4. got \in [Ends -> Seq(Values)] /\ wire \in [Ends -> Seq(Units)]
    BY <1>5
  <2>5. closed \subseteq Ends /\ restarted \in BOOLEAN
    BY <1>5, Zenon
  <2>6. v2peer \in 0..3
    BY <1>5
  <2> QED BY <1>5, <2>1, <2>2, <2>3, <2>4, <2>5, <2>6, Zenon DEF Typed
<1>7. \A e \in Ends : streams[e] = <<>> /\ sess[e].buf = <<>> /\ sess[e].cause = "none"
  <2>1. ASSUME NEW e \in Ends PROVE sess[e].buf = <<>> /\ sess[e].cause = "none" /\ wire[e] = <<>>
    BY Zenon, <1>1, <1>4, <1>5
  <2>2. \A e \in Ends : streams[e] = sess[e].buf \o wire[e]
    BY Zenon, <1>6, StreamTypes
  <2>3. <<>> \o <<>> = <<>>
    OBVIOUS
  <2> QED BY Zenon, <2>1, <2>2, <2>3
<1>8. NoSpuriousError
  BY Zenon, <1>7 DEF NoSpuriousError
<1>9. ClosedInv(sess, streams, closed)
  BY ZenonT(60), <1>5 DEF ClosedInv
<1>10. Unlost(setup, streams, closed, got, sent, restarted)
  <2>1. ASSUME NEW e \in Ends PROVE Ordered(e, streams, got, sent, closed)
    <3>1. got[e] = <<>> /\ sent[Peer(e)] = 0 /\ streams[e] = <<>>
      BY Zenon, <1>2, <1>5, <1>7
    <3>2. Len(<<>>) = 0 /\ Data(<<>>) = {} /\ 1..0 = {}
      BY DEF Data
    <3> QED BY <3>1, <3>2 DEF Ordered, Order
  <2> QED BY Zenon, <2>1 DEF Unlost
<1>11. ASSUME kind = "v3"
       PROVE  V3Inv(setup, sess, streams, closed, sent, pings, restarted)
  <2>1. \A e \in Ends : sess[e] = z
    BY ZenonT(60), <1>1, <1>11
  <2>2. ASSUME NEW e \in Ends PROVE Local(setup, e, sess[e])
    BY Zenon, <1>4, <2>1 DEF Local, Greeting, Secured
  <2>3. ASSUME NEW e \in Ends
        PROVE  Stream(setup, e, sess[e], sess[Peer(e)], streams[e], closed)
    <3>1. Peer(e) \in Ends /\ Len(streams[e]) = 0
      BY <1>7, TwoEnds
    <3>2. Taken(setup, e, sess[e]) = 0 /\ Written(setup, Peer(e), sess[Peer(e)]) = 0
      BY Zenon, <1>4, <2>1, <3>1 DEF Taken, Written, Greeting
    <3>3. sess[Peer(e)].sub # "Done"
      BY Zenon, <1>4, <2>1, <3>1
    <3>4. 1..Len(streams[e]) = {}
      BY <3>1
    <3> QED BY <3>1, <3>2, <3>3, <3>4 DEF Stream
  <2>4. Few(setup, sess, streams, closed, sent, pings)
    <3>1. \A e \in Ends : Most(setup, e, sess, closed, sent, pings) = 0 /\ Len(streams[e]) = 0
      <4>1. \A e \in Ends : Written(setup, e, sess[e]) = 0 /\ sent[e] = 0 /\ pings[e] = 0
        BY Zenon, <1>4, <1>5, <2>1 DEF Written
      <4>2. \A e \in Ends : e \notin closed /\ Len(streams[e]) = 0
        BY <1>5, <1>7
      <4>3. 0 + 0 + 0 = 0
        OBVIOUS
      <4> QED BY Zenon, <4>1, <4>2, <4>3 DEF Most
    <3>2. /\ Most(setup, "client", sess, closed, sent, pings) = 0 /\ Len(streams["client"]) = 0
          /\ Most(setup, "server", sess, closed, sent, pings) = 0 /\ Len(streams["server"]) = 0
      BY <1>2, <3>1, Zenon
    <3>3. 0 + 0 <= 0 + 0
      OBVIOUS
    <3> QED BY <3>2, <3>3, Zenon DEF Few
  <2> QED BY ZenonT(60), <1>5, <2>2, <2>3, <2>4 DEF V3Inv
<1>12. ASSUME kind = "v2"
       PROVE  V2Inv(setup, sess, streams, closed, v2peer, sent, got, restarted)
  <2>1. sess["client"] = z /\ sess["server"] = x
    BY ZenonT(60), <1>1, <1>2, <1>12
  <2>2. V2Local(setup, z, restarted)
    BY Zenon, <1>4, <1>5 DEF V2Local
  <2>3. streams["client"] = <<>> /\ streams["server"] = <<>> /\ Len(<<>>) = 0 /\ got["server"] = <<>>
    BY ZenonT(60), <1>2, <1>5, <1>7
  <2>4. V2Taken(z) = 0 /\ V2Written(z) = 0 /\ V2Seen(0) = 0
    BY Zenon, <1>4 DEF V2Taken, V2Written, V2Seen
  <2>5. V2Stream(z, <<>>, 0, FALSE) /\ V2Back(z, <<>>, 0) /\ V2NoData(<<>>, 0)
    BY <2>3, <2>4 DEF V2Stream, V2Back, V2NoData
  <2>6. V2Few(z, 0, 0, 0, 0, 0)
    BY <2>4 DEF V2Few
  <2>7. sent["client"] = 0 /\ sent["server"] = 0
    BY ZenonT(60), <1>2, <1>5
  <2> QED BY ZenonT(60), <1>4, <1>5, <2>1, <2>2, <2>3, <2>5, <2>6, <2>7 DEF V2Inv
<1> QED BY ZenonT(60), <1>6, <1>8, <1>9, <1>10, <1>11, <1>12 DEF IndInv

(* Every step keeps the invariant.                                         *)
LEMMA IndNext == IndInv /\ [Next]_vars => IndInv'
<1> SUFFICES ASSUME IndInv, [Next]_vars PROVE IndInv'
  BY ZenonT(60)
<1>1. CASE Next
  <2>1. kind \in {"v2", "v3"}
    BY ZenonT(60) DEF IndInv, Typed
  <2> QED BY Zenon, <1>1, <2>1, V2Next, V3Next
<1>2. CASE UNCHANGED vars
  <2>1. /\ setup' = setup /\ sess' = sess /\ wire' = wire /\ closed' = closed
        /\ v2peer' = v2peer /\ counts' = counts /\ restarted' = restarted
    BY ZenonT(60), <1>2 DEF vars
  <2>2. /\ kind' = kind /\ config' = config /\ agree' = agree /\ allow_zmtp2' = allow_zmtp2
        /\ sent' = sent /\ got' = got /\ pings' = pings /\ streams' = streams
    BY Zenon, <2>1 DEF setup, counts, streams
  <2>3. Typed' /\ NoSpuriousError'
    BY Zenon, <2>1, <2>2 DEF IndInv, Typed, NoSpuriousError, Compatible
  <2> QED BY Zenon, <2>1, <2>2, <2>3 DEF IndInv
<1> QED BY Zenon, <1>1, <1>2

(* Whatever the options of the two ends, whatever is read in one piece,    *)
(* and whichever arm of the select! comes first: the units between the     *)
(* ends are those of the handshake and of the data phase in their order,   *)
(* an end is as far as the units it has handled allow, and it has gone on  *)
(* from its mechanism only with a peer that runs the same one.             *)
THEOREM Inductive == Spec => []IndInv
<1>1. Init => IndInv
  BY Zenon, InitOK
<1>2. IndInv /\ [Next]_vars => IndInv'
  BY Zenon, IndNext
<1> QED BY <1>1, <1>2, PTL DEF Spec

(* No more units are under way to an end than both ends may have written.  *)
LEMMA Bounded ==
    ASSUME IndInv, NEW e \in Ends
    PROVE  Len(streams[e]) <= 10 + 2 * MaxData + 2 * MaxPings
<1> DEFINE a == Len(streams["client"])
           b == Len(streams["server"])
<1>1. Typed /\ "client" \in Ends /\ "server" \in Ends /\ e \in {"client", "server"}
  BY Zenon DEF IndInv, Ends
<1>2. /\ sent["client"] \in 0..MaxData /\ sent["server"] \in 0..MaxData
      /\ pings["client"] \in 0..MaxPings /\ pings["server"] \in 0..MaxPings
      /\ MaxData \in Nat /\ MaxPings \in Nat /\ kind \in {"v2", "v3"} /\ v2peer \in 0..3
  BY ZenonT(60), <1>1, ConstantsAssumption DEF Typed
<1>3. a \in Nat /\ b \in Nat
  BY Zenon, <1>1, StreamTypes
<1>4. ASSUME kind = "v3" PROVE a + b <= 10 + 2 * MaxData + 2 * MaxPings
  <2> DEFINE c == Most(setup, "client", sess, closed, sent, pings)
             d == Most(setup, "server", sess, closed, sent, pings)
  <2>1. a + b <= c + d
    BY Zenon, <1>4 DEF IndInv, V3Inv, Few
  <2>2. /\ c \in Nat /\ c <= 5 + sent["client"] + pings["client"]
        /\ d \in Nat /\ d <= 5 + sent["server"] + pings["server"]
    <3>1. /\ sess \in [Ends -> SessType] /\ sent \in [Ends -> 0..MaxData]
          /\ pings \in [Ends -> 0..MaxPings]
      BY ZenonT(60), <1>1 DEF Typed
    <3> QED BY Zenon, <1>1, <3>1, MostOf
  <2> HIDE DEF a, b, c, d
  <2> QED BY <1>2, <1>3, <2>1, <2>2
<1>5. ASSUME kind = "v2"
      PROVE  a <= 10 + 2 * MaxData + 2 * MaxPings /\ b <= 10 + 2 * MaxData + 2 * MaxPings
  <2> DEFINE k == V2Written(sess["client"])
  <2>1. k \in 0..2
    BY Zenon, V2Numbers
  <2>2. V2Few(sess["client"], a, b, v2peer, sent["server"], sent["client"])
    BY <1>5, Zenon DEF IndInv, V2Inv
  <2>3. /\ a <= v2peer + sent["server"]
        /\ a + 2 * b <= v2peer + sent["server"] + 2 * k + 2 * sent["client"]
    BY Zenon, <2>2 DEF V2Few
  <2> HIDE DEF a, b, k
  <2> QED BY <1>2, <1>3, <2>1, <2>3
<1> HIDE DEF a, b
<1>6. a <= 10 + 2 * MaxData + 2 * MaxPings /\ b <= 10 + 2 * MaxData + 2 * MaxPings
  BY <1>2, <1>3, <1>4, <1>5
<1> QED BY Zenon, <1>1, <1>6 DEF a, b

(* The two sessions and the streams between them keep their types, and no  *)
(* more units are ever under way than the ends may have written.           *)
THEOREM TypeCorrect == Spec => []TypeOK
<1>1. IndInv => TypeOK
  <2> SUFFICES ASSUME IndInv PROVE TypeOK
    BY Zenon
  <2>1. Typed
    BY Zenon DEF IndInv
  <2>2. ASSUME NEW e \in Ends
        PROVE  /\ sess[e].phase \in Phases /\ sess[e].sub \in SubPhases
               /\ sess[e].at \in {"start", "identity"}
               /\ sess[e].mech \in Mechanisms /\ sess[e].step \in 0..4
               /\ sess[e].peer_mech \in Mechanisms \cup {"none"}
               /\ sess[e].version \in {"none", "V2", "V3"}
               /\ sess[e].framer \in Mechanisms
               /\ sess[e].id \in {"none", "security", "READY"}
               /\ sess[e].from_ready \in BOOLEAN
               /\ sess[e].attached \in BOOLEAN /\ sess[e].waiting_for_pong \in BOOLEAN
               /\ sess[e].cause \in Causes
    <3> DEFINE o == sess[e]
    <3>1. o \in SessType
      BY Zenon, <2>1, StreamTypes
    <3> HIDE DEF o
    <3>2. /\ o.phase \in Phases /\ o.sub \in SubPhases /\ o.at \in Places
          /\ o.mech \in Mechanisms /\ o.step \in ScriptSteps /\ o.peer_mech \in Proposals
          /\ o.version \in Versions /\ o.framer \in Mechanisms /\ o.id \in Identities
          /\ o.from_ready \in Flags /\ o.attached \in Flags /\ o.waiting_for_pong \in Flags
          /\ o.cause \in Causes
      BY <3>1, Zenon DEF SessType
    <3> QED BY <3>2, Zenon DEF o, Places, ScriptSteps, Proposals, Versions, Identities, Flags
  <2>3. ASSUME NEW e \in Ends
        PROVE  /\ sent[e] \in 0..MaxData /\ pings[e] \in 0..MaxPings
               /\ Len(wire[e]) + Len(sess[e].buf) <= 10 + 2 * MaxData + 2 * MaxPings
    <3>1. sent[e] \in 0..MaxData /\ pings[e] \in 0..MaxPings
      BY Zenon, <2>1 DEF Typed
    <3> DEFINE a == wire[e]
               b == sess[e].buf
    <3>2. a \in Seq(Units) /\ b \in Seq(Units) /\ streams[e] = b \o a
      BY Zenon, <2>1, StreamTypes
    <3>3. Len(streams[e]) <= 10 + 2 * MaxData + 2 * MaxPings
      BY ZenonT(60), Bounded
    <3> HIDE DEF a, b
    <3>4. Len(b \o a) = Len(b) + Len(a) /\ Len(a) \in Nat /\ Len(b) \in Nat
      BY Zenon, <3>2, Joined, Lengths
    <3>5. Len(a) + Len(b) <= 10 + 2 * MaxData + 2 * MaxPings
      BY <3>2, <3>3, <3>4
    <3> QED BY Zenon, <3>1, <3>5 DEF a, b
  <2> QED BY <2>1, <2>2, <2>3, Zenon DEF TypeOK, Typed
<1> QED BY <1>1, Inductive, PTL

(* An end that is operational has met its match.                           *)
LEMMA Met ==
    ASSUME IndInv, NEW e \in Ends, Operational(e)
    PROVE  /\ ~restarted => Compatible
           /\ kind = "v3" =>
                /\ sess[e].framer = Preferred(config[e])
                /\ sess[e].id = IF config[Peer(e)].id THEN "READY"
                                ELSE IF sess[e].framer = "NULL" THEN "none" ELSE "security"
<1>1. Alive(e) /\ sess[e].phase = "Operational" /\ Typed /\ kind \in {"v2", "v3"}
  BY Zenon DEF Operational, Alive, IndInv, Typed
<1>2. setup[2] = config /\ setup[3] = agree /\ setup[4] = allow_zmtp2
  BY ZenonT(60) DEF setup
<1>3. ASSUME kind = "v2" PROVE ~restarted => Compatible
  <2>1. V2Local(setup, sess[e], restarted)
    BY ZenonT(60), <1>1, <1>3, V2Alive
  <2> QED BY Zenon, <1>1, <1>2, <1>3, <2>1 DEF V2Local, Compatible
<1>4. ASSUME kind = "v3"
      PROVE  /\ Compatible /\ sess[e].framer = Preferred(config[e])
             /\ sess[e].id = IF config[Peer(e)].id THEN "READY"
                             ELSE IF sess[e].framer = "NULL" THEN "none" ELSE "security"
  <2> DEFINE o == sess[e]
  <2>1. Local(setup, e, o)
    BY ZenonT(60), <1>1, <1>4, Running
  <2>2. o.sub = "Done" /\ o.phase = "Operational"
    BY Zenon, <1>1, <2>1 DEF Local
  <2> HIDE DEF o
  <2>3. /\ Fits(setup, e) /\ Fits(setup, Peer(e)) /\ o.framer = Own(setup, Peer(e))
        /\ o.id = IF setup[2][Peer(e)].id THEN "READY" ELSE Secure(o.framer)
    BY Zenon, <2>1, <2>2 DEF Local, Secured
  <2>4. Own(setup, e) = Own(setup, Peer(e)) /\ Own(setup, e) = Preferred(config[e])
    BY Zenon, <1>2, <2>3 DEF Fits, Own
  <2>5. Compatible
    BY ZenonT(60), <1>1, <1>4, <2>3, CompatibleMeans
  <2> QED BY Zenon, <1>2, <2>3, <2>4, <2>5 DEF Secure, o
<1> QED BY Zenon, <1>1, <1>3, <1>4

(* Only compatible ends come to exchange messages, and two rzmq ends that  *)
(* do frame them with the mechanism that both prefer.                      *)
THEOREM CompatibleOnly == Spec => []OnlyCompatibleMeet
<1>1. IndInv => OnlyCompatibleMeet
  <2> SUFFICES ASSUME IndInv PROVE OnlyCompatibleMeet
    OBVIOUS
  <2>1. ASSUME NEW e \in Ends, Operational(e)
        PROVE  /\ ~restarted => Compatible
               /\ kind = "v3" => sess[e].framer = Preferred(config[e])
    BY ZenonT(60), <2>1, Met
  <2> QED BY Zenon, <2>1 DEF OnlyCompatibleMeet
<1> QED BY <1>1, Inductive, PTL

(* Compatible ends never refuse each other, unless a ZMTP/2.0 identity     *)
(* exchange was begun anew.                                                *)
THEOREM NeverRefuse == Spec => []NoSpuriousError
<1>1. IndInv => NoSpuriousError
  BY ZenonT(60) DEF IndInv
<1> QED BY <1>1, Inductive, PTL

(* Messages are handed on in order, each once and from the first, and none *)
(* is lost between two open ends.                                          *)
THEOREM DeliveredInOrder == Spec => []InOrderOnce
<1>1. IndInv => InOrderOnce
  <2> SUFFICES ASSUME IndInv, ~restarted, NEW e \in Ends
               PROVE  /\ \A i \in 1..Len(got[e]) : got[e][i] = i
                      /\ Len(got[e]) <= sent[Peer(e)]
                      /\ closed = {} => \A n \in (Len(got[e]) + 1)..sent[Peer(e)] :
                            \E i \in 1..Len(Ahead(e)) :
                               Ahead(e)[i].t = "data" /\ Ahead(e)[i].v = n
    BY Zenon DEF InOrderOnce
  <2> DEFINE u == streams[e]
             k == Len(got[e])
             n == sent[Peer(e)]
  <2>1. Typed /\ Ordered(e, streams, got, sent, closed)
    BY Zenon DEF IndInv, Unlost
  <2>2. /\ \A i \in 1..k : got[e][i] = i
        /\ Order(u, k, n, closed = {})
    BY ZenonT(60), <2>1 DEF Ordered
  <2>3. Ahead(e) = u
    BY Zenon, <2>1, StreamTypes DEF Ahead
  <2>4. k \in Nat /\ n \in Nat
    <3>1. got[e] \in Seq(Values) /\ sent[Peer(e)] \in 0..MaxData
      BY Zenon, <2>1, TwoEnds DEF Typed
    <3>2. Len(got[e]) \in Nat
      BY <3>1
    <3> QED BY <3>1, <3>2, ConstantsAssumption
  <2> HIDE DEF u, k, n
  <2>5. k <= n
    BY Zenon, <2>2 DEF Order
  <2>6. ASSUME closed = {}, NEW m \in (k + 1)..n
        PROVE  \E i \in 1..Len(u) : u[i].t = "data" /\ u[i].v = m
    <3>1. k < n
      BY <2>4, <2>6
    <3>2. PICK j \in Data(u) : u[j].v = n
      BY Zenon, <2>2, <2>6, <3>1 DEF Order
    <3>3. m \in (k + 1)..u[j].v
      BY ZenonT(60), <2>6, <3>2
    <3>4. PICK i \in Data(u) : u[i].v = m
      BY ZenonT(60), <2>2, <3>2, <3>3 DEF Order
    <3> QED BY ZenonT(60), <3>4 DEF Data
  <2> QED BY Zenon, <2>2, <2>3, <2>5, <2>6 DEF k, n
<1> QED BY <1>1, Inductive, PTL

(* The identity an end announces is the one its peer has put into READY,   *)
(* or the mechanism's.                                                     *)
THEOREM IdentityKept == Spec => []IdentityOfPeer
<1>1. IndInv => IdentityOfPeer
  <2> SUFFICES ASSUME IndInv PROVE IdentityOfPeer
    OBVIOUS
  <2>1. ASSUME NEW e \in Ends, Operational(e), kind = "v3"
        PROVE  sess[e].id = IF config[Peer(e)].id THEN "READY"
                            ELSE IF sess[e].framer = "NULL" THEN "none" ELSE "security"
    BY Zenon, <2>1, Met
  <2> QED BY Zenon, <2>1 DEF IdentityOfPeer
<1> QED BY <1>1, Inductive, PTL
=============================================================================
