----------------------------- MODULE SessionV3 --------------------------------
(***************************************************************************)
(* Every step between two rzmq ends keeps the invariant of Session.        *)
(***************************************************************************)
EXTENDS SessionStreams

(* A reader that has handled a unit of the handshake.                      *)
LEMMA StreamTakeOne ==
    ASSUME NEW w, NEW e \in Ends, NEW s \in SessType, NEW r \in SessType, NEW q, NEW cl,
           NEW u \in Seq(Units), u # <<>>,
           Stream(w, e, s, q, u, cl), Taken(w, e, r) = Taken(w, e, s) + 1
    PROVE  Stream(w, e, r, q, Tail(u), cl)
<1> DEFINE v == Tail(u)
<1>1. /\ v \in Seq(Units) /\ Len(v) = Len(u) - 1
      /\ \A i \in 1..Len(v) : v[i] = u[i + 1]
  BY Zenon, Behind
<1>2. 1 \in Nat
  BY Zenon
<1> HIDE DEF v
<1>3. Stream(w, e, r, q, v, cl)
  BY <1>1, <1>2, StreamTake, Zenon
<1> QED BY Zenon, <1>3 DEF v

(* A reader that has handled nothing.                                      *)
LEMMA StreamSame ==
    ASSUME NEW w, NEW e \in Ends, NEW s \in SessType, NEW r \in SessType, NEW q, NEW cl,
           NEW u \in Seq(Units), Stream(w, e, s, q, u, cl), Taken(w, e, r) = Taken(w, e, s)
    PROVE  Stream(w, e, r, q, u, cl)
BY Zenon DEF Stream

(* A step of the handshake that writes the next unit of its end.           *)
LEMMA V3Write ==
    ASSUME IndInv, kind = "v3", NEW e \in Ends, Alive(e), NEW s \in SessType, NEW x \in Units,
           Leaves(e, s), write(e, x), s.buf = sess[e].buf, s.cause = sess[e].cause, Plain(x),
           Local(setup, e, s), Taken(setup, e, s) = Taken(setup, e, sess[e]),
           sess[e].sub # "Done", Written(setup, e, s) = Written(setup, e, sess[e]) + 1,
           s.sub = "Done" => Written(setup, e, s) = 3 + Tokens(setup, Peer(e)),
           UnitOK(setup, Peer(e), Written(setup, e, s), x)
    PROVE  IndInv'
<1> DEFINE p == Peer(e)
<1>1. p \in Ends /\ p # e /\ Peer(p) = e /\ Ends = {e, p}
  BY Zenon, TwoEnds
<1>2. /\ e \notin closed /\ Typed /\ sess[e] \in SessType /\ sess[p] \in SessType
      /\ Stream(setup, e, sess[e], sess[p], streams[e], closed)
      /\ Stream(setup, p, sess[p], sess[e], streams[p], closed)
  BY Zenon, Running
<1>3. wire' \in [Ends -> Seq(Units)] /\ wire'[e] = wire[e]
  BY Zenon, <1>2, WriteFacts
<1>4. Becomes(e, s)
  BY Zenon, <1>2, <1>3, BecomeFacts DEF Leaves
<1>5. streams'[p] = IF p \in closed THEN streams[p] ELSE Append(streams[p], x)
  BY Zenon, <1>2, <1>4, WriteFacts DEF Sent, Becomes
<1>6. streams'[e] = streams[e]
  BY Zenon, <1>2, <1>3, <1>4, StreamTypes DEF Becomes
<1>7. streams[e] \in Seq(Units) /\ streams[p] \in Seq(Units)
  BY Zenon, <1>1, <1>2, StreamTypes
<1>8. Quiet
  <2>1. Calm(streams[e], streams'[e], Promised(e, restarted'))
    BY Zenon, <1>6 DEF Calm
  <2>2. Calm(streams[p], streams'[p], Promised(p, restarted'))
    BY Zenon, <1>5 DEF Calm
  <2> QED BY Zenon, <1>1, <2>1, <2>2 DEF Quiet, Leaves, counts
<1>9. Stream(setup, e, s, sess[p], streams'[e], closed)
  BY Zenon, <1>2, <1>6, <1>7, StreamSame
<1>10. Stream(setup, p, sess[p], s, streams'[p], closed)
  <2>1. CASE p \in closed
    BY Zenon, <2>1 DEF Stream
  <2>2. CASE p \notin closed
    BY Zenon, <1>1, <1>2, <1>5, <1>7, <2>2, StreamWrite
  <2> QED BY Zenon, <2>1, <2>2
<1>11. Compatible => s.cause # "protocol"
  <2>1. ~restarted
    BY Zenon DEF IndInv, V3Inv
  <2> QED BY Zenon, <2>1 DEF IndInv, NoSpuriousError
<1>12. /\ Len(streams'[e]) <= Len(streams[e])
       /\ Len(streams'[p]) + Written(setup, e, sess[e]) <= Len(streams[p]) + Written(setup, e, s)
  <2>1. Len(streams[e]) \in Nat /\ Len(streams[p]) \in Nat
    BY <1>7
  <2>2. Len(streams'[p]) = Len(streams[p]) \/ Len(streams'[p]) = Len(streams[p]) + 1
    BY <1>5, <1>7, Added
  <2>3. Written(setup, e, sess[e]) \in Nat
    BY <1>2, Numbers, Zenon
  <2> QED BY <1>6, <2>1, <2>2, <2>3
<1> QED BY Zenon, <1>2, <1>4, <1>5, <1>8, <1>9, <1>10, <1>11, <1>12, V3Act DEF Leaves

(* A step that neither handles nor writes a unit.                          *)
LEMMA V3Still ==
    ASSUME IndInv, kind = "v3", NEW e \in Ends, Alive(e), NEW s \in SessType,
           Leaves(e, s), wire' \in [Ends -> Seq(Units)],
           streams'[e] = streams[e], wire'[Peer(e)] = wire[Peer(e)],
           Local(setup, e, s), Taken(setup, e, s) = Taken(setup, e, sess[e]),
           Written(setup, e, s) = Written(setup, e, sess[e]),
           s.sub = "Done" <=> sess[e].sub = "Done",
           s.cause = sess[e].cause \/ s.cause # "protocol"
    PROVE  IndInv'
<1> DEFINE p == Peer(e)
<1>1. p \in Ends /\ p # e /\ Peer(p) = e /\ Ends = {e, p}
  BY Zenon, TwoEnds
<1>2. /\ e \notin closed /\ Typed /\ sess[e] \in SessType /\ sess[p] \in SessType
      /\ Stream(setup, e, sess[e], sess[p], streams[e], closed)
      /\ Stream(setup, p, sess[p], sess[e], streams[p], closed)
  BY Zenon, Running
<1>3. Becomes(e, s)
  BY Zenon, <1>2, BecomeFacts DEF Leaves
<1>4. streams'[p] = streams[p]
  BY Zenon, <1>1, <1>2, <1>3, StreamTypes DEF Becomes
<1>5. streams[e] \in Seq(Units) /\ streams[p] \in Seq(Units)
  BY Zenon, <1>1, <1>2, StreamTypes
<1>6. Quiet
  BY Zenon, <1>1, <1>4 DEF Quiet, Leaves, counts, Calm
<1>7. Stream(setup, e, s, sess[p], streams'[e], closed)
  BY Zenon, <1>2, <1>5, StreamSame
<1>8. Stream(setup, p, sess[p], s, streams'[p], closed)
  <2>1. Taken(setup, p, sess[p]) \in Nat
    BY <1>1, <1>2, Numbers, Zenon
  <2>2. Len(streams[p]) \in Nat
    BY <1>5
  <2> QED BY <1>1, <1>2, <1>4, <2>1, <2>2, StreamIdle, Zenon
<1>9. Compatible => s.cause # "protocol"
  <2>1. ~restarted
    BY Zenon DEF IndInv, V3Inv
  <2> QED BY Zenon, <2>1 DEF IndInv, NoSpuriousError
<1>10. /\ Len(streams'[e]) <= Len(streams[e])
       /\ Len(streams'[p]) + Written(setup, e, sess[e]) <= Len(streams[p]) + Written(setup, e, s)
  <2>1. Len(streams[e]) \in Nat /\ Len(streams[p]) \in Nat
    BY <1>5
  <2>2. Written(setup, e, sess[e]) \in Nat
    BY <1>2, Numbers, Zenon
  <2> QED BY <1>4, <2>1, <2>2
<1> QED BY Zenon, <1>2, <1>3, <1>4, <1>6, <1>7, <1>8, <1>9, <1>10, V3Act DEF Leaves

(* The first unit that an end has not handled is the one whose turn it is. *)
LEMMA V3Head ==
    ASSUME IndInv, kind = "v3", NEW e \in Ends, Alive(e), sess[e].buf # <<>>
    PROVE  /\ UnitOK(setup, e, Taken(setup, e, sess[e]) + 1, Head(sess[e].buf))
           /\ Head(sess[e].buf) \in Units /\ Tail(sess[e].buf) \in Seq(Units)
           /\ streams[e] # <<>> /\ Head(streams[e]) = Head(sess[e].buf)
           /\ Tail(sess[e].buf) \o wire[e] = Tail(streams[e])
<1> DEFINE u == streams[e]
<1>1. /\ e \notin closed /\ Typed /\ sess[e].buf \in Seq(Units) /\ wire[e] \in Seq(Units)
      /\ Stream(setup, e, sess[e], sess[Peer(e)], streams[e], closed)
  BY Zenon, Running
<1>2. u = sess[e].buf \o wire[e] /\ u \in Seq(Units)
  BY Zenon, <1>1, StreamTypes
<1>3. /\ u # <<>> /\ Head(u) = Head(sess[e].buf) /\ Head(sess[e].buf) \in Units
      /\ Tail(sess[e].buf) \in Seq(Units) /\ Tail(sess[e].buf) \o wire[e] = Tail(u)
  <2> DEFINE b == sess[e].buf
             r == wire[e]
  <2>1. b \in Seq(Units) /\ r \in Seq(Units) /\ b # <<>> /\ u = b \o r
    BY Zenon, <1>1, <1>2
  <2> HIDE DEF b, r, u
  <2>2. /\ b \o r # <<>> /\ Head(b \o r) = Head(b) /\ Head(b) \in Units
        /\ Tail(b) \in Seq(Units) /\ Tail(b) \o r = Tail(b \o r)
    BY <2>1, SeqTake, Zenon
  <2>3. /\ u # <<>> /\ Head(u) = Head(b) /\ Head(b) \in Units
        /\ Tail(b) \in Seq(Units) /\ Tail(b) \o r = Tail(u)
    BY <2>1, <2>2, Zenon
  <2> QED BY <2>3, Zenon DEF b, r
<1>4. UnitOK(setup, e, Taken(setup, e, sess[e]) + 1, Head(u))
  <2>1. \A i \in 1..Len(u) : UnitOK(setup, e, Taken(setup, e, sess[e]) + i, u[i])
    BY Zenon, <1>1 DEF Stream
  <2> HIDE DEF u
  <2>2. 1 \in 1..Len(u) /\ Head(u) = u[1]
    <3>1. u \in Seq(Units) /\ u # <<>>
      BY <1>2, <1>3, Zenon
    <3> QED BY <3>1
  <2> QED BY <2>1, <2>2, Zenon
<1> QED BY <1>3, <1>4, Zenon

(* The units of the handshake are no messages.                             *)
LEMMA EarlyUnit ==
    ASSUME NEW w, NEW e \in Ends, NEW u, NEW i \in Nat, 1 <= i, i <= 3 + Tokens(w, e),
           UnitOK(w, e, i, u)
    PROVE  u.t \in {"prelude", "v3tail", "token", "READY"}
<1>1. Tokens(w, e) \in 0..2
  BY DEF Tokens, Sends
<1>2. i = 1 \/ i = 2 \/ i \in 3..(2 + Tokens(w, e)) \/ i = 3 + Tokens(w, e)
  BY <1>1
<1> QED BY <1>2 DEF UnitOK, Unit, Ready

(* A step of the handshake that handles the first unit ahead of its end.   *)
LEMMA V3Take ==
    ASSUME IndInv, kind = "v3", NEW e \in Ends, Alive(e), NEW s \in SessType, Leaves(e, s),
           wire' = wire, sess[e].buf # <<>>, s.buf = Tail(sess[e].buf), s.cause = sess[e].cause,
           Local(setup, e, s), Taken(setup, e, s) = Taken(setup, e, sess[e]) + 1,
           Written(setup, e, s) = Written(setup, e, sess[e]), sess[e].sub # "Done",
           s.sub = "Done" => Written(setup, e, sess[e]) = 3 + Tokens(setup, Peer(e))
    PROVE  IndInv'
<1> DEFINE p == Peer(e)
           u == streams[e]
<1>1. p \in Ends /\ p # e /\ Peer(p) = e /\ Ends = {e, p}
  BY Zenon, TwoEnds
<1>2. /\ e \notin closed /\ Typed /\ sess[e] \in SessType /\ sess[p] \in SessType
      /\ Stream(setup, e, sess[e], sess[p], streams[e], closed)
      /\ Stream(setup, p, sess[p], sess[e], streams[p], closed)
  BY Zenon, Running
<1>3. wire' \in [Ends -> Seq(Units)]
  BY Zenon, <1>2 DEF Typed
<1>4. Becomes(e, s)
  BY Zenon, <1>2, <1>3, BecomeFacts DEF Leaves
<1>5. streams'[p] = streams[p]
  BY Zenon, <1>1, <1>2, <1>4, StreamTypes DEF Becomes
<1>6. u \in Seq(Units) /\ streams[p] \in Seq(Units)
  BY Zenon, <1>1, <1>2, StreamTypes
<1>7. /\ UnitOK(setup, e, Taken(setup, e, sess[e]) + 1, Head(u)) /\ u # <<>>
      /\ Tail(sess[e].buf) \o wire[e] = Tail(u)
  BY Zenon, V3Head
<1>8. streams'[e] = Tail(u)
  BY Zenon, <1>2, <1>4, <1>7, StreamTypes DEF Becomes
<1>9. Head(u).t # "data"
  <2>1. Taken(setup, e, s) \in Nat /\ Taken(setup, e, s) <= 3 + Tokens(setup, e)
    BY Numbers, Zenon
  <2>2. Taken(setup, e, sess[e]) \in Nat
    BY <1>2, Numbers, Zenon
  <2>3. 1 <= Taken(setup, e, s)
    BY <2>1, <2>2
  <2>4. Head(u).t \in {"prelude", "v3tail", "token", "READY"}
    BY <1>7, <2>1, <2>3, EarlyUnit, Zenon
  <2> QED BY Zenon, <2>4
<1>10. Quiet
  BY ZenonT(60), <1>1, <1>5, <1>7, <1>8, <1>9 DEF Quiet, Leaves, counts, Calm
<1>11. Stream(setup, e, s, sess[p], streams'[e], closed)
  BY <1>2, <1>6, <1>7, <1>8, StreamTakeOne, Zenon
<1>12. Stream(setup, p, sess[p], s, streams'[p], closed)
  <2>1. Taken(setup, p, sess[p]) \in Nat
    BY <1>1, <1>2, Numbers, Zenon
  <2>2. Len(streams[p]) \in Nat
    BY <1>6
  <2> QED BY <1>1, <1>2, <1>5, <2>1, <2>2, StreamIdle, Zenon
<1>13. Compatible => s.cause # "protocol"
  <2>1. ~restarted
    BY Zenon DEF IndInv, V3Inv
  <2> QED BY Zenon, <2>1 DEF IndInv, NoSpuriousError
<1>14. /\ Len(streams'[e]) <= Len(streams[e])
       /\ Len(streams'[p]) + Written(setup, e, sess[e]) <= Len(streams[p]) + Written(setup, e, s)
  <2>1. Len(streams[p]) \in Nat
    BY <1>6
  <2>2. Written(setup, e, sess[e]) \in Nat
    BY <1>2, Numbers, Zenon
  <2>3. Len(Tail(u)) = Len(u) - 1 /\ Len(u) \in Nat
    BY Zenon, <1>6, <1>7, Behind
  <2> QED BY <1>5, <1>8, <2>1, <2>2, <2>3
<1> QED BY Zenon, <1>2, <1>4, <1>5, <1>10, <1>11, <1>12, <1>13, <1>14, V3Act DEF Leaves
-----------------------------------------------------------------------------
(* The steps of the handshake between two rzmq ends.                       *)
LEMMA V3Signature ==
    ASSUME IndInv, kind = "v3", NEW e \in Ends, send_signature(e)
    PROVE  IndInv'
<1> DEFINE o == sess[e]
           s == [o EXCEPT !.sub = "WaitingForPeerRevision", !.buf = <<>>]
           x == Unit("prelude", "0x03", "NULL")
           p == Peer(e)
<1>1. /\ Alive(e) /\ o.phase = "HandshakeInProgress" /\ o.sub = "GreetingExchange"
  BY Zenon DEF send_signature, In, Handshaking, Alive
<1>2. o \in SessType /\ Local(setup, e, o) /\ Typed /\ p \in Ends
  BY Zenon, <1>1, Running, TwoEnds
<1>3. o.buf = <<>>
  BY Zenon, <1>1, <1>2 DEF Local
<1>4. "WaitingForPeerRevision" \in SubPhases /\ <<>> \in Seq(Units)
  BY DEF SubPhases
<1>5. x \in Units /\ Plain(x)
  BY Zenon DEF Unit, Units, UnitTypes, Values, Mechanisms, Plain
<1>6. Leaves(e, s) /\ write(e, x)
  BY Zenon DEF send_signature, Leaves
<1> HIDE DEF o
<1>7. s \in SessType
  BY <1>2, <1>4, Zenon DEF SessType
<1>8. /\ s.phase = o.phase /\ s.sub = "WaitingForPeerRevision" /\ s.at = o.at /\ s.buf = o.buf
      /\ s.mech = o.mech /\ s.step = o.step /\ s.id = o.id /\ s.framer = o.framer
      /\ s.cause = o.cause
  BY <1>2, <1>3, Zenon DEF SessType
<1> HIDE DEF s, x
<1>9. Local(setup, e, s)
  BY Zenon, <1>1, <1>2, <1>8 DEF Local, Greeting, Secured
<1>10. /\ Taken(setup, e, s) = Taken(setup, e, o) /\ Written(setup, e, s) = 1
       /\ Written(setup, e, o) = 0
  BY Zenon, <1>1, <1>8 DEF Taken, Written, Greeting
<1>11. UnitOK(setup, p, 1, x)
  <2>1. Tokens(setup, p) \in 0..2
    BY DEF Tokens, Sends
  <2> QED BY <2>1 DEF UnitOK, x
<1> QED BY <1>1, <1>5, <1>6, <1>7, <1>8, <1>9, <1>10, <1>11, V3Write DEF o

(* wait_for_peer_revision: the peer is of the revision that is spoken.     *)
LEMMA V3Revision ==
    ASSUME IndInv, kind = "v3", NEW e \in Ends, wait_for_peer_revision(e)
    PROVE  IndInv'
<1> DEFINE o == sess[e]
           s == [o EXCEPT !.sub = "WaitingForGreeting"]
           x == Unit("v3tail", determine_own_greeting_mechanism(e), "NULL")
           p == Peer(e)
<1>1. /\ Alive(e) /\ o.phase = "HandshakeInProgress" /\ o.sub = "WaitingForPeerRevision"
      /\ o.buf # <<>>
  BY Zenon DEF wait_for_peer_revision, In, Handshaking, Alive, peeks_revision
<1>2. o \in SessType /\ Local(setup, e, o) /\ Typed /\ p \in Ends /\ Peer(p) = e
  BY Zenon, <1>1, Running, TwoEnds
<1>3. Head(o.buf).v = "0x03"
  <2>1. UnitOK(setup, e, Taken(setup, e, o) + 1, Head(o.buf))
    BY Zenon, <1>1, V3Head
  <2>2. Taken(setup, e, o) + 1 = 1
    BY <1>1 DEF Taken, Greeting
  <2> QED BY <2>1, <2>2 DEF UnitOK, Unit
<1>4. Leaves(e, s) /\ write(e, x)
  BY Zenon, <1>3 DEF wait_for_peer_revision, Leaves
<1>5. Own(setup, e) \in Mechanisms /\ x = Unit("v3tail", Own(setup, e), "NULL")
  BY Zenon, <1>2, Options
<1> HIDE DEF o, x
<1>6. x \in Units /\ Plain(x)
  BY Zenon, <1>5 DEF Unit, Units, UnitTypes, Values, Mechanisms, Plain
<1>7. s \in SessType
  <2>1. "WaitingForGreeting" \in SubPhases
    BY Zenon DEF SubPhases
  <2> QED BY <1>2, <2>1, Zenon DEF SessType
<1>8. /\ s.phase = o.phase /\ s.sub = "WaitingForGreeting" /\ s.at = o.at /\ s.buf = o.buf
      /\ s.mech = o.mech /\ s.step = o.step /\ s.id = o.id /\ s.framer = o.framer
      /\ s.cause = o.cause
  BY <1>2, Zenon DEF SessType
<1> HIDE DEF s
<1>9. Local(setup, e, s)
  BY Zenon, <1>1, <1>2, <1>8 DEF Local, Greeting, Secured
<1>10. /\ Taken(setup, e, s) = Taken(setup, e, o) /\ Written(setup, e, s) = 2
       /\ Written(setup, e, o) = 1
  BY Zenon, <1>1, <1>8 DEF Taken, Written, Greeting
<1>11. UnitOK(setup, p, 2, x)
  <2>1. Tokens(setup, p) \in 0..2
    BY DEF Tokens, Sends
  <2> QED BY <1>2, <1>5, <2>1 DEF UnitOK
<1> QED BY <1>1, <1>4, <1>6, <1>7, <1>8, <1>9, <1>10, <1>11, V3Write DEF o

(* A reader that has handled the two units of a greeting.                  *)
LEMMA StreamTakeTwo ==
    ASSUME NEW w, NEW e \in Ends, NEW s \in SessType, NEW r \in SessType, NEW q, NEW cl,
           NEW u \in Seq(Units), u # <<>>, Tail(u) # <<>>,
           Stream(w, e, s, q, u, cl), Taken(w, e, r) = Taken(w, e, s) + 2
    PROVE  Stream(w, e, r, q, Tail(Tail(u)), cl)
<1> DEFINE v == Tail(Tail(u))
<1>1. /\ v \in Seq(Units) /\ Len(v) = Len(u) - 2
      /\ \A i \in 1..Len(v) : v[i] = u[i + 2]
  BY TwoOff, Zenon
<1>2. 2 \in Nat
  BY Zenon
<1> HIDE DEF v
<1>3. Stream(w, e, r, q, v, cl)
  BY <1>1, <1>2, StreamTake, Zenon
<1> QED BY Zenon, <1>3 DEF v

(* The two units of a greeting are taken at once.                          *)
LEMMA V3Greeting ==
    ASSUME IndInv, kind = "v3", NEW e \in Ends, receive_greeting(e)
    PROVE  IndInv'
<1> DEFINE o == sess[e]
           s == [o EXCEPT !.buf = Rest(sess[e], 2), !.version = "V3",
                          !.peer_mech = sess[e].buf[2].v, !.sub = "SecurityHandshake"]
           p == Peer(e)
           u == streams[e]
<1>1. /\ Alive(e) /\ o.phase = "HandshakeInProgress" /\ o.sub = "WaitingForGreeting"
      /\ Len(o.buf) >= 2 /\ Leaves(e, s) /\ wire' = wire
  BY Zenon DEF receive_greeting, In, Handshaking, Alive, Leaves
<1>2. /\ o \in SessType /\ Local(setup, e, o) /\ Typed /\ p \in Ends /\ Peer(p) = e
      /\ p # e /\ Ends = {e, p}
      /\ sess[p] \in SessType /\ e \notin closed /\ o.buf \in Seq(Units) /\ wire[e] \in Seq(Units)
      /\ Stream(setup, e, o, sess[p], u, closed)
      /\ Stream(setup, p, sess[p], o, streams[p], closed)
  BY Zenon, <1>1, Running, TwoEnds
<1>3. /\ u \in Seq(Units) /\ u = o.buf \o wire[e] /\ streams[p] \in Seq(Units)
  BY Zenon, <1>2, StreamTypes
<1>4. /\ u # <<>> /\ Tail(u) # <<>> /\ Head(u) = o.buf[1] /\ Head(Tail(u)) = o.buf[2]
      /\ o.buf[2] \in Units /\ Rest(o, 2) \in Seq(Units)
      /\ Rest(o, 2) \o wire[e] = Tail(Tail(u))
  <2> DEFINE b == o.buf
             r == wire[e]
  <2>1. b \in Seq(Units) /\ r \in Seq(Units) /\ Len(b) >= 2 /\ u = b \o r
    BY Zenon, <1>1, <1>2, <1>3
  <2>2. Rest(o, 2) = SubSeq(b, 3, Len(b))
    BY DEF Rest
  <2> HIDE DEF b, r, u
  <2>3. /\ b \o r # <<>> /\ Tail(b \o r) # <<>>
        /\ Head(b \o r) = b[1] /\ Head(Tail(b \o r)) = b[2] /\ b[2] \in Units
        /\ SubSeq(b, 3, Len(b)) \in Seq(Units)
        /\ SubSeq(b, 3, Len(b)) \o r = Tail(Tail(b \o r))
    BY <2>1, SeqTakeTwo, Zenon
  <2> QED BY <2>1, <2>2, <2>3, Zenon DEF b, r
<1>5. /\ \A i \in 1..Len(u) : UnitOK(setup, e, i, u[i])
      /\ Len(u) \in Nat /\ Len(u) >= 2
  <2>1. \A i \in 1..Len(u) : UnitOK(setup, e, Taken(setup, e, o) + i, u[i])
    BY Zenon, <1>2 DEF Stream
  <2>2. Taken(setup, e, o) = 0
    BY Zenon, <1>1 DEF Taken, Greeting
  <2> HIDE DEF u
  <2>3. Len(u) \in Nat /\ Len(u) >= 2
    BY <1>3, <1>4, TwoOff, Zenon
  <2>4. \A i \in 1..Len(u) : 0 + i = i
    BY <2>3
  <2> QED BY Zenon, <2>1, <2>2, <2>3, <2>4
<1> HIDE DEF u
<1>6. o.buf[2] = Unit("v3tail", Own(setup, p), "NULL") /\ o.buf[1] = Unit("prelude", "0x03", "NULL")
  <2>1. UnitOK(setup, e, 1, u[1]) /\ UnitOK(setup, e, 2, u[2])
    BY <1>5
  <2>2. u[1] = Head(u) /\ Head(Tail(u)) = u[2]
    BY <1>3, <1>4, TwoOff, Zenon
  <2> QED BY Zenon, <1>4, <2>1, <2>2 DEF UnitOK
<1>7. Own(setup, p) \in Mechanisms
  BY Zenon, <1>2, Options
<1>8. s \in SessType
  <2>1. "SecurityHandshake" \in SubPhases /\ "V3" \in Versions /\ o.buf[2].v \in Proposals
    BY <1>6, <1>7 DEF SubPhases, Versions, Proposals, Unit
  <2> QED BY <1>2, <1>4, <2>1, Zenon DEF SessType
<1> HIDE DEF o
<1>9. /\ s.phase = o.phase /\ s.sub = "SecurityHandshake" /\ s.at = o.at /\ s.buf = Rest(o, 2)
      /\ s.mech = o.mech /\ s.step = o.step /\ s.id = o.id /\ s.framer = o.framer
      /\ s.cause = o.cause /\ s.version = "V3" /\ s.peer_mech = o.buf[2].v
  BY <1>2, Zenon DEF SessType, o
<1> HIDE DEF s
<1>10. s.peer_mech = Own(setup, p)
  BY SMTT(30), <1>6, <1>9 DEF Unit
<1>11. Local(setup, e, s)
  BY ZenonT(60), <1>1, <1>2, <1>9, <1>10 DEF Local, Greeting, Secured
<1>12. /\ Taken(setup, e, o) = 0 /\ Taken(setup, e, s) = 2
       /\ Written(setup, e, s) = Written(setup, e, o)
  <2>1. s.step = 0
    BY Zenon, <1>1, <1>2, <1>9 DEF Local, Greeting
  <2> QED BY SMTT(30), <1>1, <1>9, <2>1 DEF Taken, Written, Greeting, GotBy, SentBy
<1>13. wire' \in [Ends -> Seq(Units)]
  BY ZenonT(60), <1>1, <1>2 DEF Typed
<1>14. Becomes(e, s)
  BY Zenon, <1>1, <1>2, <1>8, <1>13, BecomeFacts DEF Leaves
<1>15. streams'[e] = Tail(Tail(u)) /\ streams'[p] = streams[p]
  <2>1. streams'[e] = s.buf \o wire[e]
    BY Zenon, <1>1, <1>2, <1>14, StreamTypes DEF Becomes
  <2>2. streams'[p] = streams[p]
    BY Zenon, <1>1, <1>2, <1>14, StreamTypes DEF Becomes
  <2> QED BY Zenon, <1>4, <1>9, <2>1, <2>2
<1>16. Quiet
  <2>1. Head(u).t # "data" /\ Head(Tail(u)).t # "data"
    BY SMTT(30), <1>4, <1>6 DEF Unit
  <2>2. Calm(u, streams'[e], Promised(e, restarted'))
          /\ Calm(streams[p], streams'[p], Promised(p, restarted'))
    BY Zenon, <1>4, <1>15, <2>1 DEF Calm
  <2> QED BY Zenon, <1>1, <1>2, <2>2 DEF Quiet, Leaves, counts, u
<1>17. Stream(setup, e, s, sess[p], streams'[e], closed)
  <2>1. Taken(setup, e, s) = Taken(setup, e, o) + 2
    BY <1>12
  <2> QED BY <1>2, <1>3, <1>4, <1>8, <1>15, <2>1, StreamTakeTwo, Zenon
<1>18. Stream(setup, p, sess[p], s, streams'[p], closed)
  <2>1. Taken(setup, p, sess[p]) \in Nat
    BY <1>2, Numbers, Zenon
  <2>2. Len(streams[p]) \in Nat
    BY <1>3
  <2>3. s.sub # "Done" /\ o.sub # "Done"
    BY Zenon, <1>1, <1>9
  <2> QED BY <1>2, <1>8, <1>12, <1>15, <2>1, <2>2, <2>3, StreamIdle, Zenon
<1>19. Compatible => s.cause # "protocol"
  <2>1. ~restarted
    BY Zenon DEF IndInv, V3Inv
  <2> QED BY Zenon, <1>9, <2>1 DEF IndInv, NoSpuriousError, o
<1>20. /\ Len(streams'[e]) <= Len(streams[e])
       /\ Len(streams'[p]) + Written(setup, e, o) <= Len(streams[p]) + Written(setup, e, s)
  <2>1. Len(streams[p]) \in Nat
    BY <1>3
  <2>2. Written(setup, e, o) \in Nat
    BY <1>2, Numbers, Zenon
  <2>3. Tail(u) \in Seq(Units) /\ Len(Tail(u)) = Len(u) - 1 /\ Len(u) \in Nat
    BY Zenon, <1>3, <1>4, Behind
  <2>4. Len(Tail(Tail(u))) = Len(Tail(u)) - 1
    BY Zenon, <1>4, <2>3, Behind
  <2>5. Len(Tail(Tail(u))) <= Len(u)
    BY <2>3, <2>4
  <2>6. Len(streams[p]) + Written(setup, e, o) <= Len(streams[p]) + Written(setup, e, o)
    BY SMTT(30), <2>1, <2>2
  <2> QED BY ZenonT(60), <1>12, <1>15, <2>5, <2>6 DEF u
<1> QED BY ZenonT(60), <1>1, <1>2, <1>8, <1>11, <1>14, <1>15, <1>16, <1>17, <1>18, <1>19, <1>20, V3Act
        DEF Leaves, o
(* A mechanism goes on by a step, or is through: what the end must know by *)
(* then, and what it has handled and written.                              *)
Receives(e, k) == (e = "client") <=> (k = 2)
Knows(w, e) == Own(w, e) = Own(w, Peer(e)) /\ Able(w, Peer(e))
(* advance_mechanism: what the session is after a step of the script.      *)
LEMMA Advance ==
    ASSUME NEW w, NEW e \in Ends, NEW o \in SessType, Local(w, e, o),
           o.sub = "SecurityHandshake", o.mech # "NULL", o.phase = "HandshakeInProgress",
           GotBy(e, o.step + 1) = 1 /\ o.step < Steps(o.mech) =>
              Knows(w, e) /\ (e = "client" \/ o.mech = "PLAIN" => w[3]),
           o.step = Steps(o.mech) => Knows(w, e) /\ w[3]
    PROVE  LET s == advance_mechanism(e, o)
           IN  /\ s \in SessType /\ Local(w, e, s) /\ s.buf = o.buf /\ s.cause = o.cause
               /\ s.sub # "Done"
               /\ Receives(e, o.step) => /\ Taken(w, e, s) = Taken(w, e, o) + 1
                                         /\ Written(w, e, s) = Written(w, e, o)
               /\ ~Receives(e, o.step) => /\ Taken(w, e, s) = Taken(w, e, o)
                                          /\ Written(w, e, s) = Written(w, e, o) + 1
<1> DEFINE s == advance_mechanism(e, o)
           m == o.mech
           k == o.step
           p == Peer(e)
<1>1. m \in Mechanisms /\ k \in 0..4 /\ p \in Ends /\ e \in {"client", "server"} /\ Peer(p) = e
  BY Zenon, TwoEnds DEF SessType, ScriptSteps
<1>2. /\ o.at = "start" /\ o.framer = "NULL" /\ o.version = "V3" /\ m = Own(w, p)
      /\ Able(w, e) /\ k \in 1..Steps(m) /\ o.peer_mech = Own(w, p) /\ o.id = "none"
  BY Zenon DEF Local
<1>3. Steps(m) = (IF m = "PLAIN" THEN 2 ELSE 3) /\ Len(Script(e, m)) = Steps(m)
  BY Zenon, <1>1, ScriptFacts DEF Steps
<1>4. CASE k < Steps(m)
  <2> DEFINE r == [o EXCEPT !.step = k + 1]
  <2>1. s = r
    BY Zenon, <1>3, <1>4 DEF advance_mechanism
  <2>2. k + 1 \in ScriptSteps /\ k + 1 \in 1..Steps(m)
    BY <1>1, <1>2, <1>3, <1>4 DEF ScriptSteps
  <2>3. r \in SessType
    BY <2>2, Zenon DEF SessType
  <2>4. /\ r.phase = o.phase /\ r.sub = o.sub /\ r.at = o.at /\ r.buf = o.buf /\ r.mech = m
        /\ r.step = k + 1 /\ r.peer_mech = o.peer_mech /\ r.version = o.version
        /\ r.framer = o.framer /\ r.id = o.id /\ r.cause = o.cause
    BY Zenon DEF SessType
  <2> HIDE DEF r, s, m, k
  <2>5. Local(w, e, r)
    BY Zenon, <1>2, <1>4, <2>2, <2>4 DEF Local, Greeting, Secured, Knows, m, k
  <2>6. /\ Taken(w, e, r) = 2 + GotBy(e, k + 1) /\ Taken(w, e, o) = 2 + GotBy(e, k)
        /\ Written(w, e, r) = 2 + SentBy(e, k + 1) /\ Written(w, e, o) = 2 + SentBy(e, k)
    BY Zenon, <2>4 DEF Taken, Written, Greeting, k
  <2>7. k = 1 \/ k = 2
    BY <1>1, <1>2, <1>3, <1>4
  <2>8. /\ Receives(e, k) => GotBy(e, k + 1) = GotBy(e, k) + 1 /\ SentBy(e, k + 1) = SentBy(e, k)
        /\ ~Receives(e, k) => GotBy(e, k + 1) = GotBy(e, k) /\ SentBy(e, k + 1) = SentBy(e, k) + 1
    BY <1>1, <2>7 DEF Receives, GotBy, SentBy
  <2>9. /\ Receives(e, k) => Taken(w, e, r) = Taken(w, e, o) + 1 /\ Written(w, e, r) = Written(w, e, o)
        /\ ~Receives(e, k) => Taken(w, e, r) = Taken(w, e, o) /\ Written(w, e, r) = Written(w, e, o) + 1
    <3>1. GotBy(e, k) \in 0..1 /\ SentBy(e, k) \in 0..1
      BY DEF GotBy, SentBy
    <3> QED BY <2>6, <2>8, <3>1
  <2>10. r.sub # "Done"
    BY ZenonT(60), <2>4
  <2> QED BY Zenon, <2>1, <2>3, <2>4, <2>5, <2>9, <2>10 DEF s, k
<1>5. CASE k = Steps(m)
  <2> DEFINE r == [o EXCEPT !.framer = m, !.mech = "NULL", !.step = 0, !.sub = "ReadyExchange",
                            !.id = "security"]
  <2>1. s = r
    BY <1>3, <1>5 DEF advance_mechanism, finalize
  <2>2. /\ "ReadyExchange" \in SubPhases /\ "security" \in Identities /\ 0 \in ScriptSteps
        /\ "NULL" \in Mechanisms
    BY DEF SubPhases, Identities, ScriptSteps, Mechanisms
  <2>3. r \in SessType
    BY <1>1, <2>2, Zenon DEF SessType
  <2>4. /\ r.phase = o.phase /\ r.sub = "ReadyExchange" /\ r.at = o.at /\ r.buf = o.buf
        /\ r.mech = "NULL" /\ r.step = 0 /\ r.version = o.version
        /\ r.framer = m /\ r.id = "security" /\ r.cause = o.cause
    BY Zenon DEF SessType
  <2> HIDE DEF r, s, m, k
  <2>5. Own(w, e) = m /\ Able(w, p) /\ w[3] /\ m # "NULL"
    BY Zenon, <1>2, <1>5 DEF Knows, m, k
  <2>6. Fits(w, e)
    BY ZenonT(60), <1>2, <2>5 DEF Fits
  <2>7. Local(w, e, r)
    BY ZenonT(60), <1>2, <2>4, <2>5, <2>6 DEF Local, Greeting, Secured, Secure
  <2>8. /\ Taken(w, e, r) = 2 + Sends(p, m) /\ Taken(w, e, o) = 2 + GotBy(e, k)
        /\ Written(w, e, r) = 2 + Sends(e, m) /\ Written(w, e, o) = 2 + SentBy(e, k)
    BY Zenon, <1>1, <1>2, <2>4, <2>5 DEF Taken, Written, Greeting, Tokens, k
  <2>9. k = IF m = "PLAIN" THEN 2 ELSE 3
    BY Zenon, <1>3, <1>5
  <2>10. /\ Receives(e, k) => Sends(p, m) = GotBy(e, k) + 1 /\ Sends(e, m) = SentBy(e, k)
         /\ ~Receives(e, k) => Sends(p, m) = GotBy(e, k) /\ Sends(e, m) = SentBy(e, k) + 1
    BY <1>1, <2>5, <2>9 DEF Receives, GotBy, SentBy, Sends, Peer
  <2>11. /\ Receives(e, k) => Taken(w, e, r) = Taken(w, e, o) + 1 /\ Written(w, e, r) = Written(w, e, o)
         /\ ~Receives(e, k) => Taken(w, e, r) = Taken(w, e, o) /\ Written(w, e, r) = Written(w, e, o) + 1
    <3>1. GotBy(e, k) \in 0..1 /\ SentBy(e, k) \in 0..1
      BY DEF GotBy, SentBy
    <3> QED BY <2>8, <2>10, <3>1
  <2>12. r.sub # "Done"
    BY Zenon, <2>4
  <2> QED BY Zenon, <2>1, <2>3, <2>4, <2>7, <2>11, <2>12 DEF s, k
<1> QED BY <1>1, <1>2, <1>3, <1>4, <1>5

(* negotiate_security_mechanism.                                           *)
LEMMA V3Negotiate ==
    ASSUME IndInv, kind = "v3", NEW e \in Ends, negotiate_security_mechanism(e)
    PROVE  IndInv'
<1> DEFINE o == sess[e]
           m == o.peer_mech
           p == Peer(e)
           s == IF m = "NULL" THEN finalize(o, m) ELSE [o EXCEPT !.mech = m, !.step = 1]
<1>1. /\ Alive(e) /\ o.phase = "HandshakeInProgress" /\ o.sub = "SecurityHandshake"
      /\ o.mech = "NULL"
  BY SMTT(30) DEF negotiate_security_mechanism, In, Handshaking, Alive
<1>2. /\ o \in SessType /\ Local(setup, e, o) /\ Typed /\ p \in Ends /\ Peer(p) = e
      /\ o.phase # "External" /\ ~restarted
  BY ZenonT(60), <1>1, Running, TwoEnds DEF IndInv, V3Inv
<1>3. /\ m = Own(setup, p) /\ o.step = 0 /\ o.at = "start" /\ o.version = "V3"
      /\ o.framer = "NULL" /\ o.id = "none"
  BY ZenonT(60), <1>1, <1>2 DEF Local
<1>4. m \in Mechanisms /\ Own(setup, e) = Preferred(config[e])
  BY Zenon, <1>2, <1>3, Options DEF Own, setup
<1>5. Able(setup, e) <=> is_locally_enabled(e, m) /\ initializes(e, m)
  BY Zenon, <1>2, <1>3, Options
<1>6. CASE Able(setup, e)
  <2>1. Leaves(e, s) /\ wire' = wire
    BY ZenonT(60), <1>5, <1>6 DEF negotiate_security_mechanism, Leaves
  <2> HIDE DEF o, m
  <2>2. CASE m = "NULL"
    <3> DEFINE r == [o EXCEPT !.framer = m, !.mech = "NULL", !.step = 0,
                              !.sub = "ReadyExchange", !.id = "none"]
    <3>1. s = r
      BY Zenon, <2>2 DEF finalize
    <3>2. /\ "ReadyExchange" \in SubPhases /\ "none" \in Identities /\ 0 \in ScriptSteps
          /\ "NULL" \in Mechanisms
      BY DEF SubPhases, Identities, ScriptSteps, Mechanisms
    <3>3. r \in SessType
      BY <1>2, <1>4, <3>2, Zenon DEF SessType
    <3>4. /\ r.phase = o.phase /\ r.sub = "ReadyExchange" /\ r.at = o.at /\ r.buf = o.buf
          /\ r.mech = "NULL" /\ r.step = 0 /\ r.version = o.version
          /\ r.framer = m /\ r.id = "none" /\ r.cause = o.cause
      BY <1>2, Zenon DEF SessType
    <3> HIDE DEF s, r
    <3>5. Own(setup, e) = "NULL"
      <4>1. config[e].use = {}
        BY Zenon, <1>5, <1>6, <2>2 DEF is_locally_enabled
      <4> QED BY Zenon, <1>4, <4>1 DEF Preferred
    <3>6. Fits(setup, e)
      BY Zenon, <1>3, <1>6, <2>2, <3>5 DEF Fits
    <3>7. Local(setup, e, r)
      BY ZenonT(60), <1>1, <1>2, <1>3, <2>2, <3>4, <3>6 DEF Local, Greeting, Secured, Secure
    <3>8. /\ Taken(setup, e, r) = 2 /\ Taken(setup, e, o) = 2
          /\ Written(setup, e, r) = 2 /\ Written(setup, e, o) = 2
      BY SMTT(30), <1>1, <1>2, <1>3, <2>2, <3>4, <3>5
         DEF Taken, Written, Greeting, Tokens, Sends, GotBy, SentBy
    <3>9. wire' \in [Ends -> Seq(Units)] /\ streams'[e] = streams[e]
      <4>1. sess'[e] = r
        BY ZenonT(60), <1>2, <2>1, <3>1 DEF Leaves, become, Typed
      <4> QED BY Zenon, <1>2, <2>1, <3>4, <4>1, StreamTypes DEF Typed, o
    <3> QED BY ZenonT(60), <1>1, <2>1, <3>1, <3>3, <3>4, <3>7, <3>8, <3>9, V3Still DEF o
  <2>3. CASE m # "NULL"
    <3> DEFINE r == [o EXCEPT !.mech = m, !.step = 1]
    <3>1. s = r
      BY Zenon, <2>3
    <3>2. 1 \in ScriptSteps
      BY DEF ScriptSteps
    <3>3. r \in SessType
      BY <1>2, <1>4, <3>2, Zenon DEF SessType
    <3>4. /\ r.phase = o.phase /\ r.sub = o.sub /\ r.at = o.at /\ r.buf = o.buf
          /\ r.mech = m /\ r.step = 1 /\ r.version = o.version /\ r.peer_mech = m
          /\ r.framer = o.framer /\ r.id = o.id /\ r.cause = o.cause
      BY <1>2, Zenon DEF SessType, m
    <3> HIDE DEF s, r
    <3>5. 1 \in 1..Steps(m) /\ GotBy(e, 1) = 0 /\ SentBy(e, 1) = 0
      BY SMTT(30), <2>3 DEF Steps, GotBy, SentBy
    <3>6. Local(setup, e, r)
      <4>1. GotBy(e, r.step) # 1 /\ r.step \in 1..Steps(m)
        BY <3>4, <3>5
      <4> QED BY ZenonT(60), <1>1, <1>2, <1>3, <1>6, <2>3, <3>4, <4>1
                 DEF Local, Greeting, Secured
    <3>7. /\ Taken(setup, e, r) = 2 /\ Taken(setup, e, o) = 2
          /\ Written(setup, e, r) = 2 /\ Written(setup, e, o) = 2
      BY SMTT(30), <1>1, <1>3, <3>4 DEF Taken, Written, Greeting, GotBy, SentBy
    <3>8. wire' \in [Ends -> Seq(Units)] /\ streams'[e] = streams[e]
      <4>1. sess'[e] = r
        BY Zenon, <1>2, <2>1, <3>1 DEF Leaves, become, Typed
      <4> QED BY ZenonT(60), <1>2, <2>1, <3>4, <4>1, StreamTypes DEF Typed, o
    <3> QED BY Zenon, <1>1, <2>1, <3>1, <3>3, <3>4, <3>6, <3>7, <3>8, V3Still DEF o
  <2> QED BY ZenonT(60), <2>2, <2>3
<1>7. CASE ~Able(setup, e)
  <2>1. /\ set_fatal_error(e, "protocol") /\ setup' = setup /\ v2peer' = v2peer
        /\ counts' = counts /\ restarted' = restarted
    BY Zenon, <1>5, <1>7 DEF negotiate_security_mechanism
  <2>2. ~Compatible /\ "protocol" \in Causes
    BY Zenon, <1>2, <1>7, CompatibleMeans DEF Causes
  <2> QED BY Zenon, <1>2, <2>1, <2>2, Fatal
<1> QED BY Zenon, <1>6, <1>7

(* produce_token: the token is the one the peer waits for.                 *)
LEMMA V3Produce ==
    ASSUME IndInv, kind = "v3", NEW e \in Ends, produce_token(e)
    PROVE  IndInv'
<1> DEFINE o == sess[e]
           m == o.mech
           k == o.step
           p == Peer(e)
           s == advance_mechanism(e, o)
           x == Unit("token", Op(e).tok, m)
           j == IF k = 3 THEN 2 ELSE 1
<1>1. /\ Alive(e) /\ o.phase = "HandshakeInProgress" /\ o.sub = "SecurityHandshake"
      /\ m # "NULL" /\ Leaves(e, s) /\ write(e, x) /\ Op(e).op = "send"
  BY SMTT(30) DEF produce_token, In, Handshaking, Alive, Leaves
<1>2. o \in SessType /\ Local(setup, e, o) /\ Typed /\ p \in Ends /\ Peer(p) = e
  BY ZenonT(60), <1>1, Running, TwoEnds
<1>3. /\ m = Own(setup, p) /\ Able(setup, e) /\ k \in 1..Steps(m)
      /\ GotBy(e, k) = 1 =>
            Knows(setup, e) /\ (e = "client" \/ m = "PLAIN" => setup[3])
  BY ZenonT(60), <1>1, <1>2 DEF Local, Knows
<1>4. m \in Mechanisms /\ e \in {"client", "server"} /\ k \in 0..4
  BY ZenonT(60), <1>2, TwoEnds DEF SessType, ScriptSteps
<1>5. /\ ~Receives(e, k) /\ Op(e).tok = SendTok(IF k = 2 THEN "server" ELSE "client", m, j)
      /\ Steps(m) = IF m = "PLAIN" THEN 2 ELSE 3
  BY <1>1, <1>3, <1>4, ScriptFacts DEF Op, Receives, Steps
<1> HIDE DEF o, m, k
<1>6. /\ e = "client" => k = 1 \/ (k = 3 /\ m # "PLAIN")
      /\ e = "server" => k = 2
  BY <1>3, <1>4, <1>5 DEF Receives
<1>7. /\ x = Unit("token", SendTok(e, m, j), m) /\ Written(setup, e, o) = 1 + j
      /\ GotBy(e, k) = (IF e = "client" /\ k = 1 THEN 0 ELSE 1)
      /\ j \in 1..Sends(e, m)
  BY SMTT(30), <1>1, <1>4, <1>5, <1>6 DEF Written, SentBy, GotBy, Sends, k
<1>8. /\ GotBy(e, k + 1) = 1 /\ k < Steps(m) =>
            Knows(setup, e) /\ (e = "client" \/ m = "PLAIN" => setup[3])
      /\ k = Steps(m) => Knows(setup, e) /\ setup[3]
  BY SMTT(30), <1>3, <1>4, <1>5, <1>6, <1>7 DEF GotBy
<1>9. /\ s \in SessType /\ Local(setup, e, s) /\ s.buf = o.buf /\ s.cause = o.cause
      /\ s.sub # "Done" /\ Taken(setup, e, s) = Taken(setup, e, o)
      /\ Written(setup, e, s) = Written(setup, e, o) + 1
  BY <1>1, <1>2, <1>5, <1>8, Advance DEF m, k
<1> HIDE DEF s, x
<1>10. x \in Units /\ Plain(x)
  <2>1. SendTok(e, m, j) \in Values
    BY Zenon DEF SendTok, Values
  <2> QED BY Zenon, <1>4, <1>7, <2>1 DEF Unit, Units, UnitTypes, Commands, Plain
<1>11. UnitOK(setup, p, Written(setup, e, s), x)
  <2>1. Tokens(setup, p) = Sends(e, m) /\ Sends(e, m) \in 1..2
    BY <1>1, <1>2, <1>3 DEF Tokens, Sends, m
  <2>2. Vouch(setup, e, j)
    BY <1>3, <1>4, <1>6, <1>7 DEF Vouch, Knows
  <2>3. Written(setup, e, s) = j + 2 /\ (j = 1 \/ j = 2)
    BY <1>7, <1>9
  <2>4. j + 2 \in 3..(2 + Sends(e, m)) /\ (j + 2) - 2 = j /\ j + 2 # 1 /\ j + 2 # 2
        /\ j + 2 # 3 + Sends(e, m) /\ ~(j + 2 > 3 + Sends(e, m))
    BY <1>7, <2>1, <2>3
  <2> HIDE DEF j
  <2> QED BY ZenonT(60), <1>2, <1>3, <1>7, <2>1, <2>2, <2>3, <2>4 DEF UnitOK
<1>12. o.sub # "Done"
  BY Zenon, <1>1
<1> QED BY ZenonT(60), <1>1, <1>9, <1>10, <1>11, <1>12, V3Write DEF o

(* process_token.                                                          *)
LEMMA V3Process ==
    ASSUME IndInv, kind = "v3", NEW e \in Ends, process_token(e)
    PROVE  IndInv'
<1> DEFINE o == sess[e]
           m == o.mech
           k == o.step
           p == Peer(e)
           u == Head(o.buf)
           t == [o EXCEPT !.buf = Tail(o.buf)]
           s == advance_mechanism(e, t)
           j == IF k = 3 THEN 2 ELSE 1
           Good == u.t = "token" /\ u.key = m /\ u.v = Op(e).tok /\ accepts(e, m, u.v)
<1>1. /\ Alive(e) /\ o.phase = "HandshakeInProgress" /\ o.sub = "SecurityHandshake"
      /\ m # "NULL" /\ Op(e).op = "recv" /\ o.buf # <<>>
      /\ setup' = setup /\ v2peer' = v2peer /\ counts' = counts /\ restarted' = restarted
  BY SMTT(30) DEF process_token, In, Handshaking, Alive
<1>2. /\ o \in SessType /\ Local(setup, e, o) /\ Typed /\ p \in Ends /\ Peer(p) = e /\ p # e
      /\ o.phase # "External"
  BY Zenon, <1>1, Running, TwoEnds
<1>3. /\ m = Own(setup, p) /\ Able(setup, e) /\ k \in 1..Steps(m)
  BY ZenonT(60), <1>1, <1>2 DEF Local
<1>4. /\ m \in Mechanisms /\ e \in {"client", "server"} /\ k \in 0..4
      /\ p = (IF e = "client" THEN "server" ELSE "client") /\ setup[3] = agree
  BY Zenon, <1>2, TwoEnds, Options DEF SessType, ScriptSteps, Peer
<1>5. /\ Receives(e, k) /\ Op(e).tok = SendTok(IF k = 2 THEN "server" ELSE "client", m, j)
      /\ Steps(m) = IF m = "PLAIN" THEN 2 ELSE 3
  BY SMTT(30), <1>1, <1>3, <1>4, ScriptFacts DEF Op, Receives, Steps
<1>6. /\ UnitOK(setup, e, Taken(setup, e, o) + 1, u)
      /\ u \in Units /\ Tail(o.buf) \in Seq(Units)
  BY Zenon, <1>1, V3Head
<1> HIDE DEF o, m, k, u
<1>7. /\ e = "client" => k = 2
      /\ e = "server" => k = 1 \/ (k = 3 /\ m # "PLAIN")
  BY <1>3, <1>4, <1>5 DEF Receives
<1>8. /\ Op(e).tok = SendTok(p, m, j) /\ Taken(setup, e, o) = 1 + j /\ j \in {1, 2}
  BY <1>1, <1>4, <1>5, <1>7 DEF Taken, Greeting, GotBy, k
<1>9. Tokens(setup, e) = Sends(p, Own(setup, e)) /\ Tokens(setup, e) \in 0..2
  BY <1>4 DEF Tokens, Sends
<1>10. UnitOK(setup, e, 2 + j, u)
  <2>1. Taken(setup, e, o) + 1 = 2 + j
    BY <1>8
  <2> QED BY <1>6, <2>1, Zenon
<1>11. ASSUME j <= Tokens(setup, e)
       PROVE  u = Unit("token", SendTok(p, Own(setup, e), j), Own(setup, e)) /\ Vouch(setup, p, j)
  <2>1. 2 + j \in 3..(2 + Tokens(setup, e)) /\ (2 + j) - 2 = j
    BY SMTT(30), <1>8, <1>9, <1>11
  <2> QED BY Zenon, <1>10, <2>1 DEF UnitOK
<1>12. CASE Good
  <2>1. Leaves(e, s) /\ wire' = wire
    BY Zenon, <1>12 DEF process_token, Leaves, o, m, u
  <2>2. j <= Tokens(setup, e)
    <3>1. SUFFICES ASSUME j > Tokens(setup, e) PROVE FALSE
      BY <1>8, <1>9
    <3>2. 2 + j = 3 + Tokens(setup, e) \/ 2 + j > 3 + Tokens(setup, e)
      BY SMTT(30), <1>8, <1>9, <3>1
    <3>3. u.t \in {"READY", "data", "PING", "PONG"}
      BY <1>10, <3>2 DEF UnitOK, Ready, Unit
    <3> QED BY Zenon, <1>12, <3>3
  <2>3. Own(setup, e) = m /\ Vouch(setup, p, j) /\ Knows(setup, e)
    BY <1>2, <1>3, <1>11, <1>12, <2>2 DEF Unit, Vouch, Knows
  <2>4. e = "client" => setup[3]
    <3>1. CASE e = "client" /\ m = "PLAIN"
      BY ZenonT(60), <1>3, <1>4, <2>3, <3>1 DEF Vouch
    <3>2. CASE e = "client" /\ m # "PLAIN"
      BY Zenon, <1>1, <1>4, <1>12, <3>2 DEF accepts, Mechanisms
    <3> QED BY Zenon, <3>1, <3>2
  <2>5. e = "server" /\ (k = 3 \/ m = "PLAIN") => setup[3]
    <3>1. CASE e = "server" /\ k = 3
      BY Zenon, <1>4, <2>3, <3>1 DEF Vouch
    <3>2. CASE e = "server" /\ k # 3 /\ m = "PLAIN"
      BY ZenonT(60), <1>4, <1>8, <1>12, <3>2 DEF accepts, SendTok
    <3> QED BY ZenonT(60), <1>7, <3>1, <3>2
  <2>6. /\ GotBy(e, k + 1) = 1 /\ k < Steps(m) =>
              Knows(setup, e) /\ (e = "client" \/ m = "PLAIN" => setup[3])
        /\ k = Steps(m) => Knows(setup, e) /\ setup[3]
    BY Zenon, <1>4, <1>5, <1>7, <2>3, <2>4, <2>5
  <2>7. t \in SessType
    BY <1>2, <1>6, Zenon DEF SessType
  <2>8. /\ t.phase = o.phase /\ t.sub = o.sub /\ t.at = o.at /\ t.buf = Tail(o.buf)
        /\ t.mech = o.mech /\ t.step = o.step /\ t.peer_mech = o.peer_mech
        /\ t.version = o.version /\ t.framer = o.framer /\ t.id = o.id /\ t.cause = o.cause
        /\ t.from_ready = o.from_ready
    BY <1>2, Zenon DEF SessType
  <2> HIDE DEF t
  <2>9. Local(setup, e, t)
    BY ZenonT(60), <1>1, <1>2, <2>8 DEF Local, Greeting, Secured
  <2>10. /\ s \in SessType /\ Local(setup, e, s) /\ s.buf = t.buf /\ s.cause = t.cause
         /\ s.sub # "Done" /\ Taken(setup, e, s) = Taken(setup, e, t) + 1
         /\ Written(setup, e, s) = Written(setup, e, t)
    BY SMTT(60), <1>1, <1>5, <2>6, <2>7, <2>8, <2>9, Advance DEF m, k
  <2>11. Taken(setup, e, t) = Taken(setup, e, o) /\ Written(setup, e, t) = Written(setup, e, o)
    BY Zenon, <2>8 DEF Taken, Written
  <2> HIDE DEF s
  <2>12. o.sub # "Done"
    BY ZenonT(60), <1>1
  <2> QED BY Zenon, <1>1, <2>1, <2>8, <2>10, <2>11, <2>12, V3Take DEF o
<1>13. CASE ~Good
  <2>1. set_fatal_error(e, "protocol") /\ "protocol" \in Causes
    BY Zenon, <1>13 DEF process_token, o, m, u, Causes
  <2>2. ~Compatible
    <3>1. SUFFICES ASSUME Compatible PROVE FALSE
      BY SMTT(30)
    <3>2. Own(setup, e) = m /\ agree
      BY Zenon, <1>1, <1>2, <1>3, <3>1, CompatibleMeans DEF m
    <3>3. j <= Tokens(setup, e)
      BY <1>1, <1>4, <1>7, <1>9, <3>2 DEF Sends, m
    <3>4. u.t = "token" /\ u.key = m /\ u.v = Op(e).tok /\ accepts(e, m, u.v)
      BY <1>8, <1>11, <3>2, <3>3 DEF Unit, accepts
    <3> QED BY Zenon, <1>13, <3>4
  <2> QED BY Zenon, <1>1, <1>2, <2>1, <2>2, Fatal DEF o
<1> QED BY Zenon, <1>12, <1>13

(* A READY has its place in the stream.                                    *)
LEMMA ReadyOK ==
    ASSUME NEW w, NEW e \in Ends, Fits(w, e)
    PROVE  UnitOK(w, Peer(e), 3 + Tokens(w, Peer(e)), Ready(w, e))
<1> DEFINE n == Tokens(w, Peer(e))
<1>1. n \in 0..2 /\ Peer(Peer(e)) = e
  BY TwoEnds DEF Tokens, Sends
<1>2. 3 + n # 1 /\ 3 + n # 2 /\ 3 + n \notin 3..(2 + n) /\ ~(3 + n > 3 + n)
  BY <1>1
<1> QED BY <1>1, <1>2, Zenon DEF UnitOK

(* What comes when a READY is expected is the READY of the peer.           *)
LEMMA ReadyMet ==
    ASSUME NEW w, NEW e \in Ends, NEW u, UnitOK(w, e, 3 + Tokens(w, e), u),
           w[2][Peer(e)].id \in BOOLEAN
    PROVE  /\ u.t = "READY" /\ (u.v = "id") = w[2][Peer(e)].id
           /\ Fits(w, Peer(e))
<1>1. u = Ready(w, Peer(e)) /\ Fits(w, Peer(e))
  BY Zenon DEF UnitOK
<1> QED BY Zenon, <1>1 DEF Ready, Unit

(* The unit of a READY.                                                    *)
LEMMA ReadyUnit ==
    ASSUME NEW w, NEW e
    PROVE  Ready(w, e) \in Units /\ Plain(Ready(w, e))
BY SMTT(30) DEF Ready, Unit, Units, UnitTypes, Commands, Values, Mechanisms, Plain

(* client_send_ready.                                                      *)
LEMMA V3ClientSends ==
    ASSUME IndInv, kind = "v3", NEW e \in Ends, client_send_ready(e)
    PROVE  IndInv'
<1> DEFINE o == sess[e]
           p == Peer(e)
           s == [o EXCEPT !.sub = "ClientSentReady"]
           x == Ready(setup, e)
<1>1. /\ Alive(e) /\ o.phase = "HandshakeInProgress" /\ o.sub = "ReadyExchange"
      /\ Leaves(e, s) /\ write(e, READY(e)) /\ e = "client"
  BY Zenon DEF client_send_ready, In, Handshaking, Alive, Leaves
<1>2. o \in SessType /\ Local(setup, e, o) /\ Typed /\ p \in Ends /\ Peer(p) = e
  BY Zenon, <1>1, Running, TwoEnds
<1>3. READY(e) = x /\ x \in Units /\ Plain(x)
  BY Zenon, <1>2, Options, ReadyUnit
<1>4. "ClientSentReady" \in SubPhases
  BY Zenon DEF SubPhases
<1> HIDE DEF o
<1>5. s \in SessType
  BY <1>2, <1>4, Zenon DEF SessType
<1>6. /\ s.phase = o.phase /\ s.sub = "ClientSentReady" /\ s.at = o.at /\ s.buf = o.buf
      /\ s.mech = o.mech /\ s.step = o.step /\ s.version = o.version
      /\ s.framer = o.framer /\ s.id = o.id /\ s.cause = o.cause
  BY <1>2, Zenon DEF SessType
<1> HIDE DEF s, x
<1>7. Local(setup, e, s) /\ Fits(setup, e)
  BY ZenonT(60), <1>1, <1>2, <1>6 DEF Local, Greeting, Secured
<1>8. /\ Taken(setup, e, s) = Taken(setup, e, o)
      /\ Written(setup, e, o) = 2 + Tokens(setup, p)
      /\ Written(setup, e, s) = 3 + Tokens(setup, p)
  BY Zenon, <1>1, <1>6 DEF Taken, Written, Greeting
<1>9. UnitOK(setup, p, Written(setup, e, s), x)
  BY ZenonT(60), <1>7, <1>8, ReadyOK DEF x
<1>10. Written(setup, e, s) = Written(setup, e, o) + 1
  <2>1. Tokens(setup, p) \in 0..2
    BY DEF Tokens, Sends
  <2> QED BY <1>8, <2>1
<1>11. o.sub # "Done"
  BY Zenon, <1>1
<1> QED BY Zenon, <1>1, <1>3, <1>5, <1>6, <1>7, <1>8, <1>9, <1>10, <1>11, V3Write DEF o

(* server_send_ready.                                                      *)
LEMMA V3ServerSends ==
    ASSUME IndInv, kind = "v3", NEW e \in Ends, server_send_ready(e)
    PROVE  IndInv'
<1> DEFINE o == sess[e]
           p == Peer(e)
           h == handshake_done(o)
           i == IF o.from_ready THEN "READY" ELSE h.id
           s == [h EXCEPT !.id = i, !.from_ready = FALSE]
           x == Ready(setup, e)
<1>1. /\ Alive(e) /\ o.phase = "HandshakeInProgress" /\ o.sub = "ServerReceivedReady"
      /\ Leaves(e, s) /\ write(e, READY(e))
  BY ZenonT(60) DEF server_send_ready, In, Handshaking, Alive, Leaves
<1>2. o \in SessType /\ Local(setup, e, o) /\ Typed /\ p \in Ends /\ Peer(p) = e
  BY ZenonT(60), <1>1, Running, TwoEnds
<1>3. READY(e) = x /\ x \in Units /\ Plain(x)
  BY <1>2, Options, ReadyUnit
<1> HIDE DEF o
<1>4. /\ h \in SessType /\ h.sub = "Done" /\ h.phase \in {"WaitingForPipes", "Operational"}
      /\ h.at = o.at /\ h.buf = o.buf /\ h.mech = o.mech /\ h.step = o.step
      /\ h.version = o.version /\ h.framer = o.framer /\ h.id = o.id /\ h.cause = o.cause
  BY Zenon, <1>2, DoneFacts
<1> HIDE DEF h
<1>5. i \in Identities /\ FALSE \in Flags
  BY Zenon, <1>4 DEF SessType, Identities, Flags
<1> HIDE DEF i
<1>6. s \in SessType
  BY <1>4, <1>5, Zenon DEF SessType
<1>7. /\ s.phase = h.phase /\ s.sub = h.sub /\ s.at = h.at /\ s.buf = h.buf
      /\ s.mech = h.mech /\ s.step = h.step /\ s.version = h.version
      /\ s.framer = h.framer /\ s.id = i /\ s.cause = h.cause
  BY <1>4, Zenon DEF SessType
<1> HIDE DEF s, x
<1>8. /\ Fits(setup, e) /\ Fits(setup, p) /\ o.id = Secure(o.framer)
      /\ o.from_ready = setup[2][p].id /\ o.mech = "NULL" /\ o.step = 0
      /\ o.framer = Own(setup, p) /\ o.at = "start" /\ o.version = "V3"
  BY ZenonT(60), <1>1, <1>2 DEF Local, Secured
<1>9. Local(setup, e, s)
  <2>1. s.id = IF setup[2][p].id THEN "READY" ELSE Secure(s.framer)
    BY Zenon, <1>4, <1>7, <1>8 DEF i
  <2> QED BY ZenonT(60), <1>4, <1>7, <1>8, <2>1 DEF Local, Greeting, Secured
<1>10. /\ Taken(setup, e, s) = Taken(setup, e, o)
       /\ Written(setup, e, o) = 2 + Tokens(setup, p)
       /\ Written(setup, e, s) = 3 + Tokens(setup, p)
  BY ZenonT(60), <1>1, <1>4, <1>7 DEF Taken, Written, Greeting
<1>11. UnitOK(setup, p, Written(setup, e, s), x)
  BY Zenon, <1>8, <1>10, ReadyOK DEF x
<1>12. Written(setup, e, s) = Written(setup, e, o) + 1
  <2>1. Tokens(setup, p) \in 0..2
    BY DEF Tokens, Sends
  <2> QED BY <1>10, <2>1
<1>13. o.sub # "Done"
  BY ZenonT(60), <1>1
<1> QED BY Zenon, <1>1, <1>3, <1>4, <1>6, <1>7, <1>9, <1>10, <1>11, <1>12, <1>13, V3Write DEF o

(* server_receive_ready.                                                   *)
LEMMA V3ServerTakes ==
    ASSUME IndInv, kind = "v3", NEW e \in Ends, server_receive_ready(e)
    PROVE  IndInv'
<1> DEFINE o == sess[e]
           p == Peer(e)
           u == Head(o.buf)
           f == (u.v = "id")
           s == [o EXCEPT !.buf = Tail(o.buf), !.from_ready = f, !.sub = "ServerReceivedReady"]
<1>1. /\ Alive(e) /\ o.phase = "HandshakeInProgress" /\ o.sub = "ReadyExchange"
      /\ o.buf # <<>> /\ e = "server"
  BY SMTT(30) DEF server_receive_ready, In, Handshaking, Alive
<1>2. o \in SessType /\ Local(setup, e, o) /\ Typed /\ p \in Ends /\ Peer(p) = e
  BY Zenon, <1>1, Running, TwoEnds
<1>3. UnitOK(setup, e, Taken(setup, e, o) + 1, u) /\ Tail(o.buf) \in Seq(Units)
  BY Zenon, <1>1, V3Head
<1>4. Taken(setup, e, o) + 1 = 3 + Tokens(setup, e) /\ Taken(setup, e, o) = 2 + Tokens(setup, e)
  <2>1. Tokens(setup, e) \in 0..2 /\ Taken(setup, e, o) = 2 + Tokens(setup, e)
    BY <1>1 DEF Tokens, Sends, Taken, Greeting
  <2> QED BY <2>1
<1>5. u.t = "READY" /\ f = setup[2][p].id /\ Fits(setup, p)
  <2>1. setup[2][p].id \in BOOLEAN
    BY Zenon, <1>2 DEF setup, Typed, AllConfigs
  <2>2. UnitOK(setup, e, 3 + Tokens(setup, e), u)
    BY <1>3, <1>4, Zenon
  <2> QED BY Zenon, <2>1, <2>2, ReadyMet
<1>6. Leaves(e, s) /\ wire' = wire
  BY Zenon, <1>5 DEF server_receive_ready, Leaves
<1>7. "ServerReceivedReady" \in SubPhases /\ f \in Flags
  BY Zenon DEF SubPhases, Flags
<1> HIDE DEF o, f
<1>8. s \in SessType
  BY <1>2, <1>3, <1>7, Zenon DEF SessType
<1>9. /\ s.phase = o.phase /\ s.sub = "ServerReceivedReady" /\ s.at = o.at
      /\ s.buf = Tail(o.buf) /\ s.mech = o.mech /\ s.step = o.step /\ s.version = o.version
      /\ s.framer = o.framer /\ s.id = o.id /\ s.cause = o.cause /\ s.from_ready = f
  BY <1>2, Zenon DEF SessType
<1> HIDE DEF s
<1>10. Local(setup, e, s)
  BY Zenon, <1>1, <1>2, <1>5, <1>9 DEF Local, Greeting, Secured
<1>11. Taken(setup, e, s) = 3 + Tokens(setup, e) /\ Written(setup, e, s) = Written(setup, e, o)
  BY Zenon, <1>1, <1>9 DEF Taken, Written, Greeting
<1>12. o.sub # "Done" /\ s.sub # "Done"
  BY ZenonT(60), <1>1, <1>9
<1> QED BY Zenon, <1>1, <1>4, <1>6, <1>8, <1>9, <1>10, <1>11, <1>12, V3Take DEF o

(* client_receive_peer_ready.                                              *)
LEMMA V3ClientTakes ==
    ASSUME IndInv, kind = "v3", NEW e \in Ends, client_receive_peer_ready(e)
    PROVE  IndInv'
<1> DEFINE o == sess[e]
           p == Peer(e)
           u == Head(o.buf)
           h == handshake_done(o)
           i == IF u.v = "id" THEN "READY" ELSE h.id
           s == [h EXCEPT !.buf = Tail(h.buf), !.id = i]
<1>1. /\ Alive(e) /\ o.phase = "HandshakeInProgress" /\ o.sub = "ClientSentReady"
      /\ o.buf # <<>>
  BY SMTT(30) DEF client_receive_peer_ready, In, Handshaking, Alive
<1>2. o \in SessType /\ Local(setup, e, o) /\ Typed /\ p \in Ends /\ Peer(p) = e
  BY Zenon, <1>1, Running, TwoEnds
<1>3. UnitOK(setup, e, Taken(setup, e, o) + 1, u) /\ Tail(o.buf) \in Seq(Units)
  BY Zenon, <1>1, V3Head
<1>4. Taken(setup, e, o) + 1 = 3 + Tokens(setup, e) /\ Taken(setup, e, o) = 2 + Tokens(setup, e)
  <2>1. Tokens(setup, e) \in 0..2 /\ Taken(setup, e, o) = 2 + Tokens(setup, e)
    BY <1>1 DEF Tokens, Sends, Taken, Greeting
  <2> QED BY <2>1
<1>5. u.t = "READY" /\ (u.v = "id") = setup[2][p].id /\ Fits(setup, p)
  <2>1. setup[2][p].id \in BOOLEAN
    BY <1>2 DEF setup, Typed, AllConfigs
  <2>2. UnitOK(setup, e, 3 + Tokens(setup, e), u)
    BY <1>3, <1>4, Zenon
  <2> QED BY ZenonT(60), <2>1, <2>2, ReadyMet
<1>6. Leaves(e, s) /\ wire' = wire
  BY Zenon, <1>5 DEF client_receive_peer_ready, Leaves
<1> HIDE DEF o
<1>7. /\ h \in SessType /\ h.sub = "Done" /\ h.phase \in {"WaitingForPipes", "Operational"}
      /\ h.at = o.at /\ h.buf = o.buf /\ h.mech = o.mech /\ h.step = o.step
      /\ h.version = o.version /\ h.framer = o.framer /\ h.id = o.id /\ h.cause = o.cause
  BY <1>2, DoneFacts
<1> HIDE DEF h
<1>8. i \in Identities /\ Tail(h.buf) \in Seq(Units)
  BY Zenon, <1>3, <1>7 DEF SessType, Identities
<1> HIDE DEF i
<1>9. s \in SessType
  BY <1>7, <1>8, Zenon DEF SessType
<1>10. /\ s.phase = h.phase /\ s.sub = h.sub /\ s.at = h.at /\ s.buf = Tail(h.buf)
       /\ s.mech = h.mech /\ s.step = h.step /\ s.version = h.version
       /\ s.framer = h.framer /\ s.id = i /\ s.cause = h.cause
  BY <1>7, Zenon DEF SessType
<1> HIDE DEF s
<1>11. /\ Fits(setup, e) /\ o.id = Secure(o.framer) /\ o.mech = "NULL" /\ o.step = 0
       /\ o.framer = Own(setup, p) /\ o.at = "start" /\ o.version = "V3"
  BY ZenonT(60), <1>1, <1>2 DEF Local, Secured
<1>12. Local(setup, e, s)
  <2>1. s.id = IF setup[2][p].id THEN "READY" ELSE Secure(s.framer)
    BY ZenonT(60), <1>5, <1>7, <1>10, <1>11 DEF i
  <2> QED BY ZenonT(60), <1>5, <1>7, <1>10, <1>11, <2>1 DEF Local, Greeting, Secured
<1>13. /\ Taken(setup, e, s) = 3 + Tokens(setup, e) /\ Written(setup, e, s) = Written(setup, e, o)
       /\ Written(setup, e, o) = 3 + Tokens(setup, p)
  BY Zenon, <1>1, <1>7, <1>10 DEF Taken, Written, Greeting
<1>14. o.sub # "Done"
  BY ZenonT(60), <1>1
<1> QED BY Zenon, <1>1, <1>4, <1>6, <1>7, <1>9, <1>10, <1>12, <1>13, <1>14, V3Take DEF o

(* initialize_pipes.                                                       *)
LEMMA V3Pipes ==
    ASSUME IndInv, kind = "v3", NEW e \in Ends, initialize_pipes(e)
    PROVE  IndInv'
<1> DEFINE o == sess[e]
           p == Peer(e)
           d == drop_future(o)
           f == IF d.phase = "WaitingForPipes" THEN "Operational" ELSE d.phase
           s == [d EXCEPT !.attached = TRUE, !.phase = f]
<1>1. /\ Alive(e) /\ o.phase \in {"HandshakeInProgress", "WaitingForPipes"}
      /\ become(e, s) /\ wire' = wire /\ restarted' = (restarted \/ o.at = "identity")
      /\ setup' = setup /\ closed' = closed /\ v2peer' = v2peer /\ counts' = counts
  BY Zenon DEF initialize_pipes, Alive, Restarts
<1>2. /\ o \in SessType /\ Local(setup, e, o) /\ Typed /\ p \in Ends /\ Peer(p) = e
      /\ wire \in [Ends -> Seq(Units)] /\ restarted \in BOOLEAN
  BY Zenon, <1>1, Running, TwoEnds DEF Typed
<1>3. o.at = "start"
  BY Zenon, <1>2 DEF Local
<1>4. Leaves(e, s)
  BY Zenon, <1>1, <1>2, <1>3 DEF Leaves
<1> HIDE DEF o
<1>5. /\ d \in SessType /\ d.phase = o.phase /\ d.sub = o.sub /\ d.at = "start"
      /\ d.buf = o.buf /\ d.mech = o.mech /\ d.step = o.step /\ d.peer_mech = o.peer_mech
      /\ d.version = o.version /\ d.framer = o.framer /\ d.id = o.id
      /\ d.from_ready = o.from_ready /\ d.cause = o.cause
  <2>1. "start" \in Places
    BY Zenon DEF Places
  <2> QED BY <1>2, <2>1, Zenon DEF drop_future, SessType
<1>6. f \in Phases /\ (f = o.phase \/ (o.phase = "WaitingForPipes" /\ f = "Operational"))
  BY Zenon, <1>1, <1>5 DEF Phases
<1> HIDE DEF d, f
<1>7. TRUE \in Flags
  BY Zenon DEF Flags
<1>8. s \in SessType
  BY <1>5, <1>6, <1>7, Zenon DEF SessType
<1>9. /\ s.phase = f /\ s.sub = d.sub /\ s.at = d.at /\ s.buf = d.buf /\ s.mech = d.mech
      /\ s.step = d.step /\ s.peer_mech = d.peer_mech /\ s.version = d.version
      /\ s.framer = d.framer /\ s.id = d.id /\ s.from_ready = d.from_ready
      /\ s.cause = d.cause
  BY <1>5, Zenon DEF SessType
<1> HIDE DEF s
<1>10. Local(setup, e, s)
  <2>1. /\ s.sub = o.sub /\ s.at = "start" /\ s.buf = o.buf /\ s.mech = o.mech
        /\ s.step = o.step /\ s.peer_mech = o.peer_mech /\ s.version = o.version
        /\ s.framer = o.framer /\ s.id = o.id /\ s.from_ready = o.from_ready
    BY Zenon, <1>5, <1>9
  <2>2. /\ s.phase # "External"
        /\ s.phase \in {"WaitingForPipes", "Operational"} => s.sub = "Done"
        /\ s.phase = "HandshakeInProgress" => s.sub # "Done"
    BY ZenonT(60), <1>1, <1>2, <1>6, <1>9, <2>1 DEF Local
  <2> QED BY ZenonT(60), <1>2, <2>1, <2>2 DEF Local
<1>11. Taken(setup, e, s) = Taken(setup, e, o) /\ Written(setup, e, s) = Written(setup, e, o)
  BY Zenon, <1>5, <1>9 DEF Taken, Written
<1>12. streams'[e] = streams[e]
  <2>1. sess'[e] = s
    BY ZenonT(60), <1>1, <1>2 DEF become, Typed
  <2>2. streams[e] = o.buf \o wire[e] /\ streams'[e] = sess'[e].buf \o wire'[e]
    BY Zenon, <1>2, StreamTypes DEF o
  <2> QED BY ZenonT(60), <1>1, <1>5, <1>9, <2>1, <2>2
<1> QED BY Zenon, <1>1, <1>2, <1>4, <1>5, <1>8, <1>9, <1>10, <1>11, <1>12, V3Still DEF o

(* read_buf.                                                               *)
LEMMA V3Read ==
    ASSUME IndInv, kind = "v3", NEW e \in Ends, read_buf(e)
    PROVE  IndInv'
<1> DEFINE o == sess[e]
           s == sess'[e]
<1>1. PICK n \in 1..Len(wire[e]) :
          /\ become(e, [sess[e] EXCEPT !.buf = @ \o SubSeq(wire[e], 1, n)])
          /\ wire' = [wire EXCEPT ![e] = SubSeq(@, n + 1, Len(@))]
  BY Zenon DEF read_buf
<1>2. /\ Alive(e) /\ (o.phase = "HandshakeInProgress" => o.sub # "GreetingExchange")
      /\ setup' = setup /\ closed' = closed /\ v2peer' = v2peer /\ counts' = counts
      /\ restarted' = restarted
  <2>1. /\ Reads(e) /\ setup' = setup /\ closed' = closed /\ v2peer' = v2peer
        /\ counts' = counts /\ restarted' = restarted
    BY Zenon DEF read_buf
  <2>2. Alive(e)
    BY Zenon, <2>1 DEF Reads, Handshaking, Operational, Alive
  <2>3. ASSUME o.phase = "HandshakeInProgress" PROVE o.sub # "GreetingExchange"
    <3>1. SUFFICES ASSUME o.sub = "GreetingExchange" PROVE FALSE
      BY Zenon
    <3>2. Wanted(e) = 0
      BY Zenon, <2>3, <3>1 DEF Wanted, Operational
    <3>3. Len(sess[e].buf) \in Nat
      BY SMTT(30), <2>2, Running
    <3> QED BY <2>1, <3>2, <3>3 DEF Reads
  <2> QED BY Zenon, <2>1, <2>2, <2>3
<1>3. Typed /\ Local(setup, e, o)
  BY Zenon, <1>2, Running
<1>4. /\ become(e, s) /\ s \in SessType /\ wire' \in [Ends -> Seq(Units)]
      /\ streams'[e] = streams[e] /\ wire'[Peer(e)] = wire[Peer(e)]
      /\ s.phase = o.phase /\ s.sub = o.sub /\ s.at = o.at /\ s.mech = o.mech
      /\ s.step = o.step /\ s.peer_mech = o.peer_mech /\ s.version = o.version
      /\ s.framer = o.framer /\ s.id = o.id /\ s.from_ready = o.from_ready
      /\ s.cause = o.cause
  BY Zenon, <1>1, <1>3, ReadFacts
<1>5. Leaves(e, s)
  BY Zenon, <1>2, <1>4 DEF Leaves
<1> HIDE DEF s, o
<1>6. Local(setup, e, s)
  <2>1. o.sub # "GreetingExchange"
    <3>1. o.phase = "Operational" => o.sub = "Done"
      BY ZenonT(60), <1>3 DEF Local
    <3>2. o.phase \in {"HandshakeInProgress", "WaitingForPipes", "Operational"}
      BY ZenonT(60), <1>2 DEF Alive, o
    <3>3. o.phase = "WaitingForPipes" => o.sub = "Done"
      BY Zenon, <1>3 DEF Local
    <3> QED BY Zenon, <1>2, <3>1, <3>2, <3>3
  <2> QED BY ZenonT(60), <1>3, <1>4, <2>1 DEF Local
<1>7. Taken(setup, e, s) = Taken(setup, e, o) /\ Written(setup, e, s) = Written(setup, e, o)
  BY ZenonT(60), <1>4 DEF Taken, Written
<1> QED BY Zenon, <1>2, <1>4, <1>5, <1>6, <1>7, V3Still DEF o

(* transition_to_shutdown_stream.                                          *)
LEMMA V3Shut ==
    ASSUME IndInv, kind = "v3", NEW e \in Ends, Alive(e), NEW why \in Causes, why # "protocol",
           Leaves(e, transition_to_shutdown_stream(sess[e], why)), wire' = wire
    PROVE  IndInv'
<1> DEFINE o == sess[e]
           s == [o EXCEPT !.phase = "ShuttingDownStream", !.cause = why]
<1>1. o \in SessType /\ Local(setup, e, o) /\ Typed /\ wire \in [Ends -> Seq(Units)]
  BY Zenon, Running DEF Typed
<1>2. Leaves(e, s)
  BY Zenon DEF transition_to_shutdown_stream
<1>3. "ShuttingDownStream" \in Phases
  BY Zenon DEF Phases
<1> HIDE DEF o
<1>4. s \in SessType
  BY <1>1, <1>3, Zenon DEF SessType
<1>5. /\ s.phase = "ShuttingDownStream" /\ s.sub = o.sub /\ s.at = o.at /\ s.buf = o.buf
      /\ s.mech = o.mech /\ s.step = o.step /\ s.peer_mech = o.peer_mech
      /\ s.version = o.version /\ s.framer = o.framer /\ s.id = o.id
      /\ s.from_ready = o.from_ready /\ s.cause = why
  BY <1>1, Zenon DEF SessType
<1> HIDE DEF s
<1>6. Local(setup, e, s)
  BY Zenon, <1>1, <1>5 DEF Local
<1>7. Taken(setup, e, s) = Taken(setup, e, o) /\ Written(setup, e, s) = Written(setup, e, o)
  BY Zenon, <1>5 DEF Taken, Written
<1>8. streams'[e] = streams[e]
  <2>1. sess'[e] = s
    BY ZenonT(60), <1>1, <1>2 DEF Leaves, become, Typed
  <2>2. streams[e] = o.buf \o wire[e] /\ streams'[e] = sess'[e].buf \o wire'[e]
    BY ZenonT(60), <1>1, StreamTypes DEF o
  <2> QED BY Zenon, <1>5, <2>1, <2>2
<1> QED BY ZenonT(60), <1>1, <1>2, <1>4, <1>5, <1>6, <1>7, <1>8, V3Still DEF o
-----------------------------------------------------------------------------
(* The data phase of a connection between two rzmq ends.                   *)

(* What an end writes then is framed as its peer expects it.               *)
LEMMA Framed ==
    ASSUME IndInv, kind = "v3", NEW e \in Ends, Operational(e)
    PROVE  /\ Alive(e) /\ sess[e].sub = "Done" /\ sess[e].version = "V3"
           /\ sess[e].framer \in Mechanisms /\ sess[e].framer = Own(setup, e)
           /\ \A x \in Units : x.t \in {"data", "PING", "PONG"} /\ x.key = sess[e].framer =>
                UnitOK(setup, Peer(e), 4 + Tokens(setup, Peer(e)), x)
<1> DEFINE p == Peer(e)
           k == Tokens(setup, p)
<1>1. Alive(e)
  BY SMTT(30) DEF Alive, Operational
<1>2. Local(setup, e, sess[e]) /\ sess[e] \in SessType /\ Peer(p) = e /\ p \in Ends
  BY Zenon, <1>1, Running, TwoEnds
<1>3. /\ sess[e].sub = "Done" /\ sess[e].version = "V3" /\ sess[e].framer = Own(setup, p)
      /\ Fits(setup, e)
  BY Zenon, <1>2 DEF Local, Operational, Secured
<1>4. sess[e].framer \in Mechanisms
  BY <1>2, Zenon DEF SessType
<1>5. Own(setup, e) = Own(setup, p)
  BY Zenon, <1>3 DEF Fits
<1>6. k \in 0..2
  BY DEF Tokens, Sends
<1> HIDE DEF k
<1>7. /\ 4 + k > 3 + k /\ 4 + k # 1 /\ 4 + k # 2 /\ 4 + k # 3 + k
      /\ 4 + k \notin 3..(2 + k)
  BY SMTT(30), <1>6
<1>8. ASSUME NEW x \in Units, x.t \in {"data", "PING", "PONG"}, x.key = sess[e].framer
      PROVE  UnitOK(setup, p, 4 + k, x)
  BY ZenonT(60), <1>2, <1>3, <1>7, <1>8 DEF UnitOK, k
<1> QED BY ZenonT(60), <1>1, <1>3, <1>4, <1>5, <1>8 DEF k

(* What is left of a sequence behind its first element.                    *)
LEMMA BehindFirst ==
    ASSUME NEW u \in Seq(Units), u # <<>>
    PROVE  /\ Tail(u) \in Seq(Units) /\ Len(Tail(u)) = Len(u) - 1 /\ Len(u) > 0
           /\ \A i \in 1..Len(Tail(u)) : Tail(u)[i] = u[i + 1]
BY Behind

(* A step that handles the first unit or none and writes one or none.      *)
LEMMA V3Data ==
    ASSUME IndInv, kind = "v3", NEW e \in Ends, Operational(e), NEW s \in SessType,
           Becomes(e, s), Local(setup, e, s), s.sub = "Done", s.cause = sess[e].cause,
           setup' = setup, closed' = closed, v2peer' = v2peer, restarted' = restarted,
           got' \in [Ends -> Seq(Values)],
           sent' \in [Ends -> 0..MaxData], pings' \in [Ends -> 0..MaxPings],
           Unlost(setup, streams, closed, got, sent, restarted)',
           Few(setup, sess, streams, closed, sent, pings)',
           \/ streams'[e] = streams[e]
           \/ streams[e] # <<>> /\ streams'[e] = Tail(streams[e]),
           NEW x \in Units, x.t \in {"data", "PING", "PONG"}, x.key = sess[e].framer,
           streams'[Peer(e)] = streams[Peer(e)] \/ Sent(e, x)
    PROVE  IndInv'
<1> DEFINE p == Peer(e)
           u == streams[e]
           v == streams'[e]
<1>1. p \in Ends /\ p # e /\ Peer(p) = e /\ Ends = {e, p}
  BY ZenonT(60), TwoEnds
<1>2. /\ Alive(e) /\ sess[e].sub = "Done" /\ UnitOK(setup, p, 4 + Tokens(setup, p), x)
  BY ZenonT(60), Framed
<1>3. /\ e \notin closed /\ Typed /\ sess[e] \in SessType /\ sess[p] \in SessType
      /\ Stream(setup, e, sess[e], sess[p], u, closed)
      /\ Stream(setup, p, sess[p], sess[e], streams[p], closed)
  BY ZenonT(60), <1>2, Running
<1>4. u \in Seq(Units) /\ streams[p] \in Seq(Units)
  BY ZenonT(60), <1>1, <1>3, StreamTypes
<1>5. Stream(setup, e, s, sess[p], v, closed)
  <2>1. CASE v = u
    <3>1. Taken(setup, e, s) = Taken(setup, e, sess[e])
      BY Zenon, <1>2 DEF Taken, Greeting
    <3> QED BY ZenonT(60), <1>3, <1>4, <2>1, <3>1, StreamSame
  <2>2. CASE u # <<>> /\ v = Tail(u)
    <3> HIDE DEF u, v
    <3>1. v \in Seq(Units) /\ Len(v) = Len(u) - 1 /\ \A i \in 1..Len(v) : v[i] = u[i + 1]
      <4>1. /\ Tail(u) \in Seq(Units) /\ Len(Tail(u)) = Len(u) - 1
            /\ \A i \in 1..Len(Tail(u)) : Tail(u)[i] = u[i + 1]
        BY Zenon, <1>4, <2>2, BehindFirst
      <4> QED BY Zenon, <2>2, <4>1
    <3>2. Len(u) > 0
      BY Zenon, <1>4, <2>2, BehindFirst
    <3> QED BY <1>2, <1>3, <1>4, <3>1, <3>2, StreamHandle, Zenon
  <2> QED BY ZenonT(60), <2>1, <2>2
<1>6. Stream(setup, p, sess[p], s, streams'[p], closed)
  <2>1. CASE p \in closed
    BY Zenon, <2>1 DEF Stream
  <2>2. CASE p \notin closed /\ streams'[p] = streams[p]
    BY <1>1, <1>2, <1>3, <2>2, Zenon DEF Stream
  <2>3. CASE p \notin closed /\ streams'[p] = Append(streams[p], x)
    <3> DEFINE a == streams[p]
               q == sess[p]
               r == sess[e]
    <3>1. /\ a \in Seq(Units) /\ q \in SessType /\ Stream(setup, p, q, r, a, closed)
          /\ Peer(p) \notin closed /\ r.sub = "Done" /\ p \notin closed /\ p \in Ends
          /\ UnitOK(setup, p, 4 + Tokens(setup, p), x)
      BY Zenon, <1>1, <1>2, <1>3, <1>4, <2>3
    <3> HIDE DEF a, q, r, p
    <3>2. Stream(setup, p, q, s, Append(a, x), closed)
      BY Zenon, <3>1, StreamMore
    <3> QED BY Zenon, <2>3, <3>2 DEF a, q
  <2> QED BY ZenonT(60), <2>1, <2>2, <2>3 DEF Sent
<1>7. p \in closed => streams'[p] = streams[p]
  BY Zenon DEF Sent
<1>8. Compatible => s.cause # "protocol"
  <2>1. ~restarted
    BY ZenonT(60) DEF IndInv, V3Inv
  <2> QED BY ZenonT(60), <2>1 DEF IndInv, NoSpuriousError
<1> QED BY ZenonT(60), <1>3, <1>5, <1>6, <1>7, <1>8, V3Step

(* write_data_msgs.                                                        *)
LEMMA V3Message ==
    ASSUME IndInv, kind = "v3", NEW e \in Ends, write_data_msgs(e)
    PROVE  IndInv'
<1> DEFINE p == Peer(e)
           s == sess[e]
           x == Unit("data", sent[e] + 1, s.framer)
<1>1. p \in Ends /\ p # e /\ Peer(p) = e /\ Ends = {e, p}
  BY Zenon, TwoEnds
<1>2. /\ Operational(e) /\ sent[e] < MaxData /\ sent' = [sent EXCEPT ![e] = @ + 1]
      /\ write(e, x) /\ setup' = setup /\ sess' = sess /\ closed' = closed
      /\ v2peer' = v2peer /\ got' = got /\ pings' = pings /\ restarted' = restarted
  BY SMTT(30) DEF write_data_msgs
<1>3. Alive(e) /\ s.sub = "Done" /\ s.framer \in Mechanisms
  BY Zenon, <1>2, Framed
<1>4. Typed /\ e \notin closed /\ s \in SessType /\ Local(setup, e, s)
  BY Zenon, <1>3, Running
<1>5. x \in Units /\ x.t = "data" /\ x.key = s.framer
  <2>1. sent[e] + 1 \in Values /\ "data" \in UnitTypes
    BY SMTT(30), <1>4, ConstantsAssumption DEF Values, UnitTypes, Typed
  <2> QED BY Zenon, <1>3, <2>1 DEF Unit, Units
<1> HIDE DEF x
<1>6. wire' \in [Ends -> Seq(Units)] /\ wire'[e] = wire[e] /\ Sent(e, x)
  BY Zenon, <1>2, <1>4, <1>5, WriteFacts
<1>7. Becomes(e, s)
  BY Zenon, <1>2, <1>6, <1>4 DEF Becomes, Typed
<1>8. streams'[e] = streams[e]
  BY ZenonT(60), <1>2, <1>4, <1>6, StreamTypes
<1>9. /\ Unlost(setup, streams, closed, got, sent, restarted)'
      /\ sent' \in [Ends -> 0..MaxData] /\ sent'[e] = sent[e] + 1 /\ sent'[p] = sent[p]
  <2>1. Sent(e, Unit("data", sent[e] + 1, s.framer))
    BY Zenon, <1>6 DEF x
  <2>2. Unlost(setup, streams, closed, got, sent, restarted)
    BY Zenon DEF IndInv
  <2> QED BY Zenon, <1>2, <1>3, <1>4, <1>8, <2>1, <2>2, WriteOrder
<1>10. /\ pings' \in [Ends -> 0..MaxPings] /\ sent[e] \in Nat /\ pings[e] \in Nat
       /\ got' \in [Ends -> Seq(Values)]
  BY SMTT(30), <1>2, <1>4, ConstantsAssumption DEF Typed
<1>11. /\ \A y \in Ends : Len(streams'[y]) \in Nat
       /\ Len(streams'[e]) + Len(streams'[p]) + Written(setup, e, sess[e])
            <= Len(streams[e]) + Len(streams[p]) + Written(setup, e, s) + 1
  <2> DEFINE a == Len(streams[e])
             b == Len(streams[p])
             c == Len(streams'[p])
             k == Written(setup, e, s)
  <2>1. a \in Nat /\ b \in Nat /\ streams[p] \in Seq(Units)
    BY ZenonT(60), <1>1, <1>4, StreamTypes
  <2>2. c = b \/ c = b + 1
    BY <1>5, <1>6, <2>1, Added DEF Sent
  <2>3. k \in Nat
    BY <1>4, Numbers, Zenon
  <2>4. Len(streams'[e]) = a
    BY Zenon, <1>8
  <2> HIDE DEF a, b, c, k
  <2>5. c \in Nat /\ a + c + k <= a + b + k + 1
    BY <2>1, <2>2, <2>3
  <2> QED BY Zenon, <1>1, <2>1, <2>4, <2>5 DEF c, k, a, b
<1>12. Few(setup, sess, streams, closed, sent, pings)'
  <2>1. sent'[e] + pings'[e] = sent[e] + pings[e] + 1 /\ 1 \in Nat
    BY <1>2, <1>9, <1>10
  <2>2. pings'[p] = pings[p]
    BY Zenon, <1>2
  <2> HIDE DEF s
  <2> QED BY <1>2, <1>4, <1>7, <1>9, <1>10, <1>11, <2>1, <2>2, FewStep, Zenon
<1> QED BY Zenon, <1>2, <1>3, <1>4, <1>5, <1>6, <1>7, <1>8, <1>9, <1>10, <1>12, V3Data

(* try_send_ping.                                                          *)
LEMMA V3Ping ==
    ASSUME IndInv, kind = "v3", NEW e \in Ends, try_send_ping(e)
    PROVE  IndInv'
<1> DEFINE p == Peer(e)
           o == sess[e]
           s == [o EXCEPT !.waiting_for_pong = TRUE]
           x == Unit("PING", "none", o.framer)
<1>1. p \in Ends /\ p # e /\ Peer(p) = e /\ Ends = {e, p}
  BY TwoEnds
<1>2. /\ Operational(e) /\ pings[e] < MaxPings /\ pings' = [pings EXCEPT ![e] = @ + 1]
      /\ write(e, x) /\ setup' = setup /\ become(e, s) /\ closed' = closed
      /\ v2peer' = v2peer /\ got' = got /\ sent' = sent /\ restarted' = restarted
  BY Zenon DEF try_send_ping
<1>3. Alive(e) /\ o.sub = "Done" /\ o.framer \in Mechanisms
  BY Zenon, <1>2, Framed
<1>4. Typed /\ e \notin closed /\ o \in SessType /\ Local(setup, e, o)
  BY Zenon, <1>3, Running
<1>5. x \in Units /\ x.t = "PING" /\ x.key = o.framer
  <2>1. "none" \in Values /\ "PING" \in UnitTypes
    BY Zenon DEF Values, UnitTypes, Commands
  <2> QED BY ZenonT(60), <1>3, <2>1 DEF Unit, Units
<1> HIDE DEF x, o
<1>6. TRUE \in Flags
  BY DEF Flags
<1>7. s \in SessType
  BY <1>4, <1>6, Zenon DEF SessType
<1>8. /\ s.phase = o.phase /\ s.sub = o.sub /\ s.at = o.at /\ s.buf = o.buf
      /\ s.mech = o.mech /\ s.step = o.step /\ s.peer_mech = o.peer_mech
      /\ s.version = o.version /\ s.framer = o.framer /\ s.id = o.id
      /\ s.from_ready = o.from_ready /\ s.cause = o.cause
  BY <1>4, Zenon DEF SessType
<1> HIDE DEF s
<1>9. Local(setup, e, s)
  BY ZenonT(60), <1>4, <1>8 DEF Local
<1>10. wire' \in [Ends -> Seq(Units)] /\ wire'[e] = wire[e]
  BY Zenon, <1>2, <1>4, <1>5, WriteFacts
<1>11. Becomes(e, s)
  BY Zenon, <1>2, <1>4, <1>7, <1>10, BecomeFacts
<1>12. Sent(e, x)
  BY ZenonT(60), <1>2, <1>4, <1>5, <1>11, WriteFacts DEF Becomes
<1>13. streams'[e] = streams[e]
  <2>1. streams[e] = o.buf \o wire[e] /\ streams'[e] = sess'[e].buf \o wire'[e]
    BY Zenon, <1>4, StreamTypes DEF o
  <2> QED BY ZenonT(60), <1>8, <1>10, <1>11, <2>1 DEF Becomes
<1>14. Unlost(setup, streams, closed, got, sent, restarted)'
  <2>1. Calm(streams[p], streams'[p], Promised(p, restarted'))
    BY ZenonT(60), <1>5, <1>12 DEF Sent, Calm, Plain
  <2>2. Calm(streams[e], streams'[e], Promised(e, restarted'))
    BY ZenonT(60), <1>13 DEF Calm
  <2>3. Quiet
    BY Zenon, <1>1, <1>2, <2>1, <2>2 DEF Quiet
  <2> QED BY ZenonT(60), <1>2, <1>4, <2>3, QuietStep DEF IndInv
<1>15. /\ pings' \in [Ends -> 0..MaxPings] /\ sent[e] \in Nat /\ pings[e] \in Nat
       /\ got' \in [Ends -> Seq(Values)] /\ sent' \in [Ends -> 0..MaxData]
       /\ pings'[e] = pings[e] + 1 /\ pings'[p] = pings[p]
  BY SMTT(30), <1>1, <1>2, <1>4, ConstantsAssumption DEF Typed
<1>16. /\ \A y \in Ends : Len(streams'[y]) \in Nat
       /\ Len(streams'[e]) + Len(streams'[p]) + Written(setup, e, sess[e])
            <= Len(streams[e]) + Len(streams[p]) + Written(setup, e, s) + 1
  <2> DEFINE a == Len(streams[e])
             b == Len(streams[p])
             c == Len(streams'[p])
             k == Written(setup, e, s)
  <2>1. a \in Nat /\ b \in Nat /\ streams[p] \in Seq(Units)
    BY ZenonT(60), <1>1, <1>4, StreamTypes
  <2>2. c = b \/ c = b + 1
    BY SMTT(30), <1>5, <1>12, <2>1, Added DEF Sent
  <2>3. k \in Nat /\ Written(setup, e, sess[e]) = k
    <3>1. k \in Nat
      BY <1>7, Numbers, Zenon
    <3> QED BY Zenon, <1>8, <3>1 DEF Written, o
  <2>4. Len(streams'[e]) = a
    BY <1>13
  <2> HIDE DEF a, b, c, k
  <2>5. c \in Nat /\ a + c + k <= a + b + k + 1
    BY <2>1, <2>2, <2>3
  <2> QED BY Zenon, <1>1, <2>1, <2>3, <2>4, <2>5 DEF c, k, a, b
<1>17. Few(setup, sess, streams, closed, sent, pings)'
  <2>1. sent'[e] + pings'[e] = sent[e] + pings[e] + 1 /\ 1 \in Nat
    BY <1>2, <1>15
  <2>2. sent'[p] = sent[p]
    BY Zenon, <1>2
  <2> QED BY <1>2, <1>4, <1>7, <1>11, <1>15, <1>16, <2>1, <2>2, FewStep, Zenon
<1>18. x.t \in {"data", "PING", "PONG"} /\ s.sub = "Done" /\ x.key = sess[e].framer
  BY Zenon, <1>3, <1>5, <1>8 DEF o
<1> QED BY Zenon, <1>2, <1>5, <1>7, <1>8, <1>9, <1>11, <1>12, <1>13, <1>14, <1>15, <1>17, <1>18,
        V3Data DEF o
(* handle_incoming_from_network.                                           *)
LEMMA V3Handle ==
    ASSUME IndInv, kind = "v3", NEW e \in Ends, handle_incoming_from_network(e)
    PROVE  IndInv'
<1> DEFINE p == Peer(e)
           o == sess[e]
           u == Head(o.buf)
           r == [o EXCEPT !.buf = Tail(o.buf)]
           s == IF u.t = "PONG" THEN [r EXCEPT !.waiting_for_pong = FALSE] ELSE r
           x == Unit("PONG", "none", o.framer)
<1>1. p \in Ends /\ p # e /\ Peer(p) = e /\ Ends = {e, p}
  BY TwoEnds
<1>2. /\ Operational(e) /\ o.buf # <<>> /\ setup' = setup /\ v2peer' = v2peer
      /\ restarted' = restarted
  BY SMTT(30) DEF handle_incoming_from_network
<1>3. Alive(e) /\ o.sub = "Done" /\ o.framer \in Mechanisms /\ o.version = "V3"
      /\ o.framer = Own(setup, e)
  BY ZenonT(60), <1>2, Framed
<1>4. Typed /\ e \notin closed /\ o \in SessType /\ Local(setup, e, o)
  BY ZenonT(60), <1>3, Running
<1>5. /\ UnitOK(setup, e, Taken(setup, e, o) + 1, u) /\ u \in Units
      /\ Tail(o.buf) \in Seq(Units) /\ streams[e] # <<>> /\ Head(streams[e]) = u
      /\ Tail(o.buf) \o wire[e] = Tail(streams[e])
  BY ZenonT(60), <1>2, <1>3, V3Head
<1>6. u.t \in {"data", "PING", "PONG"} /\ u.key = o.framer
  <2> DEFINE k == Tokens(setup, e)
  <2>1. Taken(setup, e, o) = 3 + k
    BY Zenon, <1>3 DEF Taken, Greeting
  <2>2. k \in 0..2
    BY DEF Tokens, Sends
  <2> HIDE DEF u, o, k
  <2>3. (3 + k) + 1 > 3 + k
    BY <2>2
  <2>4. UnitOK(setup, e, (3 + k) + 1, u)
    BY ZenonT(60), <1>5, <2>1
  <2>5. u.t \in {"data", "PING", "PONG"} /\ u.key = Own(setup, e)
    BY <2>3, <2>4, Zenon DEF UnitOK, k
  <2> QED BY Zenon, <1>3, <2>5
<1>7. /\ become(e, s) /\ closed' = closed /\ sent' = sent /\ pings' = pings
      /\ u.t = "PING" => write(e, x)
      /\ u.t # "PING" => wire' = wire
      /\ got' = [got EXCEPT ![e] = IF u.t \in Commands THEN @
                                   ELSE Append(@, IF u.t = "data" THEN u.v ELSE 0)]
  <2>1. r.framer = o.framer /\ r.version = o.version
    BY <1>4, Zenon DEF SessType
  <2>2. ~(u.key # r.framer \/ (u.t \in Commands /\ r.version = "V2"))
    BY ZenonT(60), <1>3, <1>6, <2>1
  <2> QED BY <2>1, <2>2, Zenon DEF handle_incoming_from_network
<1>8. x \in Units /\ x.t = "PONG" /\ x.key = o.framer
  <2>1. "none" \in Values /\ "PONG" \in UnitTypes
    BY ZenonT(60) DEF Values, UnitTypes, Commands
  <2> QED BY Zenon, <1>3, <2>1 DEF Unit, Units
<1> DEFINE b == Tail(o.buf)
<1>9. b \in Seq(Units)
  BY Zenon, <1>5
<1> HIDE DEF x, u, b
<1>10. /\ s \in SessType /\ s.phase = o.phase /\ s.sub = o.sub /\ s.at = o.at /\ s.buf = b
       /\ s.mech = o.mech /\ s.step = o.step /\ s.peer_mech = o.peer_mech
       /\ s.version = o.version /\ s.framer = o.framer /\ s.id = o.id
       /\ s.from_ready = o.from_ready /\ s.cause = o.cause
  <2>1. FALSE \in Flags /\ r = [o EXCEPT !.buf = b]
    BY Zenon DEF Flags, b
  <2> HIDE DEF o, r
  <2>2. /\ r \in SessType /\ r.phase = o.phase /\ r.sub = o.sub /\ r.at = o.at /\ r.buf = b
        /\ r.mech = o.mech /\ r.step = o.step /\ r.peer_mech = o.peer_mech
        /\ r.version = o.version /\ r.framer = o.framer /\ r.id = o.id
        /\ r.from_ready = o.from_ready /\ r.cause = o.cause
    BY <1>4, <1>9, <2>1, Zenon DEF SessType
  <2> DEFINE q == [r EXCEPT !.waiting_for_pong = FALSE]
  <2>3. /\ q \in SessType /\ q.phase = r.phase /\ q.sub = r.sub /\ q.at = r.at
        /\ q.buf = r.buf /\ q.mech = r.mech /\ q.step = r.step /\ q.peer_mech = r.peer_mech
        /\ q.version = r.version /\ q.framer = r.framer /\ q.id = r.id
        /\ q.from_ready = r.from_ready /\ q.cause = r.cause
    BY <2>1, <2>2, Zenon DEF SessType
  <2>4. s = r \/ s = q
    BY SMTT(30)
  <2> HIDE DEF q, s
  <2> QED BY Zenon, <2>2, <2>3, <2>4
<1> HIDE DEF s, r
<1>11. Local(setup, e, s)
  <2>1. s.sub # "GreetingExchange"
    BY Zenon, <1>3, <1>10
  <2> QED BY ZenonT(60), <1>4, <1>10, <2>1 DEF Local
<1>12. wire' \in [Ends -> Seq(Units)] /\ wire'[e] = wire[e]
  <2>1. CASE u.t = "PING"
    BY ZenonT(60), <1>4, <1>7, <1>8, <2>1, WriteFacts
  <2>2. CASE u.t # "PING"
    BY Zenon, <1>4, <1>7, <2>2 DEF Typed
  <2> QED BY Zenon, <2>1, <2>2
<1>13. Becomes(e, s)
  BY ZenonT(60), <1>4, <1>7, <1>10, <1>12, BecomeFacts
<1>14. /\ u.t = "PING" => Sent(e, x)
       /\ u.t # "PING" => streams'[p] = streams[p]
  <2>1. u.t = "PING" => Sent(e, x)
    BY ZenonT(60), <1>4, <1>7, <1>8, <1>13, WriteFacts DEF Becomes
  <2>2. u.t # "PING" => streams'[p] = streams[p]
    BY Zenon, <1>1, <1>4, <1>7, <1>13, StreamTypes DEF Becomes
  <2> QED BY ZenonT(60), <2>1, <2>2
<1>15. streams'[e] = Tail(streams[e])
  <2>1. streams'[e] = sess'[e].buf \o wire'[e]
    BY Zenon, <1>4, StreamTypes
  <2> QED BY Zenon, <1>5, <1>10, <1>12, <1>13, <2>1 DEF Becomes, b
<1>16. Unlost(setup, streams, closed, got, sent, restarted)' /\ got' \in [Ends -> Seq(Values)]
  <2>1. Grows(streams[p], streams'[p])
    BY Zenon, <1>8, <1>14 DEF Sent, Grows, Plain
  <2>2. u.t \in Commands \cup {"data"}
    BY Zenon, <1>6 DEF Commands
  <2>3. Unlost(setup, streams, closed, got, sent, restarted)
    BY DEF IndInv
  <2> QED BY Zenon, <1>2, <1>4, <1>5, <1>7, <1>15, <2>1, <2>2, <2>3, HandleOrder
<1>17. /\ pings' \in [Ends -> 0..MaxPings] /\ sent[e] \in Nat /\ pings[e] \in Nat
       /\ sent' \in [Ends -> 0..MaxData]
  BY <1>1, <1>7, <1>4, ConstantsAssumption DEF Typed
<1>18. /\ \A y \in Ends : Len(streams'[y]) \in Nat
       /\ Len(streams'[e]) + Len(streams'[p]) + Written(setup, e, sess[e])
            <= Len(streams[e]) + Len(streams[p]) + Written(setup, e, s) + 0
  <2> DEFINE a == Len(streams[e])
             c == Len(streams[p])
             d == Len(streams'[p])
             f == Len(streams'[e])
             k == Written(setup, e, s)
  <2>1. a \in Nat /\ c \in Nat /\ streams[p] \in Seq(Units) /\ streams[e] \in Seq(Units)
    BY Zenon, <1>1, <1>4, StreamTypes
  <2>2. d = c \/ d = c + 1
    <3>1. Len(Append(streams[p], x)) = c + 1
      <4> DEFINE q == streams[p]
      <4>1. q \in Seq(Units) /\ x \in Units
        BY Zenon, <1>8, <2>1
      <4> HIDE DEF q
      <4>2. Len(Append(q, x)) = Len(q) + 1
        BY <4>1, Added, Zenon
      <4> QED BY Zenon, <4>2 DEF q
    <3>2. streams'[p] = streams[p] \/ streams'[p] = Append(streams[p], x)
      BY Zenon, <1>14 DEF Sent
    <3> QED BY <3>1, <3>2, Zenon
  <2>3. k \in Nat /\ Written(setup, e, sess[e]) = k
    <3>1. k \in Nat
      <4>1. s \in SessType
        BY Zenon, <1>10
      <4> QED BY Zenon, <4>1, Numbers
    <3>2. s.sub = sess[e].sub /\ s.step = sess[e].step
      BY ZenonT(60), <1>10
    <3> QED BY Zenon, <3>1, <3>2 DEF Written
  <2>4. f = a - 1 /\ a # 0
    BY ZenonT(60), <1>5, <1>15, <2>1, Behind
  <2> HIDE DEF a, d, c, f, k
  <2>5. d \in Nat /\ f \in Nat /\ f + d + k <= a + c + k + 0
    BY <2>1, <2>2, <2>3, <2>4
  <2> QED BY Zenon, <1>1, <2>3, <2>5 DEF c, k, a, d, f
<1>19. Few(setup, sess, streams, closed, sent, pings)'
  <2>1. sent'[e] + pings'[e] = sent[e] + pings[e] + 0 /\ 0 \in Nat
    BY <1>7, <1>17
  <2>2. sent'[p] = sent[p] /\ pings'[p] = pings[p]
    BY Zenon, <1>7
  <2> QED BY <1>2, <1>4, <1>7, <1>10, <1>13, <1>17, <1>18, <2>1, <2>2, FewStep, Zenon
<1>20. /\ x.t \in {"data", "PING", "PONG"} /\ s.sub = "Done" /\ s.cause = sess[e].cause
       /\ streams'[p] = streams[p] \/ Sent(e, x)
  BY Zenon, <1>3, <1>8, <1>10, <1>14
<1> QED BY Zenon, <1>2, <1>5, <1>7, <1>8, <1>10, <1>11, <1>13, <1>15, <1>16, <1>17, <1>19, <1>20, V3Data

(* A connection of two rzmq ends has no ZMTP/2.0 in it.                    *)
LEMMA V3Never ==
    ASSUME IndInv, kind = "v3", NEW e \in Ends
    PROVE  /\ ~exchange_v2_identity(e) /\ ~read_v2_identity_frame(e)
           /\ ~process_other_event(e) /\ ~v2_peer(e)
<1>1. sess[e].phase # "External"
  BY ZenonT(60) DEF IndInv, V3Inv, Local, ClosedInv
<1>2. Alive(e) => sess[e].sub # "V2IdentityExchange" /\ sess[e].at = "start"
  BY Zenon, Running DEF Local
<1> QED BY ZenonT(60), <1>1, <1>2
        DEF exchange_v2_identity, read_v2_identity_frame, process_other_event, v2_peer, In,
            Handshaking, Alive

(* Every step of a connection of two rzmq ends.                            *)
LEMMA V3Next ==
    ASSUME IndInv, kind = "v3", Next
    PROVE  IndInv'
<1>1. PICK e \in Ends :
        \/ NetworkStep(e) \/ write_data_msgs(e) \/ write_fails(e)
        \/ try_send_ping(e) \/ pong_timed_out(e)
        \/ initialize_pipes(e) \/ process_other_event(e) \/ stop(e) \/ handshake_timeout(e)
        \/ connection_reset(e) \/ perform_graceful_shutdown(e) \/ v2_peer(e)
  BY Zenon DEF Next
<1>2. /\ ~exchange_v2_identity(e) /\ ~read_v2_identity_frame(e)
      /\ ~process_other_event(e) /\ ~v2_peer(e)
  BY ZenonT(60), V3Never
<1>3. CASE HandshakeStep(e)
  <2>1. CASE send_signature(e) \/ wait_for_peer_revision(e) \/ receive_greeting(e)
    BY ZenonT(60), <2>1, V3Signature, V3Revision, V3Greeting
  <2>2. CASE negotiate_security_mechanism(e) \/ produce_token(e) \/ process_token(e)
    BY Zenon, <2>2, V3Negotiate, V3Produce, V3Process
  <2>3. CASE client_send_ready(e) \/ server_receive_ready(e)
    BY Zenon, <2>3, V3ClientSends, V3ServerTakes
  <2>4. CASE server_send_ready(e) \/ client_receive_peer_ready(e)
    BY Zenon, <2>4, V3ServerSends, V3ClientTakes
  <2> QED BY Zenon, <1>2, <1>3, <2>1, <2>2, <2>3, <2>4 DEF HandshakeStep
<1>4. CASE read_buf(e) \/ handle_incoming_from_network(e)
  BY Zenon, <1>4, V3Read, V3Handle
<1>5. CASE stop(e) \/ read_eof(e)
  BY Zenon, <1>5, Ended, V3Shut
<1>6. CASE write_data_msgs(e) \/ try_send_ping(e) \/ initialize_pipes(e)
  BY ZenonT(60), <1>6, V3Message, V3Ping, V3Pipes
<1>7. CASE pong_timed_out(e) \/ handshake_timeout(e) \/ write_fails(e)
  BY Zenon, <1>7, TimedOut
<1>8. CASE connection_reset(e) \/ perform_graceful_shutdown(e)
  BY Zenon, <1>8, Reset, Graceful
<1> QED BY ZenonT(60), <1>1, <1>2, <1>3, <1>4, <1>5, <1>6, <1>7, <1>8 DEF NetworkStep
=============================================================================
