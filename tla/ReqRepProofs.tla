---------------------------- MODULE ReqRepProofs ----------------------------
(***************************************************************************)
(* REQ and REP implement Exchange, for any clients, servers, connections   *)
(* and scenarios.                                                          *)
(***************************************************************************)
EXTENDS ReqRep, WellFoundedInduction, TLAPS

(* A message is known by its last frame, the one without MORE.             *)
Final(f) == ~f.more
Ending(fs, q) == \E i \in 1..Len(fs) : Final(fs[i]) /\ fs[i].of = q
Apart(fs) ==
    \A i, j \in 1..Len(fs) : Final(fs[i]) /\ Final(fs[j]) /\ fs[i].of = fs[j].of => i = j
AllMore(fs) == \A i \in 1..Len(fs) : fs[i].more
Payloads(fs) == \A i \in 1..Len(fs) : Final(fs[i]) => fs[i].part # 0
Message(fs) == Len(fs) > 0 /\ Final(fs[Len(fs)]) /\ \A i \in 1..(Len(fs) - 1) : fs[i].more

(* The request an item of a REP socket is about.                           *)
About(i) == Last(i.payload).of
Sound(i) == Len(i.payload) > 0 /\ AllMore(i.prefix) /\ About(i)[1] = ClientOf[i.pipe]

(* Where a request, or its reply, is.                                      *)
InConn(r, l, q) ==
    \/ l = "toRep" /\ Ending(r.toRep, q)
    \/ l = "repItem" /\ r.repReader = "push" /\ About(r.repItem) = q
    \/ l = "toReq" /\ Ending(r.toReq, q)
    \/ l = "item" /\ r.reader = "push" /\ Last(r.item).of = q
InReq(r, l, q) ==
    \/ l = "queue" /\ r.queue # <<>> /\ Last(Head(r.queue)).of = q
    \/ l = "buffer" /\ r.buffer # <<>> /\ Last(r.buffer).of = q
    \/ l = "result" /\ r.result # None /\ Final(r.result) /\ r.result.of = q
InRep(r, l, q) ==
    \/ l = "repQueue" /\ \E i \in 1..Len(r.queue) : About(r.queue[i]) = q
    \/ l = "holds" /\ r.at = "has" /\ r.holds = q
Place(cn, rq, rp, l, o, q) ==
    \/ o \in Conns /\ InConn(cn[o], l, q)
    \/ o \in Clients /\ InReq(rq[o], l, q)
    \/ o \in Servers /\ InRep(rp[o], l, q)
There(l, o, q) == Place(conn, req, rep, l, o, q)
Then(l, o, q) == Place(conn', req', rep', l, o, q)

(* The records are in shape.                                               *)
Distinct(s) == \A i, j \in 1..Len(s) : s[i] = s[j] => i = j
ConnOk(k, r) ==
    /\ Apart(r.toRep) /\ Apart(r.toReq) /\ Payloads(r.toRep) /\ Payloads(r.toReq)
    /\ AllMore(r.partial) /\ AllMore(r.repPartial)
    /\ r.reader = "push" => Message(r.item)
    /\ r.repReader = "push" => r.repItem # None /\ r.repItem.pipe = k /\ Sound(r.repItem)
    /\ \A l, q : InConn(r, l, q) => q[1] = ClientOf[k]
ReqData(c, r) ==
    /\ Len(r.queue) <= 1
    /\ r.queue # <<>> => Message(Head(r.queue))
    /\ \A l, q : InReq(r, l, q) => q[1] = c
ReqCtl(c, r) ==
    /\ Distinct(r.lb)
    /\ r.woken # "no" => r.at = "wait"
    /\ r.at \in {"choose", "write", "sent"} => r.state = None
    /\ r.at \in {"choose", "write"} => r.n < cfg.requests
    /\ r.at \in {"write", "sent"} => r.via \in Conns /\ ClientOf[r.via] = c
    /\ r.at = "sent" => r.n > 0
    /\ r.state # None => r.state.q[1] = c /\ r.state.q[2] <= r.n
RepOk(r) ==
    /\ \A i, j \in 1..Len(r.queue) : About(r.queue[i]) = About(r.queue[j]) => i = j
    /\ \A i \in 1..Len(r.queue) : Sound(r.queue[i])
    /\ r.at = "has" => r.holds \in Requests
    /\ r.at = "has" /\ r.state # None =>
          AllMore(r.state.prefix) /\ r.holds[1] = ClientOf[r.state.pipe]
ShapeInv ==
    /\ \A k \in Conns : ConnOk(k, conn[k])
    /\ \A c \in Clients : ReqData(c, req[c]) /\ ReqCtl(c, req[c])
    /\ \A s \in Servers : RepOk(rep[s])

(* A request is in one place.                                              *)
OnceInv ==
    \A l, m, o, p, q : There(l, o, q) /\ There(m, p, q) => l = m /\ o = p

(* What is under way has been asked and not been answered, or is about to  *)
(* be asked; what has come back has been asked.                            *)
Open(c) == Pending(c) \cup lost
Sent(c) == IF req[c].at = "sent" THEN {<<c, req[c].n>>} ELSE {}
OpenInv ==
    /\ \A l, o, q : There(l, o, q) => q \in Requests /\ q \in Open(q[1]) \cup Sent(q[1])
    /\ \A l, o, q : There(l, o, q) /\ l \in {"item", "queue", "buffer", "result"} =>
          q \in Open(q[1])
    /\ \A q \in answered \cup lost : q[2] <= req[q[1]].n /\ q \notin Sent(q[1])

IndInv == TypeOK /\ ShapeInv /\ OnceInv /\ OpenInv

-----------------------------------------------------------------------------
(* Sequences of frames.                                                    *)

(* The facts about sequences that the proofs use: lengths and elements,    *)
LEMMA SeqLen ==
    ASSUME NEW S, NEW u \in Seq(S)
    PROVE  Len(u) \in Nat /\ u \in [1..Len(u) -> S] /\ DOMAIN u = 1..Len(u)
OBVIOUS

(* the empty one,                                                          *)
LEMMA SeqNone ==
    ASSUME NEW S
    PROVE  /\ <<>> \in Seq(S) /\ Len(<<>>) = 0
           /\ \A u \in Seq(S) : u # <<>> => Len(u) \in Nat \ {0}
OBVIOUS

(* one with an element more,                                               *)
LEMMA SeqAdd ==
    ASSUME NEW S, NEW u \in Seq(S), NEW x \in S
    PROVE  /\ Append(u, x) \in Seq(S) /\ Append(u, x) # <<>>
           /\ Len(Append(u, x)) = Len(u) + 1 /\ Append(u, x)[Len(u) + 1] = x
           /\ \A i \in 1..Len(u) : Append(u, x)[i] = u[i]
OBVIOUS

(* one without its first,                                                  *)
LEMMA SeqBehind ==
    ASSUME NEW S, NEW u \in Seq(S), u # <<>>
    PROVE  /\ Head(u) \in S /\ Tail(u) \in Seq(S) /\ Len(Tail(u)) = Len(u) - 1
           /\ \A i \in 1..Len(Tail(u)) : Tail(u)[i] = u[i + 1]
OBVIOUS

(* one after another,                                                      *)
LEMMA SeqJoin ==
    ASSUME NEW S, NEW u \in Seq(S), NEW v \in Seq(S)
    PROVE  /\ u \o v \in Seq(S) /\ Len(u \o v) = Len(u) + Len(v)
           /\ \A i \in 1..(Len(u) + Len(v)) :
                 (u \o v)[i] = IF i <= Len(u) THEN u[i] ELSE v[i - Len(u)]
OBVIOUS

(* and a part of one.                                                      *)
LEMMA SeqPart ==
    ASSUME NEW S, NEW u, NEW m \in Nat, NEW n \in Nat, \A i \in m..n : u[i] \in S
    PROVE  /\ SubSeq(u, m, n) \in Seq(S)
           /\ Len(SubSeq(u, m, n)) = IF m <= n THEN n - m + 1 ELSE 0
           /\ \A i \in 1..(n - m + 1) : SubSeq(u, m, n)[i] = u[m + i - 1]
OBVIOUS

(* The first frame and the rest.                                           *)
LEMMA TailFrames ==
    ASSUME NEW fs \in Seq(Frames), fs # <<>>
    PROVE  /\ Head(fs) \in Frames /\ Tail(fs) \in Seq(Frames)
           /\ \A q : Ending(Tail(fs), q) => Ending(fs, q)
           /\ Final(Head(fs)) => Ending(fs, Head(fs).of)
           /\ Apart(fs) => Apart(Tail(fs)) /\ (Final(Head(fs)) => ~Ending(Tail(fs), Head(fs).of))
           /\ Payloads(fs) => Payloads(Tail(fs)) /\ (Final(Head(fs)) => Head(fs).part # 0)
<1> DEFINE r == Tail(fs)
           e == Head(fs)
<1>1. /\ e \in Frames /\ r \in Seq(Frames) /\ Len(r) = Len(fs) - 1 /\ Len(r) \in Nat
      /\ \A i \in 1..Len(r) : i + 1 \in 1..Len(fs) /\ r[i] = fs[i + 1]
      /\ e = fs[1] /\ Len(fs) \in Nat /\ 1 \in 1..Len(fs)
  BY SeqBehind, SeqLen
<1> HIDE DEF r, e
<1>2. (\A q : Ending(r, q) => Ending(fs, q)) /\ (Final(e) => Ending(fs, e.of))
  BY Zenon, <1>1 DEF Ending
<1>3. ASSUME Apart(fs) PROVE Apart(r) /\ (Final(e) => ~Ending(r, e.of))
  <2>1. Apart(r)
    <3> SUFFICES ASSUME NEW i \in 1..Len(r), NEW j \in 1..Len(r),
                        Final(r[i]), Final(r[j]), r[i].of = r[j].of
                 PROVE  i = j
      BY Zenon DEF Apart
    <3>1. i + 1 = j + 1
      BY Zenon, <1>1, <1>3 DEF Apart
    <3> QED BY <3>1
  <2>2. ASSUME Final(e), NEW i \in 1..Len(r), Final(r[i]), r[i].of = e.of PROVE FALSE
    <3>1. i + 1 = 1
      BY Zenon, <1>1, <1>3, <2>2 DEF Apart
    <3> QED BY <3>1
  <2> QED BY Zenon, <2>1, <2>2 DEF Ending
<1>4. Payloads(fs) => Payloads(r) /\ (Final(e) => e.part # 0)
  BY Zenon, <1>1 DEF Payloads
<1> QED BY Zenon, <1>1, <1>2, <1>3, <1>4 DEF r, e

(* One sequence after another.                                             *)
LEMMA ConcatFrames ==
    ASSUME NEW a \in Seq(Frames), NEW b \in Seq(Frames)
    PROVE  /\ a \o b \in Seq(Frames)
           /\ \A q : Ending(a \o b, q) <=> Ending(a, q) \/ Ending(b, q)
           /\ Apart(a) /\ Apart(b) /\ (\A q : ~(Ending(a, q) /\ Ending(b, q))) => Apart(a \o b)
           /\ Payloads(a) /\ Payloads(b) => Payloads(a \o b)
<1> DEFINE r == a \o b
<1>1. /\ r \in Seq(Frames) /\ Len(r) = Len(a) + Len(b) /\ Len(a) \in Nat /\ Len(b) \in Nat
      /\ \A i \in 1..(Len(a) + Len(b)) : r[i] = IF i <= Len(a) THEN a[i] ELSE b[i - Len(a)]
  BY Zenon, SeqJoin, SeqLen
<1> HIDE DEF r
<1>2. \A i \in 1..Len(r) : \/ i \in 1..Len(a) /\ r[i] = a[i]
                           \/ i - Len(a) \in 1..Len(b) /\ r[i] = b[i - Len(a)]
  BY <1>1
<1>3. /\ \A i \in 1..Len(a) : i \in 1..Len(r) /\ r[i] = a[i]
      /\ \A i \in 1..Len(b) : i + Len(a) \in 1..Len(r) /\ r[i + Len(a)] = b[i]
  <2>1. ASSUME NEW i \in 1..Len(b) PROVE i + Len(a) \in 1..Len(r) /\ r[i + Len(a)] = b[i]
    <3>1. i + Len(a) \in 1..(Len(a) + Len(b)) /\ ~(i + Len(a) <= Len(a)) /\ (i + Len(a)) - Len(a) = i
      BY <1>1
    <3> QED BY Zenon, <1>1, <3>1
  <2> QED BY <1>1, <2>1
<1>4. \A q : Ending(r, q) <=> Ending(a, q) \/ Ending(b, q)
  <2>1. \A q : Ending(r, q) => Ending(a, q) \/ Ending(b, q)
    BY <1>2, Zenon DEF Ending
  <2>2. \A q : Ending(a, q) \/ Ending(b, q) => Ending(r, q)
    BY <1>3, Zenon DEF Ending
  <2> QED BY Zenon, <2>1, <2>2
<1>5. ASSUME Apart(a), Apart(b), \A q : ~(Ending(a, q) /\ Ending(b, q)) PROVE Apart(r)
  <2> SUFFICES ASSUME NEW i \in 1..Len(r), NEW j \in 1..Len(r),
                      Final(r[i]), Final(r[j]), r[i].of = r[j].of
               PROVE  i = j
    BY Zenon DEF Apart
  <2>1. CASE i \in 1..Len(a) /\ j \in 1..Len(a)
    BY Zenon, <1>3, <1>5, <2>1 DEF Apart
  <2>2. CASE i - Len(a) \in 1..Len(b) /\ j - Len(a) \in 1..Len(b)
    <3>1. r[i] = b[i - Len(a)] /\ r[j] = b[j - Len(a)]
      BY <1>1, <1>2, <2>2
    <3>2. i - Len(a) = j - Len(a)
      BY Zenon, <1>5, <2>2, <3>1 DEF Apart
    <3> QED BY <1>1, <3>2
  <2>3. ASSUME NEW x \in 1..Len(r), NEW y \in 1..Len(r), Final(r[x]), Final(r[y]), r[x].of = r[y].of,
               x \in 1..Len(a), y - Len(a) \in 1..Len(b)
        PROVE  FALSE
    <3>1. r[x] = a[x] /\ r[y] = b[y - Len(a)]
      BY <1>1, <1>2, <2>3
    <3>2. Ending(a, r[x].of) /\ Ending(b, r[x].of)
      BY Zenon, <2>3, <3>1 DEF Ending
    <3> QED BY Zenon, <1>5, <3>2
  <2> QED BY Zenon, <1>2, <2>1, <2>2, <2>3
<1>6. Payloads(a) /\ Payloads(b) => Payloads(r)
  BY Zenon, <1>2 DEF Payloads
<1> QED BY Zenon, <1>1, <1>4, <1>5, <1>6 DEF r

(* What is left of a sequence that is cut.                                 *)
LEMMA CutFrames ==
    ASSUME NEW fs \in Seq(Frames), NEW n \in 0..Len(fs)
    PROVE  /\ SubSeq(fs, 1, n) \in Seq(Frames)
           /\ \A q : Ending(SubSeq(fs, 1, n), q) => Ending(fs, q)
           /\ Apart(fs) => Apart(SubSeq(fs, 1, n))
           /\ Payloads(fs) => Payloads(SubSeq(fs, 1, n))
<1> DEFINE r == SubSeq(fs, 1, n)
<1>1. r \in Seq(Frames) /\ Len(r) = n /\ Len(fs) \in Nat /\ \A i \in 1..n : r[i] = fs[i]
  <2>1. Len(fs) \in Nat /\ n \in Int /\ 1 \in Int /\ \A i \in 1..n : fs[i] \in Frames
    BY SeqLen
  <2>2. r \in Seq(Frames) /\ Len(r) = (IF 1 <= n THEN n - 1 + 1 ELSE 0)
        /\ \A i \in 1..(n - 1 + 1) : r[i] = fs[1 + i - 1]
    BY <2>1, SeqPart
  <2>3. (IF 1 <= n THEN n - 1 + 1 ELSE 0) = n /\ n - 1 + 1 = n
        /\ \A i \in 1..n : 1 + i - 1 = i
    BY <2>1
  <2> QED BY Zenon, <2>1, <2>2, <2>3
<1> HIDE DEF r
<1>2. \A i \in 1..Len(r) : i \in 1..Len(fs) /\ r[i] = fs[i]
  BY <1>1
<1>3. \A q : Ending(r, q) => Ending(fs, q)
  BY Zenon, <1>2 DEF Ending
<1>4. Apart(fs) => Apart(r)
  BY Zenon, <1>2 DEF Apart
<1>5. Payloads(fs) => Payloads(r)
  BY Zenon, <1>2 DEF Payloads
<1> QED BY Zenon, <1>1, <1>3, <1>4, <1>5 DEF r

(* One more frame.                                                         *)
LEMMA AppendFrames ==
    ASSUME NEW fs \in Seq(Frames), NEW f \in Frames, AllMore(fs)
    PROVE  /\ Append(fs, f) \in Seq(Frames)
           /\ Len(Append(fs, f)) = Len(fs) + 1 /\ Len(fs) \in Nat
           /\ Append(fs, f)[Len(fs) + 1] = f
           /\ Last(Append(fs, f)) = f
           /\ f.more => AllMore(Append(fs, f))
           /\ Final(f) => Message(Append(fs, f))
<1> DEFINE r == Append(fs, f)
<1>1. /\ r \in Seq(Frames) /\ Len(r) = Len(fs) + 1 /\ Len(fs) \in Nat /\ r[Len(fs) + 1] = f
      /\ \A i \in 1..Len(fs) : r[i] = fs[i]
  BY SeqAdd, SeqLen
<1> HIDE DEF r
<1>2. Last(r) = f
  BY Zenon, <1>1 DEF Last
<1>3. f.more => AllMore(r)
  <2> SUFFICES ASSUME f.more, NEW i \in 1..Len(r) PROVE r[i].more
    BY Zenon DEF AllMore
  <2>1. i \in 1..Len(fs) \/ i = Len(fs) + 1
    BY <1>1
  <2> QED BY Zenon, <1>1, <2>1 DEF AllMore
<1>4. Final(f) => Message(r)
  <2>1. Len(r) > 0 /\ Len(r) - 1 = Len(fs)
    BY <1>1
  <2> QED BY Zenon, <1>1, <2>1 DEF Message, AllMore
<1> QED BY Zenon, <1>1, <1>2, <1>3, <1>4 DEF r

(* A message taken frame by frame.                                         *)
LEMMA TailMessage ==
    ASSUME NEW m \in Seq(Frames), m # <<>>
    PROVE  /\ Head(m) \in Frames /\ Tail(m) \in Seq(Frames) /\ Last(m) \in Frames
           /\ Len(m) \in Nat /\ Len(m) > 0
           /\ Len(m) = 1 => Tail(m) = <<>> /\ Head(m) = Last(m)
           /\ Len(m) > 1 => Tail(m) # <<>> /\ Last(Tail(m)) = Last(m)
           /\ Message(m) => /\ Len(m) = 1 => Final(Head(m))
                            /\ Len(m) > 1 => Head(m).more /\ Message(Tail(m))
<1> DEFINE r == Tail(m)
           e == Head(m)
<1>1. /\ e \in Frames /\ r \in Seq(Frames) /\ Len(r) = Len(m) - 1 /\ Len(r) \in Nat
      /\ \A i \in 1..Len(r) : i + 1 \in 1..Len(m) /\ r[i] = m[i + 1]
      /\ e = m[1] /\ Len(m) \in Nat /\ Len(m) > 0
  BY SeqBehind, SeqLen
<1>2. r = <<>> <=> Len(r) = 0
  BY Zenon, <1>1, SeqNone
<1> HIDE DEF r, e
<1>3. Last(m) = m[Len(m)] /\ Last(m) \in Frames
  BY <1>1 DEF Last
<1>4. ASSUME Len(m) > 1 PROVE r # <<>> /\ Last(r) = Last(m) /\ r[Len(r)] = m[Len(m)]
  <2>1. Len(r) \in 1..Len(r) /\ Len(r) + 1 = Len(m) /\ Len(r) # 0
    BY <1>1, <1>4
  <2>2. r[Len(r)] = m[Len(m)]
    BY Zenon, <1>1, <2>1
  <2> QED BY Zenon, <1>2, <1>3, <2>1, <2>2 DEF Last
<1>5. ASSUME Len(m) = 1 PROVE r = <<>> /\ e = Last(m)
  BY <1>1, <1>2, <1>3, <1>5
<1>6. ASSUME Message(m), Len(m) = 1 PROVE Final(e)
  BY Zenon, <1>1, <1>6 DEF Message
<1>7. ASSUME Message(m), Len(m) > 1 PROVE e.more /\ Message(r)
  <2>1. 1 \in 1..(Len(m) - 1) /\ Len(r) > 0
    BY <1>1, <1>7
  <2>2. e.more /\ Final(r[Len(r)])
    BY Zenon, <1>1, <1>4, <1>7, <2>1 DEF Message
  <2>3. ASSUME NEW i \in 1..(Len(r) - 1) PROVE r[i].more
    <3>1. i \in 1..Len(r) /\ i + 1 \in 1..(Len(m) - 1)
      BY <1>1
    <3> QED BY Zenon, <1>1, <1>7, <3>1 DEF Message
  <2> QED BY Zenon, <2>1, <2>2, <2>3 DEF Message
<1> QED BY Zenon, <1>1, <1>3, <1>4, <1>5, <1>6, <1>7 DEF r, e

(* The delimiter is never the last frame, so a message without it is one.  *)
LEMMA StripMessage ==
    ASSUME NEW m \in Seq(Frames), Message(m), Last(m).part # 0
    PROVE  Strip(m) \in Seq(Frames) /\ Message(Strip(m)) /\ Last(Strip(m)) = Last(m)
<1>1. m # <<>>
  BY SeqNone DEF Message
<1>2. CASE Head(m).part = 0
  <2> DEFINE n == Len(m)
  <2>1. n \in Nat /\ n > 0 /\ (n = 1 => Head(m) = Last(m))
    BY Zenon, <1>1, TailMessage
  <2> HIDE DEF n
  <2>2. n # 1
    BY Zenon, <1>2, <2>1
  <2>3. n > 1
    BY <2>1, <2>2
  <2> QED BY Zenon, <1>1, <1>2, <2>3, TailMessage DEF Strip, n
<1>3. CASE Head(m).part # 0
  BY Zenon, <1>3 DEF Strip
<1> QED BY Zenon, <1>2, <1>3

(* The two frames of a request.                                            *)
LEMMA RequestFrames ==
    ASSUME NEW q \in Requests
    PROVE  LET fs == <<Frame(q, 0, TRUE), Frame(q, 1, FALSE)>>
           IN  /\ fs \in Seq(Frames) /\ Apart(fs) /\ Payloads(fs)
               /\ \A p : Ending(fs, p) <=> p = q
<1> DEFINE fs == <<Frame(q, 0, TRUE), Frame(q, 1, FALSE)>>
<1> USE DEF Frame
<1>0. 0 \in 0..2 /\ 1 \in 0..2 /\ TRUE \in BOOLEAN /\ FALSE \in BOOLEAN
  OBVIOUS
<1>1. Frame(q, 0, TRUE) \in Frames /\ Frame(q, 1, FALSE) \in Frames
  BY <1>0, Zenon DEF Frames
<1>2. fs \in Seq(Frames) /\ Len(fs) = 2 /\ fs[1] = Frame(q, 0, TRUE) /\ fs[2] = Frame(q, 1, FALSE)
  BY <1>1
<1>3. Frame(q, 0, TRUE).more /\ Final(Frame(q, 1, FALSE))
      /\ Frame(q, 1, FALSE).of = q /\ Frame(q, 1, FALSE).part = 1
  BY Zenon DEF Frame, Final
<1> HIDE DEF fs, Frame
<1>4. \A i \in 1..Len(fs) : Final(fs[i]) <=> i = 2
  <2>1. \A i \in 1..Len(fs) : i = 1 \/ i = 2
    BY <1>2
  <2>2. ~Final(fs[1]) /\ Final(fs[2]) /\ 1 # 2
    BY Zenon, <1>2, <1>3 DEF Final
  <2> QED BY <2>1, <2>2, Zenon
<1>5. 2 \in 1..Len(fs) /\ fs[2].of = q /\ fs[2].part # 0
  <2>1. 2 \in 1..2 /\ 1 # 0
    OBVIOUS
  <2> QED BY <1>2, <1>3, <2>1, Zenon
<1>6. Apart(fs) /\ Payloads(fs)
  BY Zenon, <1>4, <1>5 DEF Apart, Payloads
<1>7. \A p : Ending(fs, p) <=> p = q
  BY <1>4, <1>5, Zenon DEF Ending
<1> QED BY Zenon, <1>2, <1>6, <1>7 DEF fs

(* A sequence without a last frame of a message.                           *)
LEMMA NothingEnds ==
    ASSUME NEW fs \in Seq(Frames), AllMore(fs)
    PROVE  Apart(fs) /\ Payloads(fs) /\ \A q : ~Ending(fs, q)
BY Zenon DEF AllMore, Final, Apart, Payloads, Ending

(* A reply ends with the one frame that has no MORE, whatever the routing  *)
(* prefix.                                                                 *)
LEMMA ReplyFrames ==
    ASSUME NEW prefix \in Seq(Frames), AllMore(prefix), NEW q \in Requests, cfg.parts \in 1..2
    PROVE  /\ Reply(prefix, q) \in Seq(Frames)
           /\ Apart(Reply(prefix, q)) /\ Payloads(Reply(prefix, q))
           /\ \A p : Ending(Reply(prefix, q), p) <=> p = q
<1> DEFINE m == cfg.parts
           b == [n \in 1..m |-> Frame(q, n, n < m)]
<1>1. m \in Nat /\ m > 0 /\ m \in 1..m /\ \A i \in 1..m : i \in 0..2 /\ i # 0 /\ (i < m) \in BOOLEAN
      /\ (~(i < m) <=> i = m)
  OBVIOUS
<1>2. \A i \in 1..m : Frame(q, i, i < m) \in Frames
  BY <1>1, Zenon DEF Frame, Frames
<1>3. b \in Seq(Frames) /\ Len(b) = m /\ \A i \in 1..m : b[i] = Frame(q, i, i < m)
  <2> HIDE DEF m
  <2> QED BY <1>1, <1>2
<1>4. \A i \in 1..m : b[i].of = q /\ b[i].part = i /\ b[i].more = (i < m)
  BY Zenon, <1>3 DEF Frame
<1>5. Reply(prefix, q) = prefix \o b
  BY Zenon DEF Reply
<1> HIDE DEF m, b
<1>6. \A i \in 1..m : Final(b[i]) <=> i = m
  BY Zenon, <1>1, <1>4 DEF Final
<1>7. Apart(b) /\ Payloads(b)
  BY <1>1, <1>3, <1>4, <1>6 DEF Apart, Payloads
<1>8. \A p : Ending(b, p) <=> p = q
  BY <1>1, <1>3, <1>4, <1>6, Zenon DEF Ending
<1>9. Apart(prefix) /\ Payloads(prefix) /\ \A p : ~Ending(prefix, p)
  BY Zenon, NothingEnds
<1> QED BY <1>3, <1>5, <1>7, <1>8, <1>9, ConcatFrames

(* A nonempty set of positions has a first one.                            *)
LEMMA FirstOf ==
    ASSUME NEW D \in SUBSET Nat, D # {}
    PROVE  \E i \in D : \A j \in D : i <= j
<1>1. PICK i \in D : \A j \in D : ~(<<j, i>> \in OpToRel(<, Nat))
  BY Zenon, WFMin, NatLessThanWellFounded
<1>2. ASSUME NEW j \in D PROVE i <= j
  <2>1. ~(<<j, i>> \in OpToRel(<, Nat))
    BY Zenon, <1>1
  <2>2. ~(j < i)
    BY Zenon, <2>1 DEF OpToRel
  <2> QED BY <2>2
<1> QED BY Zenon, <1>2

(* What a REP socket makes of a whole message: the last frame is payload.  *)
LEMMA PeerItem ==
    ASSUME NEW k \in Conns, NEW fs \in Seq(Frames), NEW f \in Frames,
           AllMore(fs), Final(f), f.part # 0
    PROVE  LET i == PeerInfo(k, Append(fs, f))
           IN  /\ i \in Items /\ i.pipe = k
               /\ Len(i.payload) > 0 /\ AllMore(i.prefix) /\ About(i) = f.of
<1> DEFINE m == Append(fs, f)
           n == Len(m)
           D == {i \in 1..n : m[i].part = 0}
           d == IF D = {} THEN 0 ELSE CHOOSE i \in D : \A j \in D : i <= j
           x == SubSeq(m, 1, d)
           y == SubSeq(m, d + 1, n)
<1>1. /\ m \in Seq(Frames) /\ n \in Nat /\ n > 0 /\ m[n] = f
      /\ \A i \in 1..(n - 1) : m[i].more
      /\ \A i \in 1..n : m[i] \in Frames
  <2>1. m \in Seq(Frames) /\ n = Len(fs) + 1 /\ Len(fs) \in Nat /\ m[Len(fs) + 1] = f /\ Message(m)
    BY Zenon, AppendFrames
  <2> QED BY Zenon, <2>1, SeqLen DEF Message
<1>2. PeerInfo(k, m) = [pipe |-> k, prefix |-> x, payload |-> y]
  BY Zenon DEF PeerInfo
<1>3. D \subseteq 1..n /\ n \notin D
  BY Zenon, <1>1
<1>4. d \in Nat /\ d <= n - 1
  <2>1. CASE D = {}
    BY <1>1, <2>1
  <2>2. CASE D # {}
    <3> HIDE DEF D, n
    <3>5. D \in SUBSET Nat
      BY <1>1, <1>3
    <3>1. \E i \in D : \A j \in D : i <= j
      BY Zenon, <2>2, <3>5, FirstOf
    <3> DEFINE e == CHOOSE i \in D : \A j \in D : i <= j
    <3>3. e \in D
      BY Zenon, <3>1
    <3>4. d = e
      BY Zenon, <2>2
    <3>2. d \in D
      BY <3>3, <3>4, Zenon
    <3> HIDE DEF d
    <3> QED BY <1>1, <1>3, <3>2
  <2> QED BY Zenon, <2>1, <2>2
<1> HIDE DEF m, n, D, d
<1>5. /\ x \in Seq(Frames) /\ Len(x) = (IF 1 <= d THEN d - 1 + 1 ELSE 0)
      /\ \A i \in 1..(d - 1 + 1) : x[i] = m[1 + i - 1]
  <2>1. 1 \in Int /\ d \in Int /\ \A i \in 1..d : m[i] \in Frames
    BY <1>1, <1>4
  <2> QED BY <2>1, SeqPart
<1>6. /\ y \in Seq(Frames) /\ Len(y) = (IF d + 1 <= n THEN n - (d + 1) + 1 ELSE 0)
      /\ \A i \in 1..(n - (d + 1) + 1) : y[i] = m[(d + 1) + i - 1]
  <2>1. d + 1 \in Int /\ n \in Int /\ \A i \in (d + 1)..n : m[i] \in Frames
    BY <1>1, <1>4
  <2> QED BY <2>1, SeqPart
<1> HIDE DEF x, y
<1>7. AllMore(x)
  BY <1>1, <1>4, <1>5 DEF AllMore
<1>8. Len(y) > 0 /\ y[Len(y)] = f
  <2>1. Len(y) = n - d /\ Len(y) > 0 /\ Len(y) \in 1..(n - (d + 1) + 1) /\ (d + 1) + Len(y) - 1 = n
    BY <1>1, <1>4, <1>6
  <2> QED BY Zenon, <1>1, <1>6, <2>1
<1>9. [pipe |-> k, prefix |-> x, payload |-> y] \in Items
  BY Zenon, <1>5, <1>6 DEF Items
<1> QED BY <1>2, <1>7, <1>8, <1>9 DEF m, About, Last

-----------------------------------------------------------------------------
(* What a step does to the messages: none moves, though some may be gone;  *)
(* one moves; one is gone; one is new.                                     *)

Came == {"item", "queue", "buffer", "result"}
Stays == \A l, o, q : Then(l, o, q) => There(l, o, q)
Move(q, l0, o0, l1, o1) ==
    /\ There(l0, o0, q) /\ ~Then(l0, o0, q)
    /\ l1 \in Came => l0 \in Came \/ q \in Open(q[1])
    /\ \A l, o, p : Then(l, o, p) => There(l, o, p) \/ (p = q /\ l = l1 /\ o = o1)
Moves == \E q, l0, o0, l1, o1 : Move(q, l0, o0, l1, o1)
Leaves(q) == Stays /\ \E l, o : l \in Came /\ There(l, o, q) /\ ~Then(l, o, q)
Born(q) == \E k : \A l, o, p : Then(l, o, p) => There(l, o, p) \/ (p = q /\ l = "toRep" /\ o = k)

(* What it does to the conversation, and to the requests that are written  *)
(* before the conversation knows of them.                                  *)

Elsewhere(c) == \A d \in Clients : d # c => Pending(d)' = Pending(d)
Silent == (\A c \in Clients : Pending(c)' = Pending(c)) /\ UNCHANGED <<answered, lost>>
Asks(c) == /\ Pending(c) = {} /\ Pending(c)' = {<<c, req[c].n>>}
           /\ Elsewhere(c) /\ UNCHANGED <<answered, lost>>
GivesUp(c) == /\ Pending(c)' = {} /\ lost' = lost \cup Pending(c)
              /\ Elsewhere(c) /\ UNCHANGED answered
Answers(c, q) == /\ Pending(c)' = {} /\ answered' = answered \cup {q}
                 /\ lost' = (lost \cup Pending(c)) \ {q} /\ Elsewhere(c)

Unsent(c) == Sent(c)' = Sent(c) /\ req'[c].n = req[c].n
Others(c) == \A d \in Clients : d # c => Unsent(d)

Passing == /\ \A c \in Clients : Unsent(c)
           /\ Silent \/ \E c \in Clients : GivesUp(c)
           /\ Stays \/ Moves
Answering == \E c \in Clients, q \in Requests :
                (\A d \in Clients : Unsent(d)) /\ Answers(c, q) /\ q[1] = c /\ Leaves(q)
Asking == \E c \in Clients :
             /\ Asks(c) /\ Stays /\ Others(c)
             /\ req[c].at = "sent" /\ Sent(c)' = {} /\ req'[c].n = req[c].n
Writing == \E c \in Clients :
             /\ Silent /\ Others(c) /\ Sent(c) = {}
             /\ <<c, req[c].n + 1>> \in Requests
             /\ Sent(c)' = {<<c, req[c].n + 1>>} /\ req'[c].n = req[c].n + 1
             /\ Born(<<c, req[c].n + 1>>)
Step == Passing \/ Answering \/ Asking \/ Writing

(* A request is its client and its number.                                 *)
LEMMA RequestFacts ==
    \A q \in Requests : q[1] \in Clients /\ q[2] \in Nat /\ q = <<q[1], q[2]>>
<1> SUFFICES ASSUME NEW q \in Requests
             PROVE  q[1] \in Clients /\ q[2] \in Nat /\ q = <<q[1], q[2]>>
  BY Zenon
<1>1. q[1] \in Clients /\ q[2] \in 1..MaxRequests /\ q = <<q[1], q[2]>>
  BY DEF Requests
<1> QED BY <1>1, ConstantsAssumption

(* Facts about the client of a request, and about what it waits for.       *)
LEMMA ClientFacts ==
    ASSUME TypeOK, ShapeInv
    PROVE  /\ \A q \in Requests : q[1] \in Clients /\ q[2] \in Nat /\ q = <<q[1], q[2]>>
           /\ \A c \in Clients : req[c].n \in Nat /\ req[c] \in ReqSockets
           /\ \A c \in Clients : \A q \in Pending(c) :
                 q \in Requests /\ q[1] = c /\ q[2] <= req[c].n /\ Sent(c) = {}
<1>1. \A q \in Requests : q[1] \in Clients /\ q[2] \in Nat /\ q = <<q[1], q[2]>>
  BY Zenon, RequestFacts
<1>2. \A c \in Clients : req[c].n \in Nat /\ req[c] \in ReqSockets
  <2> SUFFICES ASSUME NEW c \in Clients PROVE req[c].n \in Nat /\ req[c] \in ReqSockets
    BY Zenon
  <2>1. req[c] \in ReqSockets
    BY Zenon DEF TypeOK
  <2> DEFINE r == req[c]
  <2>2. r \in ReqSockets
    BY Zenon, <2>1
  <2> HIDE DEF r
  <2>3. r.n \in 0..MaxRequests
    BY Zenon, <2>2 DEF ReqSockets
  <2>4. r.n \in Nat
    BY <2>3, ConstantsAssumption
  <2> QED BY Zenon, <2>1, <2>4 DEF r
<1>3. ASSUME NEW c \in Clients, NEW q \in Pending(c)
      PROVE  q \in Requests /\ q[1] = c /\ q[2] <= req[c].n /\ Sent(c) = {}
  <2>1. ReqCtl(c, req[c]) /\ req[c] \in ReqSockets
    BY Zenon, <1>2, <1>3 DEF ShapeInv
  <2>2. req[c].state # None /\ q = req[c].state.q
    BY Zenon, <1>3 DEF Pending, PendingIn
  <2>3. req[c].state \in Expectations
    BY Zenon, <2>1, <2>2 DEF ReqSockets
  <2>4. q \in Requests
    BY Zenon, <2>2, <2>3 DEF Expectations
  <2>5. q[1] = c /\ q[2] <= req[c].n /\ req[c].at # "sent"
    BY Zenon, <2>1, <2>2 DEF ReqCtl
  <2> QED BY Zenon, <2>4, <2>5 DEF Sent
<1> QED BY Zenon, <1>1, <1>2, <1>3

(* A request that is not written yet is nowhere.                           *)
LEMMA NewIsNowhere ==
    ASSUME TypeOK, ShapeInv, OpenInv, NEW c \in Clients, Sent(c) = {},
           <<c, req[c].n + 1>> \in Requests
    PROVE  \A l, o : ~There(l, o, <<c, req[c].n + 1>>)
<1> DEFINE q == <<c, req[c].n + 1>>
<1>1. q[1] = c /\ q[2] = req[c].n + 1 /\ req[c].n \in Nat
  BY Zenon, ClientFacts
<1>2. q \notin Pending(c)
  BY <1>1, ClientFacts
<1>3. q \notin lost
  BY <1>1 DEF OpenInv
<1> HIDE DEF q
<1>4. \A l, o : ~There(l, o, q)
  BY Zenon, <1>1, <1>2, <1>3 DEF OpenInv, Open
<1> QED BY Zenon, <1>4 DEF q

(* Every step leaves a request in one place.                               *)
LEMMA OnceNext ==
    ASSUME TypeOK, ShapeInv, OnceInv, OpenInv, Step
    PROVE  OnceInv'
<1>1. CASE Stays
  BY <1>1 DEF Stays, OnceInv, There, Then
<1>2. CASE Moves
  <2>1. PICK q, l0, o0, l1, o1 :
            /\ There(l0, o0, q) /\ ~Then(l0, o0, q)
            /\ l1 \in Came => l0 \in Came \/ q \in Open(q[1])
            /\ \A l, o, p : Then(l, o, p) => There(l, o, p) \/ (p = q /\ l = l1 /\ o = o1)
    BY <1>2, Zenon DEF Moves, Move
  <2>2. \A l, o : Then(l, o, q) => l = l1 /\ o = o1
    BY <2>1 DEF OnceInv, There, Then
  <2>3. \A l, o, p : p # q /\ Then(l, o, p) => There(l, o, p)
    BY Zenon, <2>1
  <2> SUFFICES ASSUME NEW l, NEW m, NEW o, NEW p, NEW x, Then(l, o, x), Then(m, p, x)
               PROVE  l = m /\ o = p
    BY Zenon DEF OnceInv, There, Then
  <2>4. CASE x = q
    BY <2>2, <2>4
  <2>5. CASE x # q
    BY <2>3, <2>5 DEF OnceInv, There, Then
  <2> QED BY Zenon, <2>4, <2>5
<1>3. CASE Writing
  <2>1. PICK c \in Clients : Sent(c) = {} /\ <<c, req[c].n + 1>> \in Requests
                             /\ Born(<<c, req[c].n + 1>>)
    BY Zenon, <1>3 DEF Writing
  <2> DEFINE q == <<c, req[c].n + 1>>
  <2>2. \A l, o : ~There(l, o, q)
    BY Zenon, <2>1, NewIsNowhere
  <2>3. PICK k : \A l, o, p : Then(l, o, p) =>
                    There(l, o, p) \/ (p = q /\ l = "toRep" /\ o = k)
    BY Zenon, <2>1 DEF Born
  <2> HIDE DEF q
  <2> SUFFICES ASSUME NEW l, NEW m, NEW o, NEW p, NEW x, Then(l, o, x), Then(m, p, x)
               PROVE  l = m /\ o = p
    BY Zenon DEF OnceInv, There, Then
  <2>4. CASE x = q
    <3>1. ~There(l, o, x) /\ ~There(m, p, x)
      BY Zenon, <2>2, <2>4
    <3> QED BY <2>3, <3>1
  <2>5. CASE x # q
    BY <2>3, <2>5 DEF OnceInv, There, Then
  <2> QED BY Zenon, <2>4, <2>5
<1> QED BY Zenon, <1>1, <1>2, <1>3 DEF Step, Passing, Answering, Asking, Leaves

(* What a step of the conversation leaves of the requests a client waits   *)
(* for or has written.                                                     *)
LEMMA OpenStays ==
    ASSUME TypeOK, ShapeInv, \A c \in Clients : Unsent(c),
           Silent \/ \E c \in Clients : GivesUp(c)
    PROVE  /\ \A q \in Requests : q \in Open(q[1]) => q \in Open(q[1])'
           /\ \A q \in Requests : q \in Sent(q[1]) => q \in Sent(q[1])'
           /\ answered' = answered
           /\ \A q \in lost' : q \in lost \/ \E c \in Clients : q \in Pending(c)
<1>1. \A q \in Requests : q[1] \in Clients
  BY Zenon, ClientFacts
<1>2. CASE Silent
  BY Zenon, <1>1, <1>2 DEF Silent, Open, Unsent
<1>3. ASSUME NEW c \in Clients, GivesUp(c)
      PROVE  /\ \A q \in Requests : q \in Open(q[1]) => q \in Open(q[1])'
             /\ \A q \in Requests : q \in Sent(q[1]) => q \in Sent(q[1])'
             /\ answered' = answered
             /\ \A q \in lost' : q \in lost \/ \E d \in Clients : q \in Pending(d)
  BY Zenon, <1>1, <1>3 DEF GivesUp, Elsewhere, Open, Unsent
<1> QED BY Zenon, <1>2, <1>3

(* OpenInv after the step, in parts.                                       *)
Known == \A l, o, q : Then(l, o, q) => q \in Requests /\ q \in Open(q[1])' \cup Sent(q[1])'
Home == \A l, o, q : Then(l, o, q) /\ l \in Came => q \in Open(q[1])'
Past == \A q \in answered' \cup lost' : q[2] <= req'[q[1]].n /\ q \notin Sent(q[1])'

(* The parts are OpenInv.                                                  *)
LEMMA OpenParts == ASSUME Known, Home, Past PROVE OpenInv'
BY Zenon DEF Known, Home, Past, OpenInv, There, Then, Came

(* A step that only passes messages on, or gives a request up, keeps what  *)
(* is under way among the requests that are open.                          *)
LEMMA PassingOpen ==
    ASSUME TypeOK, ShapeInv, OpenInv, Passing
    PROVE  OpenInv'
<1>1. /\ \A q \in Requests : q \in Open(q[1]) => q \in Open(q[1])'
      /\ \A q \in Requests : q \in Sent(q[1]) => q \in Sent(q[1])'
      /\ answered' = answered
      /\ \A q \in lost' : q \in lost \/ \E c \in Clients : q \in Pending(c)
  BY Zenon, OpenStays DEF Passing
<1>2. \A l, o, q : There(l, o, q) => q \in Requests /\ q \in Open(q[1]) \cup Sent(q[1])
  BY Zenon DEF OpenInv
<1>3. \A l, o, q : There(l, o, q) /\ l \in Came => q \in Open(q[1])
  BY Zenon DEF OpenInv, Came
<1>4. Known /\ Home
  <2>1. Stays \/ Moves
    BY Zenon DEF Passing
  <2>2. CASE Stays
    <3>1. Known
      BY Zenon, <1>1, <1>2, <2>2 DEF Stays, Known
    <3>2. Home
      BY Zenon, <1>1, <1>2, <1>3, <2>2 DEF Stays, Home
    <3> QED BY Zenon, <3>1, <3>2
  <2>3. CASE Moves
    <3>1. PICK q, l0, o0, l1, o1 :
              /\ There(l0, o0, q) /\ ~Then(l0, o0, q)
              /\ l1 \in Came => l0 \in Came \/ q \in Open(q[1])
              /\ \A l, o, p : Then(l, o, p) => There(l, o, p) \/ (p = q /\ l = l1 /\ o = o1)
      BY <2>3, Zenon DEF Moves, Move
    <3>2. q \in Requests /\ q \in Open(q[1]) \cup Sent(q[1]) /\ (l1 \in Came => q \in Open(q[1]))
      BY Zenon, <1>2, <1>3, <3>1
    <3>3. Known
      BY Zenon, <1>1, <1>2, <3>1, <3>2 DEF Known
    <3>4. Home
      BY Zenon, <1>1, <1>2, <1>3, <3>1, <3>2 DEF Home
    <3> QED BY <3>3, <3>4
  <2> QED BY Zenon, <2>1, <2>2, <2>3
<1>5. Past
  <2> SUFFICES ASSUME NEW q \in answered' \cup lost'
               PROVE  q[2] <= req'[q[1]].n /\ q \notin Sent(q[1])'
    BY Zenon DEF Past
  <2>1. CASE q \in answered \cup lost
    <3>1. q[2] <= req[q[1]].n /\ q \notin Sent(q[1]) /\ q[1] \in Clients
      BY Zenon, <2>1, ClientFacts DEF OpenInv, TypeOK
    <3> QED BY Zenon, <3>1 DEF Passing, Unsent
  <2>2. ASSUME NEW c \in Clients, q \in Pending(c)
        PROVE  q[2] <= req'[q[1]].n /\ q \notin Sent(q[1])'
    <3>1. q[1] = c /\ q[2] <= req[c].n /\ Sent(c) = {}
      BY Zenon, <2>2, ClientFacts
    <3> QED BY Zenon, <3>1 DEF Passing, Unsent
  <2> QED BY Zenon, <1>1, <2>1, <2>2
<1> QED BY Zenon, <1>4, <1>5, OpenParts

(* An answered request is nowhere any more: it was in one place, and has   *)
(* left it.                                                                *)
LEMMA AnsweringOpen ==
    ASSUME TypeOK, ShapeInv, OnceInv, OpenInv, Answering
    PROVE  OpenInv'
<1>1. PICK c \in Clients, q \in Requests :
          (\A d \in Clients : Unsent(d)) /\ Answers(c, q) /\ q[1] = c /\ Leaves(q)
  BY Zenon DEF Answering
<1>2. PICK l0, o0 : l0 \in Came /\ There(l0, o0, q) /\ ~Then(l0, o0, q)
  BY <1>1, Zenon DEF Leaves
<1>3. \A l, o : ~Then(l, o, q)
  BY <1>1, <1>2 DEF Leaves, Stays, OnceInv
<1>4. q \in Requests /\ q \in Open(c)
  BY Zenon, <1>1, <1>2 DEF OpenInv, Came
<1>5. \A p \in Requests : p[1] \in Clients
  BY Zenon, ClientFacts
<1>6. /\ \A p \in Requests : p # q /\ p \in Open(p[1]) => p \in Open(p[1])'
      /\ \A p \in Requests : Sent(p[1])' = Sent(p[1])
  BY Zenon, <1>1, <1>5 DEF Answers, Elsewhere, Open, Unsent
<1>7. \A l, o, p : There(l, o, p) => p \in Requests /\ p \in Open(p[1]) \cup Sent(p[1])
  BY Zenon DEF OpenInv
<1>8. \A l, o, p : There(l, o, p) /\ l \in Came => p \in Open(p[1])
  BY Zenon DEF OpenInv, Came
<1>9. \A l, o, p : Then(l, o, p) => There(l, o, p) /\ p # q
  BY Zenon, <1>1, <1>3 DEF Leaves, Stays
<1>10. Known
  BY Zenon, <1>6, <1>7, <1>9 DEF Known
<1>11. Home
  BY Zenon, <1>6, <1>7, <1>8, <1>9 DEF Home
<1>12. Past
  <2> SUFFICES ASSUME NEW p \in answered' \cup lost'
               PROVE  p[2] <= req'[p[1]].n /\ p \notin Sent(p[1])'
    BY Zenon DEF Past
  <2>1. CASE p \in answered \cup lost
    <3>1. p[2] <= req[p[1]].n /\ p \notin Sent(p[1]) /\ p[1] \in Clients
      BY Zenon, <2>1, ClientFacts DEF OpenInv, TypeOK
    <3> QED BY Zenon, <1>1, <3>1 DEF Unsent
  <2>2. CASE p \in Pending(c)
    <3>1. p[1] = c /\ p[2] <= req[c].n /\ Sent(c) = {}
      BY Zenon, <2>2, ClientFacts
    <3> QED BY Zenon, <1>1, <3>1 DEF Unsent
  <2>3. p \in answered \cup lost \/ p \in Pending(c)
    BY Zenon, <1>1, <1>4 DEF Answers, Open
  <2> QED BY Zenon, <2>1, <2>2, <2>3
<1> QED BY Zenon, <1>10, <1>11, <1>12, OpenParts

(* A request that was written is asked as send() returns.                  *)
LEMMA AskingOpen ==
    ASSUME TypeOK, ShapeInv, OpenInv, Asking
    PROVE  OpenInv'
<1>1. PICK c \in Clients :
          /\ Asks(c) /\ Stays /\ Others(c)
          /\ req[c].at = "sent" /\ Sent(c)' = {} /\ req'[c].n = req[c].n
  BY Zenon DEF Asking
<1>2. Sent(c) = {<<c, req[c].n>>}
  BY Zenon, <1>1 DEF Sent
<1>3. \A p \in Requests : p[1] \in Clients
  BY Zenon, ClientFacts
<1>4. /\ \A p \in Requests : p \in Open(p[1]) => p \in Open(p[1])'
      /\ \A p \in Requests : p \in Sent(p[1]) => p \in Open(p[1])' \cup Sent(p[1])'
      /\ answered' = answered /\ lost' = lost
  BY Zenon, <1>1, <1>2, <1>3 DEF Asks, Elsewhere, Others, Unsent, Open
<1>5. \A l, o, p : There(l, o, p) => p \in Requests /\ p \in Open(p[1]) \cup Sent(p[1])
  BY Zenon DEF OpenInv
<1>6. \A l, o, p : There(l, o, p) /\ l \in Came => p \in Open(p[1])
  BY Zenon DEF OpenInv, Came
<1>7. Known
  BY Zenon, <1>1, <1>4, <1>5 DEF Known, Stays
<1>8. Home
  BY Zenon, <1>1, <1>4, <1>5, <1>6 DEF Home, Stays
<1>9. Past
  <2> SUFFICES ASSUME NEW p \in answered \cup lost
               PROVE  p[2] <= req'[p[1]].n /\ p \notin Sent(p[1])'
    BY Zenon, <1>4 DEF Past
  <2>1. p[2] <= req[p[1]].n /\ p \notin Sent(p[1]) /\ p[1] \in Clients
    BY Zenon, ClientFacts DEF OpenInv, TypeOK
  <2> QED BY Zenon, <1>1, <2>1 DEF Others, Unsent
<1> QED BY Zenon, <1>7, <1>8, <1>9, OpenParts

(* A request that is written is on its way, and no request before it is.   *)
LEMMA WritingOpen ==
    ASSUME TypeOK, ShapeInv, OpenInv, Writing
    PROVE  OpenInv'
<1>1. PICK c \in Clients :
          /\ Silent /\ Others(c) /\ Sent(c) = {}
          /\ <<c, req[c].n + 1>> \in Requests
          /\ Sent(c)' = {<<c, req[c].n + 1>>} /\ req'[c].n = req[c].n + 1
          /\ Born(<<c, req[c].n + 1>>)
  BY Zenon DEF Writing
<1> DEFINE q == <<c, req[c].n + 1>>
<1>2. PICK k : \A l, o, p : Then(l, o, p) => There(l, o, p) \/ (p = q /\ l = "toRep" /\ o = k)
  BY <1>1, Zenon DEF Born
<1>3. \A p \in Requests : p[1] \in Clients
  BY ClientFacts
<1>4. q \in Requests /\ q[1] = c /\ q[2] = req[c].n + 1 /\ Sent(c)' = {q} /\ req[c].n \in Nat
  BY Zenon, <1>1, ClientFacts
<1> HIDE DEF q
<1>5. /\ \A p \in Requests : p \in Open(p[1]) => p \in Open(p[1])'
      /\ \A p \in Requests : p \in Sent(p[1]) => p \in Sent(p[1])'
      /\ answered' = answered /\ lost' = lost
  BY Zenon, <1>1, <1>3 DEF Silent, Others, Unsent, Open
<1>6. \A l, o, p : There(l, o, p) => p \in Requests /\ p \in Open(p[1]) \cup Sent(p[1])
  BY DEF OpenInv
<1>7. \A l, o, p : There(l, o, p) /\ l \in Came => p \in Open(p[1])
  BY DEF OpenInv, Came
<1>8. Known
  BY Zenon, <1>2, <1>4, <1>5, <1>6 DEF Known
<1>9. Home
  BY Zenon, <1>2, <1>5, <1>6, <1>7 DEF Home, Came
<1>10. Past
  <2> SUFFICES ASSUME NEW p \in answered \cup lost
               PROVE  p[2] <= req'[p[1]].n /\ p \notin Sent(p[1])'
    BY Zenon, <1>5 DEF Past
  <2>1. p[2] <= req[p[1]].n /\ p \notin Sent(p[1]) /\ p[1] \in Clients /\ p[2] \in Nat
    BY Zenon, ClientFacts DEF OpenInv, TypeOK
  <2>2. CASE p[1] # c
    BY Zenon, <1>1, <2>1, <2>2 DEF Others, Unsent
  <2>3. CASE p[1] = c
    BY <1>1, <1>4, <2>1, <2>3
  <2> QED BY Zenon, <2>2, <2>3
<1> QED BY <1>8, <1>9, <1>10, OpenParts

(* A step of the sockets is a step of Exchange, or none.                   *)
LEMMA StepRefines ==
    ASSUME TypeOK, ShapeInv, OnceInv, OpenInv, Step
    PROVE  [E!Next]_(E!vars)
<1>1. CASE Silent
  <2>1. [c \in Clients |-> Pending(c)]' = [c \in Clients |-> Pending(c)]
    BY Zenon, <1>1 DEF Silent
  <2>2. answered' = answered /\ lost' = lost
    BY Zenon, <1>1 DEF Silent
  <2> QED BY Zenon, <2>1, <2>2 DEF E!vars
<1>2. ASSUME NEW c \in Clients, GivesUp(c) PROVE [E!Next]_(E!vars)
  <2>1. [d \in Clients |-> Pending(d)]' = [[d \in Clients |-> Pending(d)] EXCEPT ![c] = {}]
    BY Zenon, <1>2 DEF GivesUp, Elsewhere
  <2>2. \A q \in Pending(c) : q[1] = c
    BY Zenon, ClientFacts
  <2>3. [d \in Clients |-> {q \in lost : q[1] = d}]' =
          [[d \in Clients |-> {q \in lost : q[1] = d}] EXCEPT ![c] = @ \cup Pending(c)]
    <3>1. \A d \in Clients : d # c => {q \in lost' : q[1] = d} = {q \in lost : q[1] = d}
      BY Zenon, <1>2, <2>2 DEF GivesUp
    <3>2. {q \in lost' : q[1] = c} = {q \in lost : q[1] = c} \cup Pending(c)
      BY Zenon, <1>2, <2>2 DEF GivesUp
    <3> QED BY Zenon, <3>1, <3>2
  <2>4. answered' = answered
    BY Zenon, <1>2 DEF GivesUp
  <2>5. CASE Pending(c) # {}
    <3>1. E!GiveUp(c)
      BY Zenon, <2>1, <2>3, <2>4, <2>5 DEF E!GiveUp
    <3> QED BY Zenon, <3>1 DEF E!Next
  <2>6. CASE Pending(c) = {}
    <3>1. [d \in Clients |-> Pending(d)]' = [d \in Clients |-> Pending(d)]
      BY Zenon, <2>1, <2>6
    <3>2. lost' = lost
      BY Zenon, <1>2, <2>6 DEF GivesUp
    <3> QED BY Zenon, <2>4, <3>1, <3>2 DEF E!vars
  <2> QED BY Zenon, <2>5, <2>6
<1>3. CASE Answering
  <2>1. PICK c \in Clients, q \in Requests :
            (\A d \in Clients : Unsent(d)) /\ Answers(c, q) /\ q[1] = c /\ Leaves(q)
    BY <1>3, Zenon DEF Answering
  <2>2. q \in Requests /\ q \in Open(c)
    BY Zenon, <2>1 DEF OpenInv, Came, Leaves
  <2>3. \A p \in Pending(c) : p[1] = c
    BY Zenon, ClientFacts
  <2>4. [d \in Clients |-> Pending(d)]' = [[d \in Clients |-> Pending(d)] EXCEPT ![c] = {}]
    BY Zenon, <2>1 DEF Answers, Elsewhere
  <2>5. [d \in Clients |-> {p \in lost : p[1] = d}]' =
          [[d \in Clients |-> {p \in lost : p[1] = d}] EXCEPT ![c] = (@ \cup Pending(c)) \ {q}]
    <3>1. \A d \in Clients : d # c => {p \in lost' : p[1] = d} = {p \in lost : p[1] = d}
      BY Zenon, <2>1, <2>3 DEF Answers
    <3>2. {p \in lost' : p[1] = c} = ({p \in lost : p[1] = c} \cup Pending(c)) \ {q}
      BY Zenon, <2>1, <2>3 DEF Answers
    <3> QED BY Zenon, <3>1, <3>2
  <2>6. [d \in Clients |-> {p \in answered : p[1] = d}]' =
          [[d \in Clients |-> {p \in answered : p[1] = d}] EXCEPT ![c] = @ \cup {q}]
    <3>1. \A d \in Clients : d # c => {p \in answered' : p[1] = d} = {p \in answered : p[1] = d}
      BY Zenon, <2>1 DEF Answers
    <3>2. {p \in answered' : p[1] = c} = {p \in answered : p[1] = c} \cup {q}
      BY Zenon, <2>1 DEF Answers
    <3> QED BY Zenon, <3>1, <3>2
  <2>7. q \in Pending(c) \cup {p \in lost : p[1] = c}
    BY Zenon, <2>1, <2>2 DEF Open
  <2>8. E!Answer(c, q)
    BY Zenon, <2>4, <2>5, <2>6, <2>7 DEF E!Answer
  <2> QED BY Zenon, <2>2, <2>8 DEF E!Next
<1>4. CASE Asking
  <2>1. PICK c \in Clients :
            /\ Asks(c) /\ Stays /\ Others(c)
            /\ req[c].at = "sent" /\ Sent(c)' = {} /\ req'[c].n = req[c].n
    BY <1>4, Zenon DEF Asking
  <2> DEFINE q == <<c, req[c].n>>
  <2>2. q \in Requests /\ q[1] = c /\ q \in Sent(c)
    <3>1. req[c].n \in 0..MaxRequests
      BY Zenon, ClientFacts DEF ReqSockets
    <3>2. req[c].n > 0
      BY Zenon, <2>1 DEF ShapeInv, ReqCtl
    <3>3. req[c].n \in 1..MaxRequests
      BY <3>1, <3>2, ConstantsAssumption
    <3> QED BY Zenon, <2>1, <3>3 DEF Sent, Requests
  <2>3. q \notin answered /\ q \notin lost
    BY Zenon, <2>2 DEF OpenInv
  <2>4. \A d \in Clients : q \notin Pending(d)
    BY Zenon, <2>1, <2>2, ClientFacts DEF Asks
  <2>5. [d \in Clients |-> Pending(d)]' = [[d \in Clients |-> Pending(d)] EXCEPT ![c] = {q}]
    BY Zenon, <2>1 DEF Asks, Elsewhere
  <2> HIDE DEF q
  <2>6. answered' = answered /\ lost' = lost /\ Pending(c) = {}
    BY Zenon, <2>1 DEF Asks
  <2>7. E!Ask(c, q)
    BY Zenon, <2>3, <2>4, <2>5, <2>6 DEF E!Ask, E!Asked
  <2> QED BY Zenon, <2>2, <2>7 DEF E!Next
<1> QED BY Zenon, <1>1, <1>2, <1>3, <1>4 DEF Step, Passing, Writing

-----------------------------------------------------------------------------
(* A step changes the record of at most one client, one connection and one *)
(* server.                                                                 *)

FineReq(c, r) == r \in ReqSockets /\ ReqData(c, r) /\ ReqCtl(c, r)
FineConn(k, x) == x \in Connections /\ ConnOk(k, x)
FineRep(y) == y \in RepSockets /\ RepOk(y) /\ Len(y.queue) <= RcvHwm

(* The records there are.                                                  *)
LEMMA Records ==
    ASSUME TypeOK, ShapeInv
    PROVE  /\ \A c \in Clients : FineReq(c, req[c])
           /\ \A k \in Conns : FineConn(k, conn[k])
           /\ \A s \in Servers : FineRep(rep[s])
           /\ \A k \in Conns : ClientOf[k] \in Clients /\ ServerOf[k] \in Servers
BY Zenon, ConstantsAssumption DEF TypeOK, ShapeInv, FineReq, FineConn, FineRep

(* Where the messages are after it.                                        *)
Where(c, r, k, x, s, y) ==
    /\ \A l, o, q : Then(l, o, q) =>
          \/ There(l, o, q)
          \/ o = c /\ InReq(r, l, q)
          \/ o = k /\ InConn(x, l, q)
          \/ o = s /\ InRep(y, l, q)
    /\ \A l, q : l \in {"toRep", "repItem", "toReq", "item"} =>
          (Then(l, k, q) <=> InConn(x, l, q))
    /\ \A l, q : l \in {"queue", "buffer", "result"} => (Then(l, c, q) <=> InReq(r, l, q))
    /\ \A l, q : l \in {"repQueue", "holds"} => (Then(l, s, q) <=> InRep(y, l, q))

(* The records after a step.                                               *)
LEMMA Edited ==
    ASSUME TypeOK, ShapeInv,
           NEW c \in Clients, NEW r, FineReq(c, r),
           NEW k \in Conns, NEW x, FineConn(k, x),
           NEW s \in Servers, NEW y, FineRep(y),
           cfg' = cfg, req' = [req EXCEPT ![c] = r],
           conn' = [conn EXCEPT ![k] = x], rep' = [rep EXCEPT ![s] = y],
           asked' \cup answered' \cup lost' \cup excused' \subseteq Requests
    PROVE  TypeOK' /\ ShapeInv' /\ Where(c, r, k, x, s, y)
<1>1. /\ req' \in [Clients -> ReqSockets] /\ conn' \in [Conns -> Connections]
      /\ rep' \in [Servers -> RepSockets]
      /\ req'[c] = r /\ \A d \in Clients : d # c => req'[d] = req[d]
      /\ conn'[k] = x /\ \A d \in Conns : d # k => conn'[d] = conn[d]
      /\ rep'[s] = y /\ \A d \in Servers : d # s => rep'[d] = rep[d]
  BY Zenon DEF TypeOK, FineReq, FineConn, FineRep
<1>2. \A d \in Clients : FineReq(d, req'[d])
  BY Zenon, <1>1, Records
<1>3. \A d \in Conns : FineConn(d, conn'[d])
  BY Zenon, <1>1, Records
<1>4. \A d \in Servers : FineRep(rep'[d])
  BY Zenon, <1>1, Records
<1>5. TypeOK'
  <2>1. \A d \in Clients : Distinct(req'[d].lb) /\ Len(req'[d].queue) <= 1
                           /\ (req'[d].woken # "no" => req'[d].at = "wait")
    BY Zenon, <1>2 DEF FineReq, ReqCtl, ReqData
  <2>2. \A d \in Servers : Len(rep'[d].queue) <= RcvHwm
    BY Zenon, <1>4 DEF FineRep
  <2> QED BY Zenon, <1>1, <2>1, <2>2 DEF TypeOK, Distinct
<1>6. ShapeInv'
  <2>1. \A d \in Conns : ConnOk(d, conn'[d])
    BY Zenon, <1>3 DEF FineConn
  <2>2. \A d \in Servers : RepOk(rep'[d])
    BY Zenon, <1>4 DEF FineRep
  <2>3. \A d \in Clients : ReqData(d, req'[d])
    BY Zenon, <1>2 DEF FineReq
  <2>4. \A d \in Clients : ReqCtl(d, req[d])'
    BY Zenon, <1>2 DEF FineReq, ReqCtl
  <2> QED BY Zenon, <2>1, <2>2, <2>3, <2>4 DEF ShapeInv
<1>7. \A l, o, q : Then(l, o, q) =>
         There(l, o, q) \/ (o = c /\ InReq(r, l, q)) \/ (o = k /\ InConn(x, l, q))
         \/ (o = s /\ InRep(y, l, q))
  BY <1>1 DEF Then, There, Place
<1>8. \A l, q : l \in {"toRep", "repItem", "toReq", "item"} => (Then(l, k, q) <=> InConn(x, l, q))
  <2> SUFFICES ASSUME NEW l \in {"toRep", "repItem", "toReq", "item"}, NEW q
               PROVE  Then(l, k, q) <=> InConn(x, l, q)
    BY Zenon
  <2>1. \A u, v : ~InReq(u, l, q) /\ ~InRep(v, l, q)
    BY Zenon DEF InReq, InRep
  <2> QED BY Zenon, <1>1, <2>1 DEF Then, Place
<1>9. \A l, q : l \in {"queue", "buffer", "result"} => (Then(l, c, q) <=> InReq(r, l, q))
  <2> SUFFICES ASSUME NEW l \in {"queue", "buffer", "result"}, NEW q
               PROVE  Then(l, c, q) <=> InReq(r, l, q)
    BY Zenon
  <2>1. \A u, v : ~InConn(u, l, q) /\ ~InRep(v, l, q)
    BY Zenon DEF InConn, InRep
  <2> QED BY Zenon, <1>1, <2>1 DEF Then, Place
<1>10. \A l, q : l \in {"repQueue", "holds"} => (Then(l, s, q) <=> InRep(y, l, q))
  <2> SUFFICES ASSUME NEW l \in {"repQueue", "holds"}, NEW q
               PROVE  Then(l, s, q) <=> InRep(y, l, q)
    BY Zenon
  <2>1. \A u, v : ~InReq(u, l, q) /\ ~InConn(v, l, q)
    BY Zenon DEF InReq, InConn
  <2> QED BY Zenon, <1>1, <2>1 DEF Then, Place
<1> QED BY <1>5, <1>6, <1>7, <1>8, <1>9, <1>10, Zenon DEF Where

(* What a client's record says about the conversation.                     *)
LEMMA TalkFacts ==
    ASSUME TypeOK, NEW c \in Clients, NEW r, req' = [req EXCEPT ![c] = r]
    PROVE  /\ Elsewhere(c) /\ Others(c) /\ req'[c] = r
           /\ Pending(c)' = PendingIn(r.state)
           /\ Sent(c)' = IF r.at = "sent" THEN {<<c, r.n>>} ELSE {}
<1>1. req'[c] = r /\ \A d \in Clients : d # c => req'[d] = req[d]
  BY Zenon DEF TypeOK
<1>2. Elsewhere(c) /\ Pending(c)' = PendingIn(r.state)
  BY Zenon, <1>1 DEF Elsewhere, Pending
<1>3. Others(c) /\ Sent(c)' = IF r.at = "sent" THEN {<<c, r.n>>} ELSE {}
  BY Zenon, <1>1 DEF Others, Unsent, Sent
<1> QED BY Zenon, <1>1, <1>2, <1>3

(* A step of a client alone.                                               *)
LEMMA ReqEdited ==
    ASSUME TypeOK, ShapeInv, NEW k \in Conns, NEW r,
           FineReq(ClientOf[k], r), req' = [req EXCEPT ![ClientOf[k]] = r],
           UNCHANGED <<cfg, rep, conn>>,
           asked' \cup answered' \cup lost' \cup excused' \subseteq Requests
    PROVE  /\ TypeOK' /\ ShapeInv'
           /\ \A l, o, q : Then(l, o, q) => There(l, o, q) \/ (o = ClientOf[k] /\ InReq(r, l, q))
           /\ \A l, q : l \in {"queue", "buffer", "result"} =>
                 (Then(l, ClientOf[k], q) <=> InReq(r, l, q))
           /\ \A l, q : InReq(req[ClientOf[k]], l, q) => There(l, ClientOf[k], q)
<1> DEFINE c == ClientOf[k]
           s == ServerOf[k]
<1>1. c \in Clients /\ s \in Servers /\ FineConn(k, conn[k]) /\ FineRep(rep[s])
  BY Zenon, Records
<1>2. conn' = [conn EXCEPT ![k] = conn[k]] /\ rep' = [rep EXCEPT ![s] = rep[s]]
  BY Zenon, <1>1 DEF TypeOK
<1>3. /\ \A l, q : InReq(req[c], l, q) => There(l, c, q)
      /\ \A l, q : InConn(conn[k], l, q) => There(l, k, q)
      /\ \A l, q : InRep(rep[s], l, q) => There(l, s, q)
  BY Zenon, <1>1 DEF There, Place
<1> HIDE DEF c, s
<1>4. TypeOK' /\ ShapeInv' /\ Where(c, r, k, conn[k], s, rep[s])
  <2>1. FineReq(c, r) /\ req' = [req EXCEPT ![c] = r] /\ cfg' = cfg
    BY Zenon DEF c
  <2> QED BY ZenonT(60), <1>1, <1>2, <2>1, Edited
<1>5. \A l, o, q : Then(l, o, q) => There(l, o, q) \/ (o = c /\ InReq(r, l, q))
  BY <1>3, <1>4 DEF Where
<1>6. \A l, q : l \in {"queue", "buffer", "result"} => (Then(l, c, q) <=> InReq(r, l, q))
  BY Zenon, <1>4 DEF Where
<1> QED BY Zenon, <1>3, <1>4, <1>5, <1>6 DEF c

(* What a client does to the replies it has: it keeps or drops them.       *)
Drops(o, r) ==
    /\ r.queue = o.queue \/ r.queue = <<>>
    /\ r.buffer = o.buffer \/ r.buffer = <<>>
    /\ r.result = o.result \/ r.result = None

(* A client that keeps or drops what it has stays in shape.                *)
LEMMA DropsData ==
    ASSUME NEW c, NEW o, ReqData(c, o), NEW r, Drops(o, r)
    PROVE  ReqData(c, r) /\ \A l, q : InReq(r, l, q) => InReq(o, l, q)
<1>1. \A l, q : InReq(r, l, q) => InReq(o, l, q)
  BY Zenon DEF Drops, InReq
<1>2. Len(r.queue) <= 1
  <2>1. Len(<<>>) = 0
    BY Zenon, SeqNone
  <2> QED BY <2>1 DEF Drops, ReqData
<1>3. r.queue # <<>> => Message(Head(r.queue))
  BY Zenon DEF Drops, ReqData
<1> QED BY Zenon, <1>1, <1>2, <1>3 DEF ReqData

(* The client's record may be r after a step that passes nothing on.       *)
Plain(c, r) ==
    /\ r \in ReqSockets /\ ReqCtl(c, r) /\ Drops(req[c], r)
    /\ r.n = req[c].n /\ (r.at = "sent" <=> req[c].at = "sent")

(* A step of a client that passes nothing on: it stays silent, or gives up *)
(* its request.                                                            *)
LEMMA ReqPasses ==
    ASSUME TypeOK, ShapeInv, NEW k \in Conns, NEW r, Plain(ClientOf[k], r),
           req' = [req EXCEPT ![ClientOf[k]] = r],
           UNCHANGED <<cfg, rep, conn, asked, answered, excused>>,
           \/ r.state = req[ClientOf[k]].state /\ UNCHANGED lost
           \/ r.state = None /\ lost' = lost \cup Pending(ClientOf[k])
    PROVE  TypeOK' /\ ShapeInv' /\ Step
<1> DEFINE c == ClientOf[k]
<1>1. c \in Clients /\ FineReq(c, req[c])
  BY Zenon, Records
<1>2. FineReq(c, r) /\ \A l, q : InReq(r, l, q) => InReq(req[c], l, q)
  BY Zenon, <1>1, DropsData DEF FineReq, Plain
<1>3. asked' \cup answered' \cup lost' \cup excused' \subseteq Requests
  <2>1. Pending(c) \subseteq Requests
    BY Zenon, <1>1, ClientFacts
  <2> QED BY Zenon, <2>1 DEF TypeOK
<1>4. /\ TypeOK' /\ ShapeInv'
      /\ \A l, o, q : Then(l, o, q) => There(l, o, q) \/ (o = c /\ InReq(r, l, q))
      /\ \A l, q : InReq(req[c], l, q) => There(l, c, q)
  BY Zenon, <1>2, <1>3, ReqEdited
<1>5. Stays
  BY <1>2, <1>4 DEF Stays
<1>6. /\ Elsewhere(c) /\ Others(c) /\ req'[c] = r
      /\ Pending(c)' = PendingIn(r.state)
      /\ Sent(c)' = IF r.at = "sent" THEN {<<c, r.n>>} ELSE {}
  BY Zenon, <1>1, TalkFacts
<1>7. \A d \in Clients : Unsent(d)
  BY Zenon, <1>6 DEF Others, Unsent, Sent, Plain
<1>8. Silent \/ GivesUp(c)
  <2>1. CASE r.state = req[c].state /\ UNCHANGED lost
    BY Zenon, <1>6, <2>1 DEF Silent, Elsewhere, Pending
  <2>2. CASE r.state = None /\ lost' = lost \cup Pending(c)
    BY Zenon, <1>6, <2>2 DEF GivesUp, PendingIn
  <2> QED BY Zenon, <2>1, <2>2
<1> QED BY Zenon, <1>1, <1>4, <1>5, <1>7, <1>8 DEF Step, Passing

-----------------------------------------------------------------------------
(* The round-robin list: no URI is twice in it.                            *)

(* The head goes to the end, or away.                                      *)
LEMMA RotateList ==
    ASSUME NEW S, NEW s \in Seq(S), Distinct(s), s # <<>>
    PROVE  /\ Head(s) \in S
           /\ Tail(s) \in Seq(S) /\ Distinct(Tail(s))
           /\ Append(Tail(s), Head(s)) \in Seq(S) /\ Distinct(Append(Tail(s), Head(s)))
<1> DEFINE t == Tail(s)
           h == Head(s)
           a == Append(t, h)
<1>1. /\ h \in S /\ t \in Seq(S) /\ Len(t) = Len(s) - 1 /\ Len(t) \in Nat /\ Len(s) \in Nat
      /\ \A i \in 1..Len(t) : i + 1 \in 1..Len(s) /\ t[i] = s[i + 1]
      /\ h = s[1] /\ 1 \in 1..Len(s)
  BY SeqBehind, SeqLen
<1>2. /\ a \in Seq(S) /\ Len(a) = Len(t) + 1 /\ a[Len(t) + 1] = h
      /\ \A i \in 1..Len(t) : a[i] = t[i]
  BY <1>1, SeqAdd
<1> HIDE DEF t, h, a
<1>3. \A i \in 1..Len(t) : t[i] # h
  <2> SUFFICES ASSUME NEW i \in 1..Len(t), t[i] = h PROVE FALSE
    BY Zenon
  <2>1. i + 1 = 1
    BY ZenonT(60), <1>1 DEF Distinct
  <2> QED BY <2>1
<1>4. Distinct(t)
  <2> SUFFICES ASSUME NEW i \in 1..Len(t), NEW j \in 1..Len(t), t[i] = t[j] PROVE i = j
    BY Zenon DEF Distinct
  <2>1. i + 1 = j + 1
    BY <1>1 DEF Distinct
  <2> QED BY <2>1
<1>5. Distinct(a)
  <2> SUFFICES ASSUME NEW i \in 1..Len(a), NEW j \in 1..Len(a), a[i] = a[j] PROVE i = j
    BY DEF Distinct
  <2>1. (i \in 1..Len(t) \/ i = Len(t) + 1) /\ (j \in 1..Len(t) \/ j = Len(t) + 1)
    BY <1>1, <1>2
  <2>2. CASE i \in 1..Len(t) /\ j \in 1..Len(t)
    <3>1. t[i] = t[j]
      BY Zenon, <1>2, <2>2
    <3> QED BY Zenon, <1>4, <2>2, <3>1 DEF Distinct
  <2> QED BY Zenon, <1>2, <1>3, <2>1, <2>2
<1> QED BY Zenon, <1>1, <1>2, <1>4, <1>5 DEF t, h, a

(* A new URI goes to the end.                                              *)
LEMMA ExtendList ==
    ASSUME NEW S, NEW s \in Seq(S), Distinct(s), NEW u \in S, ~Contains(s, u)
    PROVE  Append(s, u) \in Seq(S) /\ Distinct(Append(s, u))
<1> DEFINE a == Append(s, u)
<1>1. /\ a \in Seq(S) /\ Len(a) = Len(s) + 1 /\ a[Len(s) + 1] = u /\ Len(s) \in Nat
      /\ \A i \in 1..Len(s) : a[i] = s[i]
  BY SeqAdd, SeqLen
<1> HIDE DEF a
<1>2. \A i \in 1..Len(s) : s[i] # u
  BY Zenon DEF Contains
<1>3. Distinct(a)
  <2> SUFFICES ASSUME NEW i \in 1..Len(a), NEW j \in 1..Len(a), a[i] = a[j] PROVE i = j
    BY Zenon DEF Distinct
  <2>1. (i \in 1..Len(s) \/ i = Len(s) + 1) /\ (j \in 1..Len(s) \/ j = Len(s) + 1)
    BY <1>1
  <2>2. CASE i \in 1..Len(s) /\ j \in 1..Len(s)
    <3>1. s[i] = s[j]
      BY Zenon, <1>1, <2>2
    <3> QED BY Zenon, <2>2, <3>1 DEF Distinct
  <2> QED BY Zenon, <1>1, <1>2, <2>1, <2>2
<1> QED BY Zenon, <1>1, <1>3 DEF a

(* A URI is taken out.                                                     *)
LEMMA ShrinkList ==
    ASSUME NEW S, NEW s \in Seq(S), Distinct(s), NEW u
    PROVE  Without(s, u) \in Seq(S) /\ Distinct(Without(s, u))
<1>1. CASE ~Contains(s, u)
  BY <1>1, Zenon DEF Without
<1>2. CASE Contains(s, u)
  <2> DEFINE n == CHOOSE i \in 1..Len(s) : s[i] = u
             a == SubSeq(s, 1, n - 1)
             b == SubSeq(s, n + 1, Len(s))
             w == a \o b
  <2>1. n \in 1..Len(s)
    BY Zenon, <1>2 DEF Contains
  <2>2. Without(s, u) = w
    BY <1>2, Zenon DEF Without
  <2> HIDE DEF n
  <2>3. Len(s) \in Nat /\ n \in Nat /\ n > 0 /\ n <= Len(s) /\ \A i \in 1..Len(s) : s[i] \in S
    BY <2>1, SeqLen
  <2>4. a \in Seq(S) /\ Len(a) = n - 1 /\ \A i \in 1..(n - 1) : a[i] = s[i]
    <3>1. 1 \in Int /\ n - 1 \in Int /\ \A i \in 1..(n - 1) : s[i] \in S
      BY <2>3
    <3>2. a \in Seq(S) /\ Len(a) = (IF 1 <= n - 1 THEN (n - 1) - 1 + 1 ELSE 0)
          /\ \A i \in 1..((n - 1) - 1 + 1) : a[i] = s[1 + i - 1]
      BY <3>1, SeqPart
    <3> HIDE DEF a
    <3>3. (IF 1 <= n - 1 THEN (n - 1) - 1 + 1 ELSE 0) = n - 1 /\ (n - 1) - 1 + 1 = n - 1
          /\ \A i \in 1..(n - 1) : 1 + i - 1 = i
      BY <2>3
    <3> QED BY Zenon, <3>2, <3>3
  <2>5. b \in Seq(S) /\ Len(b) = Len(s) - n /\ \A i \in 1..(Len(s) - n) : b[i] = s[n + i]
    <3>1. n + 1 \in Int /\ Len(s) \in Int /\ \A i \in (n + 1)..Len(s) : s[i] \in S
      BY <2>3
    <3>2. b \in Seq(S) /\ Len(b) = (IF n + 1 <= Len(s) THEN Len(s) - (n + 1) + 1 ELSE 0)
          /\ \A i \in 1..(Len(s) - (n + 1) + 1) : b[i] = s[(n + 1) + i - 1]
      BY <3>1, SeqPart
    <3> HIDE DEF b
    <3>3. (IF n + 1 <= Len(s) THEN Len(s) - (n + 1) + 1 ELSE 0) = Len(s) - n
          /\ Len(s) - (n + 1) + 1 = Len(s) - n /\ \A i \in 1..(Len(s) - n) : (n + 1) + i - 1 = n + i
      BY <2>3
    <3> QED BY Zenon, <3>2, <3>3
  <2> HIDE DEF a, b
  <2>6. /\ w \in Seq(S) /\ Len(w) = Len(a) + Len(b)
        /\ \A i \in 1..(Len(a) + Len(b)) : w[i] = IF i <= Len(a) THEN a[i] ELSE b[i - Len(a)]
    BY Zenon, <2>4, <2>5, SeqJoin
  <2> HIDE DEF w
  <2>7. \A i \in 1..Len(w) : \E p \in 1..Len(s) : w[i] = s[p] /\ p = (IF i < n THEN i ELSE i + 1)
    <3> SUFFICES ASSUME NEW i \in 1..Len(w)
                 PROVE  \E p \in 1..Len(s) : w[i] = s[p] /\ p = (IF i < n THEN i ELSE i + 1)
      BY Zenon
    <3>1. CASE i < n
      BY <2>3, <2>4, <2>5, <2>6, <3>1
    <3>2. CASE ~(i < n)
      <4>1. i - (n - 1) \in 1..(Len(s) - n) /\ i + 1 \in 1..Len(s) /\ n + (i - (n - 1)) = i + 1
            /\ ~(i <= n - 1) /\ i \in 1..(Len(a) + Len(b))
        BY <2>3, <2>4, <2>5, <2>6, <3>2
      <4>2. w[i] = s[i + 1]
        BY <2>4, <2>5, <2>6, <4>1
      <4> QED BY Zenon, <3>2, <4>1, <4>2
    <3> QED BY Zenon, <3>1, <3>2
  <2>8. Distinct(w)
    <3> SUFFICES ASSUME NEW i \in 1..Len(w), NEW j \in 1..Len(w), w[i] = w[j] PROVE i = j
      BY Zenon DEF Distinct
    <3>1. PICK p \in 1..Len(s) : w[i] = s[p] /\ p = (IF i < n THEN i ELSE i + 1)
      BY Zenon, <2>7
    <3>2. PICK r \in 1..Len(s) : w[j] = s[r] /\ r = (IF j < n THEN j ELSE j + 1)
      BY Zenon, <2>7
    <3>3. p = r
      BY Zenon, <3>1, <3>2 DEF Distinct
    <3>4. Len(w) \in Nat
      BY <2>3, <2>4, <2>5, <2>6
    <3> QED BY <2>3, <3>1, <3>2, <3>3, <3>4
  <2> QED BY Zenon, <2>2, <2>6, <2>8
<1> QED BY Zenon, <1>1, <1>2

-----------------------------------------------------------------------------
(* The steps of a client's task.                                           *)

(* What is known of the client of a connection.                            *)
LEMMA Client ==
    ASSUME TypeOK, ShapeInv, NEW k \in Conns
    PROVE  LET c == ClientOf[k]
           IN  /\ c \in Clients /\ req[c] \in ReqSockets /\ ReqCtl(c, req[c]) /\ ReqData(c, req[c])
               /\ req = [d \in Clients |-> req[d]]
               /\ cfg.requests \in 1..MaxRequests /\ cfg.parts \in 1..2
               /\ cfg \in Scenarios /\ MaxRequests \in Nat
               /\ \A r : PendingIn(r.state) = {} <=> r.state = None
BY Zenon, Records, ConstantsAssumption, ScenarioAssumption DEF TypeOK, FineReq, PendingIn

(* send() starts.                                                          *)
LEMMA SendStep ==
    ASSUME TypeOK, ShapeInv, NEW k \in Conns, send(ClientOf[k])
    PROVE  TypeOK' /\ ShapeInv' /\ Step
<1> DEFINE c == ClientOf[k]
           r == [req[c] EXCEPT !.at = "choose"]
<1>1. c \in Clients /\ req[c] \in ReqSockets /\ ReqCtl(c, req[c])
  BY Zenon, Client
<1>2. Plain(c, r) /\ r.state = req[c].state
  BY ZenonT(60), <1>1 DEF send, ReqSockets, Callers, ReqCtl, Drops, Plain
<1>3. req' = [req EXCEPT ![c] = r] /\ UNCHANGED <<cfg, rep, conn, talk>>
  BY Zenon, <1>1 DEF send
<1> QED BY Zenon, <1>2, <1>3, ReqPasses DEF talk

(* send() takes a peer from the list.                                      *)
LEMMA ChooseStep ==
    ASSUME TypeOK, ShapeInv, NEW k \in Conns, choose_peer(ClientOf[k])
    PROVE  TypeOK' /\ ShapeInv' /\ Step
<1> DEFINE c == ClientOf[k]
           u == Head(req[c].lb)
           v == CHOOSE j \in Endpoints(c, u) : TRUE
           r1 == [req[c] EXCEPT !.lb = Append(Tail(@), u), !.at = "write", !.via = v]
           r2 == [req[c] EXCEPT !.lb = Tail(@)]
<1>1. c \in Clients /\ req[c] \in ReqSockets /\ ReqCtl(c, req[c])
  BY Client
<1>2. req[c].at = "choose" /\ req[c].lb # <<>> /\ UNCHANGED <<cfg, rep, conn, talk>>
  BY Zenon DEF choose_peer
<1>3. /\ Tail(req[c].lb) \in Seq(Servers) /\ Distinct(Tail(req[c].lb))
      /\ Append(Tail(req[c].lb), u) \in Seq(Servers) /\ Distinct(Append(Tail(req[c].lb), u))
  <2>1. req[c].lb \in Seq(Servers) /\ Distinct(req[c].lb)
    BY ZenonT(60), <1>1 DEF ReqSockets, ReqCtl
  <2> QED BY Zenon, <1>2, <2>1, RotateList
<1>4. CASE Endpoints(c, u) # {}
  <2>1. v \in Conns /\ ClientOf[v] = c
    BY Zenon, <1>4 DEF Endpoints
  <2>2. req' = [req EXCEPT ![c] = r1]
    BY Zenon, <1>4 DEF choose_peer
  <2> HIDE DEF u, v
  <2>3. Plain(c, r1) /\ r1.state = req[c].state
    BY Zenon, <1>1, <1>2, <1>3, <2>1 DEF ReqSockets, Callers, ReqCtl, Drops, Plain
  <2> HIDE DEF r1
  <2> QED BY Zenon, <1>2, <2>2, <2>3, ReqPasses DEF talk
<1>5. CASE Endpoints(c, u) = {}
  <2>2. req' = [req EXCEPT ![c] = r2]
    BY Zenon, <1>5 DEF choose_peer
  <2> HIDE DEF u, v
  <2>3. Plain(c, r2) /\ r2.state = req[c].state
    BY Zenon, <1>1, <1>2, <1>3 DEF ReqSockets, Callers, ReqCtl, Drops, Plain
  <2> HIDE DEF r2
  <2> QED BY Zenon, <1>2, <2>2, <2>3, ReqPasses DEF talk
<1> QED BY Zenon, <1>4, <1>5

(* send() gives up, or finds the session gone.                             *)
LEMMA RefusedStep ==
    ASSUME TypeOK, ShapeInv, NEW k \in Conns, send_refused(ClientOf[k])
    PROVE  TypeOK' /\ ShapeInv' /\ Step
<1> DEFINE c == ClientOf[k]
           r == [req[c] EXCEPT !.at = "idle"]
<1>1. c \in Clients /\ req[c] \in ReqSockets /\ ReqCtl(c, req[c])
  BY Client
<1>2. Plain(c, r) /\ r.state = req[c].state
  BY Zenon, <1>1 DEF send_refused, ReqSockets, Callers, ReqCtl, Drops, Plain
<1>3. req' = [req EXCEPT ![c] = r] /\ UNCHANGED <<cfg, rep, conn, talk>>
  BY Zenon, <1>1 DEF send_refused
<1> QED BY Zenon, <1>2, <1>3, ReqPasses DEF talk

(* send() finds the session gone.                                          *)
LEMMA ClosedStep ==
    ASSUME TypeOK, ShapeInv, NEW k \in Conns, write_closed(ClientOf[k])
    PROVE  TypeOK' /\ ShapeInv' /\ Step
<1> DEFINE c == ClientOf[k]
           w == Without(req[c].lb, Uri(req[c].via))
           r == [req[c] EXCEPT !.at = "idle", !.lb = w]
<1>1. c \in Clients /\ req[c] \in ReqSockets /\ ReqCtl(c, req[c])
  BY Client
<1>2. w \in Seq(Servers) /\ Distinct(w)
  BY Zenon, <1>1, ShrinkList DEF ReqSockets, ReqCtl
<1>3. req' = [req EXCEPT ![c] = r] /\ UNCHANGED <<cfg, rep, conn, talk>> /\ req[c].at = "write"
  BY Zenon DEF write_closed
<1> HIDE DEF w
<1>4. Plain(c, r) /\ r.state = req[c].state
  BY Zenon, <1>1, <1>2, <1>3 DEF ReqSockets, Callers, ReqCtl, Drops, Plain
<1> QED BY ZenonT(60), <1>3, <1>4, ReqPasses DEF talk

(* recv() starts, waits in vain, or is dropped.                            *)
LEMMA RecvStep ==
    ASSUME TypeOK, ShapeInv, NEW k \in Conns,
           \/ recv(ClientOf[k]) \/ recv_times_out(ClientOf[k]) \/ cancel(ClientOf[k])
           \/ recv_multipart_waits(ClientOf[k])
    PROVE  TypeOK' /\ ShapeInv' /\ Step
<1> DEFINE c == ClientOf[k]
<1>1. c \in Clients /\ req[c] \in ReqSockets /\ ReqCtl(c, req[c])
  BY Zenon, Client
<1>2. ASSUME NEW a \in {"whole", "poll", "finish"}, req[c].at \in {"idle", "wait"}, req[c].woken = "no",
             req' = [req EXCEPT ![c].at = a], UNCHANGED <<cfg, rep, conn, talk>>
      PROVE  TypeOK' /\ ShapeInv' /\ Step
  <2> DEFINE r == [req[c] EXCEPT !.at = a]
  <2>1. Plain(c, r) /\ r.state = req[c].state
    BY ZenonT(60), <1>1, <1>2 DEF ReqSockets, Callers, ReqCtl, Drops, Plain
  <2>2. req' = [req EXCEPT ![c] = r]
    BY Zenon, <1>1, <1>2
  <2> HIDE DEF r
  <2> QED BY Zenon, <1>2, <2>1, <2>2, ReqPasses DEF talk
<1>3. CASE recv(c)
  <2>1. req[c].at = "idle" /\ req[c].woken = "no"
    BY Zenon, <1>1, <1>3 DEF recv, ReqCtl
  <2> QED BY Zenon, <1>2, <1>3, <2>1 DEF recv
<1>4. CASE recv_times_out(c)
  BY Zenon, <1>2, <1>4 DEF recv_times_out
<1>5. CASE cancel(c)
  <2> DEFINE g == [req[c] EXCEPT !.woken = "no", !.at = "idle"]
             r == drop_notified(req[c])
  <2>1. g \in ReqSockets /\ ~Waiting(g) /\ ReqCtl(c, g) /\ g.at = "idle" /\ g.n = req[c].n
        /\ g.state = req[c].state
        /\ g.queue = req[c].queue /\ g.buffer = req[c].buffer /\ g.result = req[c].result
    BY ZenonT(60), <1>1 DEF ReqSockets, Callers, ReqCtl, Waiting
  <2>2. r = g \/ r = [g EXCEPT !.permit = TRUE]
    BY Zenon, <2>1 DEF drop_notified, notify_one
  <2>3. req' = [req EXCEPT ![c] = r] /\ UNCHANGED <<cfg, rep, conn, talk>> /\ req[c].at # "sent"
    BY Zenon, <1>5 DEF cancel
  <2> HIDE DEF g, r
  <2>4. Plain(c, r) /\ r.state = req[c].state
    BY Zenon, <2>1, <2>2, <2>3 DEF ReqSockets, ReqCtl, Drops, Plain
  <2> QED BY Zenon, <2>3, <2>4, ReqPasses DEF talk
<1>6. CASE recv_multipart_waits(c)
  <2> DEFINE r == [req[c] EXCEPT !.at = "await", !.buffer = <<>>]
  <2>1. <<>> \in Seq(Frames)
    BY Zenon, SeqNone
  <2>2. Plain(c, r) /\ r.state = req[c].state
    BY Zenon, <1>1, <1>6, <2>1 DEF recv_multipart_waits, ReqSockets, Callers, ReqCtl, Drops, Plain
  <2>3. req' = [req EXCEPT ![c] = r] /\ UNCHANGED <<cfg, rep, conn, talk>>
    BY Zenon, <1>6 DEF recv_multipart_waits
  <2> HIDE DEF r
  <2> QED BY Zenon, <2>2, <2>3, ReqPasses DEF talk
<1> QED BY Zenon, <1>3, <1>4, <1>5, <1>6

(* What a client does as it takes a frame: a reply may go from one of its  *)
(* places to another.                                                      *)
Shifts(o, r) ==
    \E q, l0, l1 :
       /\ {l0, l1} \subseteq {"queue", "buffer", "result"}
       /\ InReq(o, l0, q) /\ ~InReq(r, l0, q)
       /\ \A l, p : InReq(r, l, p) => InReq(o, l, p) \/ (p = q /\ l = l1)

(* The rest of the record stays.                                           *)
Took(o, r) ==
    /\ r.at = "finish" /\ r.state = o.state /\ r.n = o.n /\ r.lb = o.lb
    /\ r.woken = o.woken /\ r.via = o.via

(* The frames of the buffer come first.                                    *)
LEMMA TakeBuffered ==
    ASSUME NEW c, NEW o \in ReqSockets, ReqData(c, o), o.buffer # <<>>,
           NEW r, r = [recv_message(o) EXCEPT !.at = "finish"]
    PROVE  /\ r \in ReqSockets /\ ReqData(c, r) /\ Took(o, r)
           /\ Shifts(o, r) \/ \A l, q : InReq(r, l, q) => InReq(o, l, q)
<1> DEFINE b == o.buffer
           n == Len(b)
           h == Head(b)
           g == n > 1
           f == [h EXCEPT !.more = g]
           t == Tail(b)
<1>1. b \in Seq(Frames) /\ b # <<>>
  BY Zenon DEF ReqSockets
<1>2. /\ h \in Frames /\ t \in Seq(Frames) /\ n \in Nat /\ n > 0
      /\ n = 1 => t = <<>> /\ h = Last(b)
      /\ n > 1 => t # <<>> /\ Last(t) = Last(b)
  BY Zenon, <1>1, TailMessage
<1>3. recv_message(o) = [o EXCEPT !.buffer = t, !.result = f]
  BY Zenon DEF recv_message
<1>g. g \in BOOLEAN /\ (g <=> n > 1)
  OBVIOUS
<1> HIDE DEF n, h, t, g
<1>4. f \in Frames /\ f.of = h.of /\ f.more = g
  BY <1>2, <1>g, Zenon DEF Frames
<1> HIDE DEF f, b
<1>5. /\ r \in ReqSockets /\ r.queue = o.queue /\ r.buffer = t /\ r.result = f
      /\ Took(o, r)
  BY Zenon, <1>2, <1>3, <1>4 DEF ReqSockets, Callers, Took
<1>6. f # None
  BY Zenon, <1>4, NoneAssumption
<1>7. CASE n = 1
  <2> DEFINE q == Last(b).of
  <2>1. InReq(o, "buffer", q) /\ ~InReq(r, "buffer", q)
    BY Zenon, <1>2, <1>5, <1>7 DEF InReq, b
  <2>2. \A l, p : InReq(r, l, p) => InReq(o, l, p) \/ (p = q /\ l = "result")
    BY Zenon, <1>2, <1>4, <1>g, <1>5, <1>7 DEF InReq
  <2> HIDE DEF q
  <2>3. Shifts(o, r)
    BY <2>1, <2>2 DEF Shifts
  <2>4. ReqData(c, r)
    BY Zenon, <1>5, <2>1, <2>2 DEF ReqData
  <2> QED BY Zenon, <1>5, <2>3, <2>4
<1>8. CASE n > 1
  <2>1. ~Final(f)
    BY Zenon, <1>4, <1>g, <1>8 DEF Final
  <2>2. \A l, p : InReq(r, l, p) => InReq(o, l, p)
    BY Zenon, <1>2, <1>5, <1>8, <2>1 DEF InReq, b
  <2>3. ReqData(c, r)
    BY Zenon, <1>5, <2>2 DEF ReqData
  <2> QED BY Zenon, <1>5, <2>2, <2>3
<1> QED BY <1>2, <1>7, <1>8

(* A queue of one is empty without its head.                               *)
LEMMA TailOfOne ==
    ASSUME NEW S, NEW s \in Seq(S), s # <<>>, Len(s) <= 1
    PROVE  Tail(s) = <<>>
<1> DEFINE u == Len(s)
           v == Len(Tail(s))
<1>1. u # 0 /\ u \in Nat /\ v = u - 1 /\ Tail(s) \in Seq(S)
  BY Zenon, SeqNone, SeqBehind, SeqLen
<1>2. u <= 1
  BY Zenon
<1> HIDE DEF u, v
<1>3. v = 0
  BY <1>1, <1>2
<1> QED BY Zenon, <1>1, <1>3, SeqNone DEF v

(* Then a message is taken from the queue.                                 *)
LEMMA TakeQueued ==
    ASSUME NEW c, NEW o \in ReqSockets, ReqData(c, o), o.buffer = <<>>, o.queue # <<>>,
           NEW r, r = [recv_message(o) EXCEPT !.at = "finish"]
    PROVE  r \in ReqSockets /\ ReqData(c, r) /\ Took(o, r) /\ Shifts(o, r)
<1> DEFINE m == Head(o.queue)
           n == Len(m)
           h == Head(m)
           t == Tail(m)
           q == Last(m).of
<1>1. m \in Seq(Frames) /\ Message(m) /\ Tail(o.queue) = <<>> /\ <<>> \in Seq(Seq(Frames))
  <2>1. o.queue \in Seq(Seq(Frames)) /\ Len(o.queue) <= 1 /\ Message(m)
    BY Zenon DEF ReqSockets, ReqData
  <2>2. Tail(o.queue) = <<>>
    BY Zenon, <2>1, TailOfOne
  <2>3. m \in Seq(Frames)
    BY Zenon, <2>1, SeqBehind
  <2> QED BY Zenon, <2>1, <2>2, <2>3, SeqNone
<1>2. m # <<>>
  BY <1>1, SeqNone DEF Message
<1>3. /\ h \in Frames /\ t \in Seq(Frames) /\ n \in Nat /\ n > 0
      /\ n = 1 => t = <<>> /\ h = Last(m) /\ Final(h)
      /\ n > 1 => t # <<>> /\ Last(t) = Last(m) /\ h.more
  BY Zenon, <1>1, <1>2, TailMessage
<1>4. recv_message(o) = [o EXCEPT !.queue = <<>>, !.buffer = t, !.result = h]
  BY Zenon, <1>1 DEF recv_message
<1>5. InReq(o, "queue", q)
  BY Zenon DEF InReq
<1> HIDE DEF n, h, t, m
<1>6. /\ r \in ReqSockets /\ r.queue = <<>> /\ r.buffer = t /\ r.result = h
      /\ Took(o, r)
  BY ZenonT(60), <1>1, <1>3, <1>4 DEF ReqSockets, Callers, Took
<1>7. ~InReq(r, "queue", q)
  BY Zenon, <1>6 DEF InReq
<1>8. \A l, p : InReq(r, l, p) =>
         InReq(o, l, p) \/ (p = q /\ l = IF n = 1 THEN "result" ELSE "buffer")
  <2>1. CASE n = 1
    BY Zenon, <1>3, <1>6, <2>1 DEF InReq
  <2>2. CASE n > 1
    BY Zenon, <1>3, <1>6, <2>2 DEF InReq, Final
  <2> QED BY <1>3, <2>1, <2>2
<1> HIDE DEF q
<1>9. Shifts(o, r)
  <2>1. CASE n = 1
    BY <1>5, <1>7, <1>8, <2>1 DEF Shifts
  <2>2. CASE n # 1
    BY <1>5, <1>7, <1>8, <2>2 DEF Shifts
  <2> QED BY Zenon, <2>1, <2>2
<1>10. ReqData(c, r)
  <2>1. Len(<<>>) = 0
    BY Zenon, SeqNone
  <2>2. \A l, p : InReq(r, l, p) => p[1] = c
    BY Zenon, <1>5, <1>8 DEF ReqData
  <2> QED BY <1>6, <2>1, <2>2 DEF ReqData
<1> QED BY Zenon, <1>6, <1>9, <1>10

(* A step in which a reply goes from one place of a client to another.     *)
LEMMA ReqShifts ==
    ASSUME TypeOK, ShapeInv, NEW k \in Conns, NEW r, FineReq(ClientOf[k], r),
           \/ Shifts(req[ClientOf[k]], r)
           \/ \A l, q : InReq(r, l, q) => InReq(req[ClientOf[k]], l, q),
           r.at # "sent", req[ClientOf[k]].at # "sent", r.n = req[ClientOf[k]].n,
           r.state = req[ClientOf[k]].state,
           req' = [req EXCEPT ![ClientOf[k]] = r], UNCHANGED <<cfg, rep, conn, talk>>
    PROVE  TypeOK' /\ ShapeInv' /\ Step
<1> DEFINE c == ClientOf[k]
<1>1. c \in Clients
  BY Zenon, Client
<1>2. asked' \cup answered' \cup lost' \cup excused' \subseteq Requests
  BY Zenon DEF TypeOK, talk
<1>3. /\ TypeOK' /\ ShapeInv'
      /\ \A l, p, q : Then(l, p, q) => There(l, p, q) \/ (p = c /\ InReq(r, l, q))
      /\ \A l, q : l \in {"queue", "buffer", "result"} => (Then(l, c, q) <=> InReq(r, l, q))
      /\ \A l, q : InReq(req[c], l, q) => There(l, c, q)
  BY Zenon, <1>2, ReqEdited
<1>4. Stays \/ Moves
  <2>1. CASE \A l, q : InReq(r, l, q) => InReq(req[c], l, q)
    BY Zenon, <1>3, <2>1 DEF Stays
  <2>2. CASE Shifts(req[c], r)
    <3>1. PICK q, l0, l1 :
             /\ {l0, l1} \subseteq {"queue", "buffer", "result"}
             /\ InReq(req[c], l0, q) /\ ~InReq(r, l0, q)
             /\ \A l, p : InReq(r, l, p) => InReq(req[c], l, p) \/ (p = q /\ l = l1)
      BY <2>2, Zenon DEF Shifts
    <3>2. There(l0, c, q) /\ ~Then(l0, c, q) /\ l0 \in Came
      BY <1>3, <3>1 DEF Came
    <3>3. \A l, d, p : Then(l, d, p) => There(l, d, p) \/ (p = q /\ l = l1 /\ d = c)
      BY <1>3, <3>1
    <3>4. Move(q, l0, c, l1, c)
      BY Zenon, <3>2, <3>3 DEF Move
    <3> QED BY <3>4, Zenon DEF Moves
  <2> QED BY Zenon, <2>1, <2>2
<1>5. /\ Elsewhere(c) /\ Others(c) /\ req'[c] = r
      /\ Pending(c)' = PendingIn(r.state)
      /\ Sent(c)' = IF r.at = "sent" THEN {<<c, r.n>>} ELSE {}
  BY Zenon, <1>1, TalkFacts
<1>6. \A d \in Clients : Unsent(d)
  BY Zenon, <1>5 DEF Others, Unsent, Sent
<1>7. Silent
  BY Zenon, <1>5 DEF Silent, Elsewhere, Pending, talk
<1> QED BY Zenon, <1>3, <1>4, <1>6, <1>7 DEF Step, Passing

(* A step in which a client takes a frame.                                 *)
LEMMA ReqTakes ==
    ASSUME TypeOK, ShapeInv, NEW k \in Conns, CanTake(req[ClientOf[k]]),
           req[ClientOf[k]].at # "sent",
           NEW r, r = [recv_message(req[ClientOf[k]]) EXCEPT !.at = "finish"],
           req[ClientOf[k]].woken = "no",
           req' = [req EXCEPT ![ClientOf[k]] = r], UNCHANGED <<cfg, rep, conn, talk>>
    PROVE  TypeOK' /\ ShapeInv' /\ Step
<1> DEFINE c == ClientOf[k]
           o == req[c]
<1>1. c \in Clients /\ o \in ReqSockets /\ ReqCtl(c, o) /\ ReqData(c, o)
  BY Zenon, Client
<1>2. /\ r \in ReqSockets /\ ReqData(c, r) /\ Took(o, r)
      /\ Shifts(o, r) \/ \A l, q : InReq(r, l, q) => InReq(o, l, q)
  <2>1. CASE o.buffer # <<>>
    BY Zenon, <1>1, <2>1, TakeBuffered
  <2>2. CASE o.buffer = <<>>
    <3>1. o.queue # <<>>
      BY Zenon, <2>2 DEF CanTake
    <3> QED BY Zenon, <1>1, <2>2, <3>1, TakeQueued
  <2> QED BY Zenon, <2>1, <2>2
<1>3. FineReq(c, r)
  BY Zenon, <1>1, <1>2 DEF FineReq, ReqCtl, Took
<1>4. r.at # "sent" /\ r.n = req[c].n /\ r.state = req[c].state
  BY Zenon, <1>2 DEF Took
<1> QED BY Zenon, <1>2, <1>3, <1>4, ReqShifts

(* recv() looks at what there is.                                          *)
LEMMA PollStep ==
    ASSUME TypeOK, ShapeInv, NEW k \in Conns,
           recv_polls(ClientOf[k]) \/ recv_wakes(ClientOf[k]) \/ recv_notified(ClientOf[k])
    PROVE  TypeOK' /\ ShapeInv' /\ Step
<1> DEFINE c == ClientOf[k]
           o == req[c]
<1>1. c \in Clients /\ o \in ReqSockets /\ ReqCtl(c, o)
  BY Zenon, Client
<1>2. UNCHANGED <<cfg, rep, conn, talk>> /\ o.at \in {"poll", "wait", "notified"}
  BY Zenon DEF recv_polls, recv_wakes, recv_notified
<1>3. \/ /\ CanTake(o) /\ o.woken = "no"
         /\ req' = [req EXCEPT ![c] = [recv_message(o) EXCEPT !.at = "finish"]]
      \/ /\ o.woken = "no" /\ req' = [req EXCEPT ![c] = [o EXCEPT !.permit = FALSE, !.at = "notified"]]
      \/ /\ o.woken = "no" /\ req' = [req EXCEPT ![c] = [o EXCEPT !.at = "wait"]]
      \/ req' = [req EXCEPT ![c] = [o EXCEPT !.woken = "no", !.at = "notified"]]
      \/ /\ o.woken = "no" /\ req' = [req EXCEPT ![c] = [o EXCEPT !.at = "finish"]]
  <2>1. CASE recv_polls(c)
    BY Zenon, <1>1, <2>1 DEF recv_polls, ReqCtl
  <2>2. CASE recv_wakes(c)
    BY Zenon, <1>1, <2>2 DEF recv_wakes, CanTake
  <2>3. CASE recv_notified(c)
    BY Zenon, <1>1, <2>3 DEF recv_notified, ReqCtl
  <2> QED BY Zenon, <2>1, <2>2, <2>3
<1>4. ASSUME NEW r, req' = [req EXCEPT ![c] = r], Plain(c, r), r.state = o.state
      PROVE  TypeOK' /\ ShapeInv' /\ Step
  BY Zenon, <1>2, <1>4, ReqPasses DEF talk
<1>5. CASE CanTake(o) /\ o.woken = "no"
           /\ req' = [req EXCEPT ![c] = [recv_message(o) EXCEPT !.at = "finish"]]
  <2>1. o.at # "sent"
    BY Zenon, <1>2
  <2> QED BY Zenon, <1>2, <1>5, <2>1, ReqTakes
<1>6. LET r == [o EXCEPT !.permit = FALSE, !.at = "notified"]
      IN  o.woken = "no" => Plain(c, r) /\ r.state = o.state
  BY Zenon, <1>1, <1>2 DEF ReqSockets, Callers, ReqCtl, Drops, Plain
<1>7. LET r == [o EXCEPT !.at = "wait"]
      IN  o.woken = "no" => Plain(c, r) /\ r.state = o.state
  BY Zenon, <1>1, <1>2 DEF ReqSockets, Callers, ReqCtl, Drops, Plain
<1>8. LET r == [o EXCEPT !.woken = "no", !.at = "notified"]
      IN  Plain(c, r) /\ r.state = o.state
  BY Zenon, <1>1, <1>2 DEF ReqSockets, Callers, ReqCtl, Drops, Plain
<1>9. LET r == [o EXCEPT !.at = "finish"]
      IN  o.woken = "no" => Plain(c, r) /\ r.state = o.state
  BY ZenonT(60), <1>1, <1>2 DEF ReqSockets, Callers, ReqCtl, Drops, Plain
<1> HIDE DEF o
<1> QED BY Zenon, <1>3, <1>4, <1>5, <1>6, <1>7, <1>8, <1>9

(* A step in which a client has a whole reply.                             *)
LEMMA ReqAnswers ==
    ASSUME TypeOK, ShapeInv, OpenInv, NEW k \in Conns, NEW r,
           r \in ReqSockets, ReqCtl(ClientOf[k], r), Drops(req[ClientOf[k]], r),
           r.at # "sent", req[ClientOf[k]].at # "sent", r.n = req[ClientOf[k]].n, r.state = None,
           NEW q, NEW l \in {"queue", "buffer", "result"},
           InReq(req[ClientOf[k]], l, q), ~InReq(r, l, q),
           req' = [req EXCEPT ![ClientOf[k]] = r], Answer(ClientOf[k], q),
           UNCHANGED <<cfg, rep, conn, asked, excused>>
    PROVE  TypeOK' /\ ShapeInv' /\ Step
<1> DEFINE c == ClientOf[k]
<1>1. c \in Clients /\ FineReq(c, req[c])
  BY Zenon, Records
<1>2. FineReq(c, r) /\ \A m, p : InReq(r, m, p) => InReq(req[c], m, p)
  BY Zenon, <1>1, DropsData DEF FineReq
<1>3. There(l, c, q) /\ q[1] = c
  BY Zenon, <1>1 DEF There, Place, FineReq, ReqData
<1>11. q \in Requests
  BY Zenon, <1>3 DEF OpenInv
<1>4. asked' \cup answered' \cup lost' \cup excused' \subseteq Requests
  <2>1. Pending(c) \subseteq Requests
    BY Zenon, <1>1, ClientFacts
  <2> QED BY Zenon, <1>11, <2>1 DEF TypeOK, Answer
<1>5. /\ TypeOK' /\ ShapeInv'
      /\ \A m, o, p : Then(m, o, p) => There(m, o, p) \/ (o = c /\ InReq(r, m, p))
      /\ \A m, p : m \in {"queue", "buffer", "result"} => (Then(m, c, p) <=> InReq(r, m, p))
      /\ \A m, p : InReq(req[c], m, p) => There(m, c, p)
  BY Zenon, <1>2, <1>4, ReqEdited
<1>6. Stays
  BY Zenon, <1>2, <1>5 DEF Stays
<1>7. Leaves(q)
  <2>1. ~Then(l, c, q) /\ l \in Came
    BY <1>5 DEF Came
  <2> QED BY Zenon, <1>3, <1>6, <2>1 DEF Leaves
<1>8. /\ Elsewhere(c) /\ Others(c) /\ req'[c] = r
      /\ Pending(c)' = PendingIn(r.state)
      /\ Sent(c)' = IF r.at = "sent" THEN {<<c, r.n>>} ELSE {}
  BY Zenon, <1>1, TalkFacts
<1>9. \A d \in Clients : Unsent(d)
  BY Zenon, <1>8 DEF Others, Unsent, Sent
<1>10. Answers(c, q)
  BY Zenon, <1>8 DEF Answers, Answer, PendingIn
<1> QED BY Zenon, <1>1, <1>3, <1>5, <1>7, <1>9, <1>10, <1>11 DEF Step, Answering

(* recv() returns.                                                         *)
LEMMA FinishStep ==
    ASSUME TypeOK, ShapeInv, OpenInv, NEW k \in Conns, recv_finishes(ClientOf[k])
    PROVE  TypeOK' /\ ShapeInv' /\ Step
<1> DEFINE c == ClientOf[k]
           o == req[c]
           r == [o EXCEPT !.at = "idle", !.result = None]
           e == [r EXCEPT !.state = None]
<1>1. c \in Clients /\ o \in ReqSockets /\ ReqCtl(c, o)
  BY Zenon, Client
<1>2. o.at = "finish" /\ UNCHANGED <<cfg, rep, conn, asked, excused>>
  BY Zenon DEF recv_finishes
<1>3. Plain(c, r) /\ r.state = o.state /\ r.result = None
  BY Zenon, <1>1, <1>2 DEF ReqSockets, Callers, ReqCtl, Drops, Plain
<1>4. Plain(c, e) /\ e.state = None /\ e.result = None /\ notify_waiters(e) = e /\ e.at = "idle"
  BY Zenon, <1>1, <1>2 DEF ReqSockets, Callers, ReqCtl, Drops, Plain, notify_waiters, Waiting
<1>5. \/ /\ req' = [req EXCEPT ![c] = e] /\ lost' = lost \cup Pending(c) /\ UNCHANGED answered
      \/ /\ req' = [req EXCEPT ![c] = r] /\ UNCHANGED <<answered, lost>>
      \/ /\ o.result # None /\ ~o.result.more
         /\ req' = [req EXCEPT ![c] = e] /\ Answer(c, o.result.of)
  BY Zenon, <1>4 DEF recv_finishes
<1> HIDE DEF e, r
<1>6. CASE req' = [req EXCEPT ![c] = e] /\ lost' = lost \cup Pending(c) /\ UNCHANGED answered
  BY Zenon, <1>2, <1>4, <1>6, ReqPasses
<1>7. CASE req' = [req EXCEPT ![c] = r] /\ UNCHANGED <<answered, lost>>
  BY ZenonT(60), <1>2, <1>3, <1>7, ReqPasses
<1>8. CASE o.result # None /\ ~o.result.more
           /\ req' = [req EXCEPT ![c] = e] /\ Answer(c, o.result.of)
  <2> DEFINE q == o.result.of
  <2>1. InReq(o, "result", q) /\ ~InReq(e, "result", q)
    BY ZenonT(60), <1>4, <1>8 DEF InReq, Final
  <2>2. e \in ReqSockets /\ ReqCtl(c, e) /\ Drops(o, e) /\ e.n = o.n /\ e.at # "sent" /\ o.at # "sent"
    BY Zenon, <1>2, <1>4 DEF Plain
  <2> HIDE DEF q
  <2>3. Answer(c, q)
    BY Zenon, <1>8 DEF q
  <2> QED BY Zenon, <1>2, <1>4, <1>8, <2>1, <2>2, <2>3, ReqAnswers
<1> QED BY Zenon, <1>5, <1>6, <1>7, <1>8

(* recv_multipart() returns, with a reply or without.                      *)
LEMMA MultipartStep ==
    ASSUME TypeOK, ShapeInv, OpenInv, NEW k \in Conns,
           recv_multipart(ClientOf[k]) \/ recv_multipart_times_out(ClientOf[k])
    PROVE  TypeOK' /\ ShapeInv' /\ Step
<1> DEFINE c == ClientOf[k]
           o == req[c]
           e == [o EXCEPT !.state = None, !.at = "idle"]
           r == [o EXCEPT !.queue = <<>>, !.state = None, !.at = "idle"]
<1>1. c \in Clients /\ o \in ReqSockets /\ ReqCtl(c, o) /\ ReqData(c, o)
  BY Zenon, Client
<1>2. o.at = "await" /\ UNCHANGED <<cfg, rep, conn, asked, excused>>
  BY Zenon DEF recv_multipart, recv_multipart_times_out
<1>3. <<>> \in Seq(Seq(Frames))
  BY Zenon, SeqNone
<1>4. Plain(c, e) /\ e.state = None /\ notify_waiters(e) = e /\ e.at = "idle"
  BY Zenon, <1>1, <1>2 DEF ReqSockets, Callers, ReqCtl, Drops, Plain, notify_waiters, Waiting
<1>5. Plain(c, r) /\ r.state = None /\ notify_waiters(r) = r /\ r.at = "idle" /\ r.queue = <<>>
  BY Zenon, <1>1, <1>2, <1>3 DEF ReqSockets, Callers, ReqCtl, Drops, Plain, notify_waiters, Waiting
<1>6. CASE recv_multipart_times_out(c)
  <2>1. req' = [req EXCEPT ![c] = e] /\ lost' = lost \cup Pending(c) /\ UNCHANGED answered
    BY ZenonT(60), <1>4, <1>6 DEF recv_multipart_times_out
  <2> HIDE DEF e
  <2> QED BY Zenon, <1>2, <1>4, <2>1, ReqPasses
<1>7. CASE recv_multipart(c)
  <2> DEFINE q == Last(Head(o.queue)).of
  <2>1. o.queue # <<>> /\ Answer(c, q)
    BY Zenon, <1>7 DEF recv_multipart
  <2>2. Tail(o.queue) = <<>>
    <3>1. o.queue \in Seq(Seq(Frames)) /\ Len(o.queue) <= 1
      BY Zenon, <1>1 DEF ReqSockets, ReqData
    <3> QED BY Zenon, <2>1, <3>1, TailOfOne
  <2>3. req' = [req EXCEPT ![c] = r]
    BY ZenonT(60), <1>5, <1>7, <2>2 DEF recv_multipart
  <2> HIDE DEF r
  <2>4. InReq(o, "queue", q) /\ ~InReq(r, "queue", q)
    BY Zenon, <1>5, <2>1 DEF InReq
  <2>5. r \in ReqSockets /\ ReqCtl(c, r) /\ Drops(o, r) /\ r.n = o.n /\ r.at # "sent" /\ o.at # "sent"
    BY Zenon, <1>2, <1>5 DEF Plain
  <2> HIDE DEF q
  <2> QED BY Zenon, <1>2, <1>5, <2>1, <2>3, <2>4, <2>5, ReqAnswers
<1> QED BY Zenon, <1>6, <1>7

(* The socket is closed.                                                   *)
LEMMA StopStep ==
    ASSUME TypeOK, ShapeInv, NEW k \in Conns, stop(ClientOf[k])
    PROVE  TypeOK' /\ ShapeInv' /\ Step
<1> DEFINE c == ClientOf[k]
           o == req[c]
           g == [o EXCEPT !.running = "stopping"]
<1>1. c \in Clients /\ o \in ReqSockets /\ ReqCtl(c, o)
  BY Zenon, Client
<1>2. Plain(c, g) /\ g.state = o.state
  BY ZenonT(60), <1>1 DEF ReqSockets, ReqCtl, Drops, Plain
<1>3. req' = [req EXCEPT ![c] = g] /\ UNCHANGED <<cfg, rep, conn, talk>>
  BY Zenon DEF stop
<1> QED BY Zenon, <1>2, <1>3, ReqPasses DEF talk

(* Stop reaches the ISocket, which wakes the receive.                      *)
LEMMA CommandStep ==
    ASSUME TypeOK, ShapeInv, NEW k \in Conns, process_command(ClientOf[k])
    PROVE  TypeOK' /\ ShapeInv' /\ Step
<1> DEFINE c == ClientOf[k]
           o == req[c]
           g == [o EXCEPT !.running = "no"]
           r == notify_waiters(g)
<1>1. c \in Clients /\ o \in ReqSockets /\ ReqCtl(c, o)
  BY Zenon, Client
<1>2. Plain(c, g) /\ g.state = o.state
  BY ZenonT(60), <1>1 DEF ReqSockets, ReqCtl, Drops, Plain
<1>3. r = g \/ (g.at = "wait" /\ r = [g EXCEPT !.woken = "all"])
  BY Zenon DEF notify_waiters, Waiting
<1>4. req' = [req EXCEPT ![c] = r] /\ UNCHANGED <<cfg, rep, conn, talk>>
  BY Zenon DEF process_command
<1> HIDE DEF g, r
<1>5. Plain(c, r) /\ r.state = o.state
  BY ZenonT(60), <1>2, <1>3 DEF ReqSockets, ReqCtl, Drops, Plain
<1> QED BY Zenon, <1>4, <1>5, ReqPasses DEF talk

(* send() returns: the socket now expects the reply.                       *)
LEMMA ReturnStep ==
    ASSUME TypeOK, ShapeInv, NEW k \in Conns, send_returns(ClientOf[k])
    PROVE  TypeOK' /\ ShapeInv' /\ Step
<1> DEFINE c == ClientOf[k]
           o == req[c]
           q == <<c, o.n>>
           st == [to |-> Uri(o.via), q |-> q]
           r == [o EXCEPT !.state = st, !.buffer = <<>>, !.at = "idle"]
<1>1. c \in Clients /\ o \in ReqSockets /\ ReqCtl(c, o) /\ ReqData(c, o) /\ MaxRequests \in Nat
  BY Zenon, Client
<1>2. /\ o.at = "sent" /\ req' = [req EXCEPT ![c] = r] /\ asked' = asked \cup {q}
      /\ excused' \subseteq excused \cup {q}
      /\ UNCHANGED <<cfg, rep, conn, answered, lost>>
  BY Zenon DEF send_returns
<1>3. o.state = None /\ o.via \in Conns /\ o.n > 0 /\ o.n \in 0..MaxRequests
  BY Zenon, <1>1, <1>2 DEF ReqCtl, ReqSockets
<1>4. q \in Requests /\ q[1] = c /\ q[2] = o.n
  BY <1>1, <1>3 DEF Requests
<1> HIDE DEF q
<1>5. st \in Expectations /\ st # None /\ st.q = q
  <2>1. Uri(o.via) \in Servers
    BY Zenon, <1>3, ConstantsAssumption DEF Uri
  <2>2. st \in Expectations /\ st.q = q
    BY Zenon, <1>4, <2>1 DEF Expectations
  <2> QED BY Zenon, <2>2, NoneAssumption
<1>6. <<>> \in Seq(Frames)
  BY Zenon, SeqNone
<1> HIDE DEF st
<1>7. r \in ReqSockets /\ ReqCtl(c, r) /\ Drops(o, r) /\ r.n = o.n /\ r.at = "idle" /\ r.state = st
  <2>1. r \in ReqSockets /\ r.n = o.n /\ r.at = "idle" /\ r.state = st /\ r.lb = o.lb
        /\ r.queue = o.queue /\ r.buffer = <<>> /\ r.result = o.result /\ r.woken = o.woken
    BY Zenon, <1>1, <1>5, <1>6 DEF ReqSockets, Callers
  <2> HIDE DEF r
  <2>2. ReqCtl(c, r)
    BY <1>1, <1>2, <1>3, <1>4, <1>5, <2>1 DEF ReqCtl
  <2> QED BY Zenon, <2>1, <2>2 DEF Drops
<1> HIDE DEF r
<1>8. FineReq(c, r) /\ \A l, p : InReq(r, l, p) => InReq(o, l, p)
  BY ZenonT(60), <1>1, <1>7, DropsData DEF FineReq
<1>9. asked' \cup answered' \cup lost' \cup excused' \subseteq Requests
  BY ZenonT(60), <1>2, <1>4 DEF TypeOK
<1>10. /\ TypeOK' /\ ShapeInv'
       /\ \A l, d, p : Then(l, d, p) => There(l, d, p) \/ (d = c /\ InReq(r, l, p))
       /\ \A l, p : InReq(o, l, p) => There(l, c, p)
  BY Zenon, <1>2, <1>8, <1>9, ReqEdited
<1>11. Stays
  BY <1>8, <1>10 DEF Stays
<1>12. /\ Elsewhere(c) /\ Others(c) /\ req'[c] = r
       /\ Pending(c)' = PendingIn(r.state)
       /\ Sent(c)' = IF r.at = "sent" THEN {<<c, r.n>>} ELSE {}
  BY ZenonT(60), <1>1, <1>2, TalkFacts
<1>13. Asks(c)
  <2>1. Pending(c) = {}
    BY Zenon, <1>3 DEF Pending, PendingIn
  <2>2. Pending(c)' = {<<c, req[c].n>>}
    BY ZenonT(60), <1>5, <1>7, <1>12 DEF PendingIn, q
  <2> QED BY Zenon, <1>2, <1>12, <2>1, <2>2 DEF Asks
<1> QED BY ZenonT(60), <1>1, <1>2, <1>7, <1>10, <1>11, <1>12, <1>13 DEF Step, Asking

(* A session takes a request, or loses it.                                 *)
LEMMA WriteStep ==
    ASSUME TypeOK, ShapeInv, OpenInv, NEW h \in Conns, write(ClientOf[h])
    PROVE  TypeOK' /\ ShapeInv' /\ Step
<1> DEFINE c == ClientOf[h]
           o == req[c]
           k == o.via
           s == ServerOf[k]
           q == <<c, o.n + 1>>
           fs == <<Frame(q, 0, TRUE), Frame(q, 1, FALSE)>>
           up == conn[k].link = "up"
           x == IF up THEN [conn[k] EXCEPT !.toRep = @ \o fs] ELSE conn[k]
           r == [o EXCEPT !.at = "sent", !.n = @ + 1]
<1>1. /\ c \in Clients /\ o \in ReqSockets /\ ReqCtl(c, o) /\ ReqData(c, o)
      /\ MaxRequests \in Nat /\ cfg.requests \in 1..MaxRequests
  BY Zenon, Client
<1>2. o.at = "write" /\ req' = [req EXCEPT ![c] = r] /\ UNCHANGED <<cfg, rep, talk>>
  BY Zenon DEF write
<1>3. o.state = None /\ k \in Conns /\ ClientOf[k] = c /\ o.n < cfg.requests /\ o.n \in 0..MaxRequests
  BY Zenon, <1>1, <1>2 DEF ReqCtl, ReqSockets
<1>4. conn' = [conn EXCEPT ![k] = x]
  BY ZenonT(60), <1>3 DEF write, TypeOK
<1>5. q \in Requests /\ q[1] = c /\ o.n + 1 \in 0..MaxRequests /\ o.n + 1 > 0
  BY <1>1, <1>3 DEF Requests
<1>6. Sent(c) = {}
  BY Zenon, <1>2 DEF Sent
<1>7. \A l, d : ~There(l, d, q)
  BY ZenonT(60), <1>1, <1>5, <1>6, NewIsNowhere
<1>8. s \in Servers /\ FineConn(k, conn[k]) /\ FineRep(rep[s])
  BY Zenon, <1>3, Records
<1>9. rep' = [rep EXCEPT ![s] = rep[s]]
  BY Zenon, <1>2, <1>8 DEF TypeOK
<1>10. r \in ReqSockets /\ ReqCtl(c, r) /\ Drops(o, r) /\ r.n = o.n + 1 /\ r.at = "sent" /\ r.state = None
  <2>1. r \in ReqSockets /\ r.n = o.n + 1 /\ r.at = "sent" /\ r.state = o.state /\ r.lb = o.lb
        /\ r.queue = o.queue /\ r.buffer = o.buffer /\ r.result = o.result /\ r.woken = o.woken
        /\ r.via = k
    BY Zenon, <1>1, <1>5 DEF ReqSockets, Callers
  <2> HIDE DEF r, k
  <2>2. ReqCtl(c, r)
    BY Zenon, <1>1, <1>2, <1>3, <1>5, <2>1 DEF ReqCtl
  <2> QED BY Zenon, <1>3, <2>1, <2>2 DEF Drops
<1>11. FineReq(c, r) /\ \A l, p : InReq(r, l, p) => InReq(o, l, p)
  BY Zenon, <1>1, <1>10, DropsData DEF FineReq
<1> HIDE DEF r, k, s
<1>12. FineConn(k, x) /\ \A l, p : InConn(x, l, p) => InConn(conn[k], l, p) \/ (p = q /\ l = "toRep")
  <2> HIDE DEF q
  <2>1. CASE ~up
    BY Zenon, <1>8, <2>1
  <2>2. CASE up
    <3> DEFINE w == conn[k]
               b == w.toRep \o fs
    <3>1. w \in Connections /\ ConnOk(k, w) /\ w.toRep \in Seq(Frames)
      BY Zenon, <1>8 DEF FineConn, Connections
    <3>2. ~Ending(w.toRep, q)
      <4>1. Ending(w.toRep, q) => There("toRep", k, q)
        BY Zenon, <1>3 DEF There, Place, InConn
      <4> QED BY Zenon, <1>7, <4>1
    <3>3. fs \in Seq(Frames) /\ Apart(fs) /\ Payloads(fs) /\ \A p : Ending(fs, p) <=> p = q
      BY Zenon, <1>5, RequestFrames
    <3> HIDE DEF fs
    <3>4. b \in Seq(Frames) /\ Apart(b) /\ Payloads(b)
          /\ \A p : Ending(b, p) <=> Ending(w.toRep, p) \/ p = q
      <4>1. Apart(w.toRep) /\ Payloads(w.toRep)
        BY Zenon, <3>1 DEF ConnOk
      <4> HIDE DEF w
      <4> QED BY ZenonT(60), <3>1, <3>2, <3>3, <4>1, ConcatFrames
    <3>5. x = [w EXCEPT !.toRep = b]
      BY Zenon, <2>2
    <3> HIDE DEF w, b, x
    <3>6. x \in Connections /\ x.toRep = b /\ x.toReq = w.toReq /\ x.partial = w.partial
          /\ x.repPartial = w.repPartial /\ x.reader = w.reader /\ x.item = w.item
          /\ x.repReader = w.repReader /\ x.repItem = w.repItem
      BY ZenonT(60), <3>1, <3>4, <3>5 DEF Connections
    <3>7. \A l, p : InConn(x, l, p) => InConn(w, l, p) \/ (p = q /\ l = "toRep")
      BY Zenon, <3>4, <3>6 DEF InConn
    <3>8. ConnOk(k, x)
      <4>1. \A l, p : InConn(x, l, p) => p[1] = ClientOf[k]
        BY Zenon, <1>3, <1>5, <3>1, <3>7 DEF ConnOk
      <4> QED BY ZenonT(60), <3>1, <3>4, <3>6, <4>1 DEF ConnOk
    <3> QED BY Zenon, <3>6, <3>7, <3>8 DEF FineConn, w
  <2> QED BY ZenonT(60), <2>1, <2>2
<1>13. asked' \cup answered' \cup lost' \cup excused' \subseteq Requests
  BY Zenon, <1>2 DEF TypeOK, talk
<1> HIDE DEF x, q, o
<1>14. TypeOK' /\ ShapeInv' /\ Where(c, r, k, x, s, rep[s])
  BY ZenonT(60), <1>1, <1>2, <1>3, <1>4, <1>8, <1>9, <1>11, <1>12, <1>13, Edited
<1>15. Born(q)
  <2>1. /\ \A l, p : InReq(o, l, p) => There(l, c, p)
        /\ \A l, p : InConn(conn[k], l, p) => There(l, k, p)
        /\ \A l, p : InRep(rep[s], l, p) => There(l, s, p)
    BY ZenonT(60), <1>1, <1>3, <1>8 DEF There, Place, o
  <2>2. \A l, d, p : Then(l, d, p) => There(l, d, p) \/ (p = q /\ l = "toRep" /\ d = k)
    BY <1>11, <1>12, <1>14, <2>1 DEF Where
  <2> QED BY <2>2 DEF Born
<1>16. /\ Elsewhere(c) /\ Others(c) /\ req'[c] = r
       /\ Pending(c)' = PendingIn(r.state)
       /\ Sent(c)' = IF r.at = "sent" THEN {<<c, r.n>>} ELSE {}
  BY ZenonT(60), <1>1, <1>2, TalkFacts
<1>17. Silent
  <2>1. Pending(c)' = Pending(c)
    BY Zenon, <1>3, <1>10, <1>16 DEF Pending, o
  <2> QED BY Zenon, <1>2, <1>16, <2>1 DEF Silent, Elsewhere, talk
<1>18. Sent(c)' = {q} /\ req'[c].n = req[c].n + 1 /\ q = <<c, req[c].n + 1>>
  BY Zenon, <1>10, <1>16 DEF q, o
<1> QED BY Zenon, <1>1, <1>5, <1>6, <1>14, <1>15, <1>16, <1>17, <1>18 DEF Step, Writing

-----------------------------------------------------------------------------
(* The steps of the readers and the cores.                                 *)

(* A step that passes something on, or drops something: what it takes to   *)
(* be one.                                                                 *)
LEMMA Passes ==
    ASSUME TypeOK, ShapeInv,
           NEW c \in Clients, NEW r, FineReq(c, r),
           NEW k \in Conns, NEW x, FineConn(k, x),
           NEW s \in Servers, NEW y, FineRep(y),
           cfg' = cfg, req' = [req EXCEPT ![c] = r],
           conn' = [conn EXCEPT ![k] = x], rep' = [rep EXCEPT ![s] = y],
           asked' \cup excused' \subseteq Requests, UNCHANGED answered,
           r.n = req[c].n, r.at = "sent" <=> req[c].at = "sent",
           \/ r.state = req[c].state /\ UNCHANGED lost
           \/ r.state = None /\ lost' = lost \cup Pending(c)
    PROVE  /\ TypeOK' /\ ShapeInv' /\ Where(c, r, k, x, s, y)
           /\ Stays \/ Moves => Step
           /\ \A l, q : InReq(req[c], l, q) => There(l, c, q)
           /\ \A l, q : InConn(conn[k], l, q) => There(l, k, q)
           /\ \A l, q : InRep(rep[s], l, q) => There(l, s, q)
<1>1. asked' \cup answered' \cup lost' \cup excused' \subseteq Requests
  <2>1. Pending(c) \subseteq Requests
    BY Zenon, ClientFacts
  <2> QED BY Zenon, <2>1 DEF TypeOK
<1>2. TypeOK' /\ ShapeInv' /\ Where(c, r, k, x, s, y)
  BY Zenon, <1>1, Edited
<1>3. /\ Elsewhere(c) /\ Others(c) /\ req'[c] = r
      /\ Pending(c)' = PendingIn(r.state)
      /\ Sent(c)' = IF r.at = "sent" THEN {<<c, r.n>>} ELSE {}
  BY Zenon, TalkFacts
<1>4. \A d \in Clients : Unsent(d)
  BY Zenon, <1>3 DEF Others, Unsent, Sent
<1>5. Silent \/ GivesUp(c)
  <2>1. CASE r.state = req[c].state /\ UNCHANGED lost
    BY Zenon, <1>3, <2>1 DEF Silent, Elsewhere, Pending
  <2>2. CASE r.state = None /\ lost' = lost \cup Pending(c)
    BY Zenon, <1>3, <2>2 DEF GivesUp, PendingIn
  <2> QED BY Zenon, <2>1, <2>2
<1>6. Stays \/ Moves => Step
  BY Zenon, <1>4, <1>5 DEF Step, Passing
<1>7. /\ \A l, q : InReq(req[c], l, q) => There(l, c, q)
      /\ \A l, q : InConn(conn[k], l, q) => There(l, k, q)
      /\ \A l, q : InRep(rep[s], l, q) => There(l, s, q)
  BY Zenon DEF There, Place
<1> QED BY Zenon, <1>2, <1>6, <1>7

(* A step of a connection alone.                                           *)
LEMMA ConnPasses ==
    ASSUME TypeOK, ShapeInv, NEW k \in Conns, NEW x, FineConn(k, x),
           conn' = [conn EXCEPT ![k] = x], UNCHANGED <<cfg, req, rep, asked, answered, lost>>,
           excused' \subseteq Requests
    PROVE  /\ TypeOK' /\ ShapeInv'
           /\ Stays \/ Moves => Step
           /\ \A l, o, q : Then(l, o, q) => There(l, o, q) \/ (o = k /\ InConn(x, l, q))
           /\ \A l, q : l \in {"toRep", "repItem", "toReq", "item"} =>
                 (Then(l, k, q) <=> InConn(x, l, q))
           /\ \A l, q : InConn(conn[k], l, q) => There(l, k, q)
<1> DEFINE c == ClientOf[k]
           s == ServerOf[k]
<1>1. c \in Clients /\ s \in Servers /\ FineReq(c, req[c]) /\ FineRep(rep[s])
  BY ZenonT(60), Records
<1>2. req' = [req EXCEPT ![c] = req[c]] /\ rep' = [rep EXCEPT ![s] = rep[s]]
      /\ asked' \cup excused' \subseteq Requests
  BY Zenon, <1>1 DEF TypeOK
<1> HIDE DEF c, s
<1>3. /\ TypeOK' /\ ShapeInv' /\ Where(c, req[c], k, x, s, rep[s])
      /\ Stays \/ Moves => Step
      /\ \A l, q : InReq(req[c], l, q) => There(l, c, q)
      /\ \A l, q : InConn(conn[k], l, q) => There(l, k, q)
      /\ \A l, q : InRep(rep[s], l, q) => There(l, s, q)
  <2>1. cfg' = cfg /\ answered' = answered /\ lost' = lost
    BY Zenon
  <2> QED BY ZenonT(60), <1>1, <1>2, <2>1, Passes
<1>4. \A l, o, q : Then(l, o, q) => There(l, o, q) \/ (o = k /\ InConn(x, l, q))
  BY <1>3 DEF Where
<1>5. \A l, q : l \in {"toRep", "repItem", "toReq", "item"} => (Then(l, k, q) <=> InConn(x, l, q))
  BY Zenon, <1>3 DEF Where
<1> QED BY ZenonT(60), <1>3, <1>4, <1>5

(* A connection that only loses what it carries.                           *)
LEMMA ConnDrops ==
    ASSUME TypeOK, ShapeInv, NEW k \in Conns, NEW x, FineConn(k, x),
           \A l, q : InConn(x, l, q) => InConn(conn[k], l, q),
           conn' = [conn EXCEPT ![k] = x], UNCHANGED <<cfg, req, rep, asked, answered, lost>>,
           excused' \subseteq Requests
    PROVE  TypeOK' /\ ShapeInv' /\ Step
<1>1. /\ TypeOK' /\ ShapeInv'
      /\ Stays \/ Moves => Step
      /\ \A l, o, q : Then(l, o, q) => There(l, o, q) \/ (o = k /\ InConn(x, l, q))
      /\ \A l, q : InConn(conn[k], l, q) => There(l, k, q)
  BY Zenon, ConnPasses
<1>2. Stays
  BY <1>1 DEF Stays
<1> QED BY Zenon, <1>1, <1>2

(* A connection on which a message goes from one place to the next.        *)
Carries(w, x, q, l0, l1) ==
    /\ l0 \in {"toRep", "repItem", "toReq", "item"} /\ InConn(w, l0, q) /\ ~InConn(x, l0, q)
    /\ l1 \in Came => q \in Open(q[1])
    /\ \A l, p : InConn(x, l, p) => InConn(w, l, p) \/ (p = q /\ l = l1)

(* What it takes to be such a step.                                        *)
LEMMA ConnMoves ==
    ASSUME TypeOK, ShapeInv, NEW k \in Conns, NEW x, FineConn(k, x),
           NEW q, NEW l0, NEW l1, Carries(conn[k], x, q, l0, l1),
           conn' = [conn EXCEPT ![k] = x], UNCHANGED <<cfg, req, rep, asked, answered, lost>>,
           excused' \subseteq Requests
    PROVE  TypeOK' /\ ShapeInv' /\ Step
<1>1. /\ TypeOK' /\ ShapeInv'
      /\ Stays \/ Moves => Step
      /\ \A l, o, p : Then(l, o, p) => There(l, o, p) \/ (o = k /\ InConn(x, l, p))
      /\ \A l, p : l \in {"toRep", "repItem", "toReq", "item"} =>
            (Then(l, k, p) <=> InConn(x, l, p))
      /\ \A l, p : InConn(conn[k], l, p) => There(l, k, p)
  BY Zenon, ConnPasses
<1>2. There(l0, k, q) /\ ~Then(l0, k, q)
  BY <1>1 DEF Carries
<1>3. \A l, o, p : Then(l, o, p) => There(l, o, p) \/ (p = q /\ l = l1 /\ o = k)
  BY ZenonT(60), <1>1 DEF Carries
<1>4. Move(q, l0, k, l1, k)
  BY Zenon, <1>2, <1>3 DEF Move, Carries
<1>5. Moves
  BY <1>4, Zenon DEF Moves
<1> QED BY Zenon, <1>1, <1>5

(* What is known of a connection.                                          *)
LEMMA Link ==
    ASSUME TypeOK, ShapeInv, NEW k \in Conns
    PROVE  /\ conn[k] \in Connections /\ ConnOk(k, conn[k])
           /\ conn[k].toReq \in Seq(Frames) /\ conn[k].toRep \in Seq(Frames)
           /\ conn[k].partial \in Seq(Frames) /\ conn[k].repPartial \in Seq(Frames)
           /\ conn[k].item \in Seq(Frames) /\ AllMore(<<>>) /\ <<>> \in Seq(Frames)
<1>1. conn[k] \in Connections /\ ConnOk(k, conn[k])
  BY Zenon, Records DEF FineConn
<1>2. <<>> \in Seq(Frames) /\ AllMore(<<>>)
  BY SeqNone DEF AllMore
<1> QED BY ZenonT(60), <1>1, <1>2 DEF Connections

(* The reader of a REQ socket takes a frame.                               *)
LEMMA ReadStep ==
    ASSUME TypeOK, ShapeInv, OpenInv, NEW k \in Conns, read(k)
    PROVE  TypeOK' /\ ShapeInv' /\ Step
<1> DEFINE w == conn[k]
           f == Head(w.toReq)
           t == Tail(w.toReq)
           fs == Append(w.partial, f)
           it == Strip(fs)
           x1 == [w EXCEPT !.toReq = t]
           x2 == [x1 EXCEPT !.partial = fs]
           x3 == [x1 EXCEPT !.partial = <<>>, !.reader = "push", !.item = it]
<1>1. /\ w \in Connections /\ ConnOk(k, w) /\ w.toReq \in Seq(Frames) /\ w.partial \in Seq(Frames)
      /\ AllMore(<<>>) /\ <<>> \in Seq(Frames)
  BY Zenon, Link
<1>2. w.reader = "idle" /\ w.toReq # <<>> /\ UNCHANGED <<cfg, req, rep, asked, answered, lost>>
  BY Zenon DEF read
<1>3. /\ f \in Frames /\ t \in Seq(Frames) /\ Apart(t) /\ Payloads(t)
      /\ \A q : Ending(t, q) => Ending(w.toReq, q)
      /\ Final(f) => /\ Ending(w.toReq, f.of) /\ ~Ending(t, f.of) /\ f.part # 0
  <2>1. Apart(w.toReq) /\ Payloads(w.toReq)
    BY Zenon, <1>1 DEF ConnOk
  <2> HIDE DEF w
  <2> QED BY ZenonT(60), <1>1, <1>2, <2>1, TailFrames
<1>4. conn' = [conn EXCEPT ![k] = IF ~Expected(k) THEN x1 ELSE IF f.more THEN x2 ELSE x3]
      /\ excused' \subseteq excused \cup {f.of}
  BY Zenon DEF read
<1>5. excused' \subseteq Requests
  BY Zenon, <1>3, <1>4 DEF Frames, TypeOK
<1>6. AllMore(w.partial)
  BY ZenonT(60), <1>1 DEF ConnOk
<1>7. fs \in Seq(Frames) /\ (f.more => AllMore(fs)) /\ (Final(f) => Message(fs) /\ Last(fs) = f)
  BY ZenonT(60), <1>1, <1>3, <1>6, AppendFrames
<1>8. Final(f) => it \in Seq(Frames) /\ Message(it) /\ Last(it) = f
  BY Zenon, <1>3, <1>7, StripMessage
<1> HIDE DEF f, t, fs, it, w
<1>9. CASE ~Expected(k)
  <2>1. x1 \in Connections /\ x1.toReq = t /\ x1.toRep = w.toRep /\ x1.partial = w.partial
        /\ x1.repPartial = w.repPartial /\ x1.reader = "idle" /\ x1.item = w.item
        /\ x1.repReader = w.repReader /\ x1.repItem = w.repItem
    BY ZenonT(60), <1>1, <1>2, <1>3 DEF Connections
  <2>2. conn' = [conn EXCEPT ![k] = x1]
    BY Zenon, <1>4, <1>9
  <2> HIDE DEF x1
  <2>3. \A l, q : InConn(x1, l, q) => InConn(w, l, q)
    BY Zenon, <1>3, <2>1 DEF InConn
  <2>4. FineConn(k, x1)
    BY ZenonT(60), <1>1, <1>3, <2>1, <2>3 DEF FineConn, ConnOk
  <2> QED BY Zenon, <1>2, <1>5, <2>2, <2>3, <2>4, ConnDrops DEF w
<1>10. CASE Expected(k) /\ f.more
  <2>1. x2 \in Connections /\ x2.toReq = t /\ x2.toRep = w.toRep /\ x2.partial = fs
        /\ x2.repPartial = w.repPartial /\ x2.reader = "idle" /\ x2.item = w.item
        /\ x2.repReader = w.repReader /\ x2.repItem = w.repItem
    BY ZenonT(60), <1>1, <1>2, <1>3, <1>7 DEF Connections
  <2>2. conn' = [conn EXCEPT ![k] = x2]
    BY Zenon, <1>4, <1>10
  <2> HIDE DEF x2
  <2>3. \A l, q : InConn(x2, l, q) => InConn(w, l, q)
    BY Zenon, <1>3, <2>1 DEF InConn
  <2>4. FineConn(k, x2)
    BY ZenonT(60), <1>1, <1>3, <1>7, <1>10, <2>1, <2>3 DEF FineConn, ConnOk
  <2> QED BY Zenon, <1>2, <1>5, <2>2, <2>3, <2>4, ConnDrops DEF w
<1>11. CASE Expected(k) /\ ~f.more
  <2>0. PICK q : q = f.of
    BY Zenon
  <2>1. x3 \in Connections /\ x3.toReq = t /\ x3.toRep = w.toRep /\ x3.partial = <<>>
        /\ x3.repPartial = w.repPartial /\ x3.reader = "push" /\ x3.item = it
        /\ x3.repReader = w.repReader /\ x3.repItem = w.repItem
    BY ZenonT(60), <1>1, <1>3, <1>8, <1>11 DEF Connections, Final
  <2>2. conn' = [conn EXCEPT ![k] = x3]
    BY Zenon, <1>4, <1>11
  <2> HIDE DEF x3
  <2>3. Ending(w.toReq, q) /\ ~Ending(t, q) /\ Message(it) /\ Last(it).of = q
    BY Zenon, <1>3, <1>8, <1>11, <2>0 DEF Final
  <2>4. \A l, p : InConn(x3, l, p) => InConn(w, l, p) \/ (p = q /\ l = "item")
    BY ZenonT(60), <1>3, <2>1, <2>3 DEF InConn
  <2>5. InConn(w, "toReq", q) /\ ~InConn(x3, "toReq", q)
    BY Zenon, <2>1, <2>3 DEF InConn
  <2>6. q[1] = ClientOf[k]
    BY ZenonT(60), <1>1, <2>5 DEF ConnOk
  <2>7. FineConn(k, x3)
    <3>1. \A l, p : InConn(x3, l, p) => p[1] = ClientOf[k]
      BY Zenon, <1>1, <2>4, <2>6 DEF ConnOk
    <3> QED BY ZenonT(60), <1>1, <1>3, <2>1, <2>3, <3>1 DEF FineConn, ConnOk
  <2>8. q \in Open(q[1])
    <3>1. There("toReq", k, q)
      BY Zenon, <2>5 DEF There, Place, w
    <3>2. q \in Open(q[1]) \cup Sent(q[1])
      BY Zenon, <3>1 DEF OpenInv
    <3>3. req[ClientOf[k]].state # None /\ ReqCtl(ClientOf[k], req[ClientOf[k]])
      BY Zenon, <1>11, Client DEF Expected
    <3>4. Sent(q[1]) = {}
      BY Zenon, <2>6, <3>3 DEF Sent, ReqCtl
    <3> QED BY Zenon, <3>2, <3>4
  <2>9. Carries(w, x3, q, "toReq", "item")
    BY Zenon, <2>4, <2>5, <2>8 DEF Carries
  <2> QED BY Zenon, <1>2, <1>5, <2>2, <2>7, <2>9, ConnMoves DEF w
<1> QED BY Zenon, <1>9, <1>10, <1>11

(* The reader of a REP socket takes a frame.                               *)
LEMMA RepReadStep ==
    ASSUME TypeOK, ShapeInv, NEW k \in Conns, rep_read(k)
    PROVE  TypeOK' /\ ShapeInv' /\ Step
<1> DEFINE w == conn[k]
           f == Head(w.toRep)
           t == Tail(w.toRep)
           fs == Append(w.repPartial, f)
           it == PeerInfo(k, fs)
           x1 == [w EXCEPT !.toRep = t]
           x2 == [x1 EXCEPT !.repPartial = fs]
           x3 == [x1 EXCEPT !.repPartial = <<>>, !.repReader = "push", !.repItem = it]
           x4 == [x1 EXCEPT !.repPartial = <<>>, !.repReader = "stopped"]
<1>1. /\ w \in Connections /\ ConnOk(k, w) /\ w.toRep \in Seq(Frames) /\ w.repPartial \in Seq(Frames)
      /\ AllMore(<<>>) /\ <<>> \in Seq(Frames)
  BY Zenon, Link
<1>2. w.repReader = "idle" /\ w.toRep # <<>> /\ UNCHANGED <<cfg, req, rep, talk>>
  BY Zenon DEF rep_read
<1>3. /\ f \in Frames /\ t \in Seq(Frames) /\ Apart(t) /\ Payloads(t)
      /\ \A q : Ending(t, q) => Ending(w.toRep, q)
      /\ Final(f) => /\ Ending(w.toRep, f.of) /\ ~Ending(t, f.of) /\ f.part # 0
  <2>1. Apart(w.toRep) /\ Payloads(w.toRep)
    BY Zenon, <1>1 DEF ConnOk
  <2> HIDE DEF w
  <2> QED BY ZenonT(60), <1>1, <1>2, <2>1, TailFrames
<1>4. conn' = [conn EXCEPT ![k] = IF f.more THEN x2 ELSE IF w.rep = "up" THEN x3 ELSE x4]
  BY Zenon DEF rep_read
<1>5. excused' \subseteq Requests /\ UNCHANGED <<cfg, req, rep, asked, answered, lost>>
  BY Zenon, <1>2 DEF TypeOK, talk
<1>6. AllMore(w.repPartial)
  BY ZenonT(60), <1>1 DEF ConnOk
<1>7. fs \in Seq(Frames) /\ (f.more => AllMore(fs))
  BY ZenonT(60), <1>1, <1>3, <1>6, AppendFrames
<1>8. Final(f) => /\ it \in Items /\ it.pipe = k /\ Len(it.payload) > 0 /\ AllMore(it.prefix)
                  /\ About(it) = f.of
  BY ZenonT(60), <1>1, <1>3, <1>6, PeerItem
<1> HIDE DEF f, t, fs, it, w
<1>9. CASE f.more
  <2>1. x2 \in Connections /\ x2.toReq = w.toReq /\ x2.toRep = t /\ x2.partial = w.partial
        /\ x2.repPartial = fs /\ x2.reader = w.reader /\ x2.item = w.item
        /\ x2.repReader = "idle" /\ x2.repItem = w.repItem
    BY ZenonT(60), <1>1, <1>2, <1>3, <1>7 DEF Connections
  <2>2. conn' = [conn EXCEPT ![k] = x2]
    BY Zenon, <1>4, <1>9
  <2> HIDE DEF x2
  <2>3. \A l, q : InConn(x2, l, q) => InConn(w, l, q)
    BY Zenon, <1>3, <2>1 DEF InConn
  <2>4. FineConn(k, x2)
    BY Zenon, <1>1, <1>3, <1>7, <1>9, <2>1, <2>3 DEF FineConn, ConnOk
  <2> QED BY Zenon, <1>5, <2>2, <2>3, <2>4, ConnDrops DEF w
<1>10. CASE ~f.more /\ w.rep # "up"
  <2>1. x4 \in Connections /\ x4.toReq = w.toReq /\ x4.toRep = t /\ x4.partial = w.partial
        /\ x4.repPartial = <<>> /\ x4.reader = w.reader /\ x4.item = w.item
        /\ x4.repReader = "stopped" /\ x4.repItem = w.repItem
    BY ZenonT(60), <1>1, <1>3 DEF Connections
  <2>2. conn' = [conn EXCEPT ![k] = x4]
    BY Zenon, <1>4, <1>10
  <2> HIDE DEF x4
  <2>3. \A l, q : InConn(x4, l, q) => InConn(w, l, q)
    BY Zenon, <1>3, <2>1 DEF InConn
  <2>4. FineConn(k, x4)
    BY Zenon, <1>1, <1>3, <2>1, <2>3 DEF FineConn, ConnOk
  <2> QED BY Zenon, <1>5, <2>2, <2>3, <2>4, ConnDrops DEF w
<1>11. CASE ~f.more /\ w.rep = "up"
  <2> DEFINE q == f.of
  <2>1. x3 \in Connections /\ x3.toReq = w.toReq /\ x3.toRep = t /\ x3.partial = w.partial
        /\ x3.repPartial = <<>> /\ x3.reader = w.reader /\ x3.item = w.item
        /\ x3.repReader = "push" /\ x3.repItem = it
    BY ZenonT(60), <1>1, <1>3, <1>8, <1>11 DEF Connections, Final
  <2>2. conn' = [conn EXCEPT ![k] = x3]
    BY Zenon, <1>4, <1>11
  <2> HIDE DEF x3
  <2>3. Ending(w.toRep, q) /\ ~Ending(t, q) /\ it # None /\ it.pipe = k
        /\ Len(it.payload) > 0 /\ AllMore(it.prefix) /\ About(it) = q
    BY Zenon, <1>3, <1>8, <1>11, NoneAssumption DEF Final
  <2> HIDE DEF q
  <2>4. \A l, p : InConn(x3, l, p) => InConn(w, l, p) \/ (p = q /\ l = "repItem")
    BY ZenonT(60), <1>3, <2>1, <2>3 DEF InConn
  <2>5. InConn(w, "toRep", q) /\ ~InConn(x3, "toRep", q)
    BY Zenon, <2>1, <2>3 DEF InConn
  <2>6. q[1] = ClientOf[k]
    BY ZenonT(60), <1>1, <2>5 DEF ConnOk
  <2>7. FineConn(k, x3)
    <3>1. \A l, p : InConn(x3, l, p) => p[1] = ClientOf[k]
      BY Zenon, <1>1, <2>4, <2>6 DEF ConnOk
    <3>2. Sound(it)
      BY Zenon, <2>3, <2>6 DEF Sound
    <3> QED BY Zenon, <1>1, <1>3, <2>1, <2>3, <3>1, <3>2 DEF FineConn, ConnOk
  <2>8. Carries(w, x3, q, "toRep", "repItem")
    BY Zenon, <2>4, <2>5 DEF Carries, Came
  <2> QED BY Zenon, <1>5, <2>2, <2>7, <2>8, ConnMoves DEF w
<1> QED BY Zenon, <1>9, <1>10, <1>11

(* A connection that carries what another record of it does, or less.      *)
Trims(w, x) ==
    /\ x \in Connections
    /\ x.toReq = w.toReq /\ x.toRep = w.toRep
    /\ x.partial = w.partial \/ x.partial = <<>>
    /\ x.repPartial = w.repPartial \/ x.repPartial = <<>>
    /\ (x.reader = w.reader /\ x.item = w.item) \/ x.reader # "push"
    /\ (x.repReader = w.repReader /\ x.repItem = w.repItem) \/ x.repReader # "push"

(* Its record stays in shape.                                              *)
LEMMA TrimsConn ==
    ASSUME NEW k, NEW w, ConnOk(k, w), NEW x, Trims(w, x)
    PROVE  FineConn(k, x) /\ \A l, q : InConn(x, l, q) => InConn(w, l, q)
<1>1. \A l, q : InConn(x, l, q) => InConn(w, l, q)
  BY Zenon DEF InConn, Trims
<1>2. AllMore(<<>>)
  BY SeqNone DEF AllMore
<1>3. /\ Apart(x.toRep) /\ Apart(x.toReq) /\ Payloads(x.toRep) /\ Payloads(x.toReq)
      /\ AllMore(x.partial) /\ AllMore(x.repPartial)
  BY ZenonT(60), <1>2 DEF ConnOk, Trims
<1>4. /\ x.reader = "push" => Message(x.item)
      /\ x.repReader = "push" => x.repItem # None /\ x.repItem.pipe = k /\ Sound(x.repItem)
  BY Zenon DEF ConnOk, Trims
<1>5. \A l, q : InConn(x, l, q) => q[1] = ClientOf[k]
  BY Zenon, <1>1 DEF ConnOk
<1>6. ConnOk(k, x)
  BY <1>3, <1>4, <1>5, Zenon DEF ConnOk
<1> QED BY Zenon, <1>1, <1>6 DEF FineConn, Trims

(* The REQ socket's queue stays full for a second.                         *)
LEMMA PushTimeoutStep ==
    ASSUME TypeOK, ShapeInv, NEW k \in Conns, push_times_out(k)
    PROVE  TypeOK' /\ ShapeInv' /\ Step
<1> DEFINE w == conn[k]
           x == [w EXCEPT !.reader = "notify", !.item = <<>>]
<1>1. w \in Connections /\ ConnOk(k, w) /\ w.item \in Seq(Frames) /\ <<>> \in Seq(Frames)
  BY Zenon, Link
<1>2. /\ w.reader = "push" /\ conn' = [conn EXCEPT ![k] = x]
      /\ excused' = excused \cup {Last(w.item).of}
      /\ UNCHANGED <<cfg, req, rep, asked, answered, lost>>
  BY Zenon DEF push_times_out
<1>3. Trims(w, x)
  BY Zenon, <1>1 DEF Trims, Connections
<1>4. Last(w.item) \in Frames
  <2>1. Message(w.item)
    BY Zenon, <1>1, <1>2 DEF ConnOk
  <2>2. w.item # <<>>
    BY <2>1, SeqNone DEF Message
  <2> QED BY Zenon, <1>1, <2>2, TailMessage
<1>5. excused' \subseteq Requests
  BY Zenon, <1>2, <1>4 DEF Frames, TypeOK
<1> HIDE DEF x
<1>6. FineConn(k, x) /\ \A l, q : InConn(x, l, q) => InConn(w, l, q)
  BY Zenon, <1>1, <1>3, TrimsConn
<1> QED BY Zenon, <1>2, <1>5, <1>6, ConnDrops

(* What a REP socket's reader has is about a request.                      *)
LEMMA ItemFacts ==
    ASSUME NEW i \in Items, Sound(i)
    PROVE  About(i) \in Requests
<1>1. i.payload \in Seq(Frames) /\ Len(i.payload) > 0
  BY Zenon DEF Items, Sound
<1>2. i.payload # <<>>
  BY <1>1, SeqNone
<1>3. Last(i.payload) \in Frames
  BY Zenon, <1>1, <1>2, TailMessage
<1> QED BY Zenon, <1>3 DEF About, Frames

(* A REP socket's queue stays full for a second.                           *)
LEMMA RepPushTimeoutStep ==
    ASSUME TypeOK, ShapeInv, NEW k \in Conns, rep_push_times_out(k)
    PROVE  TypeOK' /\ ShapeInv' /\ Step
<1> DEFINE w == conn[k]
           x == [w EXCEPT !.repReader = "idle", !.repItem = None]
<1>1. w \in Connections /\ ConnOk(k, w)
  BY Zenon, Link
<1>2. /\ w.repReader = "push" /\ conn' = [conn EXCEPT ![k] = x]
      /\ excused' = excused \cup {About(w.repItem)}
      /\ UNCHANGED <<cfg, req, rep, asked, answered, lost>>
  BY Zenon DEF rep_push_times_out, About
<1>3. Trims(w, x)
  BY Zenon, <1>1 DEF Trims, Connections
<1>4. w.repItem \in Items /\ Sound(w.repItem)
  BY Zenon, <1>1, <1>2 DEF ConnOk, Connections
<1>5. excused' \subseteq Requests
  BY Zenon, <1>2, <1>4, ItemFacts DEF TypeOK
<1> HIDE DEF x
<1>6. FineConn(k, x) /\ \A l, q : InConn(x, l, q) => InConn(w, l, q)
  BY Zenon, <1>1, <1>3, TrimsConn
<1> QED BY Zenon, <1>2, <1>5, <1>6, ConnDrops

(* A connection breaks, and some of the frames are gone.                   *)
LEMMA BreakStep ==
    ASSUME TypeOK, ShapeInv, NEW k \in Conns, break(k)
    PROVE  TypeOK' /\ ShapeInv' /\ Step
<1> DEFINE w == conn[k]
<1>1. w \in Connections /\ ConnOk(k, w) /\ w.toReq \in Seq(Frames) /\ w.toRep \in Seq(Frames)
  BY Zenon, Link
<1>2. PICK i \in 0..Len(w.toReq), j \in 0..Len(w.toRep) :
          conn' = [conn EXCEPT ![k] = [w EXCEPT !.link = "broken",
                                         !.toReq = SubSeq(@, 1, i), !.toRep = SubSeq(@, 1, j)]]
  BY Zenon DEF break
<1> DEFINE a == SubSeq(w.toReq, 1, i)
           b == SubSeq(w.toRep, 1, j)
           x == [w EXCEPT !.link = "broken", !.toReq = a, !.toRep = b]
<1>3. conn' = [conn EXCEPT ![k] = x] /\ UNCHANGED <<cfg, req, rep, talk>>
  BY ZenonT(60), <1>2 DEF break
<1>4. Apart(w.toReq) /\ Payloads(w.toReq) /\ Apart(w.toRep) /\ Payloads(w.toRep)
  BY Zenon, <1>1 DEF ConnOk
<1> HIDE DEF w
<1>5. a \in Seq(Frames) /\ Apart(a) /\ Payloads(a) /\ \A q : Ending(a, q) => Ending(w.toReq, q)
  BY Zenon, <1>1, <1>4, CutFrames
<1>6. b \in Seq(Frames) /\ Apart(b) /\ Payloads(b) /\ \A q : Ending(b, q) => Ending(w.toRep, q)
  BY Zenon, <1>1, <1>4, CutFrames
<1> HIDE DEF a, b
<1>7. x \in Connections /\ x.toReq = a /\ x.toRep = b /\ x.partial = w.partial
      /\ x.repPartial = w.repPartial /\ x.reader = w.reader /\ x.item = w.item
      /\ x.repReader = w.repReader /\ x.repItem = w.repItem
  BY ZenonT(60), <1>1, <1>5, <1>6 DEF Connections
<1> HIDE DEF x
<1>8. \A l, q : InConn(x, l, q) => InConn(w, l, q)
  BY Zenon, <1>5, <1>6, <1>7 DEF InConn
<1>9. FineConn(k, x)
  BY ZenonT(60), <1>1, <1>5, <1>6, <1>7, <1>8 DEF FineConn, ConnOk
<1>10. excused' \subseteq Requests /\ UNCHANGED <<cfg, req, rep, asked, answered, lost>>
  BY Zenon, <1>3 DEF TypeOK, talk
<1> QED BY Zenon, <1>3, <1>8, <1>9, <1>10, ConnDrops DEF w

(* The endpoint of a broken connection is removed.                         *)
LEMMA EndpointStep ==
    ASSUME TypeOK, ShapeInv, NEW k \in Conns, endpoint_removed(k)
    PROVE  TypeOK' /\ ShapeInv' /\ Step
<1> DEFINE w == conn[k]
           x == [w EXCEPT !.req = "gone"]
<1>1. w \in Connections /\ ConnOk(k, w)
  BY Link
<1>2. conn' = [conn EXCEPT ![k] = x] /\ UNCHANGED <<cfg, req, rep, talk>>
  BY Zenon DEF endpoint_removed
<1>3. Trims(w, x)
  BY ZenonT(60), <1>1 DEF Trims, Connections
<1> HIDE DEF x
<1>4. FineConn(k, x) /\ \A l, q : InConn(x, l, q) => InConn(w, l, q)
  BY <1>1, <1>3, TrimsConn
<1>5. excused' \subseteq Requests /\ UNCHANGED <<cfg, req, rep, asked, answered, lost>>
  BY Zenon, <1>2 DEF TypeOK, talk
<1> QED BY Zenon, <1>2, <1>4, <1>5, ConnDrops

(* A step of a connection and its client that passes nothing on.           *)
LEMMA BothPass ==
    ASSUME TypeOK, ShapeInv, NEW k \in Conns, NEW x, Trims(conn[k], x),
           NEW r, Plain(ClientOf[k], r),
           conn' = [conn EXCEPT ![k] = x], req' = [req EXCEPT ![ClientOf[k]] = r],
           UNCHANGED <<cfg, rep, asked, answered>>, excused' \subseteq Requests,
           \/ r.state = req[ClientOf[k]].state /\ UNCHANGED lost
           \/ r.state = None /\ lost' = lost \cup Pending(ClientOf[k])
    PROVE  TypeOK' /\ ShapeInv' /\ Step
<1> DEFINE c == ClientOf[k]
           s == ServerOf[k]
<1>1. c \in Clients /\ s \in Servers /\ FineReq(c, req[c]) /\ FineRep(rep[s])
      /\ FineConn(k, conn[k])
  BY Zenon, Records
<1>2. FineReq(c, r) /\ \A l, q : InReq(r, l, q) => InReq(req[c], l, q)
  BY ZenonT(60), <1>1, DropsData DEF FineReq, Plain
<1>3. FineConn(k, x) /\ \A l, q : InConn(x, l, q) => InConn(conn[k], l, q)
  BY ZenonT(60), <1>1, TrimsConn DEF FineConn
<1>4. rep' = [rep EXCEPT ![s] = rep[s]] /\ asked' \cup excused' \subseteq Requests
      /\ cfg' = cfg /\ answered' = answered
  BY ZenonT(60), <1>1 DEF TypeOK
<1>5. r.n = req[c].n /\ (r.at = "sent" <=> req[c].at = "sent")
  BY ZenonT(60) DEF Plain
<1> HIDE DEF c, s
<1>6. \/ r.state = req[c].state /\ UNCHANGED lost
      \/ r.state = None /\ lost' = lost \cup Pending(c)
  BY Zenon DEF c
<1>7. req' = [req EXCEPT ![c] = r]
  BY Zenon DEF c
<1>8. /\ TypeOK' /\ ShapeInv' /\ Where(c, r, k, x, s, rep[s])
      /\ Stays \/ Moves => Step
      /\ \A l, q : InReq(req[c], l, q) => There(l, c, q)
      /\ \A l, q : InConn(conn[k], l, q) => There(l, k, q)
      /\ \A l, q : InRep(rep[s], l, q) => There(l, s, q)
  BY Zenon, <1>1, <1>2, <1>3, <1>4, <1>5, <1>6, <1>7, Passes
<1>9. Stays
  BY <1>2, <1>3, <1>8 DEF Where, Stays
<1> QED BY ZenonT(60), <1>8, <1>9

(* notify_one() changes nothing but the permit or the wake-up.             *)
LEMMA NotifyPlain ==
    ASSUME NEW c, NEW g, Plain(c, g)
    PROVE  Plain(c, notify_one(g)) /\ notify_one(g).state = g.state
<1> DEFINE r == notify_one(g)
<1>1. \/ r = [g EXCEPT !.permit = TRUE]
      \/ g.at = "wait" /\ r = [g EXCEPT !.woken = "one"]
  BY Zenon DEF notify_one, Waiting
<1> HIDE DEF r
<1>2. Plain(c, r) /\ r.state = g.state
  BY ZenonT(60), <1>1 DEF ReqSockets, ReqCtl, Drops, Plain
<1> QED BY Zenon, <1>2 DEF r

(* The reader tells the task of a REQ socket.                              *)
LEMMA NotifyStep ==
    ASSUME TypeOK, ShapeInv, NEW k \in Conns, notify(k)
    PROVE  TypeOK' /\ ShapeInv' /\ Step
<1> DEFINE c == ClientOf[k]
           w == conn[k]
           x == [w EXCEPT !.reader = "idle"]
           r == notify_one(req[c])
<1>1. w \in Connections /\ c \in Clients /\ req[c] \in ReqSockets /\ ReqCtl(c, req[c])
  BY Zenon, Link, Client
<1>2. /\ conn' = [conn EXCEPT ![k] = x] /\ req' = [req EXCEPT ![c] = r]
      /\ UNCHANGED <<cfg, rep, talk>>
  BY Zenon DEF notify
<1>3. Trims(w, x)
  BY Zenon, <1>1 DEF Trims, Connections
<1>4. Plain(c, req[c])
  BY Zenon, <1>1 DEF Plain, Drops
<1>5. Plain(c, r) /\ r.state = req[c].state
  BY Zenon, <1>4, NotifyPlain
<1>6. excused' \subseteq Requests /\ UNCHANGED <<cfg, rep, asked, answered>> /\ UNCHANGED lost
  BY Zenon, <1>2 DEF TypeOK, talk
<1> HIDE DEF x, r
<1> QED BY Zenon, <1>2, <1>3, <1>5, <1>6, BothPass

(* A connection is attached at both ends.                                  *)
LEMMA AttachStep ==
    ASSUME TypeOK, ShapeInv, NEW k \in Conns, attach(k)
    PROVE  TypeOK' /\ ShapeInv' /\ Step
<1> DEFINE c == ClientOf[k]
           o == req[c]
           w == conn[k]
           x == [w EXCEPT !.link = "up", !.req = "up", !.rep = "up"]
           u == Uri(k)
           b == IF Contains(o.lb, u) THEN o.lb ELSE Append(o.lb, u)
           r == [o EXCEPT !.lb = b]
<1>1. w \in Connections /\ c \in Clients /\ o \in ReqSockets /\ ReqCtl(c, o) /\ u \in Servers
  BY Zenon, Link, Client, Records DEF Uri
<1>2. /\ conn' = [conn EXCEPT ![k] = x] /\ req' = [req EXCEPT ![c] = r]
      /\ UNCHANGED <<cfg, rep, talk>>
  BY Zenon, <1>1 DEF attach, TypeOK
<1>3. Trims(w, x)
  BY ZenonT(60), <1>1 DEF Trims, Connections
<1>4. b \in Seq(Servers) /\ Distinct(b)
  <2>1. o.lb \in Seq(Servers) /\ Distinct(o.lb)
    BY Zenon, <1>1 DEF ReqSockets, ReqCtl
  <2> HIDE DEF o, u
  <2> QED BY Zenon, <1>1, <2>1, ExtendList
<1> HIDE DEF b
<1>5. Plain(c, r) /\ r.state = o.state
  BY Zenon, <1>1, <1>4 DEF ReqSockets, ReqCtl, Drops, Plain
<1>6. excused' \subseteq Requests /\ UNCHANGED <<cfg, rep, asked, answered>> /\ UNCHANGED lost
  BY Zenon, <1>2 DEF TypeOK, talk
<1> HIDE DEF x, r
<1> QED BY Zenon, <1>2, <1>3, <1>5, <1>6, BothPass

(* A REQ socket's pipe is detached.                                        *)
LEMMA DetachedStep ==
    ASSUME TypeOK, ShapeInv, NEW k \in Conns, pipe_detached(k)
    PROVE  TypeOK' /\ ShapeInv' /\ Step
<1> DEFINE c == ClientOf[k]
           o == req[c]
           w == conn[k]
           x == [w EXCEPT !.req = "detached", !.partial = <<>>]
           b == Without(o.lb, Uri(k))
           g == [o EXCEPT !.lb = b, !.buffer = <<>>]
           h == [g EXCEPT !.state = None]
           r == notify_one(h)
           mine == Pending(c) # {} /\ o.state.to = Uri(k)
<1>1. w \in Connections /\ c \in Clients /\ o \in ReqSockets /\ ReqCtl(c, o)
      /\ <<>> \in Seq(Frames)
  BY Zenon, Link, Client
<1>2. Trims(w, x) /\ conn' = [conn EXCEPT ![k] = x] /\ UNCHANGED <<cfg, rep, asked, answered>>
  BY Zenon, <1>1 DEF pipe_detached, Trims, Connections
<1>3. b \in Seq(Servers) /\ Distinct(b)
  <2>1. o.lb \in Seq(Servers) /\ Distinct(o.lb)
    BY Zenon, <1>1 DEF ReqSockets, ReqCtl
  <2> HIDE DEF o
  <2> QED BY Zenon, <2>1, ShrinkList
<1>4. CASE mine
  <2>1. /\ req' = [req EXCEPT ![c] = r] /\ lost' = lost \cup Pending(c) /\ UNCHANGED excused
    BY Zenon, <1>4 DEF pipe_detached
  <2> HIDE DEF b
  <2>2. Plain(c, h) /\ h.state = None
    BY Zenon, <1>1, <1>3 DEF ReqSockets, ReqCtl, Drops, Plain
  <2> HIDE DEF h
  <2>3. Plain(c, r) /\ r.state = None
    BY Zenon, <2>2, NotifyPlain
  <2>4. excused' \subseteq Requests
    BY Zenon, <2>1 DEF TypeOK
  <2> HIDE DEF x, r
  <2> QED BY Zenon, <1>2, <2>1, <2>3, <2>4, BothPass
<1>5. CASE ~mine
  <2>1. /\ req' = [req EXCEPT ![c] = g] /\ UNCHANGED lost
        /\ excused' \subseteq excused \cup Pending(c)
    BY Zenon, <1>5 DEF pipe_detached
  <2> HIDE DEF b
  <2>2. Plain(c, g) /\ g.state = o.state
    BY ZenonT(60), <1>1, <1>3 DEF ReqSockets, ReqCtl, Drops, Plain
  <2>3. Pending(c) \subseteq Requests
    BY Zenon, <1>1, ClientFacts
  <2>4. excused' \subseteq Requests
    BY Zenon, <2>1, <2>3 DEF TypeOK
  <2> HIDE DEF x, g
  <2> QED BY Zenon, <1>2, <2>1, <2>2, <2>4, BothPass
<1> QED BY Zenon, <1>4, <1>5

(* A whole reply goes into the queue of a REQ socket.                      *)
LEMMA PushStep ==
    ASSUME TypeOK, ShapeInv, NEW k \in Conns, push(k)
    PROVE  TypeOK' /\ ShapeInv' /\ Step
<1> DEFINE c == ClientOf[k]
           s == ServerOf[k]
           o == req[c]
           w == conn[k]
           i == w.item
           x == [w EXCEPT !.reader = "notify", !.item = <<>>]
           u == Append(o.queue, i)
           r == [o EXCEPT !.queue = u]
           q == Last(i).of
<1>1. /\ w \in Connections /\ ConnOk(k, w) /\ i \in Seq(Frames) /\ <<>> \in Seq(Frames)
      /\ c \in Clients /\ o \in ReqSockets /\ ReqCtl(c, o) /\ ReqData(c, o)
  BY Zenon, Link, Client
<1>2. s \in Servers /\ FineRep(rep[s])
  BY Zenon, Records
<1>3. /\ w.reader = "push" /\ Len(o.queue) < 1 /\ conn' = [conn EXCEPT ![k] = x]
      /\ req' = [req EXCEPT ![c] = r] /\ UNCHANGED <<cfg, rep, talk>>
  BY Zenon, <1>1 DEF push, HasRoom, TypeOK
<1>4. Message(i) /\ InConn(w, "item", q)
  BY Zenon, <1>1, <1>3 DEF ConnOk, InConn
<1>5. q[1] = c
  BY Zenon, <1>1, <1>4 DEF ConnOk
<1>6. u \in Seq(Seq(Frames)) /\ Len(u) = 1 /\ Head(u) = i
  <2>1. o.queue \in Seq(Seq(Frames))
    BY Zenon, <1>1 DEF ReqSockets
  <2> HIDE DEF o, i
  <2>2. Len(o.queue) = 0
    BY SMTT(60), <1>3, <2>1, SeqLen
  <2>3. u \in Seq(Seq(Frames)) /\ Len(u) = Len(o.queue) + 1 /\ u[Len(o.queue) + 1] = i
    BY <1>1, <2>1, SeqAdd
  <2> HIDE DEF u
  <2>4. Len(u) = 1 /\ u[1] = i
    BY <2>2, <2>3
  <2>5. u # <<>>
    BY <2>4, SeqNone
  <2>6. Head(u) = u[1]
    BY <2>3, <2>5, SeqBehind
  <2> QED BY ZenonT(60), <2>3, <2>4, <2>6
<1> HIDE DEF u
<1>7. /\ r \in ReqSockets /\ r.queue = u /\ r.buffer = o.buffer /\ r.result = o.result
      /\ r.state = o.state /\ r.n = o.n /\ r.at = o.at /\ ReqCtl(c, r)
  BY ZenonT(60), <1>1, <1>6 DEF ReqSockets, ReqCtl
<1> HIDE DEF r, q, i
<1>8. \A l, p : InReq(r, l, p) => InReq(o, l, p) \/ (p = q /\ l = "queue")
  BY Zenon, <1>6, <1>7 DEF InReq, q
<1>9. FineReq(c, r)
  <2>1. \A l, p : InReq(r, l, p) => p[1] = c
    BY Zenon, <1>1, <1>5, <1>8 DEF ReqData
  <2>2. Len(r.queue) <= 1
    <3>1. Len(u) = 1
      BY Zenon, <1>6
    <3>2. r.queue = u
      BY Zenon, <1>7
    <3>3. Len(u) <= 1
      BY <3>1
    <3> QED BY <3>2, <3>3, Zenon
  <2>3. Message(Head(r.queue))
    BY Zenon, <1>4, <1>6, <1>7
  <2> QED BY ZenonT(60), <1>7, <2>1, <2>2, <2>3 DEF FineReq, ReqData
<1>10. Trims(w, x) /\ ~InConn(x, "item", q)
  BY ZenonT(60), <1>1 DEF Trims, Connections, InConn
<1> HIDE DEF x
<1>11. FineConn(k, x) /\ \A l, p : InConn(x, l, p) => InConn(w, l, p)
  BY Zenon, <1>1, <1>10, TrimsConn
<1>12. rep' = [rep EXCEPT ![s] = rep[s]] /\ asked' \cup excused' \subseteq Requests
       /\ cfg' = cfg /\ answered' = answered /\ lost' = lost
  BY ZenonT(60), <1>2, <1>3 DEF TypeOK, talk
<1> HIDE DEF s, c
<1>13. /\ TypeOK' /\ ShapeInv' /\ Where(c, r, k, x, s, rep[s])
       /\ Stays \/ Moves => Step
       /\ \A l, p : InReq(req[c], l, p) => There(l, c, p)
       /\ \A l, p : InConn(conn[k], l, p) => There(l, k, p)
       /\ \A l, p : InRep(rep[s], l, p) => There(l, s, p)
  BY Zenon, <1>1, <1>2, <1>3, <1>7, <1>9, <1>11, <1>12, Passes
<1>14. There("item", k, q) /\ ~Then("item", k, q)
  BY SMTT(60), <1>4, <1>10, <1>13 DEF Where
<1>15. \A l, d, p : Then(l, d, p) => There(l, d, p) \/ (p = q /\ l = "queue" /\ d = c)
  BY <1>8, <1>11, <1>13 DEF Where
<1>16. Move(q, "item", k, "queue", c)
  BY Zenon, <1>14, <1>15 DEF Move, Came
<1>17. Moves
  BY <1>16, Zenon DEF Moves
<1> QED BY Zenon, <1>13, <1>17

(* A step of a connection and a server.                                    *)
LEMMA RepPasses ==
    ASSUME TypeOK, ShapeInv, NEW k \in Conns, NEW x, FineConn(k, x),
           NEW s \in Servers, NEW y, FineRep(y),
           conn' = [conn EXCEPT ![k] = x], rep' = [rep EXCEPT ![s] = y],
           UNCHANGED <<cfg, req, talk>>
    PROVE  /\ TypeOK' /\ ShapeInv'
           /\ Stays \/ Moves => Step
           /\ \A l, o, q : Then(l, o, q) =>
                 There(l, o, q) \/ (o = k /\ InConn(x, l, q)) \/ (o = s /\ InRep(y, l, q))
           /\ \A q : Then("repItem", k, q) <=> InConn(x, "repItem", q)
           /\ \A q : Then("repQueue", s, q) <=> InRep(y, "repQueue", q)
           /\ \A q : Then("holds", s, q) <=> InRep(y, "holds", q)
           /\ \A l, q : InConn(conn[k], l, q) => There(l, k, q)
           /\ \A l, q : InRep(rep[s], l, q) => There(l, s, q)
<1> DEFINE c == ClientOf[k]
<1>1. c \in Clients /\ FineReq(c, req[c])
  BY ZenonT(60), Records
<1>2. req' = [req EXCEPT ![c] = req[c]]
      /\ asked' \cup excused' \subseteq Requests /\ cfg' = cfg /\ answered' = answered
      /\ lost' = lost
  BY Zenon, <1>1 DEF TypeOK, talk
<1> HIDE DEF c
<1>3. /\ TypeOK' /\ ShapeInv' /\ Where(c, req[c], k, x, s, y)
      /\ Stays \/ Moves => Step
      /\ \A l, q : InReq(req[c], l, q) => There(l, c, q)
      /\ \A l, q : InConn(conn[k], l, q) => There(l, k, q)
      /\ \A l, q : InRep(rep[s], l, q) => There(l, s, q)
  BY ZenonT(60), <1>1, <1>2, Passes
<1>4. \A l, o, q : Then(l, o, q) =>
         There(l, o, q) \/ (o = k /\ InConn(x, l, q)) \/ (o = s /\ InRep(y, l, q))
  BY Zenon, <1>3 DEF Where
<1>5. \A q : Then("repItem", k, q) <=> InConn(x, "repItem", q)
  BY <1>3 DEF Where
<1>6. /\ \A q : Then("repQueue", s, q) <=> InRep(y, "repQueue", q)
      /\ \A q : Then("holds", s, q) <=> InRep(y, "holds", q)
  BY <1>3 DEF Where
<1> QED BY Zenon, <1>3, <1>4, <1>5, <1>6

(* A queue of requests with one more.                                      *)
LEMMA ExtendQueue ==
    ASSUME NEW u \in Seq(Items), NEW i \in Items, Sound(i),
           \A a, b \in 1..Len(u) : About(u[a]) = About(u[b]) => a = b,
           \A a \in 1..Len(u) : Sound(u[a]) /\ About(u[a]) # About(i)
    PROVE  /\ Append(u, i) \in Seq(Items) /\ Len(Append(u, i)) = Len(u) + 1
           /\ \A a, b \in 1..Len(Append(u, i)) :
                 About(Append(u, i)[a]) = About(Append(u, i)[b]) => a = b
           /\ \A a \in 1..Len(Append(u, i)) : Sound(Append(u, i)[a])
           /\ \A a \in 1..Len(Append(u, i)) :
                 \/ a \in 1..Len(u) /\ Append(u, i)[a] = u[a]
                 \/ Append(u, i)[a] = i
<1> DEFINE v == Append(u, i)
           n == Len(u)
<1>1. /\ v \in Seq(Items) /\ Len(v) = n + 1 /\ n \in Nat /\ v[n + 1] = i
      /\ \A a \in 1..n : v[a] = u[a]
  BY SeqAdd, SeqLen
<1> HIDE DEF v, n
<1>2. \A a \in 1..Len(v) : a \in 1..n \/ a = n + 1
  BY <1>1
<1>3. \A a \in 1..Len(v) : (a \in 1..n /\ v[a] = u[a]) \/ (a = n + 1 /\ v[a] = i)
  BY <1>1, <1>2, Zenon
<1>4. \A a, b \in 1..Len(v) : About(v[a]) = About(v[b]) => a = b
  BY <1>3, Zenon DEF n
<1>5. \A a \in 1..Len(v) : Sound(v[a])
  BY <1>3, Zenon DEF n
<1> QED BY ZenonT(60), <1>1, <1>3, <1>4, <1>5 DEF v, n

(* A queue of requests without its first.                                  *)
LEMMA ShrinkQueue ==
    ASSUME NEW u \in Seq(Items), u # <<>>,
           \A a, b \in 1..Len(u) : About(u[a]) = About(u[b]) => a = b,
           \A a \in 1..Len(u) : Sound(u[a])
    PROVE  /\ Head(u) \in Items /\ Sound(Head(u)) /\ Head(u) = u[1] /\ 1 \in 1..Len(u)
           /\ Tail(u) \in Seq(Items) /\ Len(Tail(u)) = Len(u) - 1 /\ Len(u) \in Nat
           /\ \A a, b \in 1..Len(Tail(u)) : About(Tail(u)[a]) = About(Tail(u)[b]) => a = b
           /\ \A a \in 1..Len(Tail(u)) :
                 /\ Sound(Tail(u)[a]) /\ About(Tail(u)[a]) # About(Head(u))
                 /\ \E b \in 1..Len(u) : Tail(u)[a] = u[b]
<1> DEFINE v == Tail(u)
           e == Head(u)
<1>1. /\ e \in Items /\ v \in Seq(Items) /\ Len(v) = Len(u) - 1 /\ Len(v) \in Nat
      /\ \A a \in 1..Len(v) : a + 1 \in 1..Len(u) /\ v[a] = u[a + 1]
      /\ e = u[1] /\ Len(u) \in Nat /\ 1 \in 1..Len(u)
  BY SeqBehind, SeqLen
<1> HIDE DEF v, e
<1>2. ASSUME NEW a \in 1..Len(v), NEW b \in 1..Len(v), About(v[a]) = About(v[b]) PROVE a = b
  <2>1. a + 1 = b + 1
    BY <1>1, <1>2
  <2> QED BY <2>1
<1>3. ASSUME NEW a \in 1..Len(v)
      PROVE  Sound(v[a]) /\ About(v[a]) # About(e) /\ \E b \in 1..Len(u) : v[a] = u[b]
  <2>1. a + 1 # 1 /\ a + 1 \in 1..Len(u) /\ v[a] = u[a + 1]
    BY <1>1, <1>3
  <2> QED BY Zenon, <1>1, <2>1
<1>4. Sound(e)
  BY Zenon, <1>1
<1> QED BY Zenon, <1>1, <1>2, <1>3, <1>4 DEF v, e

(* A request goes into the queue of a REP socket.                          *)
LEMMA RepPushStep ==
    ASSUME TypeOK, ShapeInv, OnceInv, NEW k \in Conns, rep_push(k)
    PROVE  TypeOK' /\ ShapeInv' /\ Step
<1> DEFINE s == ServerOf[k]
           z == rep[s]
           w == conn[k]
           i == w.repItem
           q == About(i)
           x == [w EXCEPT !.repReader = "idle", !.repItem = None]
           u == z.queue
           v == Append(u, i)
           y == [z EXCEPT !.queue = v]
<1>1. w \in Connections /\ ConnOk(k, w) /\ s \in Servers /\ z \in RepSockets /\ RepOk(z)
      /\ u \in Seq(Items)
  BY Zenon, Link, Records DEF FineRep, RepSockets
<1>2. /\ w.repReader = "push" /\ Len(u) < RcvHwm /\ conn' = [conn EXCEPT ![k] = x]
      /\ rep' = [rep EXCEPT ![s] = y] /\ UNCHANGED <<cfg, req, talk>>
  BY Zenon, <1>1 DEF rep_push, TypeOK
<1>3. i \in Items /\ Sound(i) /\ InConn(w, "repItem", q)
  BY Zenon, <1>1, <1>2 DEF ConnOk, Connections, InConn
<1>4. \A a \in 1..Len(u) : About(u[a]) # q
  <2> SUFFICES ASSUME NEW a \in 1..Len(u), About(u[a]) = q PROVE FALSE
    BY Zenon
  <2>1. There("repQueue", s, q)
    BY ZenonT(60), <1>1 DEF There, Place, InRep
  <2>2. There("repItem", k, q)
    BY ZenonT(60), <1>3 DEF There, Place
  <2> QED BY <2>1, <2>2 DEF OnceInv
<1>5. /\ v \in Seq(Items) /\ Len(v) = Len(u) + 1
      /\ \A a, b \in 1..Len(v) : About(v[a]) = About(v[b]) => a = b
      /\ \A a \in 1..Len(v) : Sound(v[a])
      /\ \A a \in 1..Len(v) : (a \in 1..Len(u) /\ v[a] = u[a]) \/ v[a] = i
  <2>1. /\ \A a, b \in 1..Len(u) : About(u[a]) = About(u[b]) => a = b
        /\ \A a \in 1..Len(u) : Sound(u[a])
    BY <1>1, Zenon DEF RepOk
  <2> HIDE DEF u, i
  <2> QED BY Zenon, <1>1, <1>3, <1>4, <2>1, ExtendQueue
<1>6. y \in RepSockets /\ y.queue = v /\ y.at = z.at /\ y.holds = z.holds /\ y.state = z.state
  BY Zenon, <1>1, <1>5 DEF RepSockets
<1>7. Trims(w, x) /\ ~InConn(x, "repItem", q)
  BY Zenon, <1>1 DEF Trims, Connections, InConn
<1>8. Len(v) <= RcvHwm
  <2> DEFINE n == Len(u)
  <2>1. n \in Nat /\ n < RcvHwm /\ RcvHwm \in Nat /\ Len(v) = n + 1
    BY Zenon, <1>1, <1>2, <1>5, SeqLen, ConstantsAssumption
  <2> HIDE DEF n, v
  <2> QED BY <2>1
<1> HIDE DEF v, y, x, i, u, s
<1>9. FineRep(y)
  <2>1. RepOk(y)
    BY <1>1, <1>5, <1>6, Zenon DEF RepOk
  <2> QED BY ZenonT(60), <1>6, <1>8, <2>1 DEF FineRep
<1> HIDE DEF q
<1>10. \A l, p : InRep(y, l, p) => InRep(z, l, p) \/ (p = q /\ l = "repQueue")
  <2>1. \A p : (\E a \in 1..Len(v) : About(v[a]) = p) =>
                  p = q \/ \E a \in 1..Len(u) : About(u[a]) = p
    BY <1>5, Zenon DEF q
  <2> QED BY Zenon, <1>6, <2>1 DEF InRep, u
<1>11. FineConn(k, x) /\ \A l, p : InConn(x, l, p) => InConn(w, l, p)
  BY <1>1, <1>7, TrimsConn
<1>12. /\ TypeOK' /\ ShapeInv'
       /\ Stays \/ Moves => Step
       /\ \A l, o, p : Then(l, o, p) =>
             There(l, o, p) \/ (o = k /\ InConn(x, l, p)) \/ (o = s /\ InRep(y, l, p))
       /\ \A p : Then("repItem", k, p) <=> InConn(x, "repItem", p)
       /\ \A l, p : InConn(conn[k], l, p) => There(l, k, p)
       /\ \A l, p : InRep(rep[s], l, p) => There(l, s, p)
  BY ZenonT(60), <1>1, <1>2, <1>9, <1>11, RepPasses
<1>13. There("repItem", k, q) /\ ~Then("repItem", k, q)
  BY ZenonT(60), <1>3, <1>7, <1>12
<1>14. \A l, o, p : Then(l, o, p) => There(l, o, p) \/ (p = q /\ l = "repQueue" /\ o = s)
  BY <1>10, <1>11, <1>12
<1>15. Move(q, "repItem", k, "repQueue", s)
  BY Zenon, <1>13, <1>14 DEF Move, Came
<1>16. Moves
  BY <1>15, Zenon DEF Moves
<1> QED BY ZenonT(60), <1>12, <1>16

(* The task of a REP socket takes a request.                               *)
LEMMA RepRecvStep ==
    ASSUME TypeOK, ShapeInv, NEW k \in Conns, rep_recv(ServerOf[k])
    PROVE  TypeOK' /\ ShapeInv' /\ Step
<1> DEFINE s == ServerOf[k]
           z == rep[s]
           u == z.queue
           v == Tail(u)
           i == Head(u)
           q == About(i)
           st == [pipe |-> i.pipe, prefix |-> i.prefix]
           y == [state |-> st, queue |-> v, at |-> "has", holds |-> q]
           x == conn[k]
<1>1. FineConn(k, x) /\ s \in Servers /\ FineRep(z) /\ z \in RepSockets /\ RepOk(z)
      /\ u \in Seq(Items)
  BY Zenon, Records DEF FineRep, RepSockets
<1>2. u # <<>> /\ rep' = [rep EXCEPT ![s] = y] /\ UNCHANGED <<cfg, req, conn, talk>>
  BY ZenonT(60) DEF rep_recv, About
<1>3. /\ i \in Items /\ Sound(i) /\ i = u[1] /\ 1 \in 1..Len(u)
      /\ v \in Seq(Items) /\ Len(v) = Len(u) - 1 /\ Len(u) \in Nat
      /\ \A a, b \in 1..Len(v) : About(v[a]) = About(v[b]) => a = b
      /\ \A a \in 1..Len(v) : Sound(v[a]) /\ About(v[a]) # q /\ \E b \in 1..Len(u) : v[a] = u[b]
  <2>1. /\ \A a, b \in 1..Len(u) : About(u[a]) = About(u[b]) => a = b
        /\ \A a \in 1..Len(u) : Sound(u[a])
    BY <1>1, Zenon DEF RepOk
  <2> HIDE DEF u
  <2> QED BY Zenon, <1>1, <1>2, <2>1, ShrinkQueue
<1> HIDE DEF i, v
<1>4. q \in Requests /\ st \in Addresses /\ q[1] = ClientOf[st.pipe] /\ AllMore(st.prefix)
  <2>1. q \in Requests
    BY ZenonT(60), <1>3, ItemFacts
  <2>2. st \in Addresses /\ st.pipe = i.pipe /\ st.prefix = i.prefix
    BY Zenon, <1>3 DEF Items, Addresses
  <2> QED BY ZenonT(60), <1>3, <2>1, <2>2 DEF Sound
<1> HIDE DEF st, q
<1>5. /\ y \in RepSockets /\ y.state = st /\ y.queue = v /\ y.at = "has" /\ y.holds = q
  <2>1. v \in Seq(Items) /\ st \in Addresses \cup {None} /\ q \in Requests \cup {None}
        /\ "has" \in {"idle", "has"}
    BY Zenon, <1>3, <1>4
  <2> QED BY <2>1, Zenon DEF RepSockets
<1>6. Len(v) <= RcvHwm
  <2> DEFINE n == Len(u)
  <2>1. n \in Nat /\ n <= RcvHwm /\ RcvHwm \in Nat /\ Len(v) = n - 1
    BY Zenon, <1>1, <1>3, ConstantsAssumption DEF FineRep
  <2> HIDE DEF n
  <2> QED BY <2>1
<1> HIDE DEF y, s, x, u
<1>7. FineRep(y)
  <2>1. RepOk(y)
    BY <1>3, <1>4, <1>5, Zenon DEF RepOk
  <2> QED BY ZenonT(60), <1>5, <1>6, <2>1 DEF FineRep
<1>8. InRep(z, "repQueue", q) /\ ~InRep(y, "repQueue", q)
  BY ZenonT(60), <1>3, <1>5 DEF InRep, q, u
<1>9. \A l, p : InRep(y, l, p) => InRep(z, l, p) \/ (p = q /\ l = "holds")
  <2>1. \A p : (\E a \in 1..Len(v) : About(v[a]) = p) => \E a \in 1..Len(u) : About(u[a]) = p
    BY <1>3, Zenon
  <2> QED BY ZenonT(60), <1>5, <2>1 DEF InRep, u
<1>10. conn' = [conn EXCEPT ![k] = x] /\ UNCHANGED <<cfg, req, talk>>
  BY Zenon, <1>2 DEF TypeOK, x
<1>11. /\ TypeOK' /\ ShapeInv'
       /\ Stays \/ Moves => Step
       /\ \A l, o, p : Then(l, o, p) =>
             There(l, o, p) \/ (o = k /\ InConn(x, l, p)) \/ (o = s /\ InRep(y, l, p))
       /\ \A p : Then("repQueue", s, p) <=> InRep(y, "repQueue", p)
       /\ \A l, p : InConn(conn[k], l, p) => There(l, k, p)
       /\ \A l, p : InRep(rep[s], l, p) => There(l, s, p)
  <2>1. rep' = [rep EXCEPT ![s] = y] /\ s \in Servers /\ FineConn(k, x)
    BY Zenon, <1>1, <1>2
  <2> HIDE DEF z
  <2> QED BY ZenonT(60), <1>7, <1>10, <2>1, RepPasses
<1>12. There("repQueue", s, q) /\ ~Then("repQueue", s, q)
  BY Zenon, <1>8, <1>11
<1>13. \A l, o, p : Then(l, o, p) => There(l, o, p) \/ (p = q /\ l = "holds" /\ o = s)
  BY <1>9, <1>11 DEF x
<1>14. Move(q, "repQueue", s, "holds", s)
  BY Zenon, <1>12, <1>13 DEF Move, Came
<1>15. Moves
  BY <1>14, Zenon DEF Moves
<1> QED BY ZenonT(60), <1>11, <1>15

(* A REP socket's pipe is detached.                                        *)
LEMMA RepDetachedStep ==
    ASSUME TypeOK, ShapeInv, NEW k \in Conns, rep_pipe_detached(k)
    PROVE  TypeOK' /\ ShapeInv' /\ Step
<1> DEFINE s == ServerOf[k]
           z == rep[s]
           st == IF z.state = None THEN None ELSE IF z.state.pipe = k THEN None ELSE z.state
           y == [z EXCEPT !.state = st]
           w == conn[k]
           x == [w EXCEPT !.rep = "detached", !.repPartial = <<>>]
<1>1. /\ w \in Connections /\ ConnOk(k, w) /\ <<>> \in Seq(Frames)
      /\ s \in Servers /\ z \in RepSockets /\ RepOk(z) /\ Len(z.queue) <= RcvHwm
  BY Zenon, Link, Records DEF FineRep
<1>2. /\ conn' = [conn EXCEPT ![k] = x] /\ rep' = [rep EXCEPT ![s] = y]
      /\ UNCHANGED <<cfg, req, talk>>
  BY Zenon, <1>1 DEF rep_pipe_detached, TypeOK
<1>3. st = z.state \/ st = None
  BY Zenon
<1> HIDE DEF st
<1>4. /\ y \in RepSockets /\ y.state = st /\ y.queue = z.queue /\ y.at = z.at /\ y.holds = z.holds
  BY Zenon, <1>1, <1>3 DEF RepSockets
<1>5. Trims(w, x)
  BY ZenonT(60), <1>1 DEF Trims, Connections
<1> HIDE DEF x, y
<1>6. FineConn(k, x) /\ \A l, p : InConn(x, l, p) => InConn(w, l, p)
  BY Zenon, <1>1, <1>5, TrimsConn
<1>7. FineRep(y) /\ \A l, p : InRep(y, l, p) => InRep(z, l, p)
  <2>1. RepOk(y)
    BY ZenonT(60), <1>1, <1>3, <1>4 DEF RepOk
  <2> QED BY ZenonT(60), <1>1, <1>4, <2>1 DEF FineRep, InRep
<1>8. /\ TypeOK' /\ ShapeInv'
      /\ Stays \/ Moves => Step
      /\ \A l, o, p : Then(l, o, p) =>
            There(l, o, p) \/ (o = k /\ InConn(x, l, p)) \/ (o = s /\ InRep(y, l, p))
      /\ \A l, p : InConn(conn[k], l, p) => There(l, k, p)
      /\ \A l, p : InRep(rep[s], l, p) => There(l, s, p)
  BY Zenon, <1>1, <1>2, <1>6, <1>7, RepPasses
<1>9. Stays
  BY <1>6, <1>7, <1>8 DEF Stays
<1> QED BY ZenonT(60), <1>8, <1>9

(* The task of a REP socket replies.                                       *)
LEMMA RepSendStep ==
    ASSUME TypeOK, ShapeInv, OnceInv, NEW h \in Conns, rep_send_multipart(ServerOf[h])
    PROVE  TypeOK' /\ ShapeInv' /\ Step
<1> DEFINE s == ServerOf[h]
           z == rep[s]
           st == z.state
           q == z.holds
           y == [z EXCEPT !.state = None, !.at = "idle", !.holds = None]
<1>1. s \in Servers /\ z \in RepSockets /\ RepOk(z) /\ Len(z.queue) <= RcvHwm
  BY ZenonT(60), Records DEF FineRep
<1>2. z.at = "has" /\ rep' = [rep EXCEPT ![s] = y] /\ UNCHANGED <<cfg, req, talk>>
  BY Zenon DEF rep_send_multipart
<1>3. y \in RepSockets /\ y.state = None /\ y.at = "idle" /\ y.queue = z.queue
  BY ZenonT(60), <1>1 DEF RepSockets
<1>4. q \in Requests /\ (st # None => AllMore(st.prefix) /\ q[1] = ClientOf[st.pipe])
  BY <1>1, <1>2, Zenon DEF RepOk
<1>5. InRep(z, "holds", q)
  BY Zenon, <1>2 DEF InRep
<1> HIDE DEF y
<1>6. FineRep(y) /\ (\A l, p : InRep(y, l, p) => InRep(z, l, p)) /\ ~InRep(y, "holds", q)
  <2>1. RepOk(y)
    BY ZenonT(60), <1>1, <1>3 DEF RepOk
  <2> QED BY Zenon, <1>1, <1>3, <2>1 DEF FineRep, InRep
<1>7. CASE conn' = conn
  <2> DEFINE x == conn[h]
  <2>1. conn' = [conn EXCEPT ![h] = x] /\ FineConn(h, x)
    BY ZenonT(60), <1>7, Records DEF TypeOK
  <2> HIDE DEF x, s, z
  <2>2. /\ TypeOK' /\ ShapeInv'
        /\ Stays \/ Moves => Step
        /\ \A l, o, p : Then(l, o, p) =>
              There(l, o, p) \/ (o = h /\ InConn(x, l, p)) \/ (o = s /\ InRep(y, l, p))
        /\ \A l, p : InConn(conn[h], l, p) => There(l, h, p)
        /\ \A l, p : InRep(rep[s], l, p) => There(l, s, p)
    BY ZenonT(60), <1>1, <1>2, <1>6, <2>1, RepPasses
  <2>3. Stays
    BY <1>6, <2>2 DEF Stays, x, z
  <2> QED BY ZenonT(60), <2>2, <2>3
<1>8. CASE conn' # conn
  <2> DEFINE k == st.pipe
             w == conn[k]
             fs == Reply(st.prefix, q)
             b == w.toReq \o fs
             x == [w EXCEPT !.toReq = b]
  <2>1. st \in Addresses /\ k \in Conns /\ st.prefix \in Seq(Frames) /\ q[1] = ClientOf[k]
        /\ AllMore(st.prefix)
    <3>1. st # None
      BY ZenonT(60), <1>8 DEF rep_send_multipart
    <3> QED BY ZenonT(60), <1>1, <1>4, <3>1 DEF RepSockets, Addresses
  <2>2. conn' = [conn EXCEPT ![k] = x]
    BY Zenon, <1>8, <2>1 DEF rep_send_multipart, TypeOK
  <2>3. w \in Connections /\ ConnOk(k, w) /\ w.toReq \in Seq(Frames)
    BY ZenonT(60), <2>1, Link
  <2>4. ~Ending(w.toReq, q)
    <3> SUFFICES ASSUME Ending(w.toReq, q) PROVE FALSE
      BY Zenon
    <3>1. There("toReq", k, q)
      BY ZenonT(60), <2>1 DEF There, Place, InConn
    <3>2. There("holds", s, q)
      BY ZenonT(60), <1>1, <1>5 DEF There, Place
    <3> QED BY <3>1, <3>2 DEF OnceInv
  <2>5. fs \in Seq(Frames) /\ Apart(fs) /\ Payloads(fs) /\ \A p : Ending(fs, p) <=> p = q
    <3>1. cfg.parts \in 1..2
      BY Zenon, Client
    <3> HIDE DEF st, q
    <3> QED BY Zenon, <1>4, <2>1, <3>1, ReplyFrames
  <2> HIDE DEF fs
  <2>6. b \in Seq(Frames) /\ Apart(b) /\ Payloads(b)
        /\ \A p : Ending(b, p) <=> Ending(w.toReq, p) \/ p = q
    <3>1. Apart(w.toReq) /\ Payloads(w.toReq)
      BY Zenon, <2>3 DEF ConnOk
    <3> HIDE DEF w, q
    <3> QED BY ZenonT(60), <2>3, <2>4, <2>5, <3>1, ConcatFrames
  <2> HIDE DEF b, w, q, k
  <2>7. x \in Connections /\ x.toReq = b /\ x.toRep = w.toRep /\ x.partial = w.partial
        /\ x.repPartial = w.repPartial /\ x.reader = w.reader /\ x.item = w.item
        /\ x.repReader = w.repReader /\ x.repItem = w.repItem
    BY ZenonT(60), <2>3, <2>6 DEF Connections
  <2> HIDE DEF x
  <2>8. \A l, p : InConn(x, l, p) => InConn(w, l, p) \/ (p = q /\ l = "toReq")
    BY Zenon, <2>6, <2>7 DEF InConn
  <2>9. FineConn(k, x)
    <3>1. \A l, p : InConn(x, l, p) => p[1] = ClientOf[k]
      BY ZenonT(60), <2>1, <2>3, <2>8 DEF ConnOk
    <3> QED BY ZenonT(60), <2>3, <2>6, <2>7, <3>1 DEF FineConn, ConnOk
  <2> HIDE DEF s, z
  <2>10. /\ TypeOK' /\ ShapeInv'
         /\ Stays \/ Moves => Step
         /\ \A l, o, p : Then(l, o, p) =>
               There(l, o, p) \/ (o = k /\ InConn(x, l, p)) \/ (o = s /\ InRep(y, l, p))
         /\ \A p : Then("holds", s, p) <=> InRep(y, "holds", p)
         /\ \A l, p : InConn(conn[k], l, p) => There(l, k, p)
         /\ \A l, p : InRep(rep[s], l, p) => There(l, s, p)
    BY Zenon, <1>1, <1>2, <1>6, <2>1, <2>2, <2>9, RepPasses
  <2>11. There("holds", s, q) /\ ~Then("holds", s, q)
    BY ZenonT(60), <1>5, <1>6, <2>10 DEF z
  <2>12. \A l, o, p : Then(l, o, p) => There(l, o, p) \/ (p = q /\ l = "toReq" /\ o = k)
    BY <1>6, <2>8, <2>10 DEF z, w
  <2>13. Move(q, "holds", s, "toReq", k)
    BY Zenon, <2>11, <2>12 DEF Move, Came
  <2>14. Moves
    BY <2>13, Zenon DEF Moves
  <2> QED BY Zenon, <2>10, <2>14
<1> QED BY Zenon, <1>7, <1>8

-----------------------------------------------------------------------------
(* All steps together.                                                     *)

(* At first nothing is anywhere.                                           *)
LEMMA InitOK == Init => IndInv
<1> SUFFICES ASSUME Init PROVE IndInv
  BY Zenon
<1> USE ConstantsAssumption DEF Init
<1>1. <<>> \in Seq(Frames) /\ <<>> \in Seq(Servers) /\ <<>> \in Seq(Seq(Frames)) /\ <<>> \in Seq(Items)
      /\ Len(<<>>) = 0 /\ 1..0 = {} /\ 0 \in 0..MaxRequests
  BY SeqNone
<1>2. /\ Apart(<<>>) /\ Payloads(<<>>) /\ AllMore(<<>>) /\ Distinct(<<>>) /\ \A q : ~Ending(<<>>, q)
  BY ZenonT(60), <1>1 DEF Apart, Payloads, AllMore, Distinct, Ending
<1>3. ASSUME NEW k \in Conns PROVE FineConn(k, conn[k]) /\ \A l, q : ~InConn(conn[k], l, q)
  <2>1. conn[k] = [link |-> "new", req |-> "new", rep |-> "new",
                   toReq |-> <<>>, toRep |-> <<>>,
                   partial |-> <<>>, reader |-> "idle", item |-> <<>>,
                   repPartial |-> <<>>, repReader |-> "idle", repItem |-> None]
    BY ZenonT(60)
  <2>2. conn[k] \in Connections
    BY ZenonT(60), <1>1, <2>1 DEF Connections
  <2>3. \A l, q : ~InConn(conn[k], l, q)
    BY ZenonT(60), <1>2, <2>1 DEF InConn
  <2> QED BY Zenon, <1>2, <2>1, <2>2, <2>3 DEF FineConn, ConnOk
<1>4. ASSUME NEW c \in Clients PROVE FineReq(c, req[c]) /\ \A l, q : ~InReq(req[c], l, q)
  <2>1. req[c] = [running |-> "yes", state |-> None, lb |-> <<>>,
                  queue |-> <<>>, buffer |-> <<>>,
                  permit |-> FALSE, woken |-> "no",
                  at |-> "idle", via |-> None, n |-> 0, result |-> None]
    BY ZenonT(60)
  <2>2. req[c] \in ReqSockets
    BY ZenonT(60), <1>1, <2>1 DEF ReqSockets, Callers
  <2>3. \A l, q : ~InReq(req[c], l, q)
    BY ZenonT(60), <2>1 DEF InReq
  <2>4. ReqCtl(c, req[c])
    BY ZenonT(60), <1>2, <2>1 DEF ReqCtl
  <2>5. ReqData(c, req[c])
    <3>1. req[c].queue = <<>>
      BY Zenon, <2>1
    <3>2. Len(req[c].queue) = 0
      BY <1>1, <3>1, Zenon
    <3>3. Len(req[c].queue) <= 1
      BY SMTT(60), <3>2
    <3> QED BY ZenonT(60), <2>3, <3>1, <3>3 DEF ReqData
  <2> QED BY ZenonT(60), <2>2, <2>3, <2>4, <2>5 DEF FineReq
<1>5. ASSUME NEW s \in Servers PROVE FineRep(rep[s]) /\ \A l, q : ~InRep(rep[s], l, q)
  <2>1. rep[s] = [state |-> None, queue |-> <<>>, at |-> "idle", holds |-> None]
    BY ZenonT(60)
  <2>2. rep[s] \in RepSockets
    BY ZenonT(60), <1>1, <2>1 DEF RepSockets
  <2>3. \A l, q : ~InRep(rep[s], l, q)
    BY ZenonT(60), <1>1, <2>1 DEF InRep
  <2> QED BY <1>1, <2>1, <2>2, <2>3 DEF FineRep, RepOk
<1>6. TypeOK /\ ShapeInv
  <2>1. req \in [Clients -> ReqSockets] /\ rep \in [Servers -> RepSockets] /\ conn \in [Conns -> Connections]
    BY Zenon, <1>3, <1>4, <1>5 DEF FineReq, FineRep, FineConn
  <2>2. \A c \in Clients :
           /\ \A i, j \in 1..Len(req[c].lb) : req[c].lb[i] = req[c].lb[j] => i = j
           /\ Len(req[c].queue) <= 1
           /\ req[c].woken # "no" => req[c].at = "wait"
    BY <1>4, Zenon DEF FineReq, ReqData, ReqCtl, Distinct
  <2>3. ShapeInv
    BY ZenonT(60), <1>3, <1>4, <1>5 DEF ShapeInv, FineReq, FineRep, FineConn
  <2>4. \A s \in Servers : Len(rep[s].queue) <= RcvHwm
    BY ZenonT(60), <1>5 DEF FineRep
  <2>5. cfg \in Scenarios /\ asked \cup answered \cup lost \cup excused \subseteq Requests
    BY ZenonT(60)
  <2> QED BY Zenon, <2>1, <2>2, <2>3, <2>4, <2>5 DEF TypeOK
<1>7. \A l, o, q : ~There(l, o, q)
  BY ZenonT(60), <1>3, <1>4, <1>5 DEF There, Place
<1>8. OnceInv
  BY ZenonT(60), <1>7 DEF OnceInv
<1>9. OpenInv
  BY Zenon, <1>7 DEF OpenInv
<1> QED BY Zenon, <1>6, <1>8, <1>9 DEF IndInv

(* Every step is of one of the kinds.                                      *)
LEMMA NextStep ==
    ASSUME IndInv, Next
    PROVE  TypeOK' /\ ShapeInv' /\ Step
<1>1. TypeOK /\ ShapeInv /\ OnceInv /\ OpenInv
  BY ZenonT(60) DEF IndInv
<1>2. cfg.conns \subseteq Conns
  BY Zenon, <1>1, ScenarioAssumption DEF TypeOK
<1>3. ASSUME NEW c \in ActiveClients, Caller(c) PROVE TypeOK' /\ ShapeInv' /\ Step
  <2>1. PICK k \in Conns : c = ClientOf[k]
    BY ZenonT(60), <1>2, <1>3 DEF ActiveClients
  <2>2. CASE send(c)
    BY Zenon, <1>1, <2>1, <2>2, SendStep
  <2>3. CASE choose_peer(c)
    BY ZenonT(60), <1>1, <2>1, <2>3, ChooseStep
  <2>4. CASE send_refused(c)
    BY <1>1, <2>1, <2>4, RefusedStep
  <2>5. CASE write(c)
    BY ZenonT(60), <1>1, <2>1, <2>5, WriteStep
  <2>6. CASE write_closed(c)
    BY <1>1, <2>1, <2>6, ClosedStep
  <2>7. CASE send_returns(c)
    BY <1>1, <2>1, <2>7, ReturnStep
  <2>8. CASE recv(c) \/ recv_times_out(c) \/ cancel(c) \/ recv_multipart_waits(c)
    BY <1>1, <2>1, <2>8, RecvStep
  <2>9. CASE recv_polls(c) \/ recv_wakes(c) \/ recv_notified(c)
    BY Zenon, <1>1, <2>1, <2>9, PollStep
  <2>10. CASE recv_finishes(c)
    BY <1>1, <2>1, <2>10, FinishStep
  <2>11. CASE recv_multipart(c) \/ recv_multipart_times_out(c)
    BY <1>1, <2>1, <2>11, MultipartStep
  <2>12. CASE stop(c) \/ process_command(c)
    BY Zenon, <1>1, <2>1, <2>12, StopStep, CommandStep
  <2> QED BY ZenonT(60), <1>3, <2>2, <2>3, <2>4, <2>5, <2>6, <2>7, <2>8, <2>9, <2>10, <2>11, <2>12 DEF Caller
<1>4. ASSUME NEW k \in cfg.conns, Reader(k) \/ Core(k) PROVE TypeOK' /\ ShapeInv' /\ Step
  <2>1. k \in Conns
    BY Zenon, <1>2, <1>4
  <2>2. CASE read(k)
    BY Zenon, <1>1, <2>1, <2>2, ReadStep
  <2>3. CASE push(k)
    BY ZenonT(60), <1>1, <2>1, <2>3, PushStep
  <2>4. CASE push_times_out(k)
    BY Zenon, <1>1, <2>1, <2>4, PushTimeoutStep
  <2>5. CASE notify(k)
    BY <1>1, <2>1, <2>5, NotifyStep
  <2>6. CASE rep_read(k)
    BY <1>1, <2>1, <2>6, RepReadStep
  <2>7. CASE rep_push(k)
    BY Zenon, <1>1, <2>1, <2>7, RepPushStep
  <2>8. CASE rep_push_times_out(k)
    BY <1>1, <2>1, <2>8, RepPushTimeoutStep
  <2>9. CASE attach(k)
    BY <1>1, <2>1, <2>9, AttachStep
  <2>10. CASE break(k)
    BY <1>1, <2>1, <2>10, BreakStep
  <2>11. CASE endpoint_removed(k)
    BY <1>1, <2>1, <2>11, EndpointStep
  <2>12. CASE pipe_detached(k)
    BY <1>1, <2>1, <2>12, DetachedStep
  <2>13. CASE rep_pipe_detached(k)
    BY <1>1, <2>1, <2>13, RepDetachedStep
  <2> QED BY Zenon, <1>4, <2>2, <2>3, <2>4, <2>5, <2>6, <2>7, <2>8, <2>9, <2>10, <2>11, <2>12, <2>13
          DEF Reader, Core
<1>5. ASSUME NEW s \in ActiveServers, Server(s) PROVE TypeOK' /\ ShapeInv' /\ Step
  <2>1. PICK k \in Conns : s = ServerOf[k]
    BY <1>2, <1>5 DEF ActiveServers
  <2>2. CASE rep_recv(s)
    BY <1>1, <2>1, <2>2, RepRecvStep
  <2>3. CASE rep_send_multipart(s)
    BY Zenon, <1>1, <2>1, <2>3, RepSendStep
  <2> QED BY ZenonT(60), <1>5, <2>2, <2>3 DEF Server
<1> QED BY Zenon, <1>3, <1>4, <1>5 DEF Next

(* The invariant is inductive.                                             *)
LEMMA IndNext == IndInv /\ [Next]_vars => IndInv'
<1> SUFFICES ASSUME IndInv, [Next]_vars PROVE IndInv'
  BY Zenon
<1>1. TypeOK /\ ShapeInv /\ OnceInv /\ OpenInv
  BY Zenon DEF IndInv
<1>2. CASE Next
  <2>1. TypeOK' /\ ShapeInv' /\ Step
    BY ZenonT(60), <1>2, NextStep
  <2>2. OnceInv'
    BY Zenon, <1>1, <2>1, OnceNext
  <2>3. OpenInv'
    BY <1>1, <2>1, PassingOpen, AnsweringOpen, AskingOpen, WritingOpen DEF Step
  <2> QED BY Zenon, <2>1, <2>2, <2>3 DEF IndInv
<1>3. CASE UNCHANGED vars
  <2>1. /\ cfg' = cfg /\ req' = req /\ rep' = rep /\ conn' = conn
        /\ asked' = asked /\ answered' = answered /\ lost' = lost /\ excused' = excused
    BY <1>3 DEF vars
  <2>2. TypeOK'
    BY <1>1, <2>1 DEF TypeOK
  <2>3. ShapeInv'
    BY Zenon, <1>1, <2>1 DEF ShapeInv, ReqCtl
  <2>4. \A l, o, q : There(l, o, q)' = There(l, o, q)
    BY Zenon, <2>1 DEF There
  <2>5. OnceInv'
    BY Zenon, <1>1, <2>4 DEF OnceInv
  <2>6. \A c : Open(c)' = Open(c) /\ Sent(c)' = Sent(c)
    BY Zenon, <2>1 DEF Open, Sent, Pending
  <2>7. OpenInv'
    BY Zenon, <1>1, <2>1, <2>4, <2>6 DEF OpenInv
  <2> QED BY Zenon, <2>2, <2>3, <2>5, <2>7 DEF IndInv
<1> QED BY Zenon, <1>2, <1>3

(* The records, queues and sets keep their types, no URI is twice in the   *)
(* round-robin list, and no queue is longer than its capacity; a request   *)
(* or its reply is in one place at a time, from the write of send() to the *)
(* return of recv(), and only while it is open.                            *)
THEOREM Inductive == Spec => []IndInv
<1>1. Init => IndInv
  BY Zenon, InitOK
<1>2. IndInv /\ [Next]_vars => IndInv'
  BY Zenon, IndNext
<1> QED BY <1>1, <1>2, PTL DEF Spec

(* The state of the sockets and of their connections keeps its type.       *)
THEOREM TypeCorrect == Spec => []TypeOK
<1>1. IndInv => TypeOK
  BY Zenon DEF IndInv
<1> QED BY <1>1, Inductive, PTL

(* REQ and REP keep the conversation of Exchange: whatever breaks, times   *)
(* out, is cancelled or arrives late, a reply is returned for a request    *)
(* that was made and has not been answered yet, and a client that gives a  *)
(* request up has it pending no more.                                      *)
THEOREM Refines == Spec => KeepsStep
<1>1. Init => E!Init
  BY DEF Init, E!Init, Pending, PendingIn
<1>2. IndInv /\ IndInv' /\ [Next]_vars => [E!Next]_(E!vars)
  <2> SUFFICES ASSUME IndInv, [Next]_vars PROVE [E!Next]_(E!vars)
    BY Zenon
  <2>1. CASE Next
    <3>1. Step
      BY Zenon, <2>1, NextStep
    <3> QED BY Zenon, <3>1, StepRefines DEF IndInv
  <2>2. CASE UNCHANGED vars
    BY Zenon, <2>2 DEF vars, E!vars, Pending
  <2> QED BY Zenon, <2>1, <2>2
<1> QED BY <1>1, <1>2, Inductive, PTL DEF Spec, KeepsStep, E!Spec

(* A request is pending, answered or given up, and one client's: what the  *)
(* steps of Exchange make of the three sets.                               *)
FateOf(p, a, l) ==
    /\ \A c \in Clients : a[c] \cap l[c] = {} /\ p[c] \cap (a[c] \cup l[c]) = {}
    /\ \A c, d \in Clients :
          c # d => (p[c] \cup a[c] \cup l[c]) \cap (p[d] \cup a[d] \cup l[d]) = {}

(* A client moves requests between its own sets.                           *)
MovesOwn(c, p, a, l, p2, a2, l2) ==
    /\ \A d \in Clients : d # c => p2[d] = p[d] /\ a2[d] = a[d] /\ l2[d] = l[d]
    /\ a2[c] \cap l2[c] = {} /\ p2[c] \cap (a2[c] \cup l2[c]) = {}
    /\ \A q \in p2[c] \cup a2[c] \cup l2[c] :
          \A d \in Clients : d # c => q \notin p[d] \cup a[d] \cup l[d]

(* It gives no request a second fate by that.                              *)
LEMMA FateMoves ==
    ASSUME NEW p, NEW a, NEW l, NEW p2, NEW a2, NEW l2, NEW c \in Clients,
           FateOf(p, a, l), MovesOwn(c, p, a, l, p2, a2, l2)
    PROVE  FateOf(p2, a2, l2)
<1>1. ASSUME NEW d \in Clients
      PROVE  a2[d] \cap l2[d] = {} /\ p2[d] \cap (a2[d] \cup l2[d]) = {}
  <2>1. CASE d = c
    BY Zenon, <2>1 DEF MovesOwn
  <2>2. CASE d # c
    <3>1. p2[d] = p[d] /\ a2[d] = a[d] /\ l2[d] = l[d]
      BY Zenon, <2>2 DEF MovesOwn
    <3>2. a[d] \cap l[d] = {} /\ p[d] \cap (a[d] \cup l[d]) = {}
      BY Zenon DEF FateOf
    <3> QED BY Zenon, <3>1, <3>2
  <2> QED BY Zenon, <2>1, <2>2
<1> DEFINE All(d) == p[d] \cup a[d] \cup l[d]
           All2(d) == p2[d] \cup a2[d] \cup l2[d]
<1>2. \A d \in Clients : d # c => All2(d) = All(d)
  BY Zenon DEF MovesOwn
<1>3. \A d \in Clients : d # c => \A q \in All2(c) : q \notin All(d)
  BY Zenon DEF MovesOwn
<1>4. \A d, e \in Clients : d # e => All(d) \cap All(e) = {}
  BY Zenon DEF FateOf
<1>5. ASSUME NEW d \in Clients, NEW e \in Clients, d # e
      PROVE  All2(d) \cap All2(e) = {}
  <2> HIDE DEF All, All2
  <2>1. CASE d = c
    <3>1. All2(e) = All(e) /\ \A q \in All2(d) : q \notin All(e)
      BY Zenon, <1>2, <1>3, <1>5, <2>1
    <3> QED BY Zenon, <3>1
  <2>2. CASE e = c
    <3>1. All2(d) = All(d) /\ \A q \in All2(e) : q \notin All(d)
      BY Zenon, <1>2, <1>3, <1>5, <2>2
    <3> QED BY Zenon, <3>1
  <2>3. CASE d # c /\ e # c
    <3>1. All2(d) = All(d) /\ All2(e) = All(e)
      BY Zenon, <1>2, <2>3
    <3> QED BY Zenon, <1>4, <1>5, <3>1
  <2> QED BY Zenon, <2>1, <2>2, <2>3
<1> QED BY Zenon, <1>1, <1>5 DEF FateOf

(* A step of Exchange gives a request no second fate: a new request is     *)
(* nobody's yet, and giving up and answering only move a request between   *)
(* the sets of one client.                                                 *)
LEMMA FateNext ==
    ASSUME E!OneFate, [E!Next]_(E!vars)
    PROVE  E!OneFate'
<1> DEFINE p == [c \in Clients |-> Pending(c)]
           a == [c \in Clients |-> {q \in answered : q[1] = c}]
           l == [c \in Clients |-> {q \in lost : q[1] = c}]
           p2 == p'
           a2 == a'
           l2 == l'
<1>1. FateOf(p, a, l)
  BY Zenon DEF E!OneFate, E!Asked, FateOf
<1>2. FateOf(p2, a2, l2) => E!OneFate'
  BY Zenon DEF E!OneFate, E!Asked, FateOf
<1>3. DOMAIN p = Clients /\ DOMAIN a = Clients /\ DOMAIN l = Clients
  BY Zenon
<1>4. ASSUME NEW c \in Clients, E!GiveUp(c) PROVE FateOf(p2, a2, l2)
  <2>1. p2 = [p EXCEPT ![c] = {}] /\ l2 = [l EXCEPT ![c] = @ \cup p[c]] /\ a2 = a
    BY Zenon, <1>4 DEF E!GiveUp
  <2> HIDE DEF p, a, l, p2, a2, l2
  <2>2. /\ p2[c] = {} /\ l2[c] = l[c] \cup p[c] /\ a2[c] = a[c]
        /\ \A d \in Clients : d # c => p2[d] = p[d] /\ a2[d] = a[d] /\ l2[d] = l[d]
    BY Zenon, <1>3, <2>1
  <2>3. MovesOwn(c, p, a, l, p2, a2, l2)
    BY ZenonT(60), <1>1, <2>2 DEF FateOf, MovesOwn
  <2> QED BY Zenon, <1>1, <2>3, FateMoves
<1>5. ASSUME NEW c \in Clients, NEW q \in Requests, E!Ask(c, q) PROVE FateOf(p2, a2, l2)
  <2>1. /\ \A d \in Clients : q \notin p[d] \cup a[d] \cup l[d]
        /\ p2 = [p EXCEPT ![c] = {q}] /\ l2 = l /\ a2 = a
    BY Zenon, <1>5 DEF E!Ask, E!Asked
  <2> HIDE DEF p, a, l, p2, a2, l2
  <2>2. /\ p2[c] = {q} /\ l2[c] = l[c] /\ a2[c] = a[c]
        /\ \A d \in Clients : d # c => p2[d] = p[d] /\ a2[d] = a[d] /\ l2[d] = l[d]
    BY Zenon, <1>3, <2>1
  <2>3. MovesOwn(c, p, a, l, p2, a2, l2)
    <3>1. a[c] \cap l[c] = {} /\ p[c] \cap (a[c] \cup l[c]) = {}
      BY Zenon, <1>1 DEF FateOf
    <3>2. a2[c] \cap l2[c] = {} /\ p2[c] \cap (a2[c] \cup l2[c]) = {}
      BY Zenon, <2>1, <2>2, <3>1
    <3>3. ASSUME NEW x \in p2[c] \cup a2[c] \cup l2[c], NEW d \in Clients, d # c
          PROVE  x \notin p[d] \cup a[d] \cup l[d]
      <4>1. (p[c] \cup a[c] \cup l[c]) \cap (p[d] \cup a[d] \cup l[d]) = {}
        BY Zenon, <1>1, <3>3 DEF FateOf
      <4>2. x = q \/ x \in p[c] \cup a[c] \cup l[c]
        BY ZenonT(60), <2>1, <2>2, <3>3
      <4> QED BY Zenon, <2>1, <4>1, <4>2
    <3> QED BY Zenon, <2>2, <3>2, <3>3 DEF MovesOwn
  <2> QED BY Zenon, <1>1, <2>3, FateMoves
<1>6. ASSUME NEW c \in Clients, NEW q \in Requests, E!Answer(c, q) PROVE FateOf(p2, a2, l2)
  <2>1. /\ q \in p[c] \cup l[c] /\ p2 = [p EXCEPT ![c] = {}]
        /\ a2 = [a EXCEPT ![c] = @ \cup {q}] /\ l2 = [l EXCEPT ![c] = (@ \cup p[c]) \ {q}]
    BY Zenon, <1>6 DEF E!Answer
  <2> HIDE DEF p, a, l, p2, a2, l2
  <2>2. /\ p2[c] = {} /\ l2[c] = (l[c] \cup p[c]) \ {q} /\ a2[c] = a[c] \cup {q}
        /\ \A d \in Clients : d # c => p2[d] = p[d] /\ a2[d] = a[d] /\ l2[d] = l[d]
    BY Zenon, <1>3, <2>1
  <2>3. MovesOwn(c, p, a, l, p2, a2, l2)
    <3>1. a[c] \cap l[c] = {} /\ p[c] \cap (a[c] \cup l[c]) = {}
      BY Zenon, <1>1 DEF FateOf
    <3>2. a2[c] \cap l2[c] = {} /\ p2[c] \cap (a2[c] \cup l2[c]) = {}
      BY Zenon, <2>1, <2>2, <3>1
    <3>3. ASSUME NEW x \in p2[c] \cup a2[c] \cup l2[c], NEW d \in Clients, d # c
          PROVE  x \notin p[d] \cup a[d] \cup l[d]
      <4>1. (p[c] \cup a[c] \cup l[c]) \cap (p[d] \cup a[d] \cup l[d]) = {}
        BY Zenon, <1>1, <3>3 DEF FateOf
      <4>2. x \in p[c] \cup a[c] \cup l[c]
        BY Zenon, <2>1, <2>2, <3>3
      <4> QED BY Zenon, <4>1, <4>2
    <3> QED BY Zenon, <2>2, <3>2, <3>3 DEF MovesOwn
  <2> QED BY Zenon, <1>1, <2>3, FateMoves
<1>7. CASE UNCHANGED E!vars
  <2>1. p2 = p /\ a2 = a /\ l2 = l
    BY Zenon, <1>7 DEF E!vars
  <2> HIDE DEF p, a, l, p2, a2, l2
  <2> QED BY Zenon, <1>1, <1>2, <2>1
<1> QED BY ZenonT(60), <1>2, <1>4, <1>5, <1>6, <1>7 DEF E!Next

(* A REQ socket hands a reply out at most once, and only to the client     *)
(* that asked for it: whatever breaks, times out, is cancelled or arrives  *)
(* late, a request is pending, answered or given up, never two of these.   *)
THEOREM OneReply == Spec => []E!OneFate
<1>1. E!Init => E!OneFate
  BY DEF E!Init, E!OneFate, E!Asked
<1>2. E!OneFate /\ [E!Next]_(E!vars) => E!OneFate'
  BY Zenon, FateNext
<1> QED BY <1>1, <1>2, Refines, PTL DEF KeepsStep, E!Spec

(* A reply of Exchange is the one to the pending request, if the client    *)
(* has given nothing up.                                                   *)
LEMMA StepAnswers == [E!Next]_(E!vars) => [E!RepliesToPending]_(E!vars)
<1> SUFFICES ASSUME [E!Next]_(E!vars) PROVE [E!RepliesToPending]_(E!vars)
  BY Zenon
<1> DEFINE p == [c \in Clients |-> Pending(c)]
           a == [c \in Clients |-> {q \in answered : q[1] = c}]
           l == [c \in Clients |-> {q \in lost : q[1] = c}]
           a2 == a'
<1>1. DOMAIN a = Clients
  OBVIOUS
<1>2. ASSUME NEW c \in Clients, E!GiveUp(c) \/ \E q \in Requests : E!Ask(c, q)
      PROVE  a2 = a
  BY Zenon, <1>2 DEF E!GiveUp, E!Ask
<1>3. ASSUME NEW c \in Clients, NEW q \in Requests, E!Answer(c, q)
      PROVE  q \in p[c] \cup l[c] /\ a2 = [a EXCEPT ![c] = @ \cup {q}]
  BY Zenon, <1>3 DEF E!Answer
<1>4. CASE UNCHANGED E!vars
  BY Zenon, <1>4
<1>5. CASE E!Next
  <2>1. \/ a2 = a
        \/ \E c \in Clients, q \in Requests :
              q \in p[c] \cup l[c] /\ a2 = [a EXCEPT ![c] = @ \cup {q}]
    BY Zenon, <1>2, <1>3, <1>5 DEF E!Next
  <2>2. \A c \in Clients : l[c] = {} => a2[c] \subseteq a[c] \cup p[c]
    <3> HIDE DEF p, a, l, a2
    <3> SUFFICES ASSUME NEW d \in Clients, l[d] = {}
                 PROVE  a2[d] \subseteq a[d] \cup p[d]
      BY Zenon
    <3>1. CASE a2 = a
      BY Zenon, <3>1
    <3>2. ASSUME NEW c \in Clients, NEW q \in Requests,
                 q \in p[c] \cup l[c], a2 = [a EXCEPT ![c] = @ \cup {q}]
          PROVE  a2[d] \subseteq a[d] \cup p[d]
      <4>1. CASE d = c
        BY Zenon, <1>1, <3>2, <4>1
      <4>2. CASE d # c
        BY Zenon, <1>1, <3>2, <4>2
      <4> QED BY Zenon, <4>1, <4>2
    <3> QED BY Zenon, <2>1, <3>1, <3>2
  <2> QED BY Zenon, <2>2 DEF E!RepliesToPending
<1> QED BY Zenon, <1>4, <1>5

(* Until a client gives a request up, its replies come in step with its    *)
(* requests: every recv() that returns the end of a reply returns the one  *)
(* to the request of the last send().                                      *)
THEOREM RepliesInStep == Spec => E!InStep
BY Refines, StepAnswers, PTL DEF KeepsStep, E!Spec, E!InStep
=============================================================================
