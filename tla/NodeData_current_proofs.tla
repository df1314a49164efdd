----------------------- MODULE NodeData_current_proofs -----------------------
(***************************************************************************)
(* Proofs about NodeData, for any peers, any number of values and of       *)
(* broken connections: with ordered packets, what a receiver will show     *)
(* once it has what is in flight to it is what was last sent to it, at the *)
(* server and at every peer, and a replica without data is about to get    *)
(* some.                                                                   *)
(*                                                                         *)
(* The packets in flight are not of any shape.  Way lists the phases of    *)
(* the owner's connection with what may be in flight in each; Follows says *)
(* that a peer the server serializes to has the replica, or has its        *)
(* construction before it with data right behind.                          *)
(***************************************************************************)
EXTENDS NodeData_proofs, WellFoundedInduction

---------------------------------------------------------------------------
(* Ends: the last value of a sequence of packets.                          *)

LEMMA HasLast ==
    ASSUME NEW n \in Nat, NEW T \in SUBSET (1..n), T # {}
    PROVE  \E m \in T : \A j \in T : j <= m
<1> DEFINE U == {n - j : j \in T}
<1>1. \A j \in T : n - j \in Nat  OBVIOUS
<1>2. U \subseteq Nat  BY <1>1
<1>3. U # {}  OBVIOUS
<1> HIDE DEF U
<1>4. PICK u \in U : \A y \in U : ~ (<<y, u>> \in OpToRel(<, Nat))
  BY <1>2, <1>3, NatLessThanWellFounded, WFMin
<1>5. \A y \in U : ~ (y < u)
  BY <1>2, <1>4 DEF OpToRel
<1>6. PICK m \in T : u = n - m  BY DEF U
<1>7. \A j \in T : n - j \in U  BY DEF U
<1> QED  BY <1>5, <1>6, <1>7

LEMMA EndsOf ==
    ASSUME NEW S, NEW q \in Seq(S), NEW now, NEW i \in Values(q),
           \A j \in Values(q) : j <= i
    PROVE  Ends(q, now) = q[i].v
<1>1. Values(q) \subseteq 1..Len(q) /\ Len(q) \in Nat  BY LenProperties DEF Values
<1>2. \A k \in Values(q) : (\A j \in Values(q) : j <= k) => k = i
  BY <1>1
<1> DEFINE k == CHOOSE k \in Values(q) : \A j \in Values(q) : j <= k
<1>3. k \in Values(q) /\ \A j \in Values(q) : j <= k  OBVIOUS
<1>4. k = i  BY <1>2, <1>3
<1> QED  BY <1>4 DEF Ends

\* What is received in two parts is received.
LEMMA EndsConcat ==
    ASSUME NEW S, NEW q \in Seq(S), NEW r \in Seq(S), NEW now
    PROVE  Ends(q \o r, now) = Ends(r, Ends(q, now))
<1> DEFINE t == q \o r
<1>1. Len(q) \in Nat /\ DOMAIN q = 1..Len(q) /\ Len(r) \in Nat /\ DOMAIN r = 1..Len(r)
  BY LenProperties
<1>2. t \in Seq(S) /\ Len(t) = Len(q) + Len(r)
      /\ \A k \in 1..(Len(q) + Len(r)) :
            t[k] = IF k <= Len(q) THEN q[k] ELSE r[k - Len(q)]
  BY ConcatProperties
<1>3. DOMAIN t = 1..(Len(q) + Len(r))  BY <1>2, LenProperties
<1>4. \A k \in DOMAIN q : k \in DOMAIN t /\ t[k] = q[k]  BY <1>1, <1>2, <1>3
<1>5. \A k \in DOMAIN r : k + Len(q) \in DOMAIN t /\ t[k + Len(q)] = r[k]
  BY <1>1, <1>2, <1>3
<1>6. \A k \in DOMAIN t : \/ k \in DOMAIN q
                          \/ k - Len(q) \in DOMAIN r /\ k = (k - Len(q)) + Len(q)
  BY <1>1, <1>3
<1> HIDE DEF t
<1>7. CASE Values(r) # {}
  <2>1. Values(r) \in SUBSET (1..Len(r))  BY <1>1 DEF Values
  <2>2. PICK i \in Values(r) : \A j \in Values(r) : j <= i  BY <1>1, <1>7, <2>1, HasLast
  <2>3. i + Len(q) \in Values(t)  BY <1>5, <2>2 DEF Values
  <2>4. ASSUME NEW k \in Values(t) PROVE k <= i + Len(q)
    <3>1. k \in DOMAIN t /\ t[k].kind = "value"  BY DEF Values
    <3>2. CASE k \in DOMAIN q  BY <1>1, <2>1, <3>2
    <3>3. CASE k - Len(q) \in DOMAIN r /\ k = (k - Len(q)) + Len(q)
      <4>1. k - Len(q) \in Values(r)  BY <1>5, <3>1, <3>3 DEF Values
      <4> QED  BY <1>1, <2>1, <2>2, <3>3, <4>1
    <3> QED  BY <1>6, <3>1, <3>2, <3>3
  <2>5. Ends(t, now) = t[i + Len(q)].v  BY <1>2, <2>3, <2>4, EndsOf
  <2>6. t[i + Len(q)] = r[i]  BY <1>5, <2>2 DEF Values
  <2>7. Ends(r, Ends(q, now)) = r[i].v  BY <2>2, EndsOf
  <2> QED  BY <2>5, <2>6, <2>7 DEF t
<1>8. CASE Values(r) = {}
  <2>1. Ends(r, Ends(q, now)) = Ends(q, now)  BY <1>8 DEF Ends
  <2>2. ASSUME NEW k \in Values(t) PROVE k \in DOMAIN q
    <3>1. k \in DOMAIN t /\ t[k].kind = "value"  BY DEF Values
    <3> QED  BY <1>5, <1>6, <1>8, <3>1 DEF Values
  <2>3. Values(t) = Values(q)  BY <1>4, <2>2 DEF Values
  <2>4. CASE Values(q) = {}
    BY <2>1, <2>3, <2>4 DEF Ends, t
  <2>5. CASE Values(q) # {}
    <3>1. Values(q) \in SUBSET (1..Len(q))  BY <1>1 DEF Values
    <3>2. PICK i \in Values(q) : \A j \in Values(q) : j <= i  BY <1>1, <2>5, <3>1, HasLast
    <3>3. Ends(q, now) = q[i].v  BY <3>2, EndsOf
    <3>4. Ends(t, now) = t[i].v  BY <1>2, <2>3, <3>2, EndsOf
    <3>5. t[i] = q[i]  BY <1>4, <3>2 DEF Values
    <3> QED  BY <2>1, <3>3, <3>4, <3>5 DEF t
  <2> QED  BY <2>4, <2>5
<1> QED  BY <1>7, <1>8

LEMMA EndsShort ==
    /\ \A now : Ends(<< >>, now) = now
    /\ \A m, now : Ends(<<m>>, now) = IF m.kind = "value" THEN m.v ELSE now
<1>1. Values(<< >>) = {}  BY DEF Values
<1>2. ASSUME NEW m, NEW now
      PROVE  Ends(<<m>>, now) = IF m.kind = "value" THEN m.v ELSE now
  <2> DEFINE q == <<m>>
  <2>1. q \in Seq({m}) /\ DOMAIN q = {1} /\ q[1] = m  OBVIOUS
  <2> HIDE DEF q
  <2>2. CASE m.kind = "value"
    <3>1. Values(q) = {1}  BY <2>1, <2>2 DEF Values
    <3>2. Ends(q, now) = q[1].v  BY <2>1, <3>1, EndsOf
    <3> QED  BY <2>1, <2>2, <3>2 DEF q
  <2>3. CASE m.kind # "value"
    <3>1. Values(q) = {}  BY <2>1, <2>3 DEF Values
    <3> QED  BY <2>3, <3>1 DEF Ends, q
  <2> QED  BY <2>2, <2>3
<1> QED  BY <1>1, <1>2 DEF Ends

\* The first packet is received, then the others.
LEMMA EndsTail ==
    ASSUME NEW S, NEW q \in Seq(S), q # << >>, NEW now
    PROVE  Ends(q, now) =
             Ends(Tail(q), IF Head(q).kind = "value" THEN Head(q).v ELSE now)
<1>1. Head(q) \in S /\ Tail(q) \in Seq(S) /\ Len(Tail(q)) = Len(q) - 1
      /\ \A i \in 1..Len(Tail(q)) : Tail(q)[i] = q[i + 1]
  BY HeadTailProperties
<1>2. Len(q) \in Nat /\ Len(q) > 0 /\ Head(q) = q[1]
  BY LenProperties, EmptySeq
<1> DEFINE h == <<Head(q)>>
           t == Tail(q)
<1>3. h \in Seq(S) /\ t \in Seq(S)  BY <1>1
<1>4. Len(h) = 1 /\ h[1] = Head(q) /\ Len(t) = Len(q) - 1
      /\ \A i \in 1..Len(t) : t[i] = q[i + 1]
  BY <1>1
<1>5. Ends(h, now) = IF Head(q).kind = "value" THEN Head(q).v ELSE now
  BY EndsShort
<1> HIDE DEF h, t
<1>6. h \o t \in Seq(S) /\ Len(h \o t) = Len(h) + Len(t)
      /\ \A i \in 1..(Len(h) + Len(t)) :
            (h \o t)[i] = IF i <= Len(h) THEN h[i] ELSE t[i - Len(h)]
  BY <1>3, ConcatProperties
<1>7. ASSUME NEW i \in 1..Len(q) PROVE (h \o t)[i] = q[i]
  <2>1. CASE i = 1  BY <1>2, <1>4, <1>6, <2>1
  <2>2. CASE i # 1
    <3>1. i - 1 \in 1..Len(t) /\ (i - 1) + 1 = i /\ ~(i <= 1)
      BY <1>2, <1>4, <2>2
    <3>2. i \in 1..(Len(h) + Len(t))  BY <1>2, <1>4
    <3>3. (h \o t)[i] = t[i - 1]  BY <1>4, <1>6, <3>1, <3>2
    <3> QED  BY <1>4, <3>1, <3>3
  <2> QED  BY <2>1, <2>2
<1>8. Len(h \o t) = Len(q)  BY <1>2, <1>4, <1>6
<1>9. h \o t = q  BY <1>6, <1>7, <1>8, SeqEqual
<1>10. Ends(h \o t, now) = Ends(t, Ends(h, now))  BY <1>3, EndsConcat
<1> QED  BY <1>5, <1>9, <1>10 DEF t

\* In order, the packet taken is the first.
LEMMA WithoutFirst ==
    ASSUME NEW S, NEW q \in Seq(S), 1 \in DOMAIN q
    PROVE  Without(q, 1) = Tail(q) /\ q # << >> /\ Head(q) = q[1]
<1>1. Len(q) \in Nat /\ 1 \in 1..Len(q) /\ q # << >>  BY LenProperties, EmptySeq
<1>2. Without(q, 1) \in Seq(S) /\ Len(Without(q, 1)) = Len(q) - 1
      /\ \A k \in 1..(Len(q) - 1) : Without(q, 1)[k] = IF k < 1 THEN q[k] ELSE q[k + 1]
  BY <1>1, WithoutFacts
<1>3. Tail(q) \in Seq(S) /\ Len(Tail(q)) = Len(q) - 1
      /\ \A i \in 1..Len(Tail(q)) : Tail(q)[i] = q[i + 1]
  BY <1>1, HeadTailProperties
<1>4. \A k \in 1..Len(Without(q, 1)) : Without(q, 1)[k] = Tail(q)[k]
  BY <1>1, <1>2, <1>3
<1> QED  BY <1>1, <1>2, <1>3, <1>4, SeqEqual

---------------------------------------------------------------------------
(* The owner's connection.                                                 *)

DataOf(m, k) == m.kind = "value" /\ m.id = k
AllData(q, k) == \A i \in DOMAIN q : DataOf(q[i], k)
Opens(q, k) == Len(q) > 1 /\ q[1] = Construct(k) /\ \A i \in 2..Len(q) : DataOf(q[i], k)

\* Its phases while it lasts.  A replica with an id comes back as Returning,
\* one without is asked for an id first.
Pushed == link = "queued" /\ held = NoId /\ toSrv = << >> /\ toOwn = << >>
Asked == link = "sent" /\ held = NoId /\ toSrv = <<Construct(NoId)>> /\ toOwn = << >>
Answered ==
    /\ link = "sent" /\ held # NoId /\ srvVal = Unset
    /\ toSrv = << >> /\ toOwn = <<Accepted(held)>>
Returning == link = "listed" /\ id # NoId /\ held = NoId /\ Opens(toSrv, id) /\ toOwn = << >>
Served ==
    /\ link = "listed" /\ id # NoId /\ held = id /\ AllData(toSrv, id) /\ toOwn = << >>
    /\ toSrv = << >> => srvVal # Unset

\* After it, until both sides have noticed.
OwnerLeaves ==
    \/ toOwn = << >> /\ link = "down"
    \/ toOwn = <<Lost>> /\ link # "down"
    \/ link = "sent" /\ \E k \in Ids : toOwn = <<Accepted(k), Lost>>
ServerLeaves ==
    \/ toSrv = << >> /\ held = NoId
    \/ /\ toSrv # << >> /\ toSrv[Len(toSrv)].kind = "lost"
       /\ \A i \in 1..(Len(toSrv) - 1) : toSrv[i].kind # "lost"

Way ==
    ordered => IF wire THEN Pushed \/ Asked \/ Answered \/ Returning \/ Served
               ELSE OwnerLeaves /\ ServerLeaves

\* What the server ends with lies between what ticks have sent and what there is.
SrvCurrent ==
    /\ last <= val
    /\ (ordered /\ wire /\ link = "listed") =>
          last <= Ends(toSrv, srvVal) /\ Ends(toSrv, srvVal) <= val

LEMMA DataConcat ==
    ASSUME NEW S, NEW q \in Seq(S), NEW r \in Seq(S), NEW k, AllData(r, k)
    PROVE  /\ AllData(q, k) => AllData(q \o r, k)
           /\ Opens(q, k) => Opens(q \o r, k)
<1> DEFINE t == q \o r
<1>1. Len(q) \in Nat /\ DOMAIN q = 1..Len(q) /\ Len(r) \in Nat /\ DOMAIN r = 1..Len(r)
  BY LenProperties
<1>2. t \in Seq(S) /\ Len(t) = Len(q) + Len(r)
      /\ \A i \in 1..(Len(q) + Len(r)) :
            t[i] = IF i <= Len(q) THEN q[i] ELSE r[i - Len(q)]
  BY ConcatProperties
<1>3. DOMAIN t = 1..(Len(q) + Len(r))  BY <1>2, LenProperties
<1> HIDE DEF t
<1>4. \A i \in DOMAIN t : i <= Len(q) \/ DataOf(t[i], k)
  <2> SUFFICES ASSUME NEW i \in DOMAIN t, ~(i <= Len(q)) PROVE DataOf(t[i], k)
    OBVIOUS
  <2>1. i - Len(q) \in DOMAIN r /\ t[i] = r[i - Len(q)]  BY <1>1, <1>2, <1>3
  <2> QED  BY <2>1 DEF AllData
<1>5. \A i \in DOMAIN q : i \in DOMAIN t /\ t[i] = q[i]  BY <1>1, <1>2, <1>3
<1>6. AllData(q, k) => AllData(t, k)
  BY <1>1, <1>3, <1>4, <1>5 DEF AllData
<1>7. Opens(q, k) => Opens(t, k)
  <2> SUFFICES ASSUME Opens(q, k) PROVE Opens(t, k)
    OBVIOUS
  <2>1. 1 \in DOMAIN q /\ Len(t) > 1 /\ t[1] = Construct(k)
    BY <1>1, <1>2, <1>5 DEF Opens
  <2>2. ASSUME NEW i \in 2..Len(t) PROVE DataOf(t[i], k)
    <3>1. i \in DOMAIN t  BY <1>1, <1>2, <1>3
    <3>2. CASE i <= Len(q)
      <4>1. i \in 2..Len(q) /\ i \in DOMAIN q  BY <1>1, <3>2
      <4> QED  BY <1>5, <4>1 DEF Opens
    <3> QED  BY <1>4, <3>1, <3>2
  <2> QED  BY <2>1, <2>2 DEF Opens
<1> QED  BY <1>6, <1>7 DEF t

LEMMA DataTail ==
    ASSUME NEW S, NEW q \in Seq(S), q # << >>, NEW k
    PROVE  /\ AllData(q, k) => AllData(Tail(q), k) /\ DataOf(Head(q), k)
           /\ Opens(q, k) => AllData(Tail(q), k) /\ Tail(q) # << >>
<1> DEFINE t == Tail(q)
<1>1. Len(q) \in Nat /\ DOMAIN q = 1..Len(q) /\ Len(q) > 0 /\ Head(q) = q[1]
  BY LenProperties, EmptySeq
<1>2. t \in Seq(S) /\ Len(t) = Len(q) - 1 /\ \A i \in 1..Len(t) : t[i] = q[i + 1]
  BY HeadTailProperties
<1>3. DOMAIN t = 1..Len(t)  BY <1>2, LenProperties
<1> HIDE DEF t
<1>4. \A i \in DOMAIN t : i + 1 \in 2..Len(q) /\ i + 1 \in DOMAIN q /\ t[i] = q[i + 1]
  BY <1>1, <1>2, <1>3
<1>5. AllData(q, k) => AllData(t, k) /\ DataOf(Head(q), k)
  BY <1>1, <1>4 DEF AllData
<1>6. Opens(q, k) => AllData(t, k) /\ t # << >>
  <2>1. Opens(q, k) => Len(t) > 0  BY <1>1, <1>2 DEF Opens
  <2>2. t = << >> => Len(t) = 0  BY EmptySeq
  <2> QED  BY <1>2, <1>4, <2>1, <2>2 DEF Opens, AllData
<1> QED  BY <1>5, <1>6 DEF t

LEMMA ConcatNotEmpty ==
    ASSUME NEW S, NEW q \in Seq(S), NEW r \in Seq(S), q \o r = << >>
    PROVE  q = << >> /\ r = << >>
<1>1. Len(q \o r) = Len(q) + Len(r)  BY ConcatProperties
<1>2. Len(q) \in Nat /\ Len(r) \in Nat /\ Len(<< >>) = 0  BY LenProperties, EmptySeq
<1>3. Len(q) = 0 /\ Len(r) = 0  BY <1>1, <1>2
<1> QED  BY <1>3, EmptySeq

LEMMA DataShows ==
    ASSUME NEW S, NEW q \in Seq(S), q # << >>, NEW k, AllData(q, k)
    PROVE  Values(q) # {} /\ \A a, b : Ends(q, a) = Ends(q, b)
<1>1. 1 \in DOMAIN q  BY LenProperties, EmptySeq
<1>2. 1 \in Values(q)  BY <1>1 DEF Values, AllData, DataOf
<1> QED  BY <1>2 DEF Ends

\* What the owner's Receive sends, by where the replica is in its lists.
LEMMA OwnerPacketsAre ==
    ASSUME TypeOK, NEW tick \in BOOLEAN
    PROVE  /\ link = "queued" /\ id = NoId =>
                 OwnerPackets(tick) = <<Construct(NoId)>> /\ LinkNow = "sent"
           /\ link = "queued" /\ id # NoId =>
                 Opens(OwnerPackets(tick), id) /\ LinkNow = "listed"
           /\ link = "listed" => AllData(OwnerPackets(tick), id)
           /\ link \in {"sent", "down"} => OwnerPackets(tick) = << >>
           /\ \A now : Ends(OwnerPackets(tick), now) =
                 IF OwnerSends(tick) \/ (link = "queued" /\ id # NoId) THEN val ELSE now
<1> DEFINE a == IF link # "queued" THEN << >>
                ELSE IF id = NoId THEN <<Construct(id)>>
                ELSE <<Construct(id), Value(id, val)>>
           b == IF OwnerSends(tick) THEN <<Value(id, val)>> ELSE << >>
<1>1. OwnerPackets(tick) = a \o b  BY DEF OwnerPackets
<1>2. Construct(id) \in ToServer /\ Value(id, val) \in ToServer
  BY DEF TypeOK, ToServer, Construct, Value
<1>3. a \in Seq(ToServer) /\ b \in Seq(ToServer)  BY <1>2
<1>4. DataOf(Value(id, val), id) /\ Value(id, val).v = val
      /\ Construct(id).kind # "value" /\ Value(id, val).kind = "value"
  BY DEF DataOf, Value, Construct
<1>5. AllData(b, id)  BY <1>4 DEF AllData
<1>6. \A now : Ends(b, now) = IF OwnerSends(tick) THEN val ELSE now
  BY <1>4, EndsShort
<1>7. OwnerSends(tick) => LinkNow = "listed"  BY DEF OwnerSends
<1>8. CASE link # "queued"
  <2>1. a = << >>  BY <1>8
  <2>2. OwnerPackets(tick) = b  BY <1>1, <1>3, <2>1, ConcatEmptySeq
  <2>3. link \in {"sent", "down"} => b = << >>  BY <1>7 DEF LinkNow
  <2> QED  BY <1>5, <1>6, <1>8, <2>2, <2>3
<1>9. CASE link = "queued" /\ id = NoId
  <2>1. LinkNow = "sent" /\ ~OwnerSends(tick)  BY <1>7, <1>9 DEF LinkNow
  <2>2. a = <<Construct(NoId)>> /\ b = << >>  BY <1>9, <2>1
  <2>3. OwnerPackets(tick) = <<Construct(NoId)>>  BY <1>1, <1>3, <2>2, ConcatEmptySeq
  <2>4. \A now : Ends(<<Construct(NoId)>>, now) = now  BY <1>4, <1>9, EndsShort
  <2> QED  BY <1>9, <2>1, <2>3, <2>4
<1>10. CASE link = "queued" /\ id # NoId
  <2>1. LinkNow = "listed"  BY <1>10 DEF LinkNow
  <2>2. a = <<Construct(id), Value(id, val)>>  BY <1>10
  <2>3. Opens(a, id)
    <3>1. Len(a) = 2 /\ a[1] = Construct(id) /\ a[2] = Value(id, val)  BY <2>2
    <3>2. 2..2 = {2}  OBVIOUS
    <3> HIDE DEF a
    <3> QED  BY <1>4, <3>1, <3>2 DEF Opens
  <2>4. Opens(a \o b, id)
    <3> HIDE DEF a, b
    <3> QED  BY <1>3, <1>5, <2>3, DataConcat
  <2>5. \A now : Ends(a, now) = val
    <3> TAKE now
    <3> DEFINE c == <<Construct(id)>>
               d == <<Value(id, val)>>
    <3>1. c \in Seq(ToServer) /\ d \in Seq(ToServer) /\ a = c \o d  BY <1>2, <2>2
    <3>2. \A w : Ends(d, w) = val  BY <1>4, EndsShort
    <3> HIDE DEF a, c, d
    <3> QED  BY <3>1, <3>2, EndsConcat
  <2>6. \A now : Ends(a \o b, now) = val
    <3> HIDE DEF a, b
    <3> QED  BY <1>3, <1>6, <2>5, EndsConcat
  <2> QED  BY <1>1, <1>10, <2>1, <2>4, <2>6
<1> QED  BY <1>8, <1>9, <1>10

LEMMA AnswerFacts ==
    ASSUME NEW k
    PROVE  /\ <<Accepted(k)>> # << >> /\ Head(<<Accepted(k)>>) = Accepted(k)
           /\ Tail(<<Accepted(k)>>) = << >>
           /\ <<Accepted(k), Lost>> # << >> /\ Head(<<Accepted(k), Lost>>) = Accepted(k)
           /\ Tail(<<Accepted(k), Lost>>) = <<Lost>>
           /\ <<Lost>> # << >> /\ Head(<<Lost>>) = Lost /\ Tail(<<Lost>>) = << >>
           /\ Accepted(k).kind = "accepted" /\ Accepted(k).id = k /\ Lost.kind = "lost"
BY DEF Accepted, Lost

LEMMA OwnerWay ==
    ASSUME TypeOK, Way, OwnerReceive
    PROVE  Way'
<1> SUFFICES ASSUME ordered
             PROVE  IF wire THEN (Pushed \/ Asked \/ Answered \/ Returning \/ Served)'
                    ELSE (OwnerLeaves /\ ServerLeaves)'
  <2>1. wire' = wire /\ ordered' = ordered
    BY DEF OwnerReceive, OwnerUpdate, OwnerOnAccepted, OwnerOnLost
  <2> QED  BY <2>1 DEF Way
<1>1. PICK tick \in BOOLEAN :
          OwnerUpdate(tick) \/ OwnerOnAccepted(tick) \/ OwnerOnLost(tick)
  BY DEF OwnerReceive
<1>2. OwnerPackets(tick) \in Seq(ToServer) /\ toSrv \in Seq(ToServer)
  BY OwnerPacketsTyped DEF TypeOK
<1>3. held' = held /\ srvVal' = srvVal /\ Ids' = Ids
  BY <1>1 DEF OwnerUpdate, OwnerOnAccepted, OwnerOnLost, srvVars, Ids
<1>4. CASE wire
  <2>1. Pushed \/ Asked \/ Answered \/ Returning \/ Served  BY <1>4 DEF Way
  <2>2. CASE OwnerUpdate(tick)
    <3>1. /\ link' = LinkNow /\ toSrv' = toSrv \o OwnerPackets(tick)
          /\ id' = id /\ toOwn' = toOwn
          /\ link = "queued" \/ LinkNow = "listed"
      BY <1>4, <2>2 DEF OwnerUpdate, Send, OwnerSends
    <3>2. CASE Pushed
      <4>1. toSrv' = OwnerPackets(tick)  BY <1>2, <3>1, <3>2, ConcatEmptySeq DEF Pushed
      <4>2. link = "queued"  BY <3>2 DEF Pushed
      <4>3. CASE id = NoId
        <5>1. toSrv' = <<Construct(NoId)>> /\ link' = "sent"
          BY <3>1, <4>1, <4>2, <4>3, OwnerPacketsAre
        <5>2. Asked'  BY <1>3, <3>1, <3>2, <5>1 DEF Pushed, Asked
        <5> QED  BY <1>4, <5>2
      <4>4. CASE id # NoId
        <5>1. Opens(toSrv', id) /\ link' = "listed"
          BY <3>1, <4>1, <4>2, <4>4, OwnerPacketsAre
        <5>2. Returning'  BY <1>3, <3>1, <3>2, <4>4, <5>1 DEF Pushed, Returning
        <5> QED  BY <1>4, <5>2
      <4> QED  BY <4>3, <4>4
    <3>3. CASE Asked \/ Answered
      BY <3>1, <3>3 DEF LinkNow, Asked, Answered
    <3>4. CASE Returning \/ Served
      <4>1. link = "listed" /\ LinkNow = "listed"  BY <3>4 DEF Returning, Served, LinkNow
      <4>2. AllData(OwnerPackets(tick), id)  BY <4>1, OwnerPacketsAre
      <4>3. Opens(toSrv, id) => Opens(toSrv', id)
        BY <1>2, <3>1, <4>2, DataConcat
      <4>4. AllData(toSrv, id) => AllData(toSrv', id)
        BY <1>2, <3>1, <4>2, DataConcat
      <4>5. toSrv' = << >> => toSrv = << >>
        BY <1>2, <3>1, ConcatNotEmpty
      <4>6. Returning => Returning'  BY <1>3, <3>1, <4>1, <4>3 DEF Returning
      <4>7. Served => Served'  BY <1>3, <3>1, <4>1, <4>4, <4>5 DEF Served
      <4> QED  BY <1>4, <3>4, <4>6, <4>7
    <3> QED  BY <2>1, <3>2, <3>3, <3>4
  <2>3. CASE OwnerOnAccepted(tick)
    <3>1. toOwn # << >> /\ toOwn' = Tail(toOwn) /\ id' = Head(toOwn).id /\ link' = "listed"
          /\ toSrv' = toSrv \o (OwnerPackets(tick) \o <<Value(id', val)>>)
      BY <1>4, <2>3 DEF OwnerOnAccepted, Send
    <3>2. Answered
      BY <2>1, <3>1 DEF Pushed, Asked, Answered, Returning, Served
    <3>3. id' = held /\ toOwn' = << >>  BY <3>1, <3>2, AnswerFacts DEF Answered
    <3>4. OwnerPackets(tick) = << >> /\ toSrv = << >>
      BY <3>2, OwnerPacketsAre DEF Answered
    <3> DEFINE v == <<Value(id', val)>>
    <3>5. v \in Seq({Value(id', val)}) /\ v # << >>  OBVIOUS
    <3>6. AllData(v, held)  BY <3>3 DEF AllData, DataOf, Value
    <3> HIDE DEF v
    <3>7. toSrv' = v  BY <3>1, <3>4, <3>5, ConcatEmptySeq DEF v
    <3>8. Served'
      BY <1>3, <3>1, <3>2, <3>3, <3>5, <3>6, <3>7 DEF Served, Answered
    <3> QED  BY <1>4, <3>8
  <2>4. CASE OwnerOnLost(tick)
    <3>1. toOwn # << >> /\ Head(toOwn).kind = "lost"  BY <2>4 DEF OwnerOnLost
    <3>2. Answered
      BY <2>1, <3>1 DEF Pushed, Asked, Answered, Returning, Served
    <3>3. Head(toOwn).kind = "accepted"  BY <3>2, AnswerFacts DEF Answered
    <3> QED  BY <3>1, <3>3
  <2> QED  BY <1>1, <2>2, <2>3, <2>4
<1>5. CASE ~wire
  <2>1. OwnerLeaves /\ ServerLeaves  BY <1>5 DEF Way
  <2>2. toSrv' = toSrv
    BY <1>1, <1>5 DEF OwnerUpdate, OwnerOnAccepted, OwnerOnLost, Send
  <2>3. ServerLeaves'  BY <1>3, <2>1, <2>2 DEF ServerLeaves
  <2>4. CASE OwnerUpdate(tick)
    <3>1. toOwn' = toOwn /\ link' = LinkNow
          /\ (link = "queued" \/ LinkNow = "listed")
      BY <2>4 DEF OwnerUpdate, OwnerSends
    <3>2. link \notin {"down", "sent"} /\ LinkNow # "down"  BY <3>1 DEF LinkNow
    <3>3. OwnerLeaves'  BY <1>3, <2>1, <3>1, <3>2 DEF OwnerLeaves
    <3> QED  BY <1>5, <2>3, <3>3
  <2>5. CASE OwnerOnAccepted(tick)
    <3>1. toOwn # << >> /\ Head(toOwn).kind = "accepted"
          /\ toOwn' = Tail(toOwn) /\ link' = "listed"
      BY <2>5 DEF OwnerOnAccepted
    <3>2. PICK k \in Ids : toOwn = <<Accepted(k), Lost>>
      BY <2>1, <3>1, AnswerFacts DEF OwnerLeaves
    <3>3. toOwn' = <<Lost>>  BY <3>1, <3>2, AnswerFacts
    <3>4. OwnerLeaves'  BY <3>1, <3>3 DEF OwnerLeaves
    <3> QED  BY <1>5, <2>3, <3>4
  <2>6. CASE OwnerOnLost(tick)
    <3>1. toOwn # << >> /\ Head(toOwn).kind = "lost"
          /\ toOwn' = Tail(toOwn) /\ link' = "down"
      BY <2>6 DEF OwnerOnLost
    <3>2. toOwn = <<Lost>>
      <4>1. \A k : toOwn # <<Accepted(k), Lost>>  BY <3>1, AnswerFacts
      <4> QED  BY <2>1, <3>1, <4>1 DEF OwnerLeaves
    <3>3. toOwn' = << >>  BY <3>1, <3>2, AnswerFacts
    <3>4. OwnerLeaves'  BY <3>1, <3>3 DEF OwnerLeaves
    <3> QED  BY <1>5, <2>3, <3>4
  <2> QED  BY <1>1, <2>4, <2>5, <2>6
<1> QED  BY <1>4, <1>5

\* In order, the packet a Receive of the server takes is the next.
LEMMA TakingNext ==
    ASSUME TypeOK, ordered, NEW i, NEW kind, Taking(i, kind)
    PROVE  /\ toSrv \in Seq(ToServer) /\ toSrv # << >> /\ toSrv' = Tail(toSrv)
           /\ i = 1 /\ toSrv[i] = Head(toSrv) /\ Head(toSrv).kind = kind
           /\ Head(toSrv) \in ToServer
<1>1. toSrv \in Seq(ToServer)  BY DEF TypeOK
<1>2. i = 1 /\ 1 \in DOMAIN toSrv /\ toSrv[i].kind = kind /\ toSrv' = Without(toSrv, 1)
  BY DEF Taking
<1>3. Without(toSrv, 1) = Tail(toSrv) /\ toSrv # << >> /\ Head(toSrv) = toSrv[1]
  BY <1>1, <1>2, WithoutFirst
<1>4. Head(toSrv) \in ToServer  BY <1>1, <1>3, HeadTailProperties
<1> QED  BY <1>1, <1>2, <1>3, <1>4

\* What a server can take while the connection lasts.
LEMMA NextPacket ==
    ASSUME TypeOK, toSrv # << >>, Pushed \/ Asked \/ Answered \/ Returning \/ Served
    PROVE  /\ Head(toSrv).kind = "construct" <=> Asked \/ Returning
           /\ Head(toSrv).kind = "value" <=> Served
           /\ Head(toSrv).kind # "lost"
           /\ \A i \in DOMAIN toSrv : toSrv[i].kind # "lost"
<1>1. toSrv \in Seq(ToServer)  BY DEF TypeOK
<1>2. Len(toSrv) \in Nat /\ DOMAIN toSrv = 1..Len(toSrv) /\ 1 \in DOMAIN toSrv
      /\ Head(toSrv) = toSrv[1]
  BY <1>1, LenProperties, EmptySeq
<1>3. \A k : Construct(k).kind = "construct"  BY DEF Construct
<1>4. ~Pushed /\ ~Answered  BY DEF Pushed, Answered
<1>5. CASE Asked
  <2> DEFINE q == <<Construct(NoId)>>
  <2>1. toSrv = q  BY <1>5 DEF Asked
  <2>2. DOMAIN q = {1} /\ q[1] = Construct(NoId)  OBVIOUS
  <2> HIDE DEF q
  <2>3. ~Served /\ ~Returning  BY <1>5 DEF Asked, Served, Returning
  <2> QED  BY <1>2, <1>3, <1>5, <2>1, <2>2, <2>3
<1>6. CASE Returning
  <2>1. Head(toSrv) = Construct(id)  BY <1>2, <1>6 DEF Returning, Opens
  <2>2. ~Served  BY <1>6 DEF Returning, Served
  <2>3. ASSUME NEW i \in DOMAIN toSrv PROVE toSrv[i].kind # "lost"
    <3>1. CASE i = 1  BY <1>2, <1>3, <2>1, <3>1
    <3>2. CASE i # 1
      <4>1. i \in 2..Len(toSrv)  BY <1>2, <3>2
      <4> QED  BY <1>6, <4>1 DEF Returning, Opens, DataOf
    <3> QED  BY <3>1, <3>2
  <2> QED  BY <1>3, <1>6, <2>1, <2>2, <2>3
<1>7. CASE Served
  <2>1. \A i \in DOMAIN toSrv : toSrv[i].kind = "value"
    BY <1>7 DEF Served, AllData, DataOf
  <2>2. ~Asked /\ ~Returning  BY <1>7 DEF Asked, Returning, Served
  <2> QED  BY <1>2, <1>7, <2>1, <2>2
<1> QED  BY <1>4, <1>5, <1>6, <1>7

LEMMA LeavesTail ==
    ASSUME TypeOK, ordered, ServerLeaves, NEW i, NEW kind, Taking(i, kind)
    PROVE  /\ kind = "lost" => toSrv' = << >>
           /\ kind # "lost" => /\ toSrv' # << >> /\ toSrv'[Len(toSrv')].kind = "lost"
                               /\ \A k \in 1..(Len(toSrv') - 1) : toSrv'[k].kind # "lost"
<1> DEFINE t == Tail(toSrv)
<1>1. toSrv \in Seq(ToServer) /\ toSrv # << >> /\ Head(toSrv).kind = kind /\ toSrv' = t
  BY TakingNext
<1>2. Len(toSrv) \in Nat /\ Len(toSrv) > 0 /\ Head(toSrv) = toSrv[1]
  BY <1>1, LenProperties, EmptySeq
<1>3. t \in Seq(ToServer) /\ Len(t) = Len(toSrv) - 1
      /\ \A k \in 1..Len(t) : t[k] = toSrv[k + 1]
  BY <1>1, HeadTailProperties
<1>4. toSrv[Len(toSrv)].kind = "lost"
      /\ \A k \in 1..(Len(toSrv) - 1) : toSrv[k].kind # "lost"
  BY <1>1 DEF ServerLeaves
<1> HIDE DEF t
<1>5. CASE kind = "lost"
  <2>1. toSrv[1].kind = "lost"  BY <1>1, <1>2, <1>5
  <2>2. Len(toSrv) = 1
    <3> DEFINE n == Len(toSrv)
    <3>1. n \in Nat /\ n > 0 /\ ~(1 \in 1..(n - 1))  BY <1>2, <1>4, <2>1
    <3> HIDE DEF n
    <3>2. n = 1  BY <3>1
    <3> QED  BY <3>2 DEF n
  <2> QED  BY <1>1, <1>3, <1>5, <2>2, EmptySeq
<1>6. CASE kind # "lost"
  <2>1. Len(toSrv) > 1  BY <1>1, <1>2, <1>4, <1>6
  <2>2. Len(t) > 0 /\ Len(t) \in 1..Len(t) /\ Len(t) + 1 = Len(toSrv)
    BY <1>2, <1>3, <2>1
  <2>3. t # << >>  BY <2>2, EmptySeq
  <2>4. t[Len(t)].kind = "lost"  BY <1>3, <1>4, <2>2
  <2>5. \A k \in 1..(Len(t) - 1) : t[k].kind # "lost"
    <3> SUFFICES ASSUME NEW k \in 1..(Len(t) - 1) PROVE t[k].kind # "lost"
      OBVIOUS
    <3>1. k \in 1..Len(t) /\ k + 1 \in 1..(Len(toSrv) - 1)  BY <1>2, <1>3
    <3> QED  BY <1>3, <1>4, <3>1
  <2> QED  BY <1>1, <1>6, <2>3, <2>4, <2>5
<1> QED  BY <1>5, <1>6

\* Nothing the owner's connection depends on changes.
LEMMA WayStays ==
    ASSUME Way, UNCHANGED <<ordered, wire, link, id, held, srvVal, toSrv, toOwn, issued>>
    PROVE  Way'
BY DEF Way, Pushed, Asked, Answered, Returning, Served, OwnerLeaves, ServerLeaves, Ids

LEMMA ConstructWay ==
    ASSUME TypeOK, Way, NEW i, NEW tick, ServerOnConstruct(i, tick)
    PROVE  Way'
<1>1. UNCHANGED <<ordered, wire, link, id, val, last>>
  BY DEF ServerOnConstruct, ownVars
<1> SUFFICES ASSUME ordered PROVE Way'
  BY <1>1 DEF Way
<1>2. toSrv # << >> /\ toSrv' = Tail(toSrv) /\ Head(toSrv).kind = "construct"
      /\ toSrv[i] = Head(toSrv) /\ toSrv \in Seq(ToServer)
  BY TakingNext DEF ServerOnConstruct
<1>3. /\ held' = IdFor(Head(toSrv).id) /\ srvVal' = Unset
      /\ toOwn' = Send(wire /\ Head(toSrv).id = NoId, toOwn, <<Accepted(held')>>)
  BY <1>2 DEF ServerOnConstruct
<1>4. Construct(NoId).id = NoId /\ \A k : Construct(k).id = k  BY DEF Construct
<1>5. CASE wire
  <2>1. Asked \/ Returning  BY <1>2, <1>5, NextPacket DEF Way
  <2>2. CASE Asked
    <3>1. Head(toSrv) = Construct(NoId) /\ Tail(toSrv) = << >>  BY <2>2 DEF Asked
    <3>2. held' # NoId  BY <1>3, <1>4, <3>1 DEF IdFor, NoId, TypeOK
    <3> DEFINE a == <<Accepted(held')>>
    <3>3. a \in Seq({Accepted(held')})  OBVIOUS
    <3>4. toOwn' = << >> \o a  BY <1>3, <1>4, <1>5, <2>2, <3>1 DEF Send, Asked
    <3> HIDE DEF a
    <3>5. toOwn' = a  BY <3>3, <3>4, ConcatEmptySeq
    <3>6. Answered'
      BY <1>1, <1>2, <1>3, <2>2, <3>1, <3>2, <3>5 DEF Answered, Asked, a
    <3> QED  BY <1>1, <1>5, <3>6 DEF Way
  <2>3. CASE Returning
    <3>1. Head(toSrv) = Construct(id) /\ id # NoId
      BY <1>2, <2>3, LenProperties, EmptySeq DEF Returning, Opens
    <3>2. held' = id /\ toOwn' = toOwn  BY <1>3, <1>4, <3>1 DEF IdFor, Send
    <3>3. AllData(toSrv', id) /\ toSrv' # << >>
      BY <1>2, <2>3, DataTail DEF Returning
    <3>4. Served'
      BY <1>1, <2>3, <3>1, <3>2, <3>3 DEF Returning, Served
    <3> QED  BY <1>1, <1>5, <3>4 DEF Way
  <2> QED  BY <2>1, <2>2, <2>3
<1>6. CASE ~wire
  <2>1. OwnerLeaves /\ ServerLeaves  BY <1>6 DEF Way
  <2>2. toOwn' = toOwn  BY <1>3, <1>6 DEF Send
  <2>3. issued \in Nat /\ issued' \in Nat /\ issued <= issued'
    BY DEF ServerOnConstruct, NowIssued, TypeOK
  <2>4. OwnerLeaves'  BY <1>1, <2>1, <2>2, <2>3, IdsGrow DEF OwnerLeaves
  <2>5. ServerLeaves'
    BY <2>1, LeavesTail DEF ServerLeaves, ServerOnConstruct
  <2> QED  BY <1>1, <1>6, <2>4, <2>5 DEF Way
<1> QED  BY <1>5, <1>6

LEMMA ValueWay ==
    ASSUME TypeOK, Way, NEW i, NEW tick, ServerOnValue(i, tick)
    PROVE  Way'
<1>1. UNCHANGED <<ordered, wire, link, id, held, toOwn, issued>>
  BY DEF ServerOnValue, ownVars
<1> SUFFICES ASSUME ordered PROVE Way'
  BY <1>1 DEF Way
<1>2. toSrv # << >> /\ toSrv' = Tail(toSrv) /\ Head(toSrv).kind = "value"
      /\ toSrv[i] = Head(toSrv) /\ toSrv \in Seq(ToServer) /\ Head(toSrv) \in ToServer
  BY TakingNext DEF ServerOnValue
<1>3. CASE wire
  <2>1. Served  BY <1>2, <1>3, NextPacket DEF Way
  <2>2. AllData(toSrv', id) /\ Head(toSrv).id = held
    BY <1>2, <2>1, DataTail DEF Served, DataOf
  <2>3. srvVal' = Head(toSrv).v  BY <1>2, <2>2 DEF ServerOnValue
  <2>4. srvVal' # Unset  BY <1>2, <2>3 DEF ToServer, Unset
  <2>5. Served'  BY <1>1, <2>1, <2>2, <2>4 DEF Served
  <2> QED  BY <1>1, <1>3, <2>5 DEF Way
<1>4. CASE ~wire
  <2>1. OwnerLeaves /\ ServerLeaves  BY <1>4 DEF Way
  <2>2. OwnerLeaves'  BY <1>1, <2>1 DEF OwnerLeaves, Ids
  <2>3. ServerLeaves'  BY <2>1, LeavesTail DEF ServerLeaves, ServerOnValue
  <2> QED  BY <1>1, <1>4, <2>2, <2>3 DEF Way
<1> QED  BY <1>3, <1>4

LEMMA LostWay ==
    ASSUME TypeOK, Way, NEW tick, ServerOnLost(tick)
    PROVE  Way'
<1>1. UNCHANGED <<ordered, wire, link, id, toOwn, issued>> /\ held' = NoId
  BY DEF ServerOnLost, ownVars
<1> SUFFICES ASSUME ordered PROVE Way'
  BY <1>1 DEF Way
<1>2. toSrv # << >> /\ Head(toSrv).kind = "lost"
  BY TakingNext DEF ServerOnLost
<1>3. ~wire  BY <1>2, NextPacket DEF Way
<1>4. OwnerLeaves /\ ServerLeaves  BY <1>3 DEF Way
<1>5. OwnerLeaves'  BY <1>1, <1>4 DEF OwnerLeaves, Ids
<1>6. ServerLeaves'  BY <1>1, <1>4, LeavesTail DEF ServerLeaves, ServerOnLost
<1> QED  BY <1>1, <1>3, <1>5, <1>6 DEF Way

LEMMA ServerWay ==
    ASSUME TypeOK, Way, ServerReceive
    PROVE  Way'
<1>1. PICK tick \in BOOLEAN :
        \/ ServerUpdate(tick)
        \/ \E i \in DOMAIN toSrv : ServerOnConstruct(i, tick) \/ ServerOnValue(i, tick)
        \/ ServerOnLost(tick)
        \/ \E p \in Peers : ServerOnPeerLost(p, tick)
  BY DEF ServerReceive
<1>2. ASSUME ServerUpdate(tick) \/ \E p \in Peers : ServerOnPeerLost(p, tick)
      PROVE  Way'
  BY <1>2, WayStays DEF ServerUpdate, ServerOnPeerLost, ownVars
<1> QED  BY <1>1, <1>2, ConstructWay, ValueWay, LostWay

LEMMA AppendTwo == \A x, y : Append(<<x>>, y) = <<x, y>>
<1> TAKE x, y
<1> DEFINE a == <<x>>
           b == <<x, y>>
           S == {x, y}
<1>1. a \in Seq(S) /\ y \in S  OBVIOUS
<1>2. Len(a) = 1 /\ a[1] = x  OBVIOUS
<1>3. b \in Seq(S) /\ Len(b) = 2 /\ b[1] = x /\ b[2] = y  OBVIOUS
<1> HIDE DEF a, b, S
<1>4. Append(a, y) \in Seq(S) /\ Len(Append(a, y)) = Len(a) + 1
      /\ (\A i \in 1..Len(a) : Append(a, y)[i] = a[i]) /\ Append(a, y)[Len(a) + 1] = y
  BY <1>1, AppendProperties
<1>5. Len(Append(a, y)) = 2 /\ Append(a, y)[1] = x /\ Append(a, y)[2] = y
  BY <1>2, <1>4
<1>6. \A i \in 1..2 : i = 1 \/ i = 2  OBVIOUS
<1>7. Append(a, y) = b  BY <1>3, <1>4, <1>5, <1>6, SeqEqual
<1> QED  BY <1>7 DEF a, b

LEMMA BreakWay ==
    ASSUME TypeOK, Way, Break
    PROVE  Way'
<1>1. UNCHANGED <<ordered, link, id, held, srvVal, issued>> /\ wire /\ ~wire'
  BY DEF Break, ownVars, srvVars
<1> SUFFICES ASSUME ordered PROVE Way'
  BY <1>1 DEF Way
<1>2. Pushed \/ Asked \/ Answered \/ Returning \/ Served  BY <1>1 DEF Way
<1>3. PICK n \in 0..Len(toSrv) : toSrv' = Append(SubSeq(toSrv, 1, n), Lost)
  BY DEF Break, Arrived
<1>4. PICK m \in 0..Len(toOwn) : toOwn' = Append(SubSeq(toOwn, 1, m), Lost)
  BY DEF Break, Arrived
<1>5. toSrv \in Seq(ToServer) /\ toOwn \in Seq(ToOwner) /\ Lost \in ToServer /\ Lost \in ToOwner
  BY DEF TypeOK, Lost, ToServer, ToOwner, Ids, NoId
<1>6. ServerLeaves'
  <2> DEFINE q == SubSeq(toSrv, 1, n)
  <2>1. q \in Seq(ToServer) /\ Len(q) = n /\ \A k \in 1..n : q[k] = toSrv[k]
    BY <1>5, PrefixFacts
  <2> HIDE DEF q
  <2>2. toSrv' = Append(q, Lost)  BY <1>3 DEF q
  <2>3. toSrv' # << >> /\ Len(toSrv') = n + 1 /\ toSrv'[n + 1] = Lost
        /\ \A k \in 1..n : toSrv'[k] = q[k]
    BY <1>5, <2>1, <2>2, AppendProperties
  <2>4. \A k \in DOMAIN toSrv : toSrv[k].kind # "lost"
    <3>1. CASE toSrv = << >>  BY <3>1
    <3> QED  BY <1>2, <3>1, NextPacket
  <2>5. n \in Nat /\ \A k \in 1..n : k \in DOMAIN toSrv  BY <1>5, LenProperties
  <2>6. \A k \in 1..n : toSrv'[k].kind # "lost"  BY <2>1, <2>3, <2>4, <2>5
  <2>7. Len(toSrv') - 1 = n  BY <2>3, <2>5
  <2> QED  BY <2>3, <2>6, <2>7 DEF ServerLeaves, Lost
<1>7. OwnerLeaves'
  <2>1. link # "down"  BY <1>2 DEF Pushed, Asked, Answered, Returning, Served
  <2> DEFINE r == SubSeq(toOwn, 1, m)
  <2>2. r \in Seq(ToOwner) /\ Len(r) = m /\ \A k \in 1..m : r[k] = toOwn[k]
    BY <1>5, PrefixFacts
  <2> HIDE DEF r
  <2>3. toOwn' = Append(r, Lost)  BY <1>4 DEF r
  <2>4. CASE r = << >>
    <3>1. toOwn' = <<Lost>>  BY <2>3, <2>4
    <3> QED  BY <1>1, <2>1, <3>1 DEF OwnerLeaves
  <2>5. CASE r # << >>
    <3>1. m > 0 /\ Len(toOwn) > 0 /\ toOwn # << >>
      BY <1>5, <2>2, <2>5, LenProperties, EmptySeq
    <3>2. Answered  BY <1>2, <3>1 DEF Pushed, Asked, Answered, Returning, Served
    <3>3. toOwn = <<Accepted(held)>>  BY <3>2 DEF Answered
    <3>4. Len(toOwn) = 1 /\ toOwn[1] = Accepted(held)  BY <3>3
    <3>5. m = 1  BY <3>1, <3>4
    <3> DEFINE a == <<Accepted(held)>>
    <3>6. Len(a) = 1 /\ a[1] = Accepted(held)  OBVIOUS
    <3>7. a \in Seq(ToOwner)  BY <1>5, <3>3
    <3>8. r = a
      <4> HIDE DEF a
      <4> QED  BY <2>2, <3>4, <3>5, <3>6, <3>7, SeqEqual
    <3>9. toOwn' = <<Accepted(held), Lost>>
      <4>1. Append(a, Lost) = <<Accepted(held), Lost>>  BY AppendTwo
      <4> HIDE DEF a
      <4> QED  BY <2>3, <3>8, <4>1
    <3>10. held \in Ids'  BY <1>1 DEF TypeOK, Ids
    <3> QED  BY <1>1, <3>2, <3>9, <3>10 DEF OwnerLeaves, Answered
  <2> QED  BY <2>4, <2>5
<1> QED  BY <1>1, <1>6, <1>7 DEF Way

LEMMA NextWay == TypeOK /\ Way /\ [Next]_vars => Way'
<1> SUFFICES ASSUME TypeOK, Way, [Next]_vars PROVE Way'
  OBVIOUS
<1>1. ASSUME NEW v \in 1..MaxValue, UpdateNode(v) PROVE Way'
  BY <1>1, WayStays DEF UpdateNode, srvVars
<1>2. CASE Connect
  <2>1. ~wire /\ link = "down" /\ toSrv = << >> /\ toOwn = << >> /\ wire' /\ link' = "queued"
        /\ UNCHANGED <<ordered, held, toSrv, toOwn>>
    BY <1>2 DEF Connect, srvVars
  <2>2. ordered => held = NoId  BY <2>1 DEF Way, ServerLeaves
  <2> QED  BY <2>1, <2>2 DEF Way, Pushed
<1>3. ASSUME NEW p \in Peers, PeerReceive(p) \/ ConnectPeer(p) \/ BreakPeer(p)
      PROVE  Way'
  BY <1>3, WayStays DEF PeerReceive, ConnectPeer, BreakPeer, ownVars, srvVars
<1>4. CASE UNCHANGED vars
  BY <1>4, WayStays DEF vars, ownVars, srvVars
<1> QED
  BY <1>1, <1>2, <1>3, <1>4, OwnerWay, ServerWay, BreakWay DEF Next

LEMMA InitWay == Init => Way
BY DEF Init, Way, OwnerLeaves, ServerLeaves

\* UnsetIsPassing: with ordered packets a replica of the server, however often
\* the connection breaks in between, is without data only while data, the end of
\* its owner's connection, or the answer that lets the owner send is on its way.
THEOREM NoLastingUnset == Spec => []UnsetIsPassing
<1>1. Init => TypeOK /\ Way  BY InitTyped, InitWay
<1>2. TypeOK /\ Way /\ [Next]_vars => (TypeOK /\ Way)'  BY NextTyped, NextWay
<1>3. TypeOK /\ Way => UnsetIsPassing
  <2> SUFFICES ASSUME TypeOK, Way, ordered, held # NoId, srvVal = Unset
               PROVE  \/ Values(toSrv) # {}
                      \/ \E i \in DOMAIN toSrv : toSrv[i].kind = "lost"
                      \/ \E i \in DOMAIN toOwn : toOwn[i].kind = "accepted"
    BY DEF UnsetIsPassing
  <2>1. toSrv \in Seq(ToServer)  BY DEF TypeOK
  <2>2. CASE wire
    <3>1. Answered \/ Served
      BY <2>2 DEF Way, Pushed, Asked, Answered, Returning, Served
    <3>2. CASE Answered
      <4> DEFINE a == <<Accepted(held)>>
      <4>1. toOwn = a  BY <3>2 DEF Answered
      <4>2. 1 \in DOMAIN a /\ a[1] = Accepted(held)  OBVIOUS
      <4> HIDE DEF a
      <4> QED  BY <4>1, <4>2, AnswerFacts
    <3>3. CASE Served
      <4>1. toSrv # << >> /\ AllData(toSrv, id)  BY <3>3 DEF Served
      <4> QED  BY <2>1, <4>1, DataShows
    <3> QED  BY <3>1, <3>2, <3>3
  <2>3. CASE ~wire
    <3>1. toSrv # << >> /\ toSrv[Len(toSrv)].kind = "lost"
      BY <2>3 DEF Way, ServerLeaves
    <3>2. Len(toSrv) \in DOMAIN toSrv  BY <2>1, <3>1, LenProperties, EmptySeq
    <3> QED  BY <3>1, <3>2
  <2> QED  BY <2>2, <2>3
<1> QED  BY <1>1, <1>2, <1>3, PTL DEF Spec

LEMMA CurrentTyped ==
    ASSUME TypeOK
    PROVE  /\ val \in Int /\ last \in Int /\ srvVal \in Int /\ srvLast \in Int
           /\ Ends(toSrv, srvVal) \in Int
           /\ \A p \in Peers : Ends(toCli[p], copy[p].v) \in Int
<1>1. val \in Int /\ last \in Int /\ srvVal \in Int /\ srvLast \in Int
  BY ValueAssumption DEF TypeOK, Nothing
<1>2. \A p \in Peers : copy[p].v \in Int
  <2>1. \A p \in Peers : copy[p].v \in Nat  BY CarriedTyped
  <2>2. \A n \in Nat : n \in Int  OBVIOUS
  <2> QED  BY <2>1, <2>2, Zenon
<1>3. ASSUME NEW q \in Seq(ToServer) \cup Seq(ToPeer), NEW now \in Int
      PROVE  Ends(q, now) \in Int
  <2>1. CASE Values(q) = {}  BY <2>1 DEF Ends
  <2>2. CASE Values(q) # {}
    <3>1. PICK S : q \in Seq(S) /\ (S = ToServer \/ S = ToPeer)  OBVIOUS
    <3>2. Len(q) \in Nat /\ DOMAIN q = 1..Len(q)  BY <3>1, LenProperties
    <3>3. Values(q) \in SUBSET (1..Len(q))  BY <3>2 DEF Values
    <3>4. PICK i \in Values(q) : \A j \in Values(q) : j <= i
      BY <2>2, <3>2, <3>3, HasLast
    <3>5. Ends(q, now) = q[i].v  BY <3>1, <3>4, EndsOf
    <3>6. q[i] \in S /\ q[i].kind = "value"  BY <3>1, <3>2, ElementOfSeq DEF Values
    <3>7. q[i].v \in Int
      BY <3>1, <3>6, ValueAssumption DEF ToServer, ToPeer
    <3> QED  BY <3>5, <3>7
  <2> QED  BY <2>1, <2>2
<1> QED  BY <1>1, <1>2, <1>3 DEF TypeOK

LEMMA OwnerCurrent ==
    ASSUME TypeOK, Way, SrvCurrent, OwnerReceive
    PROVE  SrvCurrent'
<1>1. PICK tick \in BOOLEAN :
          OwnerUpdate(tick) \/ OwnerOnAccepted(tick) \/ OwnerOnLost(tick)
  BY DEF OwnerReceive
<1>2. UNCHANGED <<ordered, wire, val, srvVal>> /\ last' = LastNow(tick)
  BY <1>1 DEF OwnerUpdate, OwnerOnAccepted, OwnerOnLost, srvVars
<1>3. val \in Int /\ last \in Int  BY CurrentTyped
<1>4. last' <= val' /\ (last' = last \/ (OwnerSends(tick) /\ last' = val))
  BY <1>2, <1>3 DEF LastNow, SrvCurrent
<1> SUFFICES ASSUME ordered, wire, link' = "listed"
             PROVE  last' <= Ends(toSrv', srvVal') /\ Ends(toSrv', srvVal') <= val'
  BY <1>2, <1>4 DEF SrvCurrent
<1>5. OwnerPackets(tick) \in Seq(ToServer) /\ toSrv \in Seq(ToServer)
  BY OwnerPacketsTyped DEF TypeOK
<1>6. CASE OwnerUpdate(tick)
  <2>1. toSrv' = toSrv \o OwnerPackets(tick) /\ link' = LinkNow
    BY <1>6 DEF OwnerUpdate, Send
  <2>2. Ends(toSrv', srvVal) = Ends(OwnerPackets(tick), Ends(toSrv, srvVal))
    BY <1>5, <2>1, EndsConcat
  <2>3. link = "listed" \/ (link = "queued" /\ id # NoId)  BY <2>1 DEF LinkNow
  <2>4. CASE OwnerSends(tick) \/ (link = "queued" /\ id # NoId)
    <3>1. Ends(toSrv', srvVal) = val  BY <2>2, <2>4, OwnerPacketsAre
    <3> QED  BY <1>2, <1>3, <1>4, <3>1
  <2>5. CASE ~OwnerSends(tick) /\ link = "listed"
    <3>1. Ends(toSrv', srvVal) = Ends(toSrv, srvVal)  BY <2>2, <2>5, OwnerPacketsAre
    <3>2. last' = last  BY <1>4, <2>5
    <3> QED  BY <1>2, <2>5, <3>1, <3>2 DEF SrvCurrent
  <2> QED  BY <2>3, <2>4, <2>5
<1>7. CASE OwnerOnAccepted(tick)
  <2> DEFINE v == <<Value(id', val)>>
             r == OwnerPackets(tick) \o v
  <2>1. toSrv' = toSrv \o r  BY <1>7 DEF OwnerOnAccepted, Send
  <2>2. v \in Seq(ToServer)
    <3>1. Head(toOwn) \in ToOwner  BY <1>7, HeadTailProperties DEF OwnerOnAccepted, TypeOK
    <3>2. id' \in Ids  BY <1>7, <3>1 DEF OwnerOnAccepted, ToOwner
    <3>3. Value(id', val) \in ToServer  BY <3>2 DEF TypeOK, ToServer, Value
    <3> QED  BY <3>3
  <2>3. \A now : Ends(v, now) = val  BY EndsShort DEF Value
  <2> HIDE DEF v
  <2>4. r \in Seq(ToServer)  BY <1>5, <2>2, ConcatProperties
  <2>5. \A now : Ends(r, now) = val  BY <1>5, <2>2, <2>3, EndsConcat
  <2> HIDE DEF r
  <2>6. Ends(toSrv', srvVal) = val  BY <1>5, <2>1, <2>4, <2>5, EndsConcat
  <2> QED  BY <1>2, <1>3, <1>4, <2>6
<1>8. CASE OwnerOnLost(tick)
  BY <1>8 DEF OwnerOnLost
<1> QED  BY <1>1, <1>6, <1>7, <1>8

\* Whatever the server takes, it ends with the same.
LEMMA ServerCurrent ==
    ASSUME TypeOK, Way, SrvCurrent, ServerReceive
    PROVE  SrvCurrent'
<1>1. PICK tick \in BOOLEAN :
        \/ ServerUpdate(tick)
        \/ \E i \in DOMAIN toSrv : ServerOnConstruct(i, tick) \/ ServerOnValue(i, tick)
        \/ ServerOnLost(tick)
        \/ \E p \in Peers : ServerOnPeerLost(p, tick)
  BY DEF ServerReceive
<1>2. UNCHANGED <<ordered, wire, val, last, link>>
  BY <1>1 DEF ServerUpdate, ServerOnConstruct, ServerOnValue, ServerOnLost,
              ServerOnPeerLost, ownVars
<1> SUFFICES ASSUME ordered, wire, link = "listed"
             PROVE  Ends(toSrv', srvVal') = Ends(toSrv, srvVal)
  BY <1>2 DEF SrvCurrent
<1>3. Returning \/ Served  BY DEF Way, Pushed, Asked, Answered, Returning, Served
<1>4. ASSUME ServerUpdate(tick) \/ \E p \in Peers : ServerOnPeerLost(p, tick)
      PROVE  UNCHANGED <<toSrv, srvVal>>
  BY <1>4 DEF ServerUpdate, ServerOnPeerLost
<1>5. ASSUME NEW i \in DOMAIN toSrv, ServerOnConstruct(i, tick)
      PROVE  Ends(toSrv', srvVal') = Ends(toSrv, srvVal)
  <2>1. toSrv \in Seq(ToServer) /\ toSrv # << >> /\ toSrv' = Tail(toSrv)
        /\ Head(toSrv).kind = "construct"
    BY <1>5, TakingNext DEF ServerOnConstruct
  <2>2. Returning
    <3>1. ~Asked  BY DEF Asked
    <3> QED  BY <1>3, <2>1, <3>1, NextPacket
  <2>3. Ends(toSrv, srvVal) = Ends(toSrv', srvVal)  BY <2>1, EndsTail
  <2>4. AllData(toSrv', id) /\ toSrv' # << >>  BY <2>1, <2>2, DataTail DEF Returning
  <2>5. toSrv' \in Seq(ToServer)  BY <2>1, HeadTailProperties
  <2> QED  BY <2>3, <2>4, <2>5, DataShows
<1>6. ASSUME NEW i \in DOMAIN toSrv, ServerOnValue(i, tick)
      PROVE  Ends(toSrv', srvVal') = Ends(toSrv, srvVal)
  <2>1. toSrv \in Seq(ToServer) /\ toSrv # << >> /\ toSrv' = Tail(toSrv)
        /\ Head(toSrv).kind = "value" /\ toSrv[i] = Head(toSrv)
    BY <1>6, TakingNext DEF ServerOnValue
  <2>2. Served  BY <1>3, <2>1, NextPacket
  <2>3. Head(toSrv).id = held  BY <2>1, <2>2, DataTail DEF Served, DataOf
  <2>4. srvVal' = Head(toSrv).v  BY <1>6, <2>1, <2>3 DEF ServerOnValue
  <2> QED  BY <2>1, <2>4, EndsTail
<1>7. ~ServerOnLost(tick)
  <2> SUFFICES ASSUME ServerOnLost(tick) PROVE FALSE
    OBVIOUS
  <2>1. toSrv # << >> /\ Head(toSrv).kind = "lost"
    BY TakingNext DEF ServerOnLost
  <2> QED  BY <1>3, <2>1, NextPacket
<1> QED  BY <1>1, <1>4, <1>5, <1>6, <1>7

LEMMA NextCurrent ==
    ASSUME ~Reverts
    PROVE  TypeOK /\ Way /\ SrvCurrent /\ [Next]_vars => SrvCurrent'
<1> SUFFICES ASSUME TypeOK, Way, SrvCurrent, [Next]_vars PROVE SrvCurrent'
  OBVIOUS
<1>1. ASSUME NEW v \in 1..MaxValue, UpdateNode(v) PROVE SrvCurrent'
  <2>1. val' = v /\ v > val /\ UNCHANGED <<ordered, wire, link, last, toSrv, srvVal>>
    BY <1>1 DEF UpdateNode, srvVars
  <2>2. v \in Int /\ val \in Int /\ last \in Int  BY CurrentTyped
  <2>3. ordered /\ wire /\ link = "listed" => Ends(toSrv, srvVal) \in Int  BY CurrentTyped
  <2> QED  BY <2>1, <2>2, <2>3 DEF SrvCurrent
<1>2. CASE Connect
  <2>1. link' = "queued" /\ UNCHANGED <<val, last>>  BY <1>2 DEF Connect
  <2> QED  BY <2>1 DEF SrvCurrent
<1>3. CASE Break
  <2>1. ~wire' /\ UNCHANGED <<val, last>>  BY <1>3 DEF Break, ownVars
  <2> QED  BY <2>1 DEF SrvCurrent
<1>4. ASSUME UNCHANGED <<ordered, wire, link, val, last, toSrv, srvVal>>
      PROVE  SrvCurrent'
  BY <1>4 DEF SrvCurrent
<1>5. ASSUME NEW p \in Peers, PeerReceive(p) \/ ConnectPeer(p) \/ BreakPeer(p)
      PROVE  SrvCurrent'
  BY <1>4, <1>5 DEF PeerReceive, ConnectPeer, BreakPeer, ownVars, srvVars
<1>6. CASE UNCHANGED vars
  BY <1>4, <1>6 DEF vars, ownVars, srvVars
<1> QED
  BY <1>1, <1>2, <1>3, <1>5, <1>6, OwnerCurrent, ServerCurrent DEF Next

\* ServerUpToDate, for an owner that never writes a value it had before: once it
\* has nothing new to send, the server ends with the owner's value, whatever was
\* cut off and sent anew in between.
THEOREM ServerGetsLast ==
    ASSUME ~Reverts
    PROVE  Spec => []ServerUpToDate
<1> DEFINE Inv == TypeOK /\ Way /\ SrvCurrent
<1>1. Init => Inv
  <2>1. Init => SrvCurrent  BY DEF Init, SrvCurrent, Nothing
  <2> QED  BY <2>1, InitTyped, InitWay
<1>2. Inv /\ [Next]_vars => Inv'  BY NextTyped, NextWay, NextCurrent
<1>3. Inv => ServerUpToDate
  <2> SUFFICES ASSUME Inv, ordered, wire, link = "listed", val = last
               PROVE  Ends(toSrv, srvVal) = val
    BY DEF ServerUpToDate
  <2>1. Ends(toSrv, srvVal) \in Int  BY CurrentTyped
  <2>2. last <= Ends(toSrv, srvVal) /\ Ends(toSrv, srvVal) <= val  BY DEF SrvCurrent
  <2> QED  BY <2>1, <2>2, CurrentTyped
<1> QED  BY <1>1, <1>2, <1>3, PTL DEF Spec

---------------------------------------------------------------------------
(* The peers.                                                              *)

\* A receiver with copy c that is yet to receive q shows data of replica k:
\* it has the replica, or gets it, and after that only data of it.
Follows(q, c, k) ==
    \E i \in 0..Len(q) :
        /\ IF i = 0 THEN c.id = k ELSE i < Len(q) /\ q[i] = Construct(k)
        /\ \A j \in (i + 1)..Len(q) : DataOf(q[j], k)

PeerCurrent(p) ==
    (up[p] /\ peer[p] = "listed") =>
        /\ Follows(toCli[p], copy[p], held)
        /\ srvLast <= Ends(toCli[p], copy[p].v) /\ Ends(toCli[p], copy[p].v) <= srvVal

PeersCurrent ==
    /\ Listed # {} => held # NoId
    /\ ordered => srvLast <= srvVal /\ \A p \in Peers : PeerCurrent(p)

LEMMA FollowsConcat ==
    ASSUME NEW S, NEW q \in Seq(S), NEW r \in Seq(S), NEW c, NEW k,
           \/ Opens(r, k)
           \/ AllData(r, k) /\ Follows(q, c, k)
    PROVE  Follows(q \o r, c, k)
<1> DEFINE t == q \o r
<1>1. Len(q) \in Nat /\ DOMAIN q = 1..Len(q) /\ Len(r) \in Nat /\ DOMAIN r = 1..Len(r)
  BY LenProperties
<1>2. Len(t) = Len(q) + Len(r)
      /\ \A i \in 1..(Len(q) + Len(r)) :
            t[i] = IF i <= Len(q) THEN q[i] ELSE r[i - Len(q)]
  BY ConcatProperties
<1> HIDE DEF t
<1>3. \A j \in 1..Len(q) : t[j] = q[j] /\ j \in 1..Len(t)  BY <1>1, <1>2
<1>4. \A j \in (Len(q) + 1)..Len(t) : t[j] = r[j - Len(q)] /\ j - Len(q) \in 1..Len(r)
  BY <1>1, <1>2
<1>5. CASE Opens(r, k)
  <2> DEFINE i == Len(q) + 1
  <2>1. i \in 0..Len(t) /\ i < Len(t) /\ i # 0 /\ i \in (Len(q) + 1)..Len(t) /\ i - Len(q) = 1
    BY <1>1, <1>2, <1>5 DEF Opens
  <2>2. t[i] = Construct(k)  BY <1>4, <1>5, <2>1 DEF Opens
  <2>3. ASSUME NEW j \in (i + 1)..Len(t) PROVE DataOf(t[j], k)
    <3>1. j \in (Len(q) + 1)..Len(t) /\ j - Len(q) \in 2..Len(r)  BY <1>1, <1>2
    <3> QED  BY <1>4, <1>5, <3>1 DEF Opens
  <2> HIDE DEF i
  <2> QED  BY <2>1, <2>2, <2>3 DEF Follows, t
<1>6. CASE AllData(r, k) /\ Follows(q, c, k)
  <2>1. PICK i \in 0..Len(q) :
            /\ IF i = 0 THEN c.id = k ELSE i < Len(q) /\ q[i] = Construct(k)
            /\ \A j \in (i + 1)..Len(q) : DataOf(q[j], k)
    BY <1>6 DEF Follows
  <2>2. i \in 0..Len(t) /\ (i < Len(q) => i < Len(t))  BY <1>1, <1>2
  <2>3. i # 0 => i < Len(t) /\ t[i] = Construct(k)  BY <1>1, <1>3, <2>1, <2>2
  <2>4. ASSUME NEW j \in (i + 1)..Len(t) PROVE DataOf(t[j], k)
    <3>1. CASE j <= Len(q)
      <4>1. j \in (i + 1)..Len(q) /\ j \in 1..Len(q)  BY <1>1, <3>1
      <4> QED  BY <1>3, <2>1, <4>1
    <3>2. CASE ~(j <= Len(q))
      <4>1. j \in (Len(q) + 1)..Len(t)  BY <1>1, <1>2, <3>2
      <4> QED  BY <1>1, <1>4, <1>6, <4>1 DEF AllData
    <3> QED  BY <3>1, <3>2
  <2> QED  BY <2>1, <2>2, <2>3, <2>4 DEF Follows, t
<1> QED  BY <1>5, <1>6

\* What the server's Receive sends a peer, by where it is in the peer's lists.
LEMMA SrvPacketsAre ==
    ASSUME TypeOK, NEW tick, NEW p \in Listed
    PROVE  /\ p \in Queued => Opens(SrvPackets(p, tick), held)
           /\ p \notin Queued => AllData(SrvPackets(p, tick), held)
           /\ \A now : Ends(SrvPackets(p, tick), now) =
                 IF SrvSends(tick) \/ p \in Queued THEN srvVal ELSE now
<1> DEFINE a == IF p \in Queued THEN <<Construct(held), Value(held, srvVal)>> ELSE << >>
           b == IF p \in Listed /\ SrvSends(tick) THEN <<Value(held, srvVal)>> ELSE << >>
<1>1. SrvPackets(p, tick) = a \o b  BY DEF SrvPackets
<1>2. Construct(held) \in ToPeer /\ Value(held, srvVal) \in ToPeer
  BY DEF TypeOK, ToPeer, Construct, Value
<1>3. a \in Seq(ToPeer) /\ b \in Seq(ToPeer)  BY <1>2
<1>4. DataOf(Value(held, srvVal), held) /\ Value(held, srvVal).v = srvVal
      /\ Construct(held).kind # "value" /\ Value(held, srvVal).kind = "value"
  BY DEF DataOf, Value, Construct
<1>5. AllData(b, held)  BY <1>4 DEF AllData
<1>6. \A now : Ends(b, now) = IF SrvSends(tick) THEN srvVal ELSE now
  BY <1>4, EndsShort
<1>7. CASE p \notin Queued
  <2>1. a = << >>  BY <1>7
  <2>2. SrvPackets(p, tick) = b  BY <1>1, <1>3, <2>1, ConcatEmptySeq
  <2> QED  BY <1>5, <1>6, <1>7, <2>2
<1>8. CASE p \in Queued
  <2>1. a = <<Construct(held), Value(held, srvVal)>>  BY <1>8
  <2>2. Opens(a, held)
    <3>1. Len(a) = 2 /\ a[1] = Construct(held) /\ a[2] = Value(held, srvVal)  BY <2>1
    <3>2. 2..2 = {2}  OBVIOUS
    <3> HIDE DEF a
    <3> QED  BY <1>4, <3>1, <3>2 DEF Opens
  <2>3. Opens(a \o b, held)
    <3> HIDE DEF a, b
    <3> QED  BY <1>3, <1>5, <2>2, DataConcat
  <2>4. \A now : Ends(a, now) = srvVal
    <3> TAKE now
    <3> DEFINE c == <<Construct(held)>>
               d == <<Value(held, srvVal)>>
    <3>1. c \in Seq(ToPeer) /\ d \in Seq(ToPeer) /\ a = c \o d  BY <1>2, <2>1
    <3>2. \A w : Ends(d, w) = srvVal  BY <1>4, EndsShort
    <3> HIDE DEF a, c, d
    <3> QED  BY <3>1, <3>2, EndsConcat
  <2>5. \A now : Ends(a \o b, now) = srvVal
    <3> HIDE DEF a, b
    <3> QED  BY <1>3, <1>6, <2>4, EndsConcat
  <2> QED  BY <1>1, <1>8, <2>3, <2>5
<1> QED  BY <1>7, <1>8

\* A Receive of the server that leaves its replica in place, with the data it
\* had or later data.
LEMMA ServingCurrent ==
    ASSUME TypeOK, PeersCurrent, NEW tick, Deliver(tick, NoPackets),
           srvLast' = SrvLastNow(tick), UNCHANGED <<ordered, up, copy, held>>,
           ordered => srvVal <= srvVal', srvVal' \in Int,
           \A p \in Peers : peer'[p] \in {PeerNow[p], "out"}
    PROVE  PeersCurrent'
<1>1. Listed' \subseteq Listed /\ \A p \in Peers : peer'[p] = "listed" => p \in Listed
  BY DEF Listed, PeerNow, Queued
<1>2. Listed' # {} => held' # NoId  BY <1>1 DEF PeersCurrent
<1>3. srvVal \in Int /\ srvLast \in Int
      /\ \A p \in Peers : Ends(toCli[p], copy[p].v) \in Int
  BY CurrentTyped
<1>4. ASSUME ordered
      PROVE  srvLast' <= srvVal'
  BY <1>3, <1>4 DEF SrvLastNow, PeersCurrent
<1>5. ASSUME ordered, NEW p \in Peers, up'[p], peer'[p] = "listed"
      PROVE  /\ Follows(toCli'[p], copy'[p], held')
             /\ srvLast' <= Ends(toCli'[p], copy'[p].v)
             /\ Ends(toCli'[p], copy'[p].v) <= srvVal'
  <2> DEFINE r == SrvPackets(p, tick)
  <2>1. p \in Listed  BY <1>1, <1>5
  <2>2. r \in Seq(ToPeer) /\ toCli[p] \in Seq(ToPeer)  BY SrvPacketsTyped DEF TypeOK
  <2>3. toCli'[p] = toCli[p] \o (r \o << >>)
    BY <1>5 DEF Deliver, NoPackets, Send
  <2>4. /\ p \in Queued => Opens(r, held)
        /\ p \notin Queued => AllData(r, held)
        /\ \A now : Ends(r, now) = IF SrvSends(tick) \/ p \in Queued THEN srvVal ELSE now
    BY <2>1, SrvPacketsAre
  <2> HIDE DEF r
  <2>5. toCli'[p] = toCli[p] \o r  BY <2>2, <2>3, ConcatEmptySeq
  <2>6. Ends(toCli'[p], copy[p].v) = Ends(r, Ends(toCli[p], copy[p].v))
    BY <2>2, <2>5, EndsConcat
  <2>7. CASE p \in Queued
    <3>1. Follows(toCli'[p], copy[p], held)  BY <2>2, <2>4, <2>5, <2>7, FollowsConcat
    <3>2. Ends(toCli'[p], copy[p].v) = srvVal  BY <2>4, <2>6, <2>7
    <3>3. srvLast' <= srvVal  BY <1>3, <1>5 DEF SrvLastNow, PeersCurrent
    <3> QED  BY <1>3, <1>5, <3>1, <3>2, <3>3
  <2>8. CASE p \notin Queued
    <3>1. peer[p] = "listed"  BY <2>1, <2>8 DEF Listed, Queued
    <3>2. /\ Follows(toCli[p], copy[p], held)
          /\ srvLast <= Ends(toCli[p], copy[p].v) /\ Ends(toCli[p], copy[p].v) <= srvVal
      BY <1>5, <3>1 DEF PeersCurrent, PeerCurrent
    <3>3. Follows(toCli'[p], copy[p], held)
      BY <2>2, <2>4, <2>5, <2>8, <3>2, FollowsConcat
    <3>4. CASE SrvSends(tick)
      <4>1. Ends(toCli'[p], copy[p].v) = srvVal /\ srvLast' = srvVal
        BY <2>4, <2>6, <3>4 DEF SrvLastNow
      <4> QED  BY <1>3, <1>5, <3>3, <4>1
    <3>5. CASE ~SrvSends(tick)
      <4>1. Ends(toCli'[p], copy[p].v) = Ends(toCli[p], copy[p].v) /\ srvLast' = srvLast
        BY <2>4, <2>6, <2>8, <3>5 DEF SrvLastNow
      <4> QED  BY <1>3, <1>5, <3>2, <3>3, <4>1
    <3> QED  BY <3>4, <3>5
  <2> QED  BY <2>7, <2>8
<1> QED  BY <1>2, <1>4, <1>5 DEF PeersCurrent, PeerCurrent

LEMMA ServerPeersCurrent ==
    ASSUME TypeOK, TypeOK', Flow, PeersCurrent, ServerReceive
    PROVE  PeersCurrent'
<1>1. PICK tick \in BOOLEAN :
        \/ ServerUpdate(tick)
        \/ \E i \in DOMAIN toSrv : ServerOnConstruct(i, tick) \/ ServerOnValue(i, tick)
        \/ ServerOnLost(tick)
        \/ \E p \in Peers : ServerOnPeerLost(p, tick)
  BY DEF ServerReceive
<1>2. srvVal \in Int /\ srvVal' \in Int /\ srvVal <= srvVal
  <2>1. srvVal \in Int /\ srvVal' \in Int  BY ValueAssumption DEF TypeOK
  <2> QED  BY <2>1
<1>3. CASE ServerUpdate(tick)
  BY <1>2, <1>3, ServingCurrent DEF ServerUpdate
<1>4. ASSUME NEW p \in Peers, ServerOnPeerLost(p, tick)
      PROVE  PeersCurrent'
  <2>1. \A o \in Peers : peer'[o] \in {PeerNow[o], "out"}
    BY <1>4 DEF ServerOnPeerLost, PeerNow
  <2> QED  BY <1>2, <1>4, <2>1, ServingCurrent DEF ServerOnPeerLost
<1>5. ASSUME NEW i \in DOMAIN toSrv, ServerOnValue(i, tick)
      PROVE  PeersCurrent'
  <2>1. ordered => srvVal <= srvVal'
    <3> SUFFICES ASSUME ordered PROVE srvVal <= srvVal'
      OBVIOUS
    <3>1. toSrv[i].kind = "value" /\ Carries(toSrv[i]) \in Sent
      BY <1>5, TakingFlow DEF ServerOnValue, Taking
    <3>2. toSrv[i].v \in Sent /\ toSrv[i].v \in 1..MaxValue
      <4>1. toSrv[i] \in ToServer  BY <1>5, TakingTyped DEF ServerOnValue
      <4> QED  BY <3>1, <4>1 DEF Carries, ToServer
    <3>3. srvVal <= toSrv[i].v  BY <3>2 DEF Flow, ServerFlow
    <3>4. srvVal' \in {srvVal, toSrv[i].v}  BY <1>5 DEF ServerOnValue
    <3> QED  BY <1>2, <3>3, <3>4
  <2>2. \A p \in Peers : peer'[p] \in {PeerNow[p], "out"}  BY <1>5 DEF ServerOnValue
  <2> QED  BY <1>2, <1>5, <2>1, <2>2, ServingCurrent DEF ServerOnValue
<1>6. ASSUME srvLast' = Nothing, srvVal' = Unset,
             \A p \in Peers : peer'[p] # "listed", Listed' # {} => held' # NoId
      PROVE  PeersCurrent'
  BY <1>6 DEF PeersCurrent, PeerCurrent, Nothing, Unset
<1>7. ASSUME NEW i \in DOMAIN toSrv, ServerOnConstruct(i, tick)
      PROVE  PeersCurrent'
  <2>1. held' # NoId
    BY <1>7 DEF ServerOnConstruct, IdFor, NoId, TypeOK
  <2> QED  BY <1>6, <1>7, <2>1 DEF ServerOnConstruct
<1>8. CASE ServerOnLost(tick)
  <2>1. \A p \in Peers : peer'[p] \notin {"queued", "listed"}
    BY <1>8 DEF ServerOnLost, Listed
  <2>2. Listed' = {}  BY <2>1 DEF Listed
  <2> QED  BY <1>6, <1>8, <2>1, <2>2 DEF ServerOnLost
<1> QED  BY <1>1, <1>3, <1>4, <1>5, <1>7, <1>8

\* A peer receives: what it follows, it follows still.
LEMMA FollowsOn ==
    ASSUME NEW S, NEW q \in Seq(S), q # << >>, NEW c, NEW k, NEW d,
           Follows(q, c, k),
           Head(q) = Construct(k) => d.id = k,
           DataOf(Head(q), k) /\ c.id = k => d.id = k /\ d.v = Head(q).v
    PROVE  Follows(Tail(q), d, k) /\ Ends(Tail(q), d.v) = Ends(q, c.v)
<1> DEFINE t == Tail(q)
<1>1. Len(q) \in Nat /\ Len(q) > 0 /\ Head(q) = q[1] /\ DOMAIN q = 1..Len(q)
  BY LenProperties, EmptySeq
<1>2. t \in Seq(S) /\ Len(t) = Len(q) - 1 /\ \A i \in 1..Len(t) : t[i] = q[i + 1]
  BY HeadTailProperties
<1>3. Ends(q, c.v) = Ends(t, IF Head(q).kind = "value" THEN Head(q).v ELSE c.v)
  BY EndsTail
<1> HIDE DEF t
<1>4. PICK i \in 0..Len(q) :
          /\ IF i = 0 THEN c.id = k ELSE i < Len(q) /\ q[i] = Construct(k)
          /\ \A j \in (i + 1)..Len(q) : DataOf(q[j], k)
  BY DEF Follows
<1>5. CASE i = 0
  <2>1. 1 \in (i + 1)..Len(q)  BY <1>1, <1>5
  <2>2. DataOf(Head(q), k) /\ c.id = k  BY <1>1, <1>4, <1>5, <2>1
  <2>3. Ends(t, d.v) = Ends(q, c.v)  BY <1>3, <2>2 DEF DataOf
  <2>4. ASSUME NEW j \in (0 + 1)..Len(t) PROVE DataOf(t[j], k)
    <3>1. j \in 1..Len(t) /\ j + 1 \in (i + 1)..Len(q)  BY <1>1, <1>2, <1>5
    <3> QED  BY <1>2, <1>4, <3>1
  <2>5. 0 \in 0..Len(t) /\ d.id = k  BY <1>1, <1>2, <2>2
  <2> QED  BY <2>3, <2>4, <2>5 DEF Follows, t
<1>6. CASE i # 0
  <2>1. i < Len(q) /\ q[i] = Construct(k) /\ i - 1 \in 0..Len(t)
    BY <1>1, <1>2, <1>4, <1>6
  <2>2. ASSUME NEW j \in ((i - 1) + 1)..Len(t) PROVE DataOf(t[j], k)
    <3>1. j \in 1..Len(t) /\ j + 1 \in (i + 1)..Len(q)  BY <1>1, <1>2, <1>6
    <3> QED  BY <1>2, <1>4, <3>1
  <2>3. IF i - 1 = 0 THEN d.id = k ELSE i - 1 < Len(t) /\ t[i - 1] = Construct(k)
    <3>1. CASE i = 1  BY <1>1, <2>1, <3>1
    <3>2. CASE i # 1
      <4>1. i - 1 \in 1..Len(t) /\ (i - 1) + 1 = i /\ i - 1 < Len(t) /\ i - 1 # 0
        BY <1>1, <1>2, <1>6, <2>1, <3>2
      <4> QED  BY <1>2, <2>1, <4>1
    <3> QED  BY <3>1, <3>2
  <2>4. Follows(t, d, k)  BY <2>1, <2>2, <2>3 DEF Follows
  <2>5. Ends(t, d.v) = Ends(q, c.v)
    <3>1. i \in 1..Len(t) /\ i \in ((i - 1) + 1)..Len(t)  BY <1>1, <1>2, <1>6, <2>1
    <3>2. DataOf(t[i], k)  BY <2>2, <3>1
    <3>3. i \in Values(t)  BY <1>2, <3>1, <3>2, LenProperties DEF Values, DataOf
    <3>4. \A a, b : Ends(t, a) = Ends(t, b)  BY <3>3 DEF Ends
    <3> QED  BY <1>3, <3>4
  <2> QED  BY <2>4, <2>5 DEF t
<1> QED  BY <1>5, <1>6

LEMMA PeerPeersCurrent ==
    ASSUME TypeOK, PeersCurrent, NEW p \in Peers, PeerReceive(p)
    PROVE  PeersCurrent'
<1>1. UNCHANGED <<ordered, held, peer, srvVal, srvLast, up>>
  BY DEF PeerReceive, srvVars
<1>2. Listed' = Listed  BY <1>1 DEF Listed
<1>3. toCli[p] \in Seq(ToPeer) /\ toCli[p] # << >> /\ toCli'[p] = Tail(toCli[p])
      /\ \A o \in Peers \ {p} : copy'[o] = copy[o] /\ toCli'[o] = toCli[o]
  BY DEF PeerReceive, TypeOK
<1>4. \A o \in Peers \ {p} : PeerCurrent(o) => PeerCurrent(o)'
  BY <1>1, <1>3 DEF PeerCurrent
<1>5. ASSUME PeerCurrent(p), up[p], peer[p] = "listed"
      PROVE  PeerCurrent(p)'
  <2> DEFINE m == Head(toCli[p])
             c == copy[p]
             d == copy'[p]
  <2>1. /\ m = Construct(held) => d.id = held
        /\ DataOf(m, held) /\ c.id = held => d.id = held /\ d.v = m.v
    <3>1. d = CASE m.kind = "construct" /\ m.id # c.id -> [id |-> m.id, v |-> Unset]
                [] m.kind = "value" /\ m.id = c.id -> [id |-> m.id, v |-> m.v]
                [] m.kind = "destruct" /\ m.id = c.id -> NoCopy
                [] OTHER -> c
      BY DEF PeerReceive, TypeOK
    <3>2. m = Construct(held) => m.kind = "construct" /\ m.id = held  BY DEF Construct
    <3> HIDE DEF m, c, d
    <3>3. m = Construct(held) => d.id = held
      <4>1. CASE m.id = c.id  BY <3>1, <3>2, <4>1
      <4>2. CASE m.id # c.id  BY <3>1, <3>2, <4>2
      <4> QED  BY <4>1, <4>2
    <3>4. DataOf(m, held) /\ c.id = held => d = [id |-> m.id, v |-> m.v]
      BY <3>1 DEF DataOf
    <3>5. DataOf(m, held) /\ c.id = held => d.id = held /\ d.v = m.v
      BY <3>4 DEF DataOf
    <3> QED  BY <3>3, <3>5
  <2>2. Follows(toCli[p], c, held)  BY <1>5 DEF PeerCurrent
  <2> DEFINE q == toCli[p]
  <2> HIDE DEF c, d, q
  <2>3. q \in Seq(ToPeer) /\ q # << >> /\ Follows(q, c, held)
        /\ (Head(q) = Construct(held) => d.id = held)
        /\ (DataOf(Head(q), held) /\ c.id = held => d.id = held /\ d.v = Head(q).v)
    BY <1>3, <2>1, <2>2 DEF q
  <2>4. Follows(Tail(q), d, held) /\ Ends(Tail(q), d.v) = Ends(q, c.v)
    BY <2>3, FollowsOn
  <2> QED  BY <1>1, <1>3, <1>5, <2>4 DEF PeerCurrent, q, c, d
<1>6. PeerCurrent(p) => PeerCurrent(p)'
  BY <1>1, <1>5 DEF PeerCurrent
<1> QED  BY <1>1, <1>2, <1>4, <1>6 DEF PeersCurrent

LEMMA TransportPeersCurrent ==
    ASSUME TypeOK, PeersCurrent, NEW p \in Peers, ConnectPeer(p) \/ BreakPeer(p)
    PROVE  PeersCurrent'
<1>1. UNCHANGED <<ordered, held, srvVal, srvLast, copy>>
      /\ \A o \in Peers \ {p} : up'[o] = up[o] /\ peer'[o] = peer[o] /\ toCli'[o] = toCli[o]
  BY DEF ConnectPeer, BreakPeer, srvVars, TypeOK
<1>2. ~(up'[p] /\ peer'[p] = "listed")
  BY DEF ConnectPeer, BreakPeer, TypeOK
<1>3. Listed' # {} => held' # NoId
  <2>1. CASE ConnectPeer(p)
    <3>1. held = NoId => peer'[p] = "in"  BY <2>1 DEF ConnectPeer, TypeOK
    <3>2. held = NoId => Listed' \subseteq Listed  BY <1>1, <3>1 DEF Listed
    <3> QED  BY <1>1, <3>2 DEF PeersCurrent
  <2>2. CASE BreakPeer(p)
    <3>1. Listed' = Listed  BY <2>2 DEF BreakPeer, srvVars, Listed
    <3> QED  BY <1>1, <3>1 DEF PeersCurrent
  <2> QED  BY <2>1, <2>2
<1>4. \A o \in Peers : PeerCurrent(o) => PeerCurrent(o)'
  BY <1>1, <1>2 DEF PeerCurrent
<1> QED  BY <1>1, <1>3, <1>4 DEF PeersCurrent

LEMMA NextPeersCurrent == TypeOK /\ TypeOK' /\ Flow /\ PeersCurrent /\ [Next]_vars => PeersCurrent'
<1> SUFFICES ASSUME TypeOK, TypeOK', Flow, PeersCurrent, [Next]_vars PROVE PeersCurrent'
  OBVIOUS
<1>1. ASSUME UNCHANGED <<ordered, held, srvVal, srvLast, peer, up, copy, toCli>>
      PROVE  PeersCurrent'
  BY <1>1 DEF PeersCurrent, PeerCurrent, Listed
<1>2. CASE OwnerReceive
  BY <1>1, <1>2 DEF OwnerReceive, OwnerUpdate, OwnerOnAccepted, OwnerOnLost, srvVars
<1>3. CASE \/ Connect \/ Break \/ \E v \in 1..MaxValue : UpdateNode(v)
  BY <1>1, <1>3 DEF Connect, Break, UpdateNode, srvVars
<1>4. CASE UNCHANGED vars
  BY <1>1, <1>4 DEF vars, srvVars
<1> QED
  BY <1>2, <1>3, <1>4, ServerPeersCurrent, PeerPeersCurrent, TransportPeersCurrent DEF Next

\* PeersUpToDate, for an owner that never writes a value it had before: once the
\* server has nothing new to send, every peer it serializes to ends with what
\* the server has, also one that joined or came back in between.
THEOREM PeersGetLast ==
    ASSUME ~Reverts
    PROVE  Spec => []PeersUpToDate
<1> DEFINE Inv == TypeOK /\ Flow /\ PeersCurrent
<1>1. Init => Inv
  <2>1. Init => PeersCurrent
    BY DEF Init, PeersCurrent, PeerCurrent, Listed, Nothing, Unset
  <2> QED  BY <2>1, InitTyped, InitFlows
<1>2. Inv /\ [Next]_vars => Inv'  BY NextTyped, NextFlows, NextPeersCurrent
<1>3. Inv => PeersUpToDate
  <2> SUFFICES ASSUME Inv, ordered, srvVal = srvLast,
                      NEW p \in Peers, up[p], peer[p] = "listed"
               PROVE  Ends(toCli[p], copy[p].v) = srvVal
    BY DEF PeersUpToDate
  <2>1. srvLast <= Ends(toCli[p], copy[p].v) /\ Ends(toCli[p], copy[p].v) <= srvVal
    BY DEF PeersCurrent, PeerCurrent
  <2> QED  BY <2>1, CurrentTyped
<1> QED  BY <1>1, <1>2, <1>3, PTL DEF Spec

==============================================================================
