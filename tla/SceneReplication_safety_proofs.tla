------------------- MODULE SceneReplication_safety_proofs -------------------
(***************************************************************************)
(* The safety of the replication: what its runs check, proved for every    *)
(* number of clients and nodes.                                            *)
(*                                                                         *)
(* One invariant is built layer upon layer, each inductive relative to     *)
(* those below it:                                                         *)
(*   IInv        (SceneReplication_proofs) the types and whose ids go where*)
(*   ConnInv     the shape of a client's connection: what is in flight to  *)
(*               it begins with its acceptance and ends with its end, and  *)
(*               its lists hold live nodes of its own                      *)
(*   PacketInv   a client constructs a node once in a packet and destroys  *)
(*               only nodes that are gone                                  *)
(*   OnceInv     on one connection the server hears of a node at most once *)
(*   Accounts    every replica is on a list of every other connection      *)
(*   TidyInv     a packet to a client constructs or destroys, not both     *)
(* Known is all of these.  On top of it stand what the server believes of  *)
(* a client (ServerBeliefSound), what holds while no connection has broken *)
(* (QuietInv) and what holds while the server's thread handles the end of  *)
(* a connection before the client is back (PromptInv).  BackInv says what  *)
(* is in flight while a client is back and the server has yet to see it,   *)
(* provided it is not back twice meanwhile, and carries AssignInv, on      *)
(* which the ids of nodes rest.  PromptInv with ListedInv (a connected     *)
(* client has its nodes on its lists) and IssuedInv (an id in use was      *)
(* given by the server) carries GhostInv, on what the server still has of  *)
(* nodes that are gone.                                                    *)
(***************************************************************************)
EXTENDS SceneReplication_proofs

---------------------------------------------------------------------------
(* Queues.                                                                 *)

\* Taking one packet out of a queue moves those behind it up by one.
LEMMA WithoutAt ==
    ASSUME NEW S, NEW q \in Seq(S), NEW i \in 1..Len(q)
    PROVE  /\ Without(q, i) \in Seq(S)
           /\ Len(Without(q, i)) = Len(q) - 1
           /\ \A j \in 1..(Len(q) - 1) :
                 Without(q, i)[j] = IF j < i THEN q[j] ELSE q[j + 1]
<1> DEFINE a == SubSeq(q, 1, i - 1)
           b == SubSeq(q, i + 1, Len(q))
<1>1. Len(q) \in Nat  BY LenProperties
<1>2. \A j \in 1..Len(q) : q[j] \in S  BY ElementOfSeq
<1>3. a \in Seq(S) /\ Len(a) = i - 1 /\ \A j \in 1..(i - 1) : a[j] = q[j]
  <2>1. 1 \in Int /\ i - 1 \in Int  BY <1>1
  <2>2. \A j \in 1..(i - 1) : q[j] \in S  BY <1>1, <1>2
  <2> QED  BY <1>1, <2>1, <2>2, SubSeqProperties
<1>4. /\ b \in Seq(S) /\ Len(b) = Len(q) - i
      /\ \A j \in 1..(Len(q) - i) : b[j] = q[i + j]
  <2>1. i + 1 \in Int /\ Len(q) \in Int  BY <1>1
  <2>2. \A j \in (i + 1)..Len(q) : q[j] \in S  BY <1>1, <1>2
  <2>3. /\ b \in Seq(S)
        /\ Len(b) = IF i + 1 <= Len(q) THEN Len(q) - (i + 1) + 1 ELSE 0
        /\ \A j \in 1..(Len(q) - (i + 1) + 1) : b[j] = q[(i + 1) + j - 1]
    BY <2>1, <2>2, SubSeqProperties
  <2> QED  BY <1>1, <2>3
<1> HIDE DEF a, b
<1>5. /\ a \o b \in Seq(S) /\ Len(a \o b) = Len(a) + Len(b)
      /\ \A j \in 1..(Len(a) + Len(b)) :
            (a \o b)[j] = IF j <= Len(a) THEN a[j] ELSE b[j - Len(a)]
  BY <1>3, <1>4, ConcatProperties
<1>6. Without(q, i) = a \o b  BY DEF Without, a, b
<1>7. \A j \in 1..(Len(q) - 1) : (a \o b)[j] = IF j < i THEN q[j] ELSE q[j + 1]
  BY <1>1, <1>3, <1>4, <1>5
<1>8. Len(a) + Len(b) = Len(q) - 1  BY <1>1, <1>3, <1>4
<1> QED  BY <1>5, <1>6, <1>7, <1>8

\* A prefix holds what the queue holds.
LEMMA PrefixAt ==
    ASSUME NEW S, NEW q \in Seq(S), NEW i \in 0..Len(q)
    PROVE  /\ SubSeq(q, 1, i) \in Seq(S) /\ Len(SubSeq(q, 1, i)) = i
           /\ \A j \in 1..i : SubSeq(q, 1, i)[j] = q[j]
<1>1. Len(q) \in Nat  BY LenProperties
<1>2. \A j \in 1..i : q[j] \in S  BY <1>1, ElementOfSeq
<1>3. i \in Int /\ 1 \in Int  BY <1>1
<1> QED  BY <1>1, <1>2, <1>3, SubSeqProperties

\* A queue and one more packet.
LEMMA AppendAt ==
    ASSUME NEW S, NEW q \in Seq(S), NEW m \in S
    PROVE  /\ Append(q, m) \in Seq(S) /\ Len(Append(q, m)) = Len(q) + 1
           /\ \A j \in 1..Len(q) : Append(q, m)[j] = q[j]
           /\ Append(q, m)[Len(q) + 1] = m
BY AppendProperties

\* What a receiver still gets: a prefix, short of one packet of data perhaps.
LEMMA KeptForm ==
    ASSUME NEW S, NEW q \in Seq(S), NEW r \in KeptToSrv(q)
    PROVE  \E i \in 0..Len(q) :
              \/ r = SubSeq(q, 1, i)
              \/ \E k \in 1..i : IsData(q[k]) /\ r = Without(SubSeq(q, 1, i), k)
<1>1. CASE r \in {SubSeq(q, 1, i) : i \in Cuts(q)}
  BY <1>1 DEF Cuts
<1>2. CASE r \in UNION {{Without(SubSeq(q, 1, i), j) :
                          j \in {k \in 1..i : IsData(q[k]) /\ k - 1 \in Cuts(q)}} :
                        i \in Cuts(q)}
  <2>1. PICK i \in Cuts(q) :
           \E j \in {k \in 1..i : IsData(q[k]) /\ k - 1 \in Cuts(q)} :
              r = Without(SubSeq(q, 1, i), j)
    BY <1>2
  <2> QED  BY <2>1 DEF Cuts
<1> QED  BY <1>1, <1>2 DEF KeptToSrv

\* The rest of a queue after its first packet.
LEMMA TailAt ==
    ASSUME NEW S, NEW q \in Seq(S), q # << >>
    PROVE  /\ Tail(q) \in Seq(S) /\ Len(Tail(q)) = Len(q) - 1 /\ Len(q) \in Nat \ {0}
           /\ \A j \in 1..(Len(q) - 1) : Tail(q)[j] = q[j + 1]
           /\ Head(q) = q[1] /\ Head(q) \in S
<1>1. Head(q) \in S /\ Tail(q) \in Seq(S)  BY HeadTailProperties
<1>2. Len(Tail(q)) = Len(q) - 1 /\ \A j \in 1..Len(Tail(q)) : Tail(q)[j] = q[j + 1]
  BY HeadTailProperties
<1>3. Len(q) \in Nat \ {0}  BY EmptySeq, LenProperties
<1> QED  BY <1>1, <1>2, <1>3

---------------------------------------------------------------------------
(* What a connection carries once.                                         *)

\* The packets that end a connection.
Ending(m) == m.kind \in {"lost", "bye"}

\* What a packet to the server says: the construction of some nodes, or that
\* a connection begins.
Says(m) ==
    IF m.kind = "construction" THEN {<<e[1]>> : e \in m.new}
    ELSE IF m.kind = "incoming" THEN {<< >>} ELSE {}

\* Of two packets that say the same, the end of a connection separates them.
Once(q) ==
    \A j, k \in 1..Len(q) :
        (j < k /\ Says(q[j]) \cap Says(q[k]) # {}) => \E l \in j..k : Ending(q[l])

\* t is only said after the end of a connection.
Anew(q, t) == \A j \in 1..Len(q) : t \in Says(q[j]) => \E l \in 1..j : Ending(q[l])

\* t is only said before the end of a connection.
Over(q, t) == \A j \in 1..Len(q) : t \in Says(q[j]) => \E l \in j..Len(q) : Ending(q[l])
Ends(q) == \E l \in 1..Len(q) : Ending(q[l])

\* A queue, with what the server has heard and what the client has yet to say
\* (while anybody listens).
OnceIn(q, heard, unsaid, listens) ==
    /\ Once(q)
    /\ \A t \in heard : Anew(q, t)
    /\ listens => \A t \in unsaid : Over(q, t) /\ (t \in heard => Ends(q))

\* Fewer things heard, and an end that leaves fewer unsaid, are no worse.
LEMMA OnceWeaker ==
    ASSUME NEW q, NEW h1, NEW h2, NEW u1, NEW u2, NEW l1 \in BOOLEAN, NEW l2 \in BOOLEAN,
           OnceIn(q, h1, u1, l1), h2 \subseteq h1,
           l2 => (l1 /\ u2 \subseteq u1)
    PROVE  OnceIn(q, h2, u2, l2)
BY DEF OnceIn

\* An empty queue says nothing twice.
LEMMA OnceEmpty ==
    ASSUME NEW u, NEW l
    PROVE  OnceIn(<< >>, {}, u, l)
<1>1. Len(<< >>) = 0  OBVIOUS
<1> QED  BY <1>1 DEF OnceIn, Once, Over

\* Saying what was yet to be said.
LEMMA OnceAppend ==
    ASSUME NEW S, NEW q \in Seq(S), NEW m \in S, NEW h, NEW u,
           OnceIn(q, h, u, TRUE), Says(m) \subseteq u
    PROVE  OnceIn(Append(q, m), h, u \ Says(m), TRUE)
<1> DEFINE r == Append(q, m)
<1>1. /\ Len(q) \in Nat /\ Len(r) = Len(q) + 1
      /\ \A j \in 1..Len(q) : r[j] = q[j]
      /\ r[Len(q) + 1] = m
  BY AppendAt, LenProperties
<1> HIDE DEF r
<1>2. Once(r)
  <2> SUFFICES ASSUME NEW j \in 1..Len(r), NEW k \in 1..Len(r), j < k,
                      Says(r[j]) \cap Says(r[k]) # {}
               PROVE  \E l \in j..k : Ending(r[l])
    BY DEF Once
  <2>1. CASE k \in 1..Len(q)
    <3>1. j \in 1..Len(q) /\ r[j] = q[j] /\ r[k] = q[k]  BY <1>1, <2>1
    <3>2. PICK l \in j..k : Ending(q[l])  BY <2>1, <3>1 DEF OnceIn, Once
    <3>3. l \in 1..Len(q)  BY <1>1, <2>1
    <3> QED  BY <1>1, <3>2, <3>3
  <2>2. CASE k = Len(q) + 1
    <3>1. j \in 1..Len(q) /\ r[j] = q[j] /\ r[k] = m  BY <1>1, <2>2
    <3>2. PICK t \in Says(q[j]) : t \in Says(m)  BY <3>1
    <3>3. PICK l \in j..Len(q) : Ending(q[l])
      BY <3>1, <3>2 DEF OnceIn, Over
    <3>4. l \in 1..Len(q) /\ l \in j..k  BY <1>1, <2>2
    <3> QED  BY <1>1, <3>3, <3>4
  <2> QED  BY <1>1, <2>1, <2>2
<1>3. Ends(q) => Ends(r)  BY <1>1 DEF Ends
<1>4. ASSUME NEW t \in h  PROVE Anew(r, t)
  <2> SUFFICES ASSUME NEW j \in 1..Len(r), t \in Says(r[j])
               PROVE  \E l \in 1..j : Ending(r[l])
    BY DEF Anew
  <2>1. CASE j \in 1..Len(q)
    <3>1. PICK l \in 1..j : Ending(q[l])  BY <1>1, <1>4, <2>1 DEF OnceIn, Anew
    <3> QED  BY <1>1, <2>1, <3>1
  <2>2. CASE j = Len(q) + 1
    <3>1. t \in u  BY <1>1, <2>2
    <3>2. Ends(q)  BY <1>4, <3>1 DEF OnceIn
    <3> QED  BY <1>1, <2>2, <3>2 DEF Ends
  <2> QED  BY <1>1, <2>1, <2>2
<1>5. ASSUME NEW t \in u \ Says(m)  PROVE Over(r, t)
  <2> SUFFICES ASSUME NEW j \in 1..Len(r), t \in Says(r[j])
               PROVE  \E l \in j..Len(r) : Ending(r[l])
    BY DEF Over
  <2>1. j \in 1..Len(q) /\ r[j] = q[j]  BY <1>1, <1>5
  <2>2. PICK l \in j..Len(q) : Ending(q[l])  BY <1>5, <2>1 DEF OnceIn, Over
  <2> QED  BY <1>1, <2>1, <2>2
<1>6. \A t \in u \ Says(m) : t \in h => Ends(r)  BY <1>3 DEF OnceIn
<1> QED  BY <1>2, <1>4, <1>5, <1>6 DEF OnceIn, r

\* A packet that is not the end of a connection is taken from among packets
\* of the connection at hand: what it says had not been heard.
LEMMA OnceTake ==
    ASSUME NEW S, NEW q \in Seq(S), NEW i \in 1..Len(q), NEW h, NEW u, NEW l \in BOOLEAN,
           OnceIn(q, h, u, l), \A k \in 1..i : ~Ending(q[k])
    PROVE  /\ Says(q[i]) \cap h = {}
           /\ OnceIn(Without(q, i), h \cup Says(q[i]), u, l)
<1> DEFINE r == Without(q, i)
<1>1. /\ Len(q) \in Nat /\ Len(r) = Len(q) - 1
      /\ \A j \in 1..Len(r) : r[j] = IF j < i THEN q[j] ELSE q[j + 1]
  BY WithoutAt, LenProperties
<1> HIDE DEF r
<1>2. Says(q[i]) \cap h = {}
  BY DEF OnceIn, Anew
<1> DEFINE old(j) == IF j < i THEN j ELSE j + 1
<1>3. \A j \in 1..Len(r) : old(j) \in 1..Len(q) /\ r[j] = q[old(j)]  BY <1>1
<1>4. \A j \in 1..Len(q) : Ending(q[j]) => j > i  OBVIOUS

\* An ending of the queue is still there.
<1>5. \A j \in 1..Len(q) : Ending(q[j]) => (j - 1 \in 1..Len(r) /\ Ending(r[j - 1]))
  BY <1>1, <1>4
<1>6. Once(r)
  <2> SUFFICES ASSUME NEW j \in 1..Len(r), NEW k \in 1..Len(r), j < k,
                      Says(r[j]) \cap Says(r[k]) # {}
               PROVE  \E x \in j..k : Ending(r[x])
    BY DEF Once
  <2>0. old(j) < old(k) /\ r[j] = q[old(j)] /\ r[k] = q[old(k)]  BY <1>1, <1>3
  <2>1. old(j) < old(k) /\ Says(q[old(j)]) \cap Says(q[old(k)]) # {}
    <3> HIDE DEF old
    <3> QED  BY <2>0
  <2>2. PICK x \in old(j)..old(k) : Ending(q[x])  BY <1>3, <2>1 DEF OnceIn, Once
  <2>3. x \in 1..Len(q)  BY <1>1, <1>3
  <2>4. x > i  BY <1>4, <2>2, <2>3
  <2>5. x - 1 \in j..k  BY <1>1, <2>2, <2>3, <2>4
  <2> QED  BY <1>5, <2>2, <2>3, <2>5
<1>7. ASSUME NEW t \in h \cup Says(q[i])  PROVE Anew(r, t)
  <2> SUFFICES ASSUME NEW j \in 1..Len(r), t \in Says(r[j])
               PROVE  \E x \in 1..j : Ending(r[x])
    BY DEF Anew
  <2>1. t \in Says(q[old(j)]) /\ old(j) \in 1..Len(q)  BY <1>3
  <2>2. \E x \in 1..old(j) : Ending(q[x])
    <3>1. CASE t \in h  BY <3>1, <2>1 DEF OnceIn, Anew
    <3>2. CASE t \in Says(q[i])
      <4>1. CASE old(j) > i
        <5>1. Says(q[i]) \cap Says(q[old(j)]) # {}  BY <2>1, <3>2
        <5>2. PICK x \in i..old(j) : Ending(q[x])  BY <2>1, <4>1, <5>1 DEF OnceIn, Once
        <5> QED  BY <5>2
      <4>2. CASE old(j) < i
        <5>1. Says(q[i]) \cap Says(q[old(j)]) # {}  BY <2>1, <3>2
        <5>2. PICK x \in old(j)..i : Ending(q[x])  BY <2>1, <4>2, <5>1 DEF OnceIn, Once
        <5>3. x \in 1..i  BY <2>1
        <5> QED  BY <5>2, <5>3
      <4> QED  BY <1>1, <4>1, <4>2
    <3> QED  BY <1>7, <3>1, <3>2
  <2>3. PICK x \in 1..old(j) : Ending(q[x])  BY <2>2
  <2>4. x \in 1..Len(q) /\ x > i  BY <1>4, <2>1, <2>3
  <2>5. x - 1 \in 1..j  BY <1>1, <2>3, <2>4
  <2> QED  BY <1>5, <2>3, <2>4, <2>5
<1>8. ASSUME l, NEW t \in u  PROVE Over(r, t) /\ (t \in h \cup Says(q[i]) => Ends(r))
  <2>1. Over(q, t) /\ (t \in h => Ends(q))  BY <1>8 DEF OnceIn
  <2>2. Over(r, t)
    <3> SUFFICES ASSUME NEW j \in 1..Len(r), t \in Says(r[j])
                 PROVE  \E x \in j..Len(r) : Ending(r[x])
      BY DEF Over
    <3>1. PICK x \in old(j)..Len(q) : Ending(q[x])  BY <1>3, <2>1 DEF Over
    <3>2. x \in 1..Len(q)  BY <1>1, <1>3
    <3>3. x > i  BY <1>4, <3>1, <3>2
    <3>4. x - 1 \in j..Len(r)  BY <1>1, <3>1, <3>2, <3>3
    <3> QED  BY <1>5, <3>1, <3>2, <3>4
  <2>3. t \in h \cup Says(q[i]) => Ends(q)
    <3>1. ASSUME t \in Says(q[i])  PROVE Ends(q)
      <4>1. PICK x \in i..Len(q) : Ending(q[x])  BY <2>1, <3>1 DEF Over
      <4>2. x \in 1..Len(q)  BY <1>1
      <4> QED  BY <4>1, <4>2 DEF Ends
    <3> QED  BY <2>1, <3>1
  <2>4. Ends(q) => Ends(r)  BY <1>5 DEF Ends
  <2> QED  BY <2>2, <2>3, <2>4
<1> QED  BY <1>2, <1>6, <1>7, <1>8 DEF OnceIn, r

\* The end of a connection is taken first, and with it goes all that was heard.
LEMMA OnceEnd ==
    ASSUME NEW S, NEW q \in Seq(S), NEW h, NEW u, NEW l \in BOOLEAN, 1 \in 1..Len(q),
           OnceIn(q, h, u, l)
    PROVE  OnceIn(Without(q, 1), {}, u, l)
<1> DEFINE r == Without(q, 1)
<1>1. /\ Len(q) \in Nat /\ Len(r) = Len(q) - 1
      /\ \A j \in 1..Len(r) : r[j] = q[j + 1]
  <2>1. \A j \in 1..Len(r) : ~(j < 1)  OBVIOUS
  <2> QED  BY <2>1, WithoutAt, LenProperties
<1> HIDE DEF r
<1>2. Once(r)
  <2> SUFFICES ASSUME NEW j \in 1..Len(r), NEW k \in 1..Len(r), j < k,
                      Says(r[j]) \cap Says(r[k]) # {}
               PROVE  \E x \in j..k : Ending(r[x])
    BY DEF Once
  <2>1. /\ j + 1 \in 1..Len(q) /\ k + 1 \in 1..Len(q) /\ j + 1 < k + 1
        /\ Says(q[j + 1]) \cap Says(q[k + 1]) # {}
    BY <1>1
  <2>2. PICK x \in (j + 1)..(k + 1) : Ending(q[x])  BY <2>1 DEF OnceIn, Once
  <2>3. x - 1 \in j..k /\ x - 1 \in 1..Len(r) /\ (x - 1) + 1 = x  BY <1>1
  <2>4. Ending(r[x - 1])  BY <1>1, <2>2, <2>3
  <2> QED  BY <2>3, <2>4
<1>3. ASSUME l, NEW t \in u  PROVE Over(r, t)
  <2> SUFFICES ASSUME NEW j \in 1..Len(r), t \in Says(r[j])
               PROVE  \E x \in j..Len(r) : Ending(r[x])
    BY DEF Over
  <2>1. PICK x \in (j + 1)..Len(q) : Ending(q[x])  BY <1>1, <1>3 DEF OnceIn, Over
  <2>3. x - 1 \in j..Len(r) /\ x - 1 \in 1..Len(r) /\ (x - 1) + 1 = x  BY <1>1
  <2>4. Ending(r[x - 1])  BY <1>1, <2>1, <2>3
  <2> QED  BY <2>3, <2>4
<1> QED  BY <1>2, <1>3 DEF OnceIn, r

\* A prefix of a queue.
LEMMA OncePrefix ==
    ASSUME NEW S, NEW q \in Seq(S), NEW i \in 0..Len(q), NEW h, OnceIn(q, h, {}, FALSE)
    PROVE  OnceIn(SubSeq(q, 1, i), h, {}, FALSE)
<1> DEFINE r == SubSeq(q, 1, i)
<1>1. Len(q) \in Nat /\ Len(r) = i /\ \A j \in 1..i : r[j] = q[j]
  BY PrefixAt, LenProperties
<1> HIDE DEF r
<1>2. Once(r)
  <2> SUFFICES ASSUME NEW j \in 1..i, NEW k \in 1..i, j < k,
                      Says(r[j]) \cap Says(r[k]) # {}
               PROVE  \E x \in j..k : Ending(r[x])
    BY <1>1 DEF Once
  <2>0. j \in 1..Len(q) /\ k \in 1..Len(q) /\ r[j] = q[j] /\ r[k] = q[k]  BY <1>1
  <2>1. PICK x \in j..k : Ending(q[x])  BY <2>0 DEF OnceIn, Once
  <2> QED  BY <1>1, <2>1
<1>3. ASSUME NEW t \in h  PROVE Anew(r, t)
  <2> SUFFICES ASSUME NEW j \in 1..i, t \in Says(r[j])
               PROVE  \E x \in 1..j : Ending(r[x])
    BY <1>1 DEF Anew
  <2>1. PICK x \in 1..j : Ending(q[x])  BY <1>1, <1>3 DEF OnceIn, Anew
  <2> QED  BY <1>1, <2>1
<1> QED  BY <1>2, <1>3 DEF OnceIn, r

\* One packet of data is missing from a queue.
LEMMA OnceMissing ==
    ASSUME NEW S, NEW q \in Seq(S), NEW i \in 1..Len(q), NEW h, ~Ending(q[i]),
           OnceIn(q, h, {}, FALSE)
    PROVE  OnceIn(Without(q, i), h, {}, FALSE)
<1> DEFINE r == Without(q, i)
           old(j) == IF j < i THEN j ELSE j + 1
           new(x) == IF x < i THEN x ELSE x - 1
<1>1. /\ Len(q) \in Nat /\ Len(r) = Len(q) - 1
      /\ \A j \in 1..Len(r) : r[j] = IF j < i THEN q[j] ELSE q[j + 1]
  BY WithoutAt, LenProperties
<1> HIDE DEF r
<1>2. \A j \in 1..Len(r) : old(j) \in 1..Len(q) /\ r[j] = q[old(j)]  BY <1>1
<1>3. \A x \in 1..Len(q) : Ending(q[x]) =>
            (x # i /\ new(x) \in 1..Len(r) /\ Ending(r[new(x)]))
  BY <1>1
<1>4. Once(r)
  <2> SUFFICES ASSUME NEW j \in 1..Len(r), NEW k \in 1..Len(r), j < k,
                      Says(r[j]) \cap Says(r[k]) # {}
               PROVE  \E x \in j..k : Ending(r[x])
    BY DEF Once
  <2>0. old(j) < old(k) /\ r[j] = q[old(j)] /\ r[k] = q[old(k)]  BY <1>1, <1>2
  <2>1. old(j) < old(k) /\ Says(q[old(j)]) \cap Says(q[old(k)]) # {}
    <3> HIDE DEF old
    <3> QED  BY <2>0
  <2>2. PICK x \in old(j)..old(k) : Ending(q[x])  BY <1>2, <2>1 DEF OnceIn, Once
  <2>3. x \in 1..Len(q)  BY <1>1, <1>2
  <2>4. x # i /\ Ending(r[new(x)])  BY <1>3, <2>2, <2>3
  <2>5. new(x) \in j..k  BY <1>1, <2>2, <2>3, <2>4
  <2> QED  BY <2>4, <2>5
<1>5. ASSUME NEW t \in h  PROVE Anew(r, t)
  <2> SUFFICES ASSUME NEW j \in 1..Len(r), t \in Says(r[j])
               PROVE  \E x \in 1..j : Ending(r[x])
    BY DEF Anew
  <2>1. PICK x \in 1..old(j) : Ending(q[x])  BY <1>2, <1>5 DEF OnceIn, Anew
  <2>2. x \in 1..Len(q)  BY <1>1, <1>2
  <2>3. x # i /\ Ending(r[new(x)]) /\ new(x) \in 1..Len(r)  BY <1>3, <2>1, <2>2
  <2>4. new(x) \in 1..j  BY <1>1, <2>1, <2>2, <2>3
  <2> QED  BY <2>3, <2>4
<1> QED  BY <1>4, <1>5 DEF OnceIn, r

\* The end of a connection follows what is still received of it.
LEMMA OnceKept ==
    ASSUME NEW S, NEW q \in Seq(S), NEW h, NEW u, NEW v, NEW l \in BOOLEAN, NEW m \in S,
           OnceIn(q, h, u, l), NEW r \in KeptToSrv(q), m = Lost \/ m = Bye
    PROVE  OnceIn(Append(r, m), h, v, TRUE)
<1>1. OnceIn(q, h, {}, FALSE)  BY DEF OnceIn
<1>2. r \in Seq(S)  BY KeptKeeps
<1>3. OnceIn(r, h, {}, FALSE)
  <2>1. PICK i \in 0..Len(q) :
              \/ r = SubSeq(q, 1, i)
              \/ \E k \in 1..i : IsData(q[k]) /\ r = Without(SubSeq(q, 1, i), k)
    BY KeptForm
  <2> DEFINE p == SubSeq(q, 1, i)
  <2>2. p \in Seq(S) /\ Len(p) = i /\ (\A j \in 1..i : p[j] = q[j]) /\ OnceIn(p, h, {}, FALSE)
    BY <1>1, PrefixAt, OncePrefix
  <2> HIDE DEF p
  <2>3. CASE r = p  BY <2>2, <2>3
  <2>4. ASSUME NEW k \in 1..i, IsData(q[k]), r = Without(p, k)
        PROVE  OnceIn(r, h, {}, FALSE)
    <3>1. ~Ending(p[k]) /\ k \in 1..Len(p)  BY <2>2, <2>4 DEF IsData, Ending
    <3> QED  BY <2>2, <2>4, <3>1, OnceMissing
  <2> QED  BY <2>1, <2>3, <2>4 DEF p
<1>4. Says(m) = {} /\ Ending(m)  BY DEF Says, Ending, Lost, Bye
<1> DEFINE s == Append(r, m)
<1>5. /\ Len(r) \in Nat /\ Len(s) = Len(r) + 1 /\ s[Len(r) + 1] = m
      /\ \A j \in 1..Len(r) : s[j] = r[j]
  BY <1>2, AppendAt, LenProperties
<1> HIDE DEF s
<1>6. \A j \in 1..Len(s) : Says(s[j]) # {} => j \in 1..Len(r) /\ s[j] = r[j]
  BY <1>4, <1>5
<1>7. Once(s)
  <2> SUFFICES ASSUME NEW j \in 1..Len(s), NEW k \in 1..Len(s), j < k,
                      Says(s[j]) \cap Says(s[k]) # {}
               PROVE  \E x \in j..k : Ending(s[x])
    BY DEF Once
  <2>1. j \in 1..Len(r) /\ k \in 1..Len(r) /\ s[j] = r[j] /\ s[k] = r[k]  BY <1>6
  <2>2. PICK x \in j..k : Ending(r[x])  BY <1>3, <2>1 DEF OnceIn, Once
  <2> QED  BY <1>5, <2>1, <2>2
<1>8. ASSUME NEW t \in h  PROVE Anew(s, t)
  <2> SUFFICES ASSUME NEW j \in 1..Len(s), t \in Says(s[j])
               PROVE  \E x \in 1..j : Ending(s[x])
    BY DEF Anew
  <2>1. j \in 1..Len(r) /\ s[j] = r[j]  BY <1>6
  <2>2. PICK x \in 1..j : Ending(r[x])  BY <1>3, <1>8, <2>1 DEF OnceIn, Anew
  <2> QED  BY <1>5, <2>1, <2>2
<1>9. Ends(s) /\ \A t : Over(s, t)
  BY <1>4, <1>5 DEF Ends, Over
<1> QED  BY <1>7, <1>8, <1>9 DEF OnceIn, s

---------------------------------------------------------------------------
(* What a connection looks like from the client.                           *)

\* The packets of a connection from its acceptance on: the acceptance comes
\* first, unless it was handled, and the end last; nothing follows it, since a
\* lost connection carries nothing and a server that said goodbye is gone.
Shape(q, opened, carries, listens) ==
    /\ \A i \in 1..Len(q) :
          /\ q[i].kind = "accepted" => i = 1 /\ ~opened
          /\ Ending(q[i]) => i = Len(q) /\ ~(carries /\ listens)
          /\ q[i].kind = "lost" => ~carries
    /\ ~opened /\ (carries \/ Len(q) # 0) => Len(q) # 0 /\ q[1].kind = "accepted"

\* Packets that construct or destroy, but not both, and those in the middle of a
\* connection.
Tidy(c) == {m \in ToClient(c) : m.kind = "construction" => m.new = {} \/ m.del = {}}
Middle(c) == {m \in Tidy(c) : m.kind \notin {"accepted", "lost", "bye"}}

\* A queue has its shape also when less is asked of it.
LEMMA ShapeWeaker ==
    ASSUME NEW q, NEW o \in BOOLEAN, NEW w1 \in BOOLEAN, NEW w2 \in BOOLEAN,
           NEW u1 \in BOOLEAN, NEW u2 \in BOOLEAN,
           Shape(q, o, w1, u1), w2 => w1, u2 => u1
    PROVE  Shape(q, o, w2, u2)
BY DEF Shape

\* Sending more on a connection leaves the shape of its queue.
LEMMA ShapeSend ==
    ASSUME NEW c \in Clients, NEW q \in Seq(ToClient(c)), NEW p \in Seq(Middle(c)),
           NEW o \in BOOLEAN, Shape(q, o, TRUE, TRUE)
    PROVE  Shape(q \o p, o, TRUE, TRUE)
<1> DEFINE r == q \o p
<1>0. p \in Seq(ToClient(c))  BY SeqMonotonic DEF Middle, Tidy
<1>1. /\ Len(q) \in Nat /\ Len(p) \in Nat /\ Len(r) = Len(q) + Len(p)
      /\ \A i \in 1..Len(r) : r[i] = IF i <= Len(q) THEN q[i] ELSE p[i - Len(q)]
  BY <1>0, ConcatProperties, LenProperties
<1>2. \A i \in 1..Len(p) : p[i].kind \notin {"accepted", "lost", "bye"}
  BY ElementOfSeq DEF Middle
<1> HIDE DEF r
<1>3. \A i \in 1..Len(r) :
         \/ i \in 1..Len(q) /\ r[i] = q[i]
         \/ i - Len(q) \in 1..Len(p) /\ r[i] = p[i - Len(q)]
  BY <1>1
<1>4. ASSUME NEW i \in 1..Len(r)
      PROVE  (r[i].kind = "accepted" => i = 1 /\ ~o) /\ ~Ending(r[i])
  BY <1>2, <1>3 DEF Shape, Ending
<1>5. ~o => Len(r) # 0 /\ r[1].kind = "accepted"
  <2> SUFFICES ASSUME ~o  PROVE Len(r) # 0 /\ r[1].kind = "accepted"
    OBVIOUS
  <2>1. Len(q) # 0 /\ q[1].kind = "accepted"  BY DEF Shape
  <2> QED  BY <1>1, <2>1
<1>6. \A i \in 1..Len(r) : r[i].kind # "lost"  BY <1>4 DEF Ending
<1>7. Shape(r, o, TRUE, TRUE)  BY <1>4, <1>5, <1>6 DEF Shape
<1> QED  BY <1>7 DEF r

\* Sent or lost, according to Send.
LEMMA ShapeSent ==
    ASSUME IInv, NEW c \in Clients, NEW p \in Seq(Middle(c)), NEW o \in BOOLEAN,
           Shape(toCli[c], o, wire[c], up)
    PROVE  Shape(Send(c, toCli[c], p), o, wire[c], up)
<1>1. wire[c] \in BOOLEAN /\ up \in BOOLEAN /\ toCli[c] \in Seq(ToClient(c))
  BY DEF IInv, FaultInv, ServerInv, ToCliInv
<1>2. CASE wire[c] /\ up
  <2>1. Shape(toCli[c], o, TRUE, TRUE)  BY <1>1, <1>2
  <2>2. Shape(toCli[c] \o p, o, TRUE, TRUE)  BY <1>1, <2>1, ShapeSend
  <2> QED  BY <1>1, <1>2, <2>2 DEF Send
<1>3. CASE ~(wire[c] /\ up)  BY <1>3 DEF Send
<1> QED  BY <1>2, <1>3

\* So does taking the first packet, when it is the acceptance or after it.
LEMMA ShapeTail ==
    ASSUME NEW S, NEW q \in Seq(S), q # << >>, NEW o \in BOOLEAN, NEW w \in BOOLEAN,
           NEW u \in BOOLEAN, Shape(q, o, w, u),
           o \/ Head(q).kind = "accepted"
    PROVE  Shape(Tail(q), TRUE, w, u)
<1> DEFINE r == Tail(q)
<1>1. /\ Len(q) \in Nat \ {0} /\ Len(r) = Len(q) - 1 /\ Head(q) = q[1]
      /\ \A j \in 1..Len(r) : r[j] = q[j + 1]
  BY TailAt
<1> HIDE DEF r
<1>2. \A j \in 1..Len(r) : j + 1 \in 1..Len(q) /\ r[j] = q[j + 1] /\ j + 1 # 1  BY <1>1
<1>3. \A j \in 1..Len(r) : r[j].kind # "accepted"  BY <1>2 DEF Shape
<1>4. \A j \in 1..Len(r) : Ending(r[j]) => j = Len(r) /\ ~(w /\ u)
  BY <1>1, <1>2 DEF Shape
<1>5. \A j \in 1..Len(r) : r[j].kind = "lost" => ~w
  BY <1>2 DEF Shape
<1> QED  BY <1>3, <1>4, <1>5 DEF Shape, r

\* One answer of several is handled.
LEMMA ShapeAssigned ==
    ASSUME NEW S, NEW q \in Seq(S), q # << >>, NEW w \in BOOLEAN, NEW u \in BOOLEAN,
           Shape(q, TRUE, w, u), NEW ids, Assigned(ids) \in S
    PROVE  Shape(Assign(ids) \o Tail(q), TRUE, w, u)
<1> DEFINE t == Tail(q)
           a == Assigned(ids)
           r == <<a>> \o t
<1>1. t \in Seq(S) /\ Shape(t, TRUE, w, u) /\ Len(t) \in Nat
  BY TailAt, ShapeTail, LenProperties
<1>2. a.kind = "assigned" /\ a \in S  BY DEF Assigned
<1> HIDE DEF t, a
<1>3. /\ Len(r) = 1 + Len(t)
      /\ \A i \in 1..Len(r) : r[i] = IF i <= 1 THEN a ELSE t[i - 1]
  <2> DEFINE s == <<a>>
  <2>1. s \in Seq(S) /\ Len(s) = 1 /\ s[1] = a  BY <1>2
  <2> HIDE DEF s
  <2>2. /\ Len(s \o t) = Len(s) + Len(t)
        /\ \A i \in 1..(Len(s) + Len(t)) :
              (s \o t)[i] = IF i <= Len(s) THEN s[i] ELSE t[i - Len(s)]
    BY <1>1, <2>1, ConcatProperties
  <2>3. \A i \in 1..(1 + Len(t)) : i <= 1 => i = 1  OBVIOUS
  <2> QED  BY <1>1, <2>1, <2>2, <2>3 DEF s
<1> HIDE DEF r
<1>4. \A i \in 1..Len(r) :
         \/ r[i].kind = "assigned"
         \/ i - 1 \in 1..Len(t) /\ r[i] = t[i - 1]
  BY <1>1, <1>2, <1>3
<1>5. \A i \in 1..Len(r) : r[i].kind # "accepted"
  BY <1>1, <1>4 DEF Shape
<1>6. \A i \in 1..Len(r) : Ending(r[i]) => i = Len(r) /\ ~(w /\ u)
  BY <1>1, <1>3, <1>4 DEF Shape, Ending
<1>7. \A i \in 1..Len(r) : r[i].kind = "lost" => ~w
  BY <1>1, <1>4 DEF Shape
<1>8. Shape(r, TRUE, w, u)  BY <1>5, <1>6, <1>7 DEF Shape
<1>9. CASE ids = {}
  <2>1. Assign(ids) \o t = t  BY <1>1, <1>9, ConcatEmptySeq DEF Assign
  <2> QED  BY <1>1, <2>1 DEF t
<1>10. CASE ids # {}
  <2>1. Assign(ids) \o t = r  BY <1>10 DEF Assign, r, a
  <2> QED  BY <1>8, <2>1 DEF t
<1> QED  BY <1>9, <1>10

\* The end of a connection is the last there is of it.
LEMMA ShapeEnd ==
    ASSUME NEW S, NEW q \in Seq(S), q # << >>, NEW o \in BOOLEAN, NEW w \in BOOLEAN,
           NEW u \in BOOLEAN, Shape(q, o, w, u), Ending(Head(q))
    PROVE  /\ Tail(q) = << >> /\ ~(w /\ u)
           /\ Head(q).kind = "lost" => ~w
           /\ Shape(Tail(q), FALSE, FALSE, u)
<1> DEFINE t == Tail(q)
           m == Head(q)
<1>1. Len(q) \in Nat \ {0} /\ Len(t) = Len(q) - 1 /\ m = q[1] /\ t \in Seq(S)
  BY TailAt
<1>2. 1 \in 1..Len(q) /\ Ending(q[1])  BY <1>1
<1>3. 1 = Len(q) /\ ~(w /\ u) /\ (q[1].kind = "lost" => ~w)
  <2> HIDE DEF Ending, t, m
  <2> QED  BY <1>2 DEF Shape
<1> HIDE DEF t, m
<1>4. Len(t) = 0  BY <1>1, <1>3
<1>5. t = << >>  BY <1>1, <1>4, EmptySeq
<1>6. Shape(t, FALSE, FALSE, u)  BY <1>4 DEF Shape
<1> QED  BY <1>1, <1>3, <1>5, <1>6 DEF t, m

\* A connection that breaks keeps what the client's own end of it put there.
LEMMA ShapeCut ==
    ASSUME NEW S, NEW q \in Seq(S), NEW i \in Cuts(q), NEW o \in BOOLEAN,
           NEW u \in BOOLEAN, Shape(q, o, TRUE, u), Lost \in S
    PROVE  Shape(CutOff(q, i), o, FALSE, u)
<1> DEFINE p == SubSeq(q, 1, i)
           r == Append(p, Lost)
<1>0. i \in 0..Len(q) /\ Len(q) \in Nat  BY LenProperties DEF Cuts
<1>1. p \in Seq(S) /\ Len(p) = i /\ \A j \in 1..i : p[j] = q[j]  BY <1>0, PrefixAt
<1>2. ~o => i # 0 /\ q[1].kind = "accepted"
  BY <1>0 DEF Shape, Cuts, IsLocal
<1> HIDE DEF p
<1>3. CASE i > 0 /\ q[i].kind = "bye"
  <2>1. CutOff(q, i) = p  BY <1>3 DEF CutOff, p
  <2>2. i = Len(q)  BY <1>0, <1>3 DEF Shape, Ending
  <2>3. \A j \in 1..Len(p) : p[j].kind = "accepted" => j = 1 /\ ~o
    BY <1>0, <1>1 DEF Shape
  <2>4. \A j \in 1..Len(p) : Ending(p[j]) => j = Len(p)
    BY <1>0, <1>1, <2>2 DEF Shape
  <2>5. ~o => Len(p) # 0 /\ p[1].kind = "accepted"  BY <1>0, <1>1, <1>2
  <2>6. Shape(p, o, FALSE, u)  BY <2>3, <2>4, <2>5 DEF Shape
  <2> QED  BY <2>1, <2>6
<1>4. CASE ~(i > 0 /\ q[i].kind = "bye")
  <2>1. CutOff(q, i) = r  BY <1>4 DEF CutOff, p
  <2>2. /\ Len(r) = i + 1 /\ r[i + 1] = Lost
        /\ \A j \in 1..i : r[j] = q[j]
    BY <1>1, AppendAt
  <2> HIDE DEF r
  <2>3. \A j \in 1..Len(r) : j # i + 1 => j \in 1..Len(q) /\ j \in 1..i /\ r[j] = q[j]
    BY <1>0, <2>2
  <2>4. Lost.kind = "lost"  BY DEF Lost
  <2>5. \A j \in 1..Len(r) : r[j].kind = "accepted" => j = 1 /\ ~o
    BY <2>2, <2>3, <2>4 DEF Shape
  <2>6. \A j \in 1..Len(r) : Ending(r[j]) => j = Len(r)
    <3> SUFFICES ASSUME NEW j \in 1..Len(r), Ending(r[j]), j # i + 1
                 PROVE  FALSE
      BY <2>2
    <3>1. j \in 1..i /\ Ending(q[j]) /\ j \in 1..Len(q)  BY <2>3
    <3>2. j = Len(q) /\ q[j].kind = "bye"  BY <3>1 DEF Shape, Ending
    <3>3. j = i  BY <1>0, <3>1, <3>2
    <3> QED  BY <1>4, <3>1, <3>2, <3>3
  <2>7. ~o => Len(r) # 0 /\ r[1].kind = "accepted"  BY <1>0, <1>2, <2>2, <2>3
  <2>8. Shape(r, o, FALSE, u)  BY <2>5, <2>6, <2>7 DEF Shape
  <2> QED  BY <2>1, <2>8
<1> QED  BY <1>3, <1>4

\* The server's goodbye.
LEMMA ShapeBye ==
    ASSUME NEW c \in Clients, NEW q \in Seq(ToClient(c)), NEW p \in Seq(Middle(c)),
           NEW o \in BOOLEAN, Shape(q, o, TRUE, TRUE)
    PROVE  Shape(q \o (p \o <<Bye>>), o, TRUE, FALSE)
<1> DEFINE r == q \o p
           s == Append(r, Bye)
<1>1. Shape(r, o, TRUE, TRUE)  BY ShapeSend
<1>2. p \in Seq(ToClient(c))  BY SeqMonotonic DEF Middle, Tidy
<1>3. r \in Seq(ToClient(c)) /\ Bye \in ToClient(c)
  BY <1>2, ConcatProperties, ControlToClient
<1>4. q \o (p \o <<Bye>>) = s
  <2>1. <<Bye>> \in Seq(ToClient(c))  BY <1>3
  <2>2. q \o (p \o <<Bye>>) = r \o <<Bye>>  BY <1>2, <2>1, ConcatAssociative
  <2> QED  BY <1>3, <2>2, AppendIsConcat
<1> HIDE DEF r
<1>5. /\ Len(r) \in Nat /\ Len(s) = Len(r) + 1 /\ s[Len(r) + 1] = Bye
      /\ \A j \in 1..Len(r) : s[j] = r[j]
  BY <1>3, AppendAt, LenProperties
<1> HIDE DEF s
<1>6. \A j \in 1..Len(s) : j # Len(s) => j \in 1..Len(r) /\ s[j] = r[j]  BY <1>5
<1>7. Bye.kind = "bye"  BY DEF Bye
<1>8. \A j \in 1..Len(s) : s[j].kind = "accepted" => j = 1 /\ ~o
  BY <1>1, <1>5, <1>6, <1>7 DEF Shape
<1>9. \A j \in 1..Len(s) : Ending(s[j]) => j = Len(s)
  BY <1>1, <1>6 DEF Shape
<1>10. \A j \in 1..Len(s) : s[j].kind # "lost"
  BY <1>1, <1>5, <1>6, <1>7 DEF Shape
<1>11. ~o => Len(s) # 0 /\ s[1].kind = "accepted"
  BY <1>1, <1>5 DEF Shape
<1>12. Shape(s, o, TRUE, FALSE)  BY <1>8, <1>9, <1>10, <1>11 DEF Shape
<1> QED  BY <1>4, <1>12

---------------------------------------------------------------------------
(* What the server sends, and what a construction makes it do.             *)

\* What the server makes of a construction: the ids in it that it has, those
\* it then has, those it chose, and those to destroy.
Existing(m) == {e[2] : e \in m.new} \cap srv
Created(m)  == {IdFor(e) : e \in {e \in m.new : e[2] \notin srv}}
Answered(m) == {IdFor(e) : e \in {e \in m.new : e[2] = NoId}}
Doomed(m)   == m.del \cap (srv \cup Created(m))

\* The lists of the connections, before the destructions.
HasThen(c, m, d) ==
    IF d = c THEN SHasNow(d) \cup Created(m) \cup (Existing(m) \cap SQueryNow(d))
    ELSE SHasNow(d)
QueryThen(c, m, d) ==
    IF d = c THEN SQueryNow(d) \ (Created(m) \cup Existing(m))
    ELSE IF d \in Pushed THEN SQueryNow(d) \cup Created(m)
    ELSE SQueryNow(d)

\* What is sent to each.
SentThen(c, m, d) ==
    IF d = c THEN Assign(Answered(m)) ELSE Destruct(Doomed(m) \cap HasThen(c, m, d))

\* What handling a construction packet does to the lists of every connection.
LEMMA ConstructionIs ==
    ASSUME NEW c \in Clients, NEW i, ServerOnConstruction(c, i), srvConn[c] # "none",
           NEW m, m = toSrv[c][i]
    PROVE  /\ srv' = (srv \cup Created(m)) \ Doomed(m)
           /\ srvHas' = [d \in Clients |-> HasThen(c, m, d) \ Doomed(m)]
           /\ srvQuery' = [d \in Clients |-> QueryThen(c, m, d) \ Doomed(m)]
           /\ issued' = [n \in Nodes |-> IF <<n, NoId>> \in m.new
                                         THEN issued[n] + 1 ELSE issued[n]]
           /\ toCli' = [d \in Clients |->
                           Send(d, toCli[d], SPacket(d) \o SentThen(c, m, d))]
           /\ UNCHANGED <<up, srvConn>>
<1> DEFINE existing == {e[2] : e \in m.new} \cap srv
           created == {IdFor(e) : e \in {e \in m.new : e[2] \notin srv}}
           assigned == {IdFor(e) : e \in {e \in m.new : e[2] = NoId}}
           doomed == m.del \cap (srv \cup created)
           has == [d \in Clients |->
                     IF d = c THEN SHasNow(d) \cup created \cup (existing \cap SQueryNow(d))
                     ELSE SHasNow(d)]
           query == [d \in Clients |->
                       IF d = c THEN SQueryNow(d) \ (created \cup existing)
                       ELSE IF d \in Pushed THEN SQueryNow(d) \cup created
                       ELSE SQueryNow(d)]
           extra == [d \in Clients |-> IF d = c THEN Assign(assigned)
                                       ELSE Destruct(doomed \cap has[d])]
<1>1. /\ srv' = Dereference(srv \cup created, doomed)
      /\ srvHas' = [d \in Clients |-> Dereference(has[d], doomed)]
      /\ srvQuery' = [d \in Clients |-> Dereference(query[d], doomed)]
      /\ issued' = [n \in Nodes |-> IF <<n, NoId>> \in m.new
                                    THEN issued[n] + 1 ELSE issued[n]]
      /\ Deliver(extra)
      /\ UNCHANGED <<up, srvConn>>
  BY DEF ServerOnConstruction
<1>2. /\ existing = Existing(m) /\ created = Created(m)
      /\ assigned = Answered(m) /\ doomed = Doomed(m)
  BY DEF Existing, Created, Answered, Doomed
<1> HIDE DEF existing, created, assigned, doomed
<1>3. \A d \in Clients : has[d] = HasThen(c, m, d) /\ query[d] = QueryThen(c, m, d)
  BY <1>2 DEF HasThen, QueryThen
<1> HIDE DEF has, query
<1>4. \A d \in Clients : extra[d] = SentThen(c, m, d)
  BY <1>2, <1>3 DEF SentThen
<1> HIDE DEF extra
<1>5. toCli' = [d \in Clients |-> Send(d, toCli[d], SPacket(d) \o SentThen(c, m, d))]
  BY <1>1, <1>4 DEF Deliver
<1> QED  BY <1>1, <1>2, <1>3, <1>5 DEF Dereference

\* What a packet the server handles may hold, and the ids it leads to.
LEMMA ConstructionHolds ==
    ASSUME IInv, NEW c \in Clients, NEW m \in FromClient(c), m.kind = "construction"
    PROVE  /\ m.new \subseteq PairsOf(c) /\ m.del \subseteq Ids \cup {NoId}
           /\ Created(m) \subseteq Ids /\ \A id \in Created(m) : OwnerOf(id) = c
           /\ Answered(m) \subseteq Ids /\ \A id \in Answered(m) : OwnerOf(id) = c
           /\ Existing(m) \subseteq Ids /\ \A id \in Existing(m) : OwnerOf(id) = c
           /\ Doomed(m) \subseteq Ids
<1>1. m.new \subseteq PairsOf(c) /\ m.del \subseteq Ids \cup {NoId}
  BY DEF FromClient, Incoming, Scope, Lost, Bye
<1>2. ServerInv /\ srv \subseteq Ids  BY DEF IInv, ServerInv
<1>3. Created(m) \subseteq Ids /\ \A id \in Created(m) : OwnerOf(id) = c
  BY <1>1, <1>2, IdsFor DEF Created
<1>4. Answered(m) \subseteq Ids /\ \A id \in Answered(m) : OwnerOf(id) = c
  BY <1>1, <1>2, IdsFor DEF Answered
<1>5. ASSUME NEW e \in m.new, e[2] \in srv
      PROVE  e[2] \in Ids /\ OwnerOf(e[2]) = c
  <2>1. e \in PairsOf(c) /\ e[2] \in Ids  BY <1>1, <1>2, <1>5
  <2>2. e[2] # NoId  BY <2>1 DEF Ids, NoId
  <2> QED  BY <2>1, <2>2 DEF PairsOf, OwnerOf, NodesOf
<1>6. Existing(m) \subseteq Ids /\ \A id \in Existing(m) : OwnerOf(id) = c
  BY <1>5 DEF Existing
<1>7. Doomed(m) \subseteq Ids  BY <1>2, <1>3 DEF Doomed
<1> QED  BY <1>1, <1>3, <1>4, <1>6, <1>7

\* Everything the server sends belongs in the middle of a connection.
LEMMA MiddleSent ==
    ASSUME NEW d \in Clients
    PROVE  /\ << >> \in Seq(Middle(d)) /\ <<Scope>> \in Seq(Middle(d))
           /\ \A del \in SUBSET Ids : Destruct(del) \in Seq(Middle(d))
           /\ \A ids \in SUBSET Ids : Assign(ids) \in Seq(Middle(d))
           /\ ServerInv => SPacket(d) \in Seq(Middle(d))
           /\ \A p1, p2 \in Seq(Middle(d)) : p1 \o p2 \in Seq(Middle(d))
<1>1. Scope \in Middle(d)  BY DEF Middle, Tidy, ToClient, Scope
<1>2. \A del \in SUBSET Ids : Construction({}, del) \in Middle(d)
  BY DEF Middle, Tidy, ToClient, Construction
<1>3. \A ids \in SUBSET Ids : Assigned(ids) \in Middle(d)
  BY DEF Middle, Tidy, ToClient, Assigned
<1>4. ASSUME ServerInv  PROVE Construction(SFlush(d), {}) \in Middle(d)
  <2>1. SFlush(d) \subseteq Foreign(d)  BY <1>4 DEF SFlush, ServerInv
  <2> QED  BY <2>1 DEF Middle, Tidy, ToClient, Construction
<1>5. << >> \in Seq(Middle(d))  BY EmptySeq
<1>6. \A del \in SUBSET Ids : Destruct(del) \in Seq(Middle(d))
  BY <1>2, <1>5 DEF Destruct
<1>7. \A ids \in SUBSET Ids : Assign(ids) \in Seq(Middle(d))
  BY <1>3, <1>5 DEF Assign
<1>8. ServerInv => SPacket(d) \in Seq(Middle(d))
  BY <1>4, <1>5 DEF SPacket, Construct
<1>9. \A p1, p2 \in Seq(Middle(d)) : p1 \o p2 \in Seq(Middle(d))
  BY ConcatProperties
<1> QED  BY <1>1, <1>5, <1>6, <1>7, <1>8, <1>9

\* The server, handling a packet, only sends to its clients.
LEMMA ServerSends ==
    ASSUME IInv, ServerReceive
    PROVE  /\ UNCHANGED <<clientVars, up, wire, faults>>
           /\ \A d \in Clients : \E p \in Seq(Middle(d)) : toCli'[d] = Send(d, toCli[d], p)
<1>0. ServerInv  BY DEF IInv
<1>1. ASSUME NEW extra, \A d \in Clients : extra[d] \in Seq(Middle(d)), Deliver(extra)
      PROVE  \A d \in Clients : \E p \in Seq(Middle(d)) : toCli'[d] = Send(d, toCli[d], p)
  <2> SUFFICES ASSUME NEW d \in Clients
               PROVE  \E p \in Seq(Middle(d)) : toCli'[d] = Send(d, toCli[d], p)
    OBVIOUS
  <2>1. SPacket(d) \o extra[d] \in Seq(Middle(d))  BY <1>0, <1>1, MiddleSent
  <2>2. toCli'[d] = Send(d, toCli[d], SPacket(d) \o extra[d])  BY <1>1 DEF Deliver
  <2> QED  BY <2>1, <2>2
<1>2. \A d \in Clients : Nothing[d] \in Seq(Middle(d))  BY MiddleSent DEF Nothing
<1>3. \A c \in Clients : \A d \in Clients :
         [Nothing EXCEPT ![c] = <<Scope>>][d] \in Seq(Middle(d))
  BY MiddleSent DEF Nothing
<1>4. \A c \in Clients : \A d \in Clients :
         [Nothing EXCEPT ![c] = << >>][d] \in Seq(Middle(d))
  BY MiddleSent DEF Nothing
<1>5. CASE ServerUpdate  BY <1>1, <1>2, <1>5 DEF ServerUpdate
<1>6. ASSUME NEW c \in Clients, NEW i, ServerOnIncoming(c, i)
      PROVE  /\ UNCHANGED <<clientVars, up, wire, faults>>
             /\ \A d \in Clients : \E p \in Seq(Middle(d)) : toCli'[d] = Send(d, toCli[d], p)
  <2>1. \/ Deliver([Nothing EXCEPT ![c] = <<Scope>>])
        \/ Deliver([Nothing EXCEPT ![c] = << >>])
    BY <1>6 DEF ServerOnIncoming
  <2> QED  BY <1>1, <1>3, <1>4, <1>6, <2>1 DEF ServerOnIncoming
<1>7. ASSUME NEW c \in Clients, NEW i, ServerOnScope(c, i)
      PROVE  /\ UNCHANGED <<clientVars, up, wire, faults>>
             /\ \A d \in Clients : \E p \in Seq(Middle(d)) : toCli'[d] = Send(d, toCli[d], p)
  <2>1. \/ Deliver([Nothing EXCEPT ![c] = <<Scope>>])
        \/ Deliver([Nothing EXCEPT ![c] = << >>])
    BY <1>7 DEF ServerOnScope
  <2> QED  BY <1>1, <1>3, <1>4, <1>7, <2>1 DEF ServerOnScope
<1>8. ASSUME NEW c \in Clients, NEW i, ServerOnConstruction(c, i)
      PROVE  /\ UNCHANGED <<clientVars, up, wire, faults>>
             /\ \A d \in Clients : \E p \in Seq(Middle(d)) : toCli'[d] = Send(d, toCli[d], p)
  <2>0. UNCHANGED <<clientVars, up, wire, faults>>  BY <1>8 DEF ServerOnConstruction
  <2>1. CASE srvConn[c] = "none"
    <3>1. Deliver(Nothing)  BY <1>8, <2>1 DEF ServerOnConstruction
    <3> QED  BY <1>1, <1>2, <2>0, <3>1
  <2>2. CASE srvConn[c] # "none"
    <3> DEFINE m == toSrv[c][i]
               extra == [d \in Clients |-> SentThen(c, m, d)]
    <3>1. m \in FromClient(c) /\ m.kind = "construction"
      BY <1>8, ServerTakes DEF IInv, ServerOnConstruction, Reaching
    <3>2. toCli' = [d \in Clients |-> Send(d, toCli[d], SPacket(d) \o SentThen(c, m, d))]
      BY <1>8, <2>2, ConstructionIs
    <3> HIDE DEF m
    <3>3. Deliver(extra)  BY <3>2 DEF Deliver
    <3>4. Answered(m) \subseteq Ids /\ Doomed(m) \subseteq Ids
      BY <3>1, ConstructionHolds
    <3>5. \A d \in Clients : extra[d] \in Seq(Middle(d))
      <4>1. \A d \in Clients : Doomed(m) \cap HasThen(c, m, d) \in SUBSET Ids  BY <3>4
      <4> QED  BY <3>4, <4>1, MiddleSent DEF SentThen
    <3> QED  BY <1>1, <2>0, <3>3, <3>5
  <2> QED  BY <2>1, <2>2
<1>9. ASSUME NEW c \in Clients, NEW i, ServerOnClosed(c, i)
      PROVE  /\ UNCHANGED <<clientVars, up, wire, faults>>
             /\ \A d \in Clients : \E p \in Seq(Middle(d)) : toCli'[d] = Send(d, toCli[d], p)
  <2> DEFINE dropped == IF srvConn[c] = "none" THEN {} ELSE CreatedBy(c)
             extra == [d \in Clients |->
                        (IF d = c THEN << >> ELSE Destruct(dropped \cap SHasNow(d)))
                        \o Destruct(dropped \cap SHasNow(d))]
  <2>1. Deliver(extra) /\ UNCHANGED <<clientVars, up, wire, faults>>
    BY <1>9 DEF ServerOnClosed
  <2>2. dropped \subseteq Ids  BY <1>0 DEF ServerInv, CreatedBy
  <2> HIDE DEF dropped
  <2>3. \A d \in Clients : extra[d] \in Seq(Middle(d))
    <3> SUFFICES ASSUME NEW d \in Clients  PROVE extra[d] \in Seq(Middle(d))
      OBVIOUS
    <3>1. Destruct(dropped \cap SHasNow(d)) \in Seq(Middle(d))
      <4>1. dropped \cap SHasNow(d) \in SUBSET Ids  BY <2>2
      <4> QED  BY <4>1, MiddleSent
    <3>2. << >> \in Seq(Middle(d))  BY MiddleSent
    <3> QED  BY <3>1, <3>2, MiddleSent
  <2> QED  BY <1>1, <2>1, <2>3
<1> QED  BY <1>5, <1>6, <1>7, <1>8, <1>9 DEF ServerReceive, ServerUpdate

---------------------------------------------------------------------------
(* The client's lists and its end of the connection.                       *)

\* A client is connected while check() takes it to be; it has nothing queued
\* without a connection, nothing constructed without a validated one, and
\* neither list has a node it does not hold.
ListsOf(c) ==
    /\ cConn[c] # "none" <=> link[c] = "up"
    /\ cConn[c] = "none" => cQuery[c] = {}
    /\ cConn[c] # "valid" => cHas[c] = {}
    /\ cQuery[c] \subseteq LiveOf(c) /\ cHas[c] \subseteq LiveOf(c)
ShapeOf(c) == Shape(toCli[c], cConn[c] # "none", wire[c], up)
ConnInv == \A c \in Clients : ListsOf(c) /\ ShapeOf(c)

\* Where a client's own lists end up after one of its Receives.
LEMMA ListsAfter ==
    ASSUME IInv, NEW c \in Clients, ListsOf(c)
    PROVE  /\ CHasNow(c) \subseteq LiveOf(c) /\ CQueryNow(c) \subseteq LiveOf(c)
           /\ cConn[c] = "none" => CQueryNow(c) = {}
           /\ cConn[c] # "valid" => CHasNow(c) = {} /\ CFlush(c) = {}
BY DEF ListsOf, CHasNow, CQueryNow, CFlush

\* StartClient keeps ConnInv.
LEMMA StartClientConn ==
    ASSUME IInv, ConnInv, NEW c \in Clients, StartClient(c)
    PROVE  ConnInv'
<1>1. \A d \in Clients : ListsOf(d)'
  BY DEF IInv, ClientInv, ConnInv, ListsOf, LiveOf, StartClient
<1>2. \A d \in Clients : ShapeOf(d)'
  BY DEF ConnInv, ShapeOf, StartClient, serverVars
<1> QED  BY <1>1, <1>2 DEF ConnInv

\* AddNode keeps ConnInv.
LEMMA AddNodeConn ==
    ASSUME IInv, ConnInv, NEW n \in Nodes, AddNode(n)
    PROVE  ConnInv'
<1>1. \A d \in Clients : ListsOf(d)'
  BY OwnerAssumption DEF IInv, ClientInv, ConnInv, ListsOf, LiveOf, NodesOf, AddNode
<1>2. \A d \in Clients : ShapeOf(d)'
  BY DEF ConnInv, ShapeOf, AddNode, serverVars
<1> QED  BY <1>1, <1>2 DEF ConnInv

\* DestroyOwn keeps ConnInv.
LEMMA DestroyOwnConn ==
    ASSUME IInv, ConnInv, NEW c \in Clients, NEW S \in SUBSET NodesOf(c), DestroyOwn(c, S),
           UNCHANGED <<link, cConn, nid, copies, serverVars, wire, toCli, faults>>
    PROVE  ConnInv'
<1>1. ASSUME NEW d \in Clients  PROVE ListsOf(d)'
  <2>1. ListsOf(d)  BY DEF ConnInv
  <2>2. /\ cQuery'[d] \subseteq cQuery[d] /\ cHas'[d] \subseteq cHas[d]
        /\ d = c => (cQuery'[d] \cap S = {} /\ cHas'[d] \cap S = {})
        /\ \A n \in Nodes \ S : own'[n] = own[n]
    BY DEF IInv, ClientInv, DestroyOwn
  <2>3. d # c => LiveOf(d) \cap S = {}  BY DEF LiveOf, NodesOf
  <2>4. \A n \in LiveOf(d) \ S : n \in LiveOf(d)'
    BY <2>2 DEF LiveOf, NodesOf
  <2>5. cQuery'[d] \subseteq LiveOf(d)' /\ cHas'[d] \subseteq LiveOf(d)'
    BY <2>1, <2>2, <2>3, <2>4 DEF ListsOf
  <2> QED  BY <2>1, <2>2, <2>5 DEF ListsOf
<1>2. \A d \in Clients : ShapeOf(d)'
  BY DEF ConnInv, ShapeOf, serverVars
<1> QED  BY <1>1, <1>2 DEF ConnInv

\* RemoveNode keeps ConnInv.
LEMMA RemoveNodeConn ==
    ASSUME IInv, ConnInv, NEW n \in Nodes, RemoveNode(n)
    PROVE  ConnInv'
<1>1. {n} \in SUBSET NodesOf(Owner[n])  BY DEF NodesOf
<1> QED  BY <1>1, DestroyOwnConn, OwnerAssumption DEF RemoveNode

\* RemoveAllNodes keeps ConnInv.
LEMMA RemoveAllNodesConn ==
    ASSUME IInv, ConnInv, NEW c \in Clients, RemoveAllNodes(c)
    PROVE  ConnInv'
BY DestroyOwnConn DEF RemoveAllNodes

\* Stop keeps ConnInv.
LEMMA StopConn ==
    ASSUME IInv, ConnInv, NEW c \in Clients, Stop(c)
    PROVE  ConnInv'
<1>1. ASSUME NEW d \in Clients, d # c  PROVE ListsOf(d)' /\ ShapeOf(d)'
  <2>1. ListsOf(d) /\ ShapeOf(d)  BY DEF ConnInv
  <2>2. /\ cConn'[d] = cConn[d] /\ link'[d] = link[d] /\ cQuery'[d] = cQuery[d]
        /\ cHas'[d] = cHas[d] /\ toCli'[d] = toCli[d] /\ wire'[d] = wire[d] /\ up' = up
    BY <1>1 DEF IInv, ClientInv, ToCliInv, FaultInv, Stop, serverVars
  <2>3. LiveOf(d)' = LiveOf(d)  BY <1>1 DEF LiveOf, NodesOf, Stop
  <2> QED  BY <2>1, <2>2, <2>3 DEF ListsOf, ShapeOf
<1>2. ListsOf(c)'  BY DEF IInv, ClientInv, ListsOf, Stop
<1>3. ShapeOf(c)'
  <2>1. toCli'[c] = << >> /\ wire'[c] = FALSE  BY DEF IInv, ToCliInv, FaultInv, Stop
  <2>2. Len(<< >>) = 0  OBVIOUS
  <2> QED  BY <2>1, <2>2 DEF ShapeOf, Shape
<1> QED  BY <1>1, <1>2, <1>3 DEF ConnInv

\* A Receive of one client is nothing to the others.
LEMMA ReceiveElsewhere ==
    ASSUME IInv, ConnInv, NEW c \in Clients, ClientReceive(c)
    PROVE  /\ UNCHANGED <<serverVars, faults>>
           /\ \A d \in Clients \ {c} :
                 /\ cConn'[d] = cConn[d] /\ link'[d] = link[d] /\ cQuery'[d] = cQuery[d]
                 /\ cHas'[d] = cHas[d] /\ copies'[d] = copies[d]
                 /\ toCli'[d] = toCli[d] /\ toSrv'[d] = toSrv[d] /\ wire'[d] = wire[d]
           /\ \A n \in Nodes : Owner[n] # c => own'[n] = own[n]
           /\ \A n \in Nodes : Owner[n] # c => nid'[n] = nid[n]
<1>1. UNCHANGED <<serverVars, faults>>
  BY DEF ClientReceive, ClientUpdate, ClientOnAccepted, ClientOnScope, ClientOnAssigned,
         ClientOnConstruction, ClientOnLost, ClientOnBye
<1>2. ASSUME NEW d \in Clients \ {c}
      PROVE  /\ cConn'[d] = cConn[d] /\ link'[d] = link[d] /\ cQuery'[d] = cQuery[d]
             /\ cHas'[d] = cHas[d] /\ copies'[d] = copies[d]
             /\ toCli'[d] = toCli[d] /\ toSrv'[d] = toSrv[d] /\ wire'[d] = wire[d]
  <2> USE DEF IInv, ClientInv, ToCliInv, ToSrvInv, FaultInv
  <2>1. CASE ClientUpdate(c)  BY <2>1 DEF ClientUpdate
  <2>2. CASE ClientOnAccepted(c)  BY <2>2 DEF ClientOnAccepted
  <2>3. CASE ClientOnScope(c)  BY <2>3 DEF ClientOnScope
  <2>4. CASE ClientOnAssigned(c)  BY <2>4 DEF ClientOnAssigned
  <2>5. CASE ClientOnConstruction(c)  BY <2>5 DEF ClientOnConstruction
  <2>6. CASE ClientOnLost(c)  BY <2>6 DEF ClientOnLost
  <2>7. CASE ClientOnBye(c)  BY <2>7 DEF ClientOnBye
  <2> QED  BY <2>1, <2>2, <2>3, <2>4, <2>5, <2>6, <2>7 DEF ClientReceive
<1>3. \A n \in Nodes : Owner[n] # c => own'[n] = own[n]
  <2>1. CASE ClientOnConstruction(c)
    BY <2>1 DEF ClientOnConstruction, LiveOf, NodesOf, IInv, ClientInv
  <2>2. CASE ClientOnBye(c)
    BY <2>2 DEF ClientOnBye, NodesOf, IInv, ClientInv
  <2> QED  BY <2>1, <2>2 DEF ClientReceive, ClientUpdate, ClientOnAccepted, ClientOnScope,
                             ClientOnAssigned, ClientOnLost
<1>4. \A n \in Nodes : Owner[n] # c => nid'[n] = nid[n]
  <2>1. CASE ClientOnAssigned(c)
    <3>1. PICK id \in Head(toCli[c]).ids :
             nid' = IF cConn[c] # "none" /\ own[id.node] = "live"
                       /\ id.node \in CHasNow(c)
                    THEN [nid EXCEPT ![id.node] = id] ELSE nid
      BY <2>1 DEF ClientOnAssigned
    <3>2. CHasNow(c) \subseteq LiveOf(c)  BY ListsAfter DEF ConnInv
    <3> QED  BY <3>1, <3>2 DEF IInv, ClientInv, LiveOf, NodesOf
  <2> QED  BY <2>1 DEF ClientReceive, ClientUpdate, ClientOnAccepted, ClientOnScope,
                       ClientOnConstruction, ClientOnLost, ClientOnBye
<1> QED  BY <1>1, <1>2, <1>3, <1>4

\* What one of its Receives does to the client itself.
LEMMA ReceiveConn ==
    ASSUME IInv, ConnInv, NEW c \in Clients, ClientReceive(c)
    PROVE  ListsOf(c)' /\ ShapeOf(c)'
<1>0. ListsOf(c) /\ ShapeOf(c)  BY DEF ConnInv
<1>1. /\ cConn[c] \in {"none", "pushed", "valid"} /\ wire[c] \in BOOLEAN /\ up \in BOOLEAN
      /\ toCli[c] \in Seq(ToClient(c))
  BY DEF IInv, ClientInv, ServerInv, FaultInv, ToCliInv
<1>2. /\ CHasNow(c) \subseteq LiveOf(c) /\ CQueryNow(c) \subseteq LiveOf(c)
      /\ cConn[c] = "none" => CQueryNow(c) = {}
      /\ cConn[c] # "valid" => CHasNow(c) = {} /\ CFlush(c) = {}
  BY <1>0, ListsAfter
<1>3. up' = up  BY ReceiveElsewhere DEF serverVars
<1>a. /\ cConn[c] # "none" => Shape(toCli[c], TRUE, wire[c], up)
      /\ cConn[c] = "none" => Shape(toCli[c], FALSE, wire[c], up)
  <2>1. CASE cConn[c] # "none"
    <3>1. (cConn[c] # "none") = TRUE  BY <2>1
    <3> QED  BY <1>0, <2>1, <3>1 DEF ShapeOf
  <2>2. CASE cConn[c] = "none"
    <3>1. (cConn[c] # "none") = FALSE  BY <2>2
    <3> QED  BY <1>0, <2>2, <3>1 DEF ShapeOf
  <2> QED  BY <2>1, <2>2
<1>b. /\ cConn'[c] # "none" /\ Shape(toCli'[c], TRUE, wire[c], up) /\ wire' = wire
         => ShapeOf(c)'
      /\ cConn'[c] = "none" /\ Shape(toCli'[c], FALSE, wire'[c], up) => ShapeOf(c)'
  <2>1. CASE cConn'[c] # "none"
    <3>1. (cConn'[c] # "none") = TRUE  BY <2>1
    <3> QED  BY <1>3, <2>1, <3>1 DEF ShapeOf
  <2>2. CASE cConn'[c] = "none"
    <3>1. (cConn'[c] # "none") = FALSE  BY <2>2
    <3> QED  BY <1>3, <2>2, <3>1 DEF ShapeOf
  <2> QED  BY <2>1, <2>2
<1>4. CASE ClientUpdate(c)
  <2>1. /\ cHas'[c] = CHasNow(c) /\ cQuery'[c] = CQueryNow(c)
        /\ UNCHANGED <<link, cConn, own, toCli, wire>>
    BY <1>4 DEF ClientUpdate, IInv, ClientInv, ToCliInv, FaultInv
  <2>2. ListsOf(c)'  BY <1>0, <1>2, <2>1 DEF ListsOf, LiveOf
  <2> QED  BY <1>0, <1>3, <2>1, <2>2 DEF ShapeOf
<1>5. CASE ClientOnAccepted(c)
  <2>1. /\ toCli[c] # << >> /\ Head(toCli[c]).kind = "accepted"
        /\ toCli'[c] = Tail(toCli[c]) /\ link'[c] = "up" /\ own' = own /\ wire' = wire
        /\ cConn'[c] # "none"
        /\ \/ cQuery'[c] = LiveOf(c) /\ cHas'[c] = cHas[c] /\ cConn[c] = "none"
           \/ cQuery'[c] = CQueryNow(c) /\ cHas'[c] = CHasNow(c) /\ cConn'[c] = cConn[c]
    BY <1>5 DEF ClientOnAccepted, Arriving, IInv, ClientInv, ToCliInv, FaultInv
  <2>2. cConn[c] = "none" => cConn'[c] = "pushed"
    BY <1>5 DEF ClientOnAccepted, IInv, ClientInv, ToCliInv, FaultInv
  <2>3. ListsOf(c)'  BY <1>0, <1>1, <1>2, <2>1, <2>2 DEF ListsOf, LiveOf
  <2>4. Shape(Tail(toCli[c]), TRUE, wire[c], up)
    BY <1>1, <1>a, <2>1, ShapeTail
  <2>5. ShapeOf(c)'  BY <1>b, <2>1, <2>4
  <2> QED  BY <2>3, <2>5
<1>6. CASE ClientOnScope(c)
  <2>1. /\ toCli[c] # << >> /\ Head(toCli[c]).kind = "scope"
        /\ toCli'[c] = Tail(toCli[c]) /\ UNCHANGED <<link, own, wire>>
        /\ cConn'[c] = IF cConn[c] = "pushed" THEN "valid" ELSE cConn[c]
        /\ cHas'[c] = CHasNow(c) /\ cQuery'[c] = CQueryNow(c)
    BY <1>6 DEF ClientOnScope, Arriving, IInv, ClientInv, ToCliInv, FaultInv
  <2>2. ListsOf(c)'  BY <1>0, <1>1, <1>2, <2>1 DEF ListsOf, LiveOf
  <2>3. cConn[c] # "none"
    <3>1. Len(toCli[c]) # 0 /\ Head(toCli[c]) = toCli[c][1]  BY <1>1, <2>1, TailAt
    <3> QED  BY <1>0, <2>1, <3>1 DEF ShapeOf, Shape
  <2>4. Shape(Tail(toCli[c]), TRUE, wire[c], up)
    BY <1>1, <1>a, <2>1, <2>3, ShapeTail
  <2>5. cConn'[c] # "none"  BY <1>1, <2>1, <2>3
  <2> QED  BY <1>b, <2>1, <2>2, <2>4, <2>5
<1>7. CASE ClientOnAssigned(c)
  <2>1. PICK id \in Head(toCli[c]).ids :
           toCli'[c] = Assign(Head(toCli[c]).ids \ {id}) \o Tail(toCli[c])
    BY <1>7 DEF ClientOnAssigned, IInv, ClientInv, ToCliInv, FaultInv
  <2>2. /\ toCli[c] # << >> /\ Head(toCli[c]).kind = "assigned"
        /\ UNCHANGED <<link, own, wire, cConn>>
        /\ cHas'[c] = CHasNow(c) /\ cQuery'[c] = CQueryNow(c)
    BY <1>7 DEF ClientOnAssigned, Arriving, IInv, ClientInv, ToCliInv, FaultInv
  <2>3. ListsOf(c)'  BY <1>0, <1>1, <1>2, <2>2 DEF ListsOf, LiveOf
  <2>4. cConn[c] # "none"
    <3>1. Len(toCli[c]) # 0 /\ Head(toCli[c]) = toCli[c][1]  BY <1>1, <2>2, TailAt
    <3> QED  BY <1>0, <2>2, <3>1 DEF ShapeOf, Shape
  <2>5. Assigned(Head(toCli[c]).ids \ {id}) \in ToClient(c)
    <3>1. Head(toCli[c]) \in ToClient(c)  BY <1>1, <2>2, TailAt
    <3>2. Head(toCli[c]).ids \in SUBSET Ids
      BY <2>2, <3>1 DEF ToClient, Accepted, Scope, Lost, Bye
    <3> QED  BY <3>2 DEF ToClient, Assigned
  <2>6. Shape(toCli'[c], TRUE, wire[c], up)
    <3> DEFINE q == toCli[c]
               left == Head(q).ids \ {id}
    <3>1. /\ q \in Seq(ToClient(c)) /\ q # << >> /\ Shape(q, TRUE, wire[c], up)
          /\ Assigned(left) \in ToClient(c)
      BY <1>1, <1>a, <2>2, <2>4, <2>5
    <3>2. toCli'[c] = Assign(left) \o Tail(q)  BY <2>1
    <3> HIDE DEF q, left
    <3>3. Shape(Assign(left) \o Tail(q), TRUE, wire[c], up)
      BY <1>1, <3>1, ShapeAssigned
    <3> QED  BY <3>2, <3>3
  <2> QED  BY <1>b, <2>2, <2>3, <2>4, <2>6
<1>8. CASE ClientOnConstruction(c)
  <2> DEFINE m == Head(toCli[c])
             hit == {n \in {n \in LiveOf(c) : nid[n] # NoId} : nid[n] \in m.del}
  <2>1. /\ toCli[c] # << >> /\ m.kind = "construction" /\ toCli'[c] = Tail(toCli[c])
        /\ UNCHANGED <<link, cConn, wire>>
    BY <1>8 DEF ClientOnConstruction, Arriving, IInv, ClientInv, ToCliInv, FaultInv
  <2>2. cConn[c] # "none"
    <3>1. Len(toCli[c]) # 0 /\ Head(toCli[c]) = toCli[c][1]  BY <1>1, <2>1, TailAt
    <3> QED  BY <1>0, <2>1, <3>1 DEF ShapeOf, Shape
  <2>3. /\ own' = [n \in Nodes |-> IF n \in hit THEN "dangling" ELSE own[n]]
        /\ cHas'[c] = CHasNow(c) \ hit /\ cQuery'[c] = CQueryNow(c) \ hit
    BY <1>8, <2>2 DEF ClientOnConstruction, IInv, ClientInv, ToCliInv, FaultInv
  <2>4. LiveOf(c) \ hit \subseteq LiveOf(c)'
    <3> HIDE DEF hit
    <3> QED  BY <2>3 DEF LiveOf, NodesOf
  <2>5. ListsOf(c)'
    <3> HIDE DEF hit
    <3> QED  BY <1>0, <1>2, <2>1, <2>2, <2>3, <2>4 DEF ListsOf
  <2>6. ShapeOf(c)'
    <3>1. Shape(Tail(toCli[c]), TRUE, wire[c], up)
      BY <1>1, <1>a, <2>1, <2>2, ShapeTail
    <3> QED  BY <1>b, <2>1, <2>2, <3>1
  <2> QED  BY <2>5, <2>6
<1>9. CASE ClientOnLost(c)
  <2>1. /\ toCli[c] # << >> /\ Head(toCli[c]).kind = "lost" /\ toCli'[c] = Tail(toCli[c])
        /\ link'[c] = "lost" /\ cConn'[c] = "none" /\ cHas'[c] = {} /\ cQuery'[c] = {}
        /\ wire' = wire
    BY <1>9 DEF ClientOnLost, Arriving, IInv, ClientInv, ToCliInv, FaultInv
  <2>2. ~wire[c] /\ Shape(Tail(toCli[c]), FALSE, FALSE, up)
    BY <1>1, <1>a, <2>1, ShapeEnd DEF Ending
  <2> QED  BY <1>1, <1>b, <2>1, <2>2 DEF ListsOf
<1>10. CASE ClientOnBye(c)
  <2>1. /\ toCli[c] # << >> /\ Head(toCli[c]).kind = "bye" /\ toCli'[c] = Tail(toCli[c])
        /\ link'[c] = "closed" /\ cConn'[c] = "none" /\ cHas'[c] = {} /\ cQuery'[c] = {}
        /\ wire'[c] = FALSE
    BY <1>10 DEF ClientOnBye, Arriving, IInv, ClientInv, ToCliInv, FaultInv
  <2>2. Shape(Tail(toCli[c]), FALSE, FALSE, up)
    BY <1>1, <1>a, <2>1, ShapeEnd DEF Ending
  <2> QED  BY <1>1, <1>b, <2>1, <2>2 DEF ListsOf
<1> QED  BY <1>4, <1>5, <1>6, <1>7, <1>8, <1>9, <1>10 DEF ClientReceive

\* ClientReceive keeps ConnInv.
LEMMA ClientReceiveConn ==
    ASSUME IInv, ConnInv, NEW c \in Clients, ClientReceive(c)
    PROVE  ConnInv'
<1>1. ASSUME NEW d \in Clients \ {c}  PROVE ListsOf(d)' /\ ShapeOf(d)'
  <2>1. ListsOf(d) /\ ShapeOf(d)  BY DEF ConnInv
  <2>2. /\ cConn'[d] = cConn[d] /\ link'[d] = link[d] /\ cQuery'[d] = cQuery[d]
        /\ cHas'[d] = cHas[d] /\ toCli'[d] = toCli[d] /\ wire'[d] = wire[d] /\ up' = up
    BY ReceiveElsewhere DEF serverVars
  <2>3. LiveOf(d)' = LiveOf(d)
    <3>1. \A n \in NodesOf(d) : own'[n] = own[n]  BY ReceiveElsewhere DEF NodesOf
    <3> QED  BY <3>1 DEF LiveOf, NodesOf
  <2> QED  BY <2>1, <2>2, <2>3 DEF ListsOf, ShapeOf
<1> QED  BY <1>1, ReceiveConn DEF ConnInv

\* ServerReceive keeps ConnInv.
LEMMA ServerReceiveConn ==
    ASSUME IInv, ConnInv, ServerReceive
    PROVE  ConnInv'
<1>1. /\ UNCHANGED <<clientVars, up, wire, faults>>
      /\ \A d \in Clients : \E p \in Seq(Middle(d)) : toCli'[d] = Send(d, toCli[d], p)
  BY ServerSends
<1> SUFFICES ASSUME NEW d \in Clients  PROVE ListsOf(d)' /\ ShapeOf(d)'
  BY DEF ConnInv
<1>2. ListsOf(d)'  BY <1>1 DEF ConnInv, ListsOf, LiveOf, clientVars
<1>3. PICK p \in Seq(Middle(d)) : toCli'[d] = Send(d, toCli[d], p)  BY <1>1
<1>4. Shape(Send(d, toCli[d], p), cConn[d] # "none", wire[d], up)
  BY ShapeSent DEF ConnInv, ShapeOf
<1> QED  BY <1>1, <1>2, <1>3, <1>4 DEF ShapeOf, clientVars

\* ServerQuit keeps ConnInv.
LEMMA ServerQuitConn ==
    ASSUME IInv, ConnInv, ServerQuit
    PROVE  ConnInv'
<1> SUFFICES ASSUME NEW d \in Clients  PROVE ListsOf(d)' /\ ShapeOf(d)'
  BY DEF ConnInv
<1>1. UNCHANGED <<clientVars, wire>> /\ up /\ ~up' /\ up' \in BOOLEAN  BY DEF ServerQuit
<1>2. ListsOf(d)'  BY <1>1 DEF ConnInv, ListsOf, LiveOf, clientVars
<1> DEFINE o == cConn[d] # "none"
           p == Destruct(srvHas[d]) \o Destruct(srvHas[d])
<1>3. toCli'[d] = Send(d, toCli[d], p \o <<Bye>>)
  <2>1. toCli'[d] = Send(d, toCli[d], Destruct(srvHas[d]) \o Destruct(srvHas[d]) \o <<Bye>>)
    BY DEF ServerQuit
  <2> QED  BY <2>1
<1>4. p \in Seq(Middle(d))  BY MiddleSent DEF IInv, ServerInv
<1>5. /\ toCli[d] \in Seq(ToClient(d)) /\ wire[d] \in BOOLEAN /\ o \in BOOLEAN
      /\ Shape(toCli[d], o, wire[d], TRUE)
  BY <1>1 DEF IInv, ToCliInv, FaultInv, ConnInv, ShapeOf
<1> HIDE DEF p, o
<1>6. Shape(toCli'[d], o, wire[d], FALSE)
  <2>1. CASE wire[d]
    <3>1. Shape(toCli[d] \o (p \o <<Bye>>), o, TRUE, FALSE)  BY <1>4, <1>5, <2>1, ShapeBye
    <3>2. toCli'[d] = toCli[d] \o (p \o <<Bye>>)  BY <1>1, <1>3, <2>1 DEF Send
    <3> QED  BY <1>5, <2>1, <3>1, <3>2
  <2>2. CASE ~wire[d]
    <3>1. toCli'[d] = toCli[d]  BY <1>3, <2>2 DEF Send
    <3> QED  BY <1>5, <3>1, ShapeWeaker
  <2> QED  BY <2>1, <2>2
<1>7. up' = FALSE /\ wire' = wire /\ cConn' = cConn  BY <1>1 DEF clientVars
<1> QED  BY <1>2, <1>6, <1>7 DEF ShapeOf, o

\* Establish keeps ConnInv.
LEMMA EstablishConn ==
    ASSUME IInv, ConnInv, NEW c \in Clients, Establish(c)
    PROVE  ConnInv'
<1> SUFFICES ASSUME NEW d \in Clients  PROVE ListsOf(d)' /\ ShapeOf(d)'
  BY DEF ConnInv
<1>1. ListsOf(d) /\ ShapeOf(d) /\ UNCHANGED <<clientVars, up>>
  BY DEF ConnInv, Establish, serverVars
<1>2. ListsOf(d)'  BY <1>1 DEF ListsOf, LiveOf, clientVars
<1>3. CASE d = c
  <2>1. toCli'[c] = <<Accepted>> /\ cConn'[c] = "none"
    BY <1>1, <1>3 DEF Establish, ListsOf, clientVars, IInv, ToCliInv, ClientInv
  <2>2. Shape(<<Accepted>>, FALSE, TRUE, up)
    <3>1. Len(<<Accepted>>) = 1 /\ <<Accepted>>[1] = Accepted  OBVIOUS
    <3> QED  BY <3>1 DEF Shape, Accepted, Ending
  <2>3. wire'[c] = TRUE  BY DEF Establish, IInv, FaultInv
  <2> QED  BY <1>1, <1>2, <1>3, <2>1, <2>2, <2>3 DEF ShapeOf
<1>4. CASE d # c
  <2>1. toCli'[d] = toCli[d] /\ wire'[d] = wire[d]
    BY <1>4 DEF Establish, IInv, ToCliInv, FaultInv
  <2> QED  BY <1>1, <1>2, <2>1 DEF ShapeOf, clientVars
<1> QED  BY <1>3, <1>4

\* ConnectFails keeps ConnInv.
LEMMA ConnectFailsConn ==
    ASSUME IInv, ConnInv, NEW c \in Clients, ConnectFails(c)
    PROVE  ConnInv'
<1>1. \A d \in Clients : ListsOf(d)'
  BY DEF IInv, ClientInv, ConnInv, ListsOf, LiveOf, ConnectFails
<1>2. \A d \in Clients : ShapeOf(d)'
  BY DEF ConnInv, ShapeOf, ConnectFails, serverVars
<1> QED  BY <1>1, <1>2 DEF ConnInv

\* Break keeps ConnInv.
LEMMA BreakConn ==
    ASSUME IInv, ConnInv, NEW c \in Clients, Break(c)
    PROVE  ConnInv'
<1> SUFFICES ASSUME NEW d \in Clients  PROVE ListsOf(d)' /\ ShapeOf(d)'
  BY DEF ConnInv
<1>1. ListsOf(d) /\ ShapeOf(d) /\ UNCHANGED <<clientVars, up>>
  BY DEF ConnInv, Break, serverVars
<1>2. ListsOf(d)'  BY <1>1 DEF ListsOf, LiveOf, clientVars
<1>3. CASE d = c
  <2>1. PICK i \in Cuts(toCli[c]) : toCli'[c] = CutOff(toCli[c], i)
    BY DEF Break, IInv, ToCliInv
  <2>2. wire[c] = TRUE /\ wire'[c] = FALSE /\ up \in BOOLEAN
    BY DEF Break, IInv, FaultInv, ServerInv
  <2>3. toCli[c] \in Seq(ToClient(c)) /\ Lost \in ToClient(c)
    BY ControlToClient DEF IInv, ToCliInv
  <2>4. Shape(CutOff(toCli[c], i), cConn[c] # "none", FALSE, up)
    BY <1>1, <1>3, <2>2, <2>3, ShapeCut DEF ShapeOf
  <2> QED  BY <1>1, <1>2, <1>3, <2>1, <2>2, <2>4 DEF ShapeOf, clientVars
<1>4. CASE d # c
  <2>1. toCli'[d] = toCli[d] /\ wire'[d] = wire[d]
    BY <1>4 DEF Break, IInv, ToCliInv, FaultInv
  <2> QED  BY <1>1, <1>2, <2>1 DEF ShapeOf, clientVars
<1> QED  BY <1>3, <1>4

\* ServerCrash keeps ConnInv.
LEMMA ServerCrashConn ==
    ASSUME IInv, ConnInv, ServerCrash
    PROVE  ConnInv'
<1> SUFFICES ASSUME NEW d \in Clients  PROVE ListsOf(d)' /\ ShapeOf(d)'
  BY DEF ConnInv
<1>1. ListsOf(d) /\ ShapeOf(d) /\ UNCHANGED <<clientVars, up>>
  BY DEF ConnInv, ServerCrash
<1>2. ListsOf(d)'  BY <1>1 DEF ListsOf, LiveOf, clientVars
<1>3. PICK i \in Cuts(toCli[d]) :
         toCli'[d] = IF wire[d] THEN CutOff(toCli[d], i) ELSE toCli[d]
  BY DEF ServerCrash
<1>4. wire[d] \in BOOLEAN /\ wire'[d] = FALSE /\ up \in BOOLEAN
  BY DEF ServerCrash, IInv, FaultInv, ServerInv
<1>5. toCli[d] \in Seq(ToClient(d)) /\ Lost \in ToClient(d)
  BY ControlToClient DEF IInv, ToCliInv
<1>6. CASE wire[d]
  <2>1. Shape(CutOff(toCli[d], i), cConn[d] # "none", FALSE, up)
    BY <1>1, <1>4, <1>5, <1>6, ShapeCut DEF ShapeOf
  <2> QED  BY <1>1, <1>2, <1>3, <1>4, <1>6, <2>1 DEF ShapeOf, clientVars
<1>7. CASE ~wire[d]
  BY <1>1, <1>2, <1>3, <1>4, <1>7 DEF ShapeOf, clientVars
<1> QED  BY <1>4, <1>6, <1>7

\* ConnInv at the start.
LEMMA InitConn == Init => ConnInv
<1> SUFFICES ASSUME Init  PROVE ConnInv
  OBVIOUS
<1>1. Len(<< >>) = 0  OBVIOUS
<1>2. \A c \in Clients : ListsOf(c)  BY DEF Init, ListsOf
<1>3. \A c \in Clients : ShapeOf(c)  BY <1>1 DEF Init, ShapeOf, Shape
<1> QED  BY <1>2, <1>3 DEF ConnInv

\* ConnInv over every step.
LEMMA NextConn == IInv /\ ConnInv /\ [Next]_vars => ConnInv'
<1> SUFFICES ASSUME IInv, ConnInv, [Next]_vars  PROVE ConnInv'
  OBVIOUS
<1>1. ASSUME NEW n \in Nodes, AddNode(n) \/ RemoveNode(n)
      PROVE  ConnInv'
  BY <1>1, AddNodeConn, RemoveNodeConn
<1>2. ASSUME NEW c \in Clients, StartClient(c) \/ RemoveAllNodes(c) \/ Stop(c)
      PROVE  ConnInv'
  BY <1>2, StartClientConn, RemoveAllNodesConn, StopConn
<1>3. ASSUME NEW c \in Clients, ClientReceive(c)
      PROVE  ConnInv'
  BY <1>3, ClientReceiveConn
<1>4. ASSUME NEW c \in Clients, Establish(c) \/ ConnectFails(c) \/ Break(c)
      PROVE  ConnInv'
  BY <1>4, EstablishConn, ConnectFailsConn, BreakConn
<1>5. CASE ServerReceive  BY <1>5, ServerReceiveConn
<1>6. CASE ServerQuit  BY <1>6, ServerQuitConn
<1>7. CASE ServerCrash  BY <1>7, ServerCrashConn
<1>8. CASE UNCHANGED vars
  BY <1>8 DEF vars, ConnInv, ListsOf, ShapeOf, LiveOf
<1> QED  BY <1>1, <1>2, <1>3, <1>4, <1>5, <1>6, <1>7, <1>8 DEF Next

---------------------------------------------------------------------------
(* What a Receive of a client sends, and what it leaves of its lists.      *)

\* A client, handling a packet, sends what is waiting and gives up its own nodes
\* only at an end.
LEMMA ReceiveSends ==
    ASSUME IInv, ConnInv, NEW c \in Clients, ClientReceive(c)
    PROVE  /\ wire'[c] = wire[c] \/ (wire'[c] = FALSE /\ ~(wire[c] /\ up))
           /\ \A n \in Nodes : own'[n] = "none" <=> own[n] = "none"
           /\ \/ /\ toSrv'[c] = Send(c, toSrv[c], CPacket(c))
                 /\ cQuery'[c] \subseteq CQueryNow(c)
                 /\ cConn'[c] = cConn[c] \/ ~(wire[c] /\ up) \/ CFlush(c) = {}
                 /\ cConn'[c] = "none" => (cConn[c] = "none" \/ ~(wire[c] /\ up))
              \/ /\ toSrv'[c] = Send(c, toSrv[c], <<Scope>>)
                 /\ CFlush(c) = {} /\ cConn'[c] # "none"
                 /\ cConn[c] = "none" \/ cQuery'[c] \subseteq cQuery[c]
<1>1. /\ cConn[c] \in {"none", "pushed", "valid"} /\ wire[c] \in BOOLEAN /\ up \in BOOLEAN
      /\ toCli[c] \in Seq(ToClient(c)) /\ toSrv[c] \in Seq(FromClient(c))
  BY DEF IInv, ClientInv, ServerInv, FaultInv, ToCliInv, ToSrvInv
<1>2. ListsOf(c) /\ ShapeOf(c)  BY DEF ConnInv
<1>3. CPacket(c) \in Seq(FromClient(c))  BY CPacketTyped DEF IInv
<1>4. CPacket(c) \o << >> = CPacket(c)  BY <1>3, ConcatEmptySeq
<1>5. cConn[c] # "valid" => CFlush(c) = {} /\ CPacket(c) = << >>
  <2>1. ASSUME CFlush(c) = {}  PROVE CPacket(c) = << >>
    <3>1. {<<n, nid[n]>> : n \in CFlush(c)} = {}  BY <2>1
    <3> QED  BY <3>1 DEF CPacket, Construct
  <2> QED  BY <2>1 DEF CFlush
<1>6. CASE ClientUpdate(c)
  <2>1. /\ toSrv'[c] = Send(c, toSrv[c], CPacket(c)) /\ cQuery'[c] = CQueryNow(c)
        /\ UNCHANGED <<cConn, wire, own>>
    BY <1>6 DEF ClientUpdate, IInv, ClientInv, ToSrvInv
  <2> QED  BY <2>1
<1>7. CASE ClientOnAccepted(c)
  <2>1. wire' = wire /\ own' = own  BY <1>7 DEF ClientOnAccepted
  <2>2. CASE cConn[c] = "none"
    <3>1. toSrv'[c] = Send(c, toSrv[c], <<Scope>>) /\ cConn'[c] = "pushed"
      BY <1>7, <2>2 DEF ClientOnAccepted, IInv, ClientInv, ToSrvInv
    <3> QED  BY <1>5, <2>1, <2>2, <3>1
  <2>3. CASE cConn[c] # "none"
    <3>1. /\ toSrv'[c] = Send(c, toSrv[c], CPacket(c)) /\ cConn' = cConn
          /\ cQuery'[c] = CQueryNow(c)
      BY <1>7, <2>3 DEF ClientOnAccepted, IInv, ClientInv, ToSrvInv
    <3> QED  BY <2>1, <3>1
  <2> QED  BY <2>2, <2>3
<1>8. CASE ClientOnScope(c)
  <2>1. /\ wire' = wire /\ own' = own /\ cQuery'[c] = CQueryNow(c)
        /\ cConn'[c] = IF cConn[c] = "pushed" THEN "valid" ELSE cConn[c]
        /\ toSrv'[c] = Send(c, toSrv[c], CPacket(c) \o
                               IF cConn[c] = "pushed" THEN <<Scope>> ELSE << >>)
    BY <1>8 DEF ClientOnScope, IInv, ClientInv, ToSrvInv
  <2>2. CASE cConn[c] = "pushed"
    <3>1. CPacket(c) \o <<Scope>> = <<Scope>>
      <4>1. <<Scope>> \in Seq(FromClient(c))  BY ControlFromClient
      <4>2. << >> \o <<Scope>> = <<Scope>>  BY <4>1, ConcatEmptySeq
      <4> QED  BY <1>5, <2>2, <4>2
    <3> QED  BY <1>5, <2>1, <2>2, <3>1 DEF CQueryNow
  <2>3. CASE cConn[c] # "pushed"
    BY <1>4, <2>1, <2>3
  <2> QED  BY <2>2, <2>3
<1>9. CASE ClientOnAssigned(c)
  <2>1. /\ toSrv'[c] = Send(c, toSrv[c], CPacket(c)) /\ cQuery'[c] = CQueryNow(c)
        /\ UNCHANGED <<cConn, wire, own>>
    BY <1>9 DEF ClientOnAssigned, IInv, ClientInv, ToSrvInv
  <2> QED  BY <2>1
<1>10. CASE ClientOnConstruction(c)
  <2>1. toSrv'[c] = Send(c, toSrv[c], CPacket(c)) /\ UNCHANGED <<cConn, wire>>
    BY <1>10 DEF ClientOnConstruction, IInv, ClientInv, ToSrvInv
  <2>2. cQuery'[c] \subseteq CQueryNow(c)
    <3>1. CASE cConn[c] = "none"
      <4>1. cQuery' = cQuery  BY <1>10, <3>1 DEF ClientOnConstruction
      <4> QED  BY <1>2, <3>1, <4>1 DEF ListsOf
    <3>2. CASE cConn[c] # "none"
      BY <1>10, <3>2 DEF ClientOnConstruction, IInv, ClientInv
    <3> QED  BY <3>1, <3>2
  <2>3. \A n \in Nodes : own'[n] = "none" <=> own[n] = "none"
    <3>1. CASE cConn[c] = "none"  BY <1>10, <3>1 DEF ClientOnConstruction
    <3>2. CASE cConn[c] # "none"
      BY <1>10, <3>2 DEF ClientOnConstruction, LiveOf, IInv, ClientInv
    <3> QED  BY <3>1, <3>2
  <2> QED  BY <2>1, <2>2, <2>3
<1>11. CASE ClientOnLost(c)
  <2>1. /\ toSrv'[c] = Send(c, toSrv[c], CPacket(c)) /\ cQuery'[c] = {} /\ cConn'[c] = "none"
        /\ UNCHANGED <<wire, own>> /\ toCli[c] # << >> /\ Head(toCli[c]).kind = "lost"
    BY <1>11 DEF ClientOnLost, Arriving, IInv, ClientInv, ToSrvInv
  <2>2. ~wire[c]
    <3>1. 1 \in 1..Len(toCli[c]) /\ Head(toCli[c]) = toCli[c][1]  BY <1>1, <2>1, TailAt
    <3> QED  BY <1>2, <2>1, <3>1 DEF ShapeOf, Shape
  <2> QED  BY <2>1, <2>2
<1>12. CASE ClientOnBye(c)
  <2>1. /\ toSrv'[c] = Send(c, toSrv[c], CPacket(c)) /\ cQuery'[c] = {} /\ cConn'[c] = "none"
        /\ wire'[c] = FALSE /\ toCli[c] # << >> /\ Head(toCli[c]).kind = "bye"
        /\ \A n \in Nodes : own'[n] = "none" <=> own[n] = "none"
    BY <1>12 DEF ClientOnBye, Arriving, IInv, ClientInv, ToSrvInv, FaultInv
  <2>2. ~(wire[c] /\ up)
    <3>1. 1 \in 1..Len(toCli[c]) /\ Head(toCli[c]) = toCli[c][1]  BY <1>1, <2>1, TailAt
    <3>2. Ending(toCli[c][1])  BY <2>1, <3>1 DEF Ending
    <3> HIDE DEF Ending
    <3> QED  BY <1>2, <3>1, <3>2 DEF ShapeOf, Shape
  <2> QED  BY <2>1, <2>2
<1> QED  BY <1>6, <1>7, <1>8, <1>9, <1>10, <1>11, <1>12 DEF ClientReceive

---------------------------------------------------------------------------
(* What the packets of the clients mean.                                   *)

\* A client constructs a node once in a packet, under the id it has, and asks
\* only for nodes of its own that are gone to be destroyed.
Meant(c) ==
    {m \in FromClient(c) : m.kind = "construction" =>
        /\ m.new = {} \/ m.del = {}
        /\ \A e, f \in m.new : e[1] = f[1] => e = f
        /\ \A id \in m.del \ {NoId} : OwnerOf(id) = c /\ own[id.node] = "gone"}
PacketInv == \A c \in Clients : toSrv[c] \in Seq(Meant(c))

\* A node that is gone stays gone.
LEMMA GoneStays ==
    ASSUME IInv, [Next]_vars, NEW n \in Nodes, own[n] = "gone"
    PROVE  own'[n] = "gone"
<1> USE DEF IInv, ClientInv
<1>1. ASSUME NEW k \in Nodes, AddNode(k) \/ RemoveNode(k)
      PROVE  own'[n] = "gone"
  BY <1>1 DEF AddNode, RemoveNode, DestroyOwn
<1>2. ASSUME NEW c \in Clients, StartClient(c) \/ RemoveAllNodes(c) \/ Stop(c)
      PROVE  own'[n] = "gone"
  BY <1>2 DEF StartClient, RemoveAllNodes, DestroyOwn, Stop
<1>3. ASSUME NEW c \in Clients, ClientReceive(c)
      PROVE  own'[n] = "gone"
  <2>1. CASE ClientOnConstruction(c)
    BY <2>1 DEF ClientOnConstruction, LiveOf
  <2>2. CASE ClientOnBye(c)  BY <2>2 DEF ClientOnBye
  <2> QED  BY <1>3, <2>1, <2>2 DEF ClientReceive, ClientUpdate, ClientOnAccepted,
              ClientOnScope, ClientOnAssigned, ClientOnLost
<1>4. ASSUME NEW c \in Clients, Establish(c) \/ ConnectFails(c) \/ Break(c)
      PROVE  own'[n] = "gone"
  BY <1>4 DEF Establish, ConnectFails, Break, clientVars
<1>5. CASE ServerReceive
  <2>1. UNCHANGED clientVars  BY <1>5, ServerSends
  <2> QED  BY <2>1 DEF clientVars
<1>6. CASE ServerQuit \/ ServerCrash \/ UNCHANGED vars
  BY <1>6 DEF ServerQuit, ServerCrash, vars, clientVars
<1> QED  BY <1>1, <1>2, <1>3, <1>4, <1>5, <1>6 DEF Next

\* What a client may say of its nodes stays so.
LEMMA MeantGrows ==
    ASSUME IInv, [Next]_vars, NEW c \in Clients
    PROVE  Meant(c) \subseteq Meant(c)'
<1> SUFFICES ASSUME NEW m \in Meant(c)  PROVE m \in Meant(c)'
  OBVIOUS
<1>1. \A n \in Nodes : own[n] = "gone" => own'[n] = "gone"  BY GoneStays
<1>2. m \in FromClient(c)  BY DEF Meant
<1>3. m.kind = "construction" => m.del \subseteq Ids \cup {NoId}
  BY <1>2 DEF FromClient, Incoming, Scope, Lost, Bye
<1>4. ASSUME m.kind = "construction", NEW id \in m.del \ {NoId}
      PROVE  OwnerOf(id) = c /\ own'[id.node] = "gone"
  <2>1. id.node \in Nodes  BY <1>3, <1>4 DEF Ids
  <2>2. OwnerOf(id) = c /\ own[id.node] = "gone"  BY <1>4 DEF Meant
  <2> QED  BY <1>1, <2>1, <2>2
<1> QED  BY <1>2, <1>4 DEF Meant

\* Control packets and ends speak of no node.
LEMMA MeantControl ==
    \A c \in Clients : {Incoming, Scope, Lost, Bye} \subseteq Meant(c)
BY DEF Meant, FromClient, Incoming, Scope, Lost, Bye

\* What an update sends constructs nodes that are there.
LEMMA MeantConstruct ==
    ASSUME IInv, NEW c \in Clients
    PROVE  CPacket(c) \in Seq(Meant(c))
<1> DEFINE new == {<<n, nid[n]>> : n \in CFlush(c)}
<1>1. CPacket(c) \in Seq(FromClient(c)) /\ CPacket(c) = Construct(new)
  BY CPacketTyped DEF IInv, CPacket
<1>2. \A e, f \in new : e[1] = f[1] => e = f  OBVIOUS
<1> HIDE DEF new
<1>3. CASE new = {}
  <2>1. CPacket(c) = << >>  BY <1>1, <1>3 DEF Construct
  <2> QED  BY <2>1, EmptySeq
<1>4. CASE new # {}
  <2>1. CPacket(c) = <<Construction(new, {})>>  BY <1>1, <1>4 DEF Construct
  <2>2. Construction(new, {}) \in FromClient(c)
    <3>1. Len(<<Construction(new, {})>>) = 1  OBVIOUS
    <3> QED  BY <1>1, <2>1, <3>1, ElementOfSeq
  <2>3. Construction(new, {}) \in Meant(c)
    BY <1>2, <2>2 DEF Meant, Construction
  <2> QED  BY <2>1, <2>3
<1> QED  BY <1>3, <1>4

\* No step leaves a packet to the server that says otherwise.
LEMMA PacketStep ==
    ASSUME IInv, ConnInv, PacketInv, [Next]_vars, NEW c \in Clients
    PROVE  toSrv'[c] \in Seq(Meant(c)')
<1>0. Meant(c) \subseteq Meant(c)'  BY MeantGrows
<1>1. toSrv[c] \in Seq(Meant(c)) /\ toSrv[c] \in Seq(Meant(c)')
  BY <1>0, SeqMonotonic DEF PacketInv
<1>2. {Incoming, Scope, Lost, Bye} \subseteq Meant(c)'
  BY <1>0, MeantControl
<1>3. CASE toSrv'[c] = toSrv[c]  BY <1>1, <1>3
<1>4. ASSUME NEW p \in Seq(Meant(c)'), toSrv'[c] = Send(c, toSrv[c], p)
      PROVE  toSrv'[c] \in Seq(Meant(c)')
  BY <1>1, <1>4, SendKeeps
<1>5. ASSUME NEW q \in KeptToSrv(toSrv[c]), NEW m \in {Lost, Bye},
             toSrv'[c] = Append(q, m)
      PROVE  toSrv'[c] \in Seq(Meant(c)')
  <2>1. q \in Seq(Meant(c)')  BY <1>1, KeptKeeps
  <2> QED  BY <1>2, <1>5, <2>1, AppendProperties
<1>6. ASSUME toSrv'[c] = << >>  PROVE toSrv'[c] \in Seq(Meant(c)')
  BY <1>6, EmptySeq
<1>7. ASSUME NEW S \in SUBSET NodesOf(c), DestroyOwn(c, S)
      PROVE  toSrv'[c] \in Seq(Meant(c)')
  <2> DEFINE del == {nid[n] : n \in S \cap cHas[c]}
  <2>1. toSrv'[c] = Send(c, toSrv[c], Destruct(del))
    BY <1>7 DEF DestroyOwn, IInv, ToSrvInv
  <2>2. del \subseteq Ids \cup {NoId}  BY DEF IInv, ClientInv, NodesOf
  <2>3. \A id \in del \ {NoId} : OwnerOf(id) = c /\ own'[id.node] = "gone"
    <3> SUFFICES ASSUME NEW n \in S, nid[n] # NoId
                 PROVE  OwnerOf(nid[n]) = c /\ own'[nid[n].node] = "gone"
      OBVIOUS
    <3>1. n \in Nodes /\ Owner[n] = c  BY DEF NodesOf
    <3>2. nid[n].node = n  BY <3>1 DEF IInv, ClientInv
    <3>3. own'[n] = "gone"  BY <1>7, <3>1 DEF DestroyOwn
    <3> QED  BY <3>1, <3>2, <3>3 DEF OwnerOf
  <2> HIDE DEF del
  <2>4. Construction({}, del) \in Meant(c)'
    BY <2>2, <2>3 DEF Meant, FromClient, Construction
  <2>5. Destruct(del) \in Seq(Meant(c)')  BY <2>4, EmptySeq DEF Destruct
  <2> QED  BY <1>4, <2>1, <2>5
<1>8. ASSUME NEW n \in Nodes, AddNode(n) \/ RemoveNode(n)
      PROVE  toSrv'[c] \in Seq(Meant(c)')
  <2>1. CASE AddNode(n)  BY <1>3, <2>1 DEF AddNode
  <2>2. CASE RemoveNode(n) /\ Owner[n] = c
    <3>1. {n} \in SUBSET NodesOf(c)  BY <2>2 DEF NodesOf
    <3> QED  BY <1>7, <2>2, <3>1 DEF RemoveNode
  <2>3. CASE RemoveNode(n) /\ Owner[n] # c
    <3>1. toSrv'[c] = toSrv[c]  BY <2>3 DEF RemoveNode, DestroyOwn, IInv, ToSrvInv
    <3> QED  BY <1>3, <3>1
  <2> QED  BY <1>8, <2>1, <2>2, <2>3
<1>9. ASSUME NEW d \in Clients, StartClient(d) \/ RemoveAllNodes(d) \/ Stop(d)
      PROVE  toSrv'[c] \in Seq(Meant(c)')
  <2>1. CASE StartClient(d)  BY <1>3, <2>1 DEF StartClient
  <2>2. CASE RemoveAllNodes(d) /\ d = c
    <3> DEFINE S == {n \in NodesOf(c) : own[n] \in {"live", "dangling"}}
    <3>1. DestroyOwn(c, S)  BY <2>2 DEF RemoveAllNodes
    <3>2. S \in SUBSET NodesOf(c)  OBVIOUS
    <3> HIDE DEF S
    <3> QED  BY <1>7, <3>1, <3>2
  <2>3. CASE RemoveAllNodes(d) /\ d # c
    <3>1. toSrv'[c] = toSrv[c]  BY <2>3 DEF RemoveAllNodes, DestroyOwn, IInv, ToSrvInv
    <3> QED  BY <1>3, <3>1
  <2>4. CASE Stop(d)
    <3>1. CASE d = c /\ wire[c] /\ up
      <4>1. PICK q \in KeptToSrv(toSrv[c]) : toSrv' = [toSrv EXCEPT ![c] = Append(q, Bye)]
        BY <2>4, <3>1 DEF Stop
      <4> QED  BY <1>5, <4>1 DEF IInv, ToSrvInv
    <3>2. CASE ~(d = c /\ wire[c] /\ up)
      <4>1. toSrv'[c] = toSrv[c]  BY <2>4, <3>2 DEF Stop, IInv, ToSrvInv
      <4> QED  BY <1>3, <4>1
    <3> QED  BY <3>1, <3>2
  <2> QED  BY <1>9, <2>1, <2>2, <2>3, <2>4
<1>10. ASSUME NEW d \in Clients, ClientReceive(d)
       PROVE  toSrv'[c] \in Seq(Meant(c)')
  <2>1. CASE d = c
    <3>1. CPacket(c) \in Seq(Meant(c)')  BY <1>0, MeantConstruct, SeqMonotonic
    <3>2. <<Scope>> \in Seq(Meant(c)')  BY <1>2
    <3>3. \/ toSrv'[c] = Send(c, toSrv[c], CPacket(c))
          \/ toSrv'[c] = Send(c, toSrv[c], <<Scope>>)
      BY <1>10, <2>1, ReceiveSends
    <3> QED  BY <1>4, <3>1, <3>2, <3>3
  <2>2. CASE d # c
    <3>1. toSrv'[c] = toSrv[c]  BY <1>10, <2>2, ReceiveElsewhere
    <3> QED  BY <1>3, <3>1
  <2> QED  BY <2>1, <2>2
<1>11. ASSUME NEW d \in Clients, Establish(d) \/ ConnectFails(d) \/ Break(d)
       PROVE  toSrv'[c] \in Seq(Meant(c)')
  <2>1. CASE Establish(d)
    <3>1. toSrv'[c] = toSrv[c] \/ toSrv'[c] = Append(toSrv[c], Incoming)
      BY <2>1 DEF Establish, IInv, ToSrvInv
    <3>2. Append(toSrv[c], Incoming) \in Seq(Meant(c)')
      BY <1>1, <1>2, AppendProperties
    <3> QED  BY <1>3, <3>1, <3>2
  <2>2. CASE ConnectFails(d)  BY <1>3, <2>2 DEF ConnectFails
  <2>3. CASE Break(d)
    <3>1. CASE d = c /\ up
      <4>1. PICK q \in KeptToSrv(toSrv[c]) : toSrv' = [toSrv EXCEPT ![c] = Append(q, Lost)]
        BY <2>3, <3>1 DEF Break
      <4> QED  BY <1>5, <4>1 DEF IInv, ToSrvInv
    <3>2. CASE ~(d = c /\ up)
      <4>1. toSrv'[c] = toSrv[c]  BY <2>3, <3>2 DEF Break, IInv, ToSrvInv
      <4> QED  BY <1>3, <4>1
    <3> QED  BY <3>1, <3>2
  <2> QED  BY <1>11, <2>1, <2>2, <2>3
<1>12. ASSUME NEW d \in Clients, NEW i, NEW kind, Reaching(d, i, kind), Take(d, i)
       PROVE  toSrv'[c] \in Seq(Meant(c)')
  <2>1. CASE d = c
    <3>1. i \in 1..Len(toSrv[c])  BY <1>1, <1>12, <2>1, LenProperties DEF Reaching
    <3>2. Without(toSrv[c], i) \in Seq(Meant(c)')  BY <1>1, <3>1, WithoutKeeps
    <3> QED  BY <1>12, <2>1, <3>2 DEF Take, IInv, ToSrvInv
  <2>2. CASE d # c
    <3>1. toSrv'[c] = toSrv[c]  BY <1>12, <2>2 DEF Take, IInv, ToSrvInv
    <3> QED  BY <1>3, <3>1
  <2> QED  BY <2>1, <2>2
<1>13. CASE ServerReceive
  <2>1. CASE ServerUpdate  BY <1>3, <2>1 DEF ServerUpdate
  <2>2. ASSUME NEW d \in Clients, NEW i, ServerOnIncoming(d, i)
        PROVE  toSrv'[c] \in Seq(Meant(c)')
    BY <1>12, <2>2 DEF ServerOnIncoming
  <2>3. ASSUME NEW d \in Clients, NEW i, ServerOnScope(d, i)
        PROVE  toSrv'[c] \in Seq(Meant(c)')
    BY <1>12, <2>3 DEF ServerOnScope
  <2>4. ASSUME NEW d \in Clients, NEW i, ServerOnConstruction(d, i)
        PROVE  toSrv'[c] \in Seq(Meant(c)')
    BY <1>12, <2>4 DEF ServerOnConstruction
  <2>5. ASSUME NEW d \in Clients, NEW i, ServerOnClosed(d, i)
        PROVE  toSrv'[c] \in Seq(Meant(c)')
    BY <1>12, <2>5 DEF ServerOnClosed
  <2> QED  BY <1>13, <2>1, <2>2, <2>3, <2>4, <2>5 DEF ServerReceive
<1>14. CASE ServerQuit \/ ServerCrash  BY <1>6, <1>14 DEF ServerQuit, ServerCrash
<1>15. CASE UNCHANGED vars  BY <1>3, <1>15 DEF vars
<1> QED  BY <1>8, <1>9, <1>10, <1>11, <1>13, <1>14, <1>15 DEF Next

\* PacketInv at the start.
LEMMA InitPackets == Init => PacketInv
<1>1. \A S : << >> \in Seq(S)  BY EmptySeq
<1> QED  BY <1>1 DEF Init, PacketInv

\* PacketInv over every step.
LEMMA NextPackets == IInv /\ ConnInv /\ PacketInv /\ [Next]_vars => PacketInv'
<1> SUFFICES ASSUME IInv, ConnInv, PacketInv, [Next]_vars, NEW c \in Clients
             PROVE  toSrv'[c] \in Seq(Meant(c)')
  BY DEF PacketInv
<1> QED  BY PacketStep

\* What the invariants above establish together.
Sane == IInv /\ ConnInv /\ PacketInv

\* The three first layers at the start.
LEMMA InitSane == Init => Sane
BY InitIInv, InitConn, InitPackets DEF Sane

\* The three first layers over every step.
LEMMA NextSane == Sane /\ [Next]_vars => Sane'
BY NextIInv, NextConn, NextPackets DEF Sane

\* The three first layers always hold.
LEMMA AlwaysSane == Spec => []Sane
BY InitSane, NextSane, PTL DEF Spec

\* The server handles a packet of a client: it is one the client means, and
\* no end of a connection is before it unless it comes first.
LEMMA Handles ==
    ASSUME Sane, NEW c \in Clients, NEW i, NEW kind, Reaching(c, i, kind)
    PROVE  /\ i \in 1..Len(toSrv[c]) /\ Len(toSrv[c]) \in Nat
           /\ toSrv[c] \in Seq(Meant(c))
           /\ toSrv[c][i] \in Meant(c) /\ toSrv[c][i] \in FromClient(c)
           /\ toSrv[c][i].kind = kind
           /\ kind \notin {"construction", "scope"} => i = 1
           /\ \A k \in 1..(i - 1) : toSrv[c][k].kind \in {"construction", "scope", "incoming"}
           /\ \A k \in 1..(i - 1) : ~Ending(toSrv[c][k])
<1>1. toSrv[c] \in Seq(Meant(c))  BY DEF Sane, PacketInv
<1>2. i \in 1..Len(toSrv[c]) /\ Len(toSrv[c]) \in Nat
  BY <1>1, LenProperties DEF Reaching
<1>3. toSrv[c][i] \in Meant(c)  BY <1>1, <1>2, ElementOfSeq
<1>4. toSrv[c][i].kind = kind /\ CanTake(toSrv[c], i)  BY DEF Reaching
<1>5. kind \notin {"construction", "scope"} => i = 1
  BY <1>4 DEF CanTake, IsData
<1>6. \A k \in 1..(i - 1) : toSrv[c][k].kind \in {"construction", "scope", "incoming"}
  BY <1>2, <1>4 DEF CanTake, IsData
<1>7. \A k \in 1..(i - 1) : ~Ending(toSrv[c][k])
  BY <1>6 DEF Ending
<1> QED  BY <1>1, <1>2, <1>3, <1>4, <1>5, <1>6, <1>7 DEF Meant

\* What a step takes from the server.
LEMMA Drops ==
    ASSUME Sane, [Next]_vars, NEW id \in srv, id \notin srv'
    PROVE  own[id.node] = "gone" \/ srvConn'[OwnerOf(id)] = "none"
<1>0. id \in Ids /\ IInv /\ id.node \in Nodes /\ OwnerOf(id) \in Clients
  <2>1. IInv /\ srv \subseteq Ids  BY DEF Sane, IInv, ServerInv
  <2>2. id \in Ids /\ id.node \in Nodes  BY <2>1 DEF Ids
  <2> QED  BY <2>1, <2>2, OwnerAssumption DEF OwnerOf
<1>1. ASSUME srv' = srv  PROVE FALSE
  BY <1>1
<1>2. ASSUME NEW c \in Clients, NEW i, ServerOnConstruction(c, i)
      PROVE  own[id.node] = "gone"
  <2>1. srvConn[c] # "none"  BY <1>2 DEF ServerOnConstruction
  <2> DEFINE m == toSrv[c][i]
  <2>2. m \in Meant(c) /\ m.kind = "construction"
    <3>1. Reaching(c, i, "construction")  BY <1>2 DEF ServerOnConstruction
    <3> QED  BY <3>1, Handles
  <2>3. srv' = (srv \cup Created(m)) \ Doomed(m)  BY <1>2, <2>1, ConstructionIs
  <2> HIDE DEF m
  <2>4. id \in m.del  BY <2>3 DEF Doomed
  <2>5. id # NoId  BY <1>0 DEF Ids, NoId
  <2> QED  BY <2>2, <2>4, <2>5 DEF Meant
<1>3. ASSUME NEW c \in Clients, NEW i, ServerOnClosed(c, i)
      PROVE  srvConn'[OwnerOf(id)] = "none"
  <2>1. OwnerOf(id) = c
    BY <1>3 DEF ServerOnClosed, Dereference, CreatedBy
  <2> QED  BY <1>0, <1>3, <2>1 DEF ServerOnClosed, IInv, ServerInv
<1>4. CASE ServerReceive
  BY <1>1, <1>2, <1>3, <1>4
     DEF ServerReceive, ServerUpdate, ServerOnIncoming, ServerOnScope
<1>5. CASE ServerQuit \/ ServerCrash
  BY <1>0, <1>5 DEF ServerQuit, ServerCrash
<1>6. ASSUME NEW n \in Nodes, AddNode(n) \/ RemoveNode(n)  PROVE FALSE
  BY <1>1, <1>6 DEF AddNode, RemoveNode, serverVars
<1>7. ASSUME NEW c \in Clients, StartClient(c) \/ RemoveAllNodes(c) \/ Stop(c)  PROVE FALSE
  BY <1>1, <1>7 DEF StartClient, RemoveAllNodes, Stop, serverVars
<1>8. ASSUME NEW c \in Clients, ClientReceive(c)  PROVE FALSE
  <2>1. UNCHANGED serverVars  BY <1>8, ReceiveElsewhere DEF Sane
  <2> QED  BY <1>1, <2>1 DEF serverVars
<1>9. ASSUME NEW c \in Clients, Establish(c) \/ ConnectFails(c) \/ Break(c)  PROVE FALSE
  BY <1>1, <1>9 DEF Establish, ConnectFails, Break, serverVars
<1>10. CASE UNCHANGED vars  BY <1>1, <1>10 DEF vars
<1> QED  BY <1>4, <1>5, <1>6, <1>7, <1>8, <1>9, <1>10 DEF Next

\* A replica leaves the server only because its owner removed the node, the
\* owner's connection ended, or the server itself did: a destruction in flight
\* names nodes its sender has removed, for good, and no others.
THEOREM DropsForCause == Spec => ServerDropsForCause
<1> DEFINE Cause == \A id \in srv \ srv' :
                       \/ own[id.node] # "live"
                       \/ srvConn'[OwnerOf(id)] = "none"
<1>1. Sane /\ [Next]_vars => [Cause]_vars  BY Drops
<1> QED  BY <1>1, AlwaysSane, PTL DEF Spec, ServerDropsForCause

---------------------------------------------------------------------------
(* One replica of a node.                                                  *)

\* What the server has heard of a client on the connection it has to it: the
\* nodes it keeps for it, and that the connection began.
Heard(c) ==
    {<<id.node>> : id \in CreatedBy(c)} \cup (IF srvConn[c] # "none" THEN {<< >>} ELSE {})

\* What a client has yet to say on the connection at hand, or on the next.
Topics(c) == {<<n>> : n \in NodesOf(c)} \cup {<< >>}
Unsaid(c) ==
    IF ~wire[c] THEN Topics(c)
    ELSE {<<n>> : n \in {n \in NodesOf(c) : \/ cConn[c] = "none" \/ n \in cQuery[c]
                                            \/ own[n] = "none"}}

\* A client says what it has to say once a connection; what a new connection
\* brings is only heard once the server has let go of all the former one left.
OnceOf(c) == OnceIn(toSrv[c], Heard(c), Unsaid(c), up)
OnceInv == OneReplicaPerNode /\ \A c \in Clients : OnceOf(c)

\* What is unsaid is about the client's own nodes.
LEMMA UnsaidIsTopics ==
    ASSUME NEW c \in Clients
    PROVE  Unsaid(c) \subseteq Topics(c) /\ (~wire[c] => Unsaid(c) = Topics(c))
BY DEF Unsaid, Topics

\* The client's own nodes are the same after every step.
LEMMA UnsaidIsTopicsNext ==
    ASSUME NEW c \in Clients
    PROVE  Unsaid(c)' \subseteq Topics(c)
BY DEF Unsaid, Topics

\* A step that neither sends nor takes anything of a client.
LEMMA OnceSame ==
    ASSUME IInv, NEW c \in Clients, OnceOf(c), toSrv'[c] = toSrv[c],
           Heard(c)' \subseteq Heard(c), up' \in BOOLEAN, up' => up,
           up' => (~wire[c] \/ Unsaid(c)' \subseteq Unsaid(c))
    PROVE  OnceOf(c)'
<1>1. up' => Unsaid(c)' \subseteq Unsaid(c)
  BY UnsaidIsTopics, UnsaidIsTopicsNext
<1>2. up \in BOOLEAN  BY DEF IInv, ServerInv
<1> QED  BY <1>1, <1>2, OnceWeaker DEF OnceOf

\* A step of a client that sends what was unsaid.
LEMMA OnceSends ==
    ASSUME IInv, NEW c \in Clients, OnceOf(c),
           NEW m, NEW p \in {<< >>, <<m>>}, m \in FromClient(c),
           toSrv'[c] = Send(c, toSrv[c], p), Says(m) \subseteq Unsaid(c),
           Heard(c)' \subseteq Heard(c), up' = up,
           wire[c] /\ up => /\ p = <<m>> => Unsaid(c)' \subseteq Unsaid(c) \ Says(m)
                            /\ p = << >> => Unsaid(c)' \subseteq Unsaid(c)
    PROVE  OnceOf(c)'
<1>1. /\ up \in BOOLEAN /\ toSrv[c] \in Seq(FromClient(c)) /\ wire[c] \in BOOLEAN
  BY DEF IInv, ServerInv, FaultInv, ToSrvInv
<1>2. CASE ~(wire[c] /\ up)
  <2>1. toSrv'[c] = toSrv[c]  BY <1>2 DEF Send
  <2> QED  BY <1>1, <1>2, <2>1, OnceSame
<1>3. CASE (wire[c] /\ up) /\ p = << >>
  <2>1. toSrv'[c] = toSrv[c]
    <3>1. toSrv[c] \o << >> = toSrv[c]  BY <1>1, ConcatEmptySeq
    <3> QED  BY <1>3, <3>1 DEF Send
  <2> QED  BY <1>1, <1>3, <2>1, OnceSame
<1>4. CASE (wire[c] /\ up) /\ p = <<m>>
  <2> DEFINE q == toSrv[c]
             h == Heard(c)
             u == Unsaid(c)
  <2>1. toSrv'[c] = Append(q, m)
    <3>1. toSrv'[c] = q \o <<m>>  BY <1>4 DEF Send
    <3> QED  BY <1>1, <3>1, AppendIsConcat
  <2>2. OnceIn(q, h, u, TRUE)
    <3>1. up = TRUE  BY <1>1, <1>4
    <3> QED  BY <3>1 DEF OnceOf
  <2>3. q \in Seq(FromClient(c)) /\ Says(m) \subseteq u  BY <1>1
  <2>4. Heard(c)' \subseteq h /\ Unsaid(c)' \subseteq u \ Says(m)  BY <1>4
  <2>5. up' = TRUE  BY <1>1, <1>4
  <2> HIDE DEF q, h, u
  <2>6. OnceIn(Append(q, m), h, u \ Says(m), TRUE)  BY <2>2, <2>3, OnceAppend
  <2>7. OnceIn(Append(q, m), Heard(c)', Unsaid(c)', TRUE)
    BY <2>4, <2>6, OnceWeaker
  <2> QED  BY <2>1, <2>5, <2>7 DEF OnceOf
<1> QED  BY <1>3, <1>2, <1>4

\* What the server has heard changes only with what the server keeps.
LEMMA HeardSame ==
    ASSUME NEW c \in Clients, UNCHANGED serverVars
    PROVE  Heard(c)' = Heard(c) /\ up' = up /\ (OneReplicaPerNode => OneReplicaPerNode')
BY DEF Heard, CreatedBy, serverVars, OwnerOf, OneReplicaPerNode

\* A client, handling a packet, says nothing of a node twice.
LEMMA ReceiveOnce ==
    ASSUME Sane, NEW c \in Clients, OnceOf(c), ClientReceive(c)
    PROVE  OnceOf(c)'
<1>0. IInv /\ ConnInv  BY DEF Sane
<1>1. Heard(c)' = Heard(c) /\ up' = up  BY <1>0, ReceiveElsewhere, HeardSame
<1>2. /\ wire'[c] = wire[c] \/ (wire'[c] = FALSE /\ ~(wire[c] /\ up))
      /\ \A n \in Nodes : own'[n] = "none" <=> own[n] = "none"
      /\ \/ /\ toSrv'[c] = Send(c, toSrv[c], CPacket(c))
            /\ cQuery'[c] \subseteq CQueryNow(c)
            /\ cConn'[c] = cConn[c] \/ ~(wire[c] /\ up) \/ CFlush(c) = {}
            /\ cConn'[c] = "none" => (cConn[c] = "none" \/ ~(wire[c] /\ up))
         \/ /\ toSrv'[c] = Send(c, toSrv[c], <<Scope>>)
            /\ CFlush(c) = {} /\ cConn'[c] # "none"
            /\ cConn[c] = "none" \/ cQuery'[c] \subseteq cQuery[c]
  BY <1>0, ReceiveSends
<1>3. ListsOf(c)  BY <1>0 DEF ConnInv
<1>4. CASE /\ toSrv'[c] = Send(c, toSrv[c], CPacket(c))
           /\ cQuery'[c] \subseteq CQueryNow(c)
           /\ cConn'[c] = "none" => (cConn[c] = "none" \/ ~(wire[c] /\ up))
  <2> DEFINE new == {<<n, nid[n]>> : n \in CFlush(c)}
             m == Construction(new, {})
  <2>1. CPacket(c) \in {<< >>, <<m>>} /\ (CPacket(c) = <<m>> <=> CFlush(c) # {})
    <3>1. new = {} <=> CFlush(c) = {}  OBVIOUS
    <3>2. CPacket(c) = IF new = {} THEN << >> ELSE <<m>>
      BY DEF CPacket, Construct
    <3>3. << >> # <<m>>  OBVIOUS
    <3> QED  BY <3>1, <3>2, <3>3
  <2>2. Says(m) = {<<n>> : n \in CFlush(c)}
    <3>1. Says(m) = {<<e[1]>> : e \in new}  BY DEF Says, Construction
    <3>2. \A n \in CFlush(c) : <<n, nid[n]>> \in new /\ <<n, nid[n]>>[1] = n  OBVIOUS
    <3>3. \A e \in new : \E n \in CFlush(c) : e[1] = n  OBVIOUS
    <3> HIDE DEF new
    <3>4. \A n \in CFlush(c) : \E e \in new : e[1] = n
      <4> TAKE n \in CFlush(c)
      <4>1. PICK e : e = <<n, nid[n]>>  OBVIOUS
      <4>2. e \in new /\ e[1] = n  BY <3>2, <4>1
      <4> QED  BY <4>2
    <3>5. {<<e[1]>> : e \in new} = {<<n>> : n \in CFlush(c)}
      <4>1. \A e \in new : <<e[1]>> \in {<<n>> : n \in CFlush(c)}  BY <3>3
      <4>2. \A n \in CFlush(c) : <<n>> \in {<<e[1]>> : e \in new}  BY <3>4
      <4> QED  BY <4>1, <4>2
    <3> QED  BY <3>1, <3>5
  <2>3. /\ CFlush(c) \subseteq cQuery[c] /\ cQuery[c] \subseteq LiveOf(c)
        /\ CFlush(c) # {} => cConn[c] = "valid"
    BY <1>3 DEF CFlush, ListsOf
  <2>4. Says(m) \subseteq Unsaid(c)
    BY <2>2, <2>3 DEF Unsaid, Topics, LiveOf
  <2>5. m \in FromClient(c)
    <3>1. new \subseteq PairsOf(c)
      <4> SUFFICES ASSUME NEW n \in CFlush(c)  PROVE <<n, nid[n]>> \in PairsOf(c)
        OBVIOUS
      <4>1. n \in NodesOf(c) /\ n \in Nodes  BY <2>3 DEF LiveOf, NodesOf
      <4> QED  BY <1>0, <4>1 DEF PairsOf, IInv, ClientInv
    <3> HIDE DEF new
    <3> QED  BY <3>1 DEF FromClient, Construction
  <2>6. ASSUME wire[c] /\ up
        PROVE  Unsaid(c)' \subseteq Unsaid(c) \ {<<n>> : n \in CFlush(c)}
    <3>1. wire[c] = TRUE /\ wire'[c] = TRUE  BY <1>0, <1>2, <2>6 DEF IInv, FaultInv
    <3>2. cConn'[c] = "none" => cConn[c] = "none" /\ CFlush(c) = {}
      BY <1>4, <2>6, <2>3
    <3> SUFFICES ASSUME NEW n \in NodesOf(c),
                        cConn'[c] = "none" \/ n \in cQuery'[c] \/ own'[n] = "none"
                 PROVE  /\ cConn[c] = "none" \/ n \in cQuery[c] \/ own[n] = "none"
                        /\ n \notin CFlush(c)
      BY <3>1 DEF Unsaid
    <3>3. n \in Nodes  BY DEF NodesOf
    <3>4. CASE cConn'[c] = "none"  BY <3>2, <3>4
    <3>5. CASE n \in cQuery'[c]  BY <1>4, <3>5 DEF CQueryNow
    <3>6. CASE own'[n] = "none"
      <4>1. own[n] = "none"  BY <1>2, <3>3, <3>6
      <4> QED  BY <2>3, <4>1 DEF LiveOf
    <3> QED  BY <3>4, <3>5, <3>6
  <2>7. CPacket(c) = << >> => CFlush(c) = {}
    <3>1. << >> # <<m>>  OBVIOUS
    <3> QED  BY <2>1, <3>1
  <2> HIDE DEF m, new
  <2>8. /\ (wire[c] /\ up) => Unsaid(c)' \subseteq Unsaid(c) \ Says(m)
        /\ (wire[c] /\ up) => Unsaid(c)' \subseteq Unsaid(c)
    BY <2>2, <2>6
  <2> QED  BY <1>0, <1>1, <1>4, <2>1, <2>4, <2>5, <2>8, OnceSends
<1>5. CASE /\ toSrv'[c] = Send(c, toSrv[c], <<Scope>>)
           /\ cConn'[c] # "none"
           /\ cConn[c] = "none" \/ cQuery'[c] \subseteq cQuery[c]
  <2>1. Says(Scope) = {} /\ Scope \in FromClient(c)
    BY ControlFromClient DEF Says, Scope
  <2>2. ASSUME wire[c] /\ up
        PROVE  Unsaid(c)' \subseteq Unsaid(c)
    <3>1. wire[c] = TRUE /\ wire'[c] = TRUE  BY <1>0, <1>2, <2>2 DEF IInv, FaultInv
    <3> SUFFICES ASSUME NEW n \in NodesOf(c), n \in cQuery'[c] \/ own'[n] = "none"
                 PROVE  cConn[c] = "none" \/ n \in cQuery[c] \/ own[n] = "none"
      BY <1>5, <3>1 DEF Unsaid
    <3>3. n \in Nodes  BY DEF NodesOf
    <3> QED  BY <1>2, <1>5, <3>3
  <2>3. <<Scope>> # << >>  OBVIOUS
  <2> DEFINE m == Scope
  <2>4. /\ m \in FromClient(c) /\ Says(m) = {} /\ toSrv'[c] = Send(c, toSrv[c], <<m>>)
    BY <1>5, <2>1
  <2> HIDE DEF m
  <2>5. Unsaid(c) \ Says(m) = Unsaid(c) /\ Says(m) \subseteq Unsaid(c)  BY <2>4
  <2> QED  BY <1>0, <1>1, <2>2, <2>4, <2>5, OnceSends
<1> QED  BY <1>2, <1>4, <1>5

\* Steps that neither send nor handle a packet keep OnceInv.
LEMMA OnceQuiet ==
    ASSUME IInv, OnceInv, UNCHANGED <<serverVars, toSrv>>,
           \A d \in Clients : wire[d] => Unsaid(d)' \subseteq Unsaid(d)
    PROVE  OnceInv'
<1>1. OneReplicaPerNode'  BY DEF OnceInv, OneReplicaPerNode, serverVars
<1>2. ASSUME NEW d \in Clients  PROVE OnceOf(d)'
  <2>1. OnceOf(d) /\ toSrv'[d] = toSrv[d]  BY DEF OnceInv
  <2>2. Heard(d)' = Heard(d) /\ up' = up  BY HeardSame
  <2>3. up \in BOOLEAN  BY DEF IInv, ServerInv
  <2> QED  BY <2>1, <2>2, <2>3, OnceSame
<1> QED  BY <1>1, <1>2 DEF OnceInv

\* StartClient keeps OnceInv.
LEMMA StartClientOnce ==
    ASSUME Sane, OnceInv, NEW c \in Clients, StartClient(c) \/ ConnectFails(c)
    PROVE  OnceInv'
<1>1. UNCHANGED <<serverVars, toSrv, wire, cConn, cQuery, own>>
  BY DEF StartClient, ConnectFails
<1>2. \A d \in Clients : Unsaid(d)' = Unsaid(d)
  BY <1>1 DEF Unsaid, Topics, NodesOf
<1> QED  BY <1>1, <1>2, OnceQuiet DEF Sane

\* AddNode keeps OnceInv.
LEMMA AddNodeOnce ==
    ASSUME Sane, OnceInv, NEW n \in Nodes, AddNode(n)
    PROVE  OnceInv'
<1>0. IInv  BY DEF Sane
<1>1. UNCHANGED <<serverVars, toSrv, wire, cConn>>  BY DEF AddNode
<1>2. ASSUME NEW d \in Clients, wire[d]  PROVE Unsaid(d)' \subseteq Unsaid(d)
  <2>1. \A k \in Nodes : own'[k] = "none" => own[k] = "none"
    BY <1>0 DEF AddNode, IInv, ClientInv
  <2>2. \A k \in cQuery'[d] : k \in cQuery[d] \/ k = n
    BY <1>0 DEF AddNode, IInv, ClientInv
  <2>3. own[n] = "none"  BY DEF AddNode
  <2>4. NodesOf(d) \subseteq Nodes  BY DEF NodesOf
  <2> QED  BY <1>1, <1>2, <2>1, <2>2, <2>3, <2>4 DEF Unsaid
<1> QED  BY <1>0, <1>1, <1>2, OnceQuiet

\* DestroyOwn keeps OnceInv.
LEMMA DestroyOwnOnce ==
    ASSUME Sane, OnceInv, NEW c \in Clients, NEW S \in SUBSET NodesOf(c), DestroyOwn(c, S),
           UNCHANGED <<cConn, nid, serverVars, wire>>
    PROVE  OnceInv'
<1>0. IInv  BY DEF Sane
<1>1. OneReplicaPerNode'  BY DEF OnceInv, OneReplicaPerNode, serverVars
<1>2. ASSUME NEW d \in Clients  PROVE OnceOf(d)'
  <2>1. OnceOf(d)  BY DEF OnceInv
  <2>2. Heard(d)' = Heard(d) /\ up' = up /\ up \in BOOLEAN
    BY <1>0, HeardSame DEF IInv, ServerInv
  <2>3. Unsaid(d)' \subseteq Unsaid(d)
    <3>1. \A k \in Nodes : own'[k] = "none" => own[k] = "none"
      BY <1>0 DEF DestroyOwn, IInv, ClientInv
    <3>2. cQuery'[d] \subseteq cQuery[d]  BY <1>0 DEF DestroyOwn, IInv, ClientInv
    <3>3. NodesOf(d) \subseteq Nodes  BY DEF NodesOf
    <3>4. wire' = wire /\ cConn' = cConn /\ Topics(d)' = Topics(d)  BY DEF Topics, NodesOf
    <3>5. CASE ~wire[d]  BY <3>4, <3>5 DEF Unsaid
    <3>6. CASE wire[d]  BY <3>1, <3>2, <3>3, <3>4, <3>6 DEF Unsaid
    <3> QED  BY <3>5, <3>6
  <2>4. CASE d = c
    <3> DEFINE del == {nid[n] : n \in S \cap cHas[c]}
               m == Construction({}, del)
               p == Destruct(del)
    <3>1. toSrv'[c] = Send(c, toSrv[c], p)
      BY <1>0 DEF DestroyOwn, IInv, ToSrvInv
    <3>2. del \subseteq Ids \cup {NoId}  BY <1>0 DEF IInv, ClientInv, NodesOf
    <3> HIDE DEF del
    <3>3. m \in FromClient(c) /\ Says(m) = {}
      BY <3>2 DEF FromClient, Construction, Says
    <3>4. p \in {<< >>, <<m>>}  BY DEF Destruct
    <3> HIDE DEF m, p
    <3>5. Unsaid(c) \ Says(m) = Unsaid(c) /\ Says(m) \subseteq Unsaid(c)  BY <3>3
    <3> QED  BY <1>0, <2>1, <2>2, <2>3, <2>4, <3>1, <3>3, <3>4, <3>5, OnceSends
  <2>5. CASE d # c
    <3>1. toSrv'[d] = toSrv[d]  BY <1>0, <2>5 DEF DestroyOwn, IInv, ToSrvInv
    <3> QED  BY <1>0, <2>1, <2>2, <2>3, <3>1, OnceSame
  <2> QED  BY <2>4, <2>5
<1> QED  BY <1>1, <1>2 DEF OnceInv

\* Removing nodes keeps OnceInv.
LEMMA RemoveOnce ==
    ASSUME Sane, OnceInv,
           \/ \E n \in Nodes : RemoveNode(n)
           \/ \E c \in Clients : RemoveAllNodes(c)
    PROVE  OnceInv'
<1>1. ASSUME NEW n \in Nodes, RemoveNode(n)  PROVE OnceInv'
  <2>1. {n} \in SUBSET NodesOf(Owner[n]) /\ Owner[n] \in Clients
    BY OwnerAssumption DEF NodesOf
  <2>2. DestroyOwn(Owner[n], {n}) /\ UNCHANGED <<cConn, nid, serverVars, wire>>
    BY <1>1 DEF RemoveNode
  <2> QED  BY <2>1, <2>2, DestroyOwnOnce
<1>2. ASSUME NEW c \in Clients, RemoveAllNodes(c)  PROVE OnceInv'
  <2> DEFINE S == {n \in NodesOf(c) : own[n] \in {"live", "dangling"}}
  <2>1. DestroyOwn(c, S) /\ UNCHANGED <<cConn, nid, serverVars, wire>>
    BY <1>2 DEF RemoveAllNodes
  <2>2. S \in SUBSET NodesOf(c)  OBVIOUS
  <2> HIDE DEF S
  <2> QED  BY <2>1, <2>2, DestroyOwnOnce
<1> QED  BY <1>1, <1>2

\* A connection that ends, of the client's doing or of the network's.
LEMMA OnceEnds ==
    ASSUME IInv, NEW c \in Clients, OnceOf(c), NEW m \in {Lost, Bye},
           UNCHANGED serverVars, wire'[c] = FALSE,
           \/ /\ up
              /\ \E q \in KeptToSrv(toSrv[c]) : toSrv'[c] = Append(q, m)
           \/ /\ toSrv'[c] = toSrv[c]
              /\ ~wire[c] \/ ~up
    PROVE  OnceOf(c)'
<1>1. /\ up \in BOOLEAN /\ toSrv[c] \in Seq(FromClient(c)) /\ m \in FromClient(c)
  BY ControlFromClient DEF IInv, ServerInv, ToSrvInv
<1>2. Heard(c)' = Heard(c) /\ up' = up  BY HeardSame
<1>3. CASE up /\ \E q \in KeptToSrv(toSrv[c]) : toSrv'[c] = Append(q, m)
  <2>1. PICK r \in KeptToSrv(toSrv[c]) : toSrv'[c] = Append(r, m)  BY <1>3
  <2>2. OnceIn(toSrv[c], Heard(c), Unsaid(c), up)  BY DEF OnceOf
  <2>3. OnceIn(Append(r, m), Heard(c), Unsaid(c)', TRUE)
    BY <1>1, <2>2, OnceKept
  <2>4. up' = TRUE  BY <1>1, <1>2, <1>3
  <2> QED  BY <1>2, <2>1, <2>3, <2>4 DEF OnceOf
<1>4. CASE toSrv'[c] = toSrv[c] /\ (~wire[c] \/ ~up)
  BY <1>1, <1>2, <1>4, OnceSame
<1> QED  BY <1>3, <1>4

\* Stop keeps OnceInv.
LEMMA StopOnce ==
    ASSUME Sane, OnceInv, NEW c \in Clients, Stop(c)
    PROVE  OnceInv'
<1>0. IInv /\ UNCHANGED serverVars  BY DEF Sane, Stop
<1>1. OneReplicaPerNode'  BY <1>0 DEF OnceInv, OneReplicaPerNode, serverVars
<1>2. OnceOf(c)'
  <2>1. OnceOf(c) /\ wire'[c] = FALSE /\ wire[c] \in BOOLEAN
    BY <1>0 DEF OnceInv, Stop, IInv, FaultInv
  <2>2. CASE wire[c] /\ up
    <3>1. PICK q \in KeptToSrv(toSrv[c]) : toSrv' = [toSrv EXCEPT ![c] = Append(q, Bye)]
      BY <2>2 DEF Stop
    <3>2. toSrv'[c] = Append(q, Bye)  BY <1>0, <3>1 DEF IInv, ToSrvInv
    <3> QED  BY <1>0, <2>1, <2>2, <3>2, OnceEnds
  <2>3. CASE ~(wire[c] /\ up)
    <3>1. toSrv'[c] = toSrv[c]  BY <2>3 DEF Stop
    <3> QED  BY <1>0, <2>1, <2>3, <3>1, OnceEnds
  <2> QED  BY <2>2, <2>3
<1>3. ASSUME NEW d \in Clients, d # c  PROVE OnceOf(d)'
  <2>1. OnceOf(d)  BY DEF OnceInv
  <2>2. Heard(d)' = Heard(d) /\ up' = up /\ up \in BOOLEAN
    BY <1>0, HeardSame DEF IInv, ServerInv
  <2>3. toSrv'[d] = toSrv[d] /\ wire'[d] = wire[d] /\ cConn'[d] = cConn[d]
        /\ cQuery'[d] = cQuery[d]
    BY <1>0, <1>3 DEF Stop, IInv, ToSrvInv, FaultInv, ClientInv
  <2>4. \A n \in NodesOf(d) : own'[n] = own[n]  BY <1>3 DEF Stop, NodesOf
  <2>5. Unsaid(d)' \subseteq Unsaid(d)
    BY <2>3, <2>4 DEF Unsaid, Topics, NodesOf
  <2> QED  BY <1>0, <2>1, <2>2, <2>3, <2>5, OnceSame
<1> QED  BY <1>1, <1>2, <1>3 DEF OnceInv

\* Break keeps OnceInv.
LEMMA BreakOnce ==
    ASSUME Sane, OnceInv, NEW c \in Clients, Break(c)
    PROVE  OnceInv'
<1>0. IInv /\ UNCHANGED <<clientVars, serverVars>>  BY DEF Sane, Break
<1>1. OneReplicaPerNode'  BY <1>0 DEF OnceInv, OneReplicaPerNode, serverVars
<1>2. OnceOf(c)'
  <2>1. OnceOf(c) /\ wire'[c] = FALSE /\ up \in BOOLEAN
    BY <1>0 DEF OnceInv, Break, IInv, FaultInv, ServerInv
  <2>2. CASE up
    <3>1. PICK q \in KeptToSrv(toSrv[c]) : toSrv' = [toSrv EXCEPT ![c] = Append(q, Lost)]
      BY <2>2 DEF Break
    <3>2. toSrv'[c] = Append(q, Lost)  BY <1>0, <3>1 DEF IInv, ToSrvInv
    <3> QED  BY <1>0, <2>1, <2>2, <3>2, OnceEnds
  <2>3. CASE ~up
    <3>1. toSrv'[c] = toSrv[c]  BY <2>3 DEF Break
    <3> QED  BY <1>0, <2>1, <2>3, <3>1, OnceEnds
  <2> QED  BY <2>2, <2>3
<1>3. ASSUME NEW d \in Clients, d # c  PROVE OnceOf(d)'
  <2>1. OnceOf(d)  BY DEF OnceInv
  <2>2. Heard(d)' = Heard(d) /\ up' = up /\ up \in BOOLEAN
    BY <1>0, HeardSame DEF IInv, ServerInv
  <2>3. toSrv'[d] = toSrv[d] /\ wire'[d] = wire[d]
    BY <1>0, <1>3 DEF Break, IInv, ToSrvInv, FaultInv
  <2>4. Unsaid(d)' \subseteq Unsaid(d)
    BY <1>0, <2>3 DEF Unsaid, Topics, NodesOf, clientVars
  <2> QED  BY <1>0, <2>1, <2>2, <2>3, <2>4, OnceSame
<1> QED  BY <1>1, <1>2, <1>3 DEF OnceInv

\* Establish keeps OnceInv.
LEMMA EstablishOnce ==
    ASSUME Sane, OnceInv, NEW c \in Clients, Establish(c)
    PROVE  OnceInv'
<1>0. IInv /\ UNCHANGED <<clientVars, serverVars>>  BY DEF Sane, Establish
<1>1. OneReplicaPerNode'  BY <1>0 DEF OnceInv, OneReplicaPerNode, serverVars
<1>2. OnceOf(c)'
  <2>1. up = TRUE /\ wire[c] = FALSE /\ wire'[c] = TRUE
    BY <1>0 DEF Establish, IInv, FaultInv, ServerInv
  <2>2. OnceIn(toSrv[c], Heard(c), Topics(c), TRUE)
    BY <2>1, UnsaidIsTopics DEF OnceInv, OnceOf
  <2>3. Says(Incoming) = {<< >>} /\ Says(Incoming) \subseteq Topics(c)
    BY DEF Says, Incoming, Topics
  <2>4. toSrv[c] \in Seq(FromClient(c)) /\ Incoming \in FromClient(c)
    BY <1>0, ControlFromClient DEF IInv, ToSrvInv
  <2>5. OnceIn(Append(toSrv[c], Incoming), Heard(c), Topics(c) \ {<< >>}, TRUE)
    <3>1. OnceIn(Append(toSrv[c], Incoming), Heard(c), Topics(c) \ Says(Incoming), TRUE)
      BY <2>2, <2>3, <2>4, OnceAppend
    <3> QED  BY <2>3, <3>1
  <2>6. Unsaid(c)' \subseteq Topics(c) \ {<< >>}
    <3>1. Unsaid(c)' \subseteq {<<n>> : n \in NodesOf(c)}
      BY <2>1 DEF Unsaid, NodesOf
    <3>2. \A n : <<n>> # << >>  OBVIOUS
    <3> QED  BY <3>1, <3>2 DEF Topics
  <2>7. Heard(c)' = Heard(c) /\ up' = TRUE  BY <1>0, <2>1, HeardSame
  <2>8. toSrv'[c] = Append(toSrv[c], Incoming)  BY <1>0 DEF Establish, IInv, ToSrvInv
  <2>9. OnceIn(Append(toSrv[c], Incoming), Heard(c), Unsaid(c)', TRUE)
    BY <2>5, <2>6, OnceWeaker
  <2> QED  BY <2>7, <2>8, <2>9 DEF OnceOf
<1>3. ASSUME NEW d \in Clients, d # c  PROVE OnceOf(d)'
  <2>1. OnceOf(d)  BY DEF OnceInv
  <2>2. Heard(d)' = Heard(d) /\ up' = up /\ up \in BOOLEAN
    BY <1>0, HeardSame DEF IInv, ServerInv
  <2>3. toSrv'[d] = toSrv[d] /\ wire'[d] = wire[d]
    BY <1>0, <1>3 DEF Establish, IInv, ToSrvInv, FaultInv
  <2>4. Unsaid(d)' \subseteq Unsaid(d)
    BY <1>0, <2>3 DEF Unsaid, Topics, NodesOf, clientVars
  <2> QED  BY <1>0, <2>1, <2>2, <2>3, <2>4, OnceSame
<1> QED  BY <1>1, <1>2, <1>3 DEF OnceInv

\* ClientReceive keeps OnceInv.
LEMMA ClientReceiveOnce ==
    ASSUME Sane, OnceInv, NEW c \in Clients, ClientReceive(c)
    PROVE  OnceInv'
<1>0. IInv /\ ConnInv /\ UNCHANGED serverVars  BY ReceiveElsewhere DEF Sane
<1>1. OneReplicaPerNode'  BY <1>0 DEF OnceInv, OneReplicaPerNode, serverVars
<1>2. OnceOf(c)'  BY ReceiveOnce DEF OnceInv
<1>3. ASSUME NEW d \in Clients \ {c}  PROVE OnceOf(d)'
  <2>1. OnceOf(d)  BY DEF OnceInv
  <2>2. Heard(d)' = Heard(d) /\ up' = up /\ up \in BOOLEAN
    BY <1>0, HeardSame DEF IInv, ServerInv
  <2>3. /\ toSrv'[d] = toSrv[d] /\ wire'[d] = wire[d] /\ cConn'[d] = cConn[d]
        /\ cQuery'[d] = cQuery[d]
        /\ \A n \in NodesOf(d) : own'[n] = own[n]
    BY <1>0, ReceiveElsewhere DEF NodesOf
  <2>4. Unsaid(d)' \subseteq Unsaid(d)
    BY <2>3 DEF Unsaid, Topics, NodesOf
  <2> QED  BY <1>0, <2>1, <2>2, <2>3, <2>4, OnceSame
<1> QED  BY <1>1, <1>2, <1>3 DEF OnceInv

\* A step of the server on a packet of c, seen by another client.
LEMMA OnceElsewhere ==
    ASSUME IInv, OnceInv, NEW c \in Clients, NEW i, Take(c, i),
           UNCHANGED <<clientVars, up, wire>>, NEW d \in Clients, d # c,
           Heard(d)' \subseteq Heard(d)
    PROVE  OnceOf(d)'
<1>1. toSrv'[d] = toSrv[d]  BY DEF Take, IInv, ToSrvInv
<1>2. Unsaid(d)' = Unsaid(d)  BY DEF Unsaid, Topics, clientVars
<1>3. up' = up /\ up \in BOOLEAN /\ OnceOf(d)  BY DEF IInv, ServerInv, OnceInv
<1> QED  BY <1>1, <1>2, <1>3, OnceSame

\* ... and the client it came from, a packet that does not end its connection.
LEMMA OnceTaken ==
    ASSUME Sane, OnceInv, NEW c \in Clients, NEW i, NEW kind,
           Reaching(c, i, kind), Take(c, i), kind \in {"incoming", "scope", "construction"},
           UNCHANGED <<clientVars, up, wire>>,
           Heard(c)' \subseteq Heard(c) \cup Says(toSrv[c][i])
    PROVE  /\ Says(toSrv[c][i]) \cap Heard(c) = {}
           /\ OnceOf(c)'
<1>1. IInv  BY DEF Sane
<1>2. /\ i \in 1..Len(toSrv[c]) /\ toSrv[c] \in Seq(Meant(c))
      /\ toSrv[c][i].kind = kind /\ Len(toSrv[c]) \in Nat
      /\ \A k \in 1..(i - 1) : ~Ending(toSrv[c][k])
  BY Handles
<1>3. \A k \in 1..i : ~Ending(toSrv[c][k])
  <2>1. ~Ending(toSrv[c][i])  BY <1>2 DEF Ending
  <2>2. \A k \in 1..i : k \in 1..(i - 1) \/ k = i  BY <1>2
  <2> QED  BY <1>2, <2>1, <2>2
<1>4. OnceIn(toSrv[c], Heard(c), Unsaid(c), up) /\ up \in BOOLEAN
  BY <1>1 DEF OnceInv, OnceOf, IInv, ServerInv
<1>5. /\ Says(toSrv[c][i]) \cap Heard(c) = {}
      /\ OnceIn(Without(toSrv[c], i), Heard(c) \cup Says(toSrv[c][i]), Unsaid(c), up)
  <2> DEFINE q == toSrv[c]
             h == Heard(c)
             u == Unsaid(c)
             s == Meant(c)
  <2>1. /\ q \in Seq(s) /\ i \in 1..Len(q) /\ \A k \in 1..i : ~Ending(q[k])
        /\ OnceIn(q, h, u, up) /\ up \in BOOLEAN
    BY <1>2, <1>3, <1>4
  <2> HIDE DEF q, h, u, s
  <2>2. Says(q[i]) \cap h = {} /\ OnceIn(Without(q, i), h \cup Says(q[i]), u, up)
    BY <2>1, OnceTake
  <2> QED  BY <2>2 DEF q, h, u
<1>6. toSrv'[c] = Without(toSrv[c], i) /\ up' = up /\ Unsaid(c)' = Unsaid(c)
  BY <1>1 DEF Take, IInv, ToSrvInv, Unsaid, Topics, clientVars
<1>7. OnceIn(Without(toSrv[c], i), Heard(c)', Unsaid(c), up)
  BY <1>4, <1>5, OnceWeaker
<1> QED  BY <1>5, <1>6, <1>7 DEF OnceOf

\* ServerOnIncoming keeps OnceInv.
LEMMA ServerOnIncomingOnce ==
    ASSUME Sane, OnceInv, NEW c \in Clients, NEW i, ServerOnIncoming(c, i)
    PROVE  OnceInv'
<1>1. /\ IInv /\ Reaching(c, i, "incoming") /\ Take(c, i)
      /\ UNCHANGED <<clientVars, up, wire, srv>>
      /\ srvConn' = IF srvConn[c] = "none" THEN [srvConn EXCEPT ![c] = "pushed"] ELSE srvConn
  BY DEF ServerOnIncoming, Sane
<1>2. OneReplicaPerNode'  BY <1>1 DEF OnceInv, OneReplicaPerNode
<1>3. \A d \in Clients : CreatedBy(d)' = CreatedBy(d)  BY <1>1 DEF CreatedBy, OwnerOf
<1>4. ASSUME NEW d \in Clients, d # c  PROVE Heard(d)' \subseteq Heard(d)
  <2>1. srvConn'[d] = srvConn[d]  BY <1>1, <1>4 DEF IInv, ServerInv
  <2> QED  BY <1>3, <2>1 DEF Heard
<1>5. Heard(c)' \subseteq Heard(c) \cup Says(toSrv[c][i])
  <2>1. Says(toSrv[c][i]) = {<< >>}  BY <1>1 DEF Reaching, Says
  <2> QED  BY <1>3, <2>1 DEF Heard
<1>6. OnceOf(c)'  BY <1>1, <1>5, OnceTaken
<1>7. \A d \in Clients : d # c => OnceOf(d)'  BY <1>1, <1>4, OnceElsewhere
<1> QED  BY <1>2, <1>6, <1>7 DEF OnceInv

\* ServerOnScope keeps OnceInv.
LEMMA ServerOnScopeOnce ==
    ASSUME Sane, OnceInv, NEW c \in Clients, NEW i, ServerOnScope(c, i)
    PROVE  OnceInv'
<1>1. /\ IInv /\ Reaching(c, i, "scope") /\ Take(c, i)
      /\ UNCHANGED <<clientVars, up, wire, srv>>
      /\ srvConn' = IF srvConn[c] = "pushed" THEN [srvConn EXCEPT ![c] = "valid"] ELSE srvConn
  BY DEF ServerOnScope, Sane
<1>2. OneReplicaPerNode'  BY <1>1 DEF OnceInv, OneReplicaPerNode
<1>3. \A d \in Clients : CreatedBy(d)' = CreatedBy(d)  BY <1>1 DEF CreatedBy, OwnerOf
<1>4. ASSUME NEW d \in Clients  PROVE Heard(d)' \subseteq Heard(d)
  <2>1. srvConn'[d] = "none" <=> srvConn[d] = "none"  BY <1>1 DEF IInv, ServerInv
  <2> QED  BY <1>3, <2>1 DEF Heard
<1>5. Heard(c)' \subseteq Heard(c) \cup Says(toSrv[c][i])  BY <1>4
<1>6. OnceOf(c)'  BY <1>1, <1>5, OnceTaken
<1>7. \A d \in Clients : d # c => OnceOf(d)'  BY <1>1, <1>4, OnceElsewhere
<1> QED  BY <1>2, <1>6, <1>7 DEF OnceInv

\* The node a construction is about and the node of the id it gets.
LEMMA CreatedNode ==
    ASSUME IInv, NEW c \in Clients, NEW m \in FromClient(c), m.kind = "construction",
           NEW e \in m.new
    PROVE  IdFor(e).node = e[1] /\ <<e[1]>> \in Says(m)
<1>1. e \in PairsOf(c)  BY ConstructionHolds
<1> QED  BY <1>1 DEF PairsOf, IdFor, Says

\* ServerOnConstruction keeps OnceInv.
LEMMA ServerOnConstructionOnce ==
    ASSUME Sane, OnceInv, NEW c \in Clients, NEW i, ServerOnConstruction(c, i)
    PROVE  OnceInv'
<1>1. /\ IInv /\ Reaching(c, i, "construction") /\ Take(c, i)
      /\ UNCHANGED <<clientVars, up, wire, srvConn>>
  BY DEF ServerOnConstruction, Sane
<1> DEFINE m == toSrv[c][i]
<1>2. m \in Meant(c) /\ m \in FromClient(c) /\ m.kind = "construction"
  BY <1>1, Handles
<1>3. \/ srv' = srv
      \/ srv' = (srv \cup Created(m)) \ Doomed(m)
  <2>1. CASE srvConn[c] = "none"  BY <2>1 DEF ServerOnConstruction
  <2>2. CASE srvConn[c] # "none"  BY <2>2, ConstructionIs
  <2> QED  BY <2>1, <2>2
<1> HIDE DEF m
<1>5. srv' \subseteq srv \cup Created(m)  BY <1>3
<1>6. \A x \in Created(m) : OwnerOf(x) = c /\ \E e \in m.new : x = IdFor(e)
  BY <1>1, <1>2, ConstructionHolds DEF Created
<1>7. ASSUME NEW x \in Created(m)  PROVE <<x.node>> \in Says(m)
  <2>1. PICK e \in m.new : x = IdFor(e)  BY <1>6
  <2> QED  BY <1>1, <1>2, <2>1, CreatedNode
<1>8. ASSUME NEW d \in Clients, d # c  PROVE Heard(d)' \subseteq Heard(d)
  <2>1. CreatedBy(d)' \subseteq CreatedBy(d)
    BY <1>5, <1>6, <1>8 DEF CreatedBy, OwnerOf
  <2> QED  BY <1>1, <2>1 DEF Heard
<1>9. Heard(c)' \subseteq Heard(c) \cup Says(m)
  <2>1. \A x \in CreatedBy(c)' : x \in CreatedBy(c) \/ x \in Created(m)
    BY <1>5 DEF CreatedBy, OwnerOf
  <2> QED  BY <1>1, <1>7, <2>1 DEF Heard
<1>10. Says(m) \cap Heard(c) = {} /\ OnceOf(c)'
  BY <1>1, <1>9, OnceTaken DEF m
<1>11. \A d \in Clients : d # c => OnceOf(d)'  BY <1>1, <1>8, OnceElsewhere
<1>12. ASSUME NEW x \in srv, NEW y \in Created(m), x.node = y.node  PROVE FALSE
  <2>1. OwnerOf(x) = c  BY <1>6, <1>12 DEF OwnerOf
  <2>2. <<x.node>> \in Heard(c)  BY <2>1 DEF Heard, CreatedBy
  <2> QED  BY <1>7, <1>10, <1>12, <2>2
<1>13. ASSUME NEW x \in Created(m), NEW y \in Created(m), x.node = y.node  PROVE x = y
  <2>1. PICK e \in m.new : x = IdFor(e)  BY <1>6
  <2>2. PICK f \in m.new : y = IdFor(f)  BY <1>6
  <2>3. e[1] = f[1]  BY <1>1, <1>2, <1>13, <2>1, <2>2, CreatedNode
  <2>4. e = f  BY <1>2, <2>3 DEF Meant
  <2> QED  BY <2>1, <2>2, <2>4
<1>14. OneReplicaPerNode'
  <2> SUFFICES ASSUME NEW x \in srv', NEW y \in srv', x.node = y.node  PROVE x = y
    BY DEF OneReplicaPerNode
  <2>1. CASE x \in srv /\ y \in srv  BY <2>1 DEF OnceInv, OneReplicaPerNode
  <2> QED  BY <1>5, <1>12, <1>13, <2>1
<1> QED  BY <1>10, <1>11, <1>14 DEF OnceInv

\* ServerOnClosed keeps OnceInv.
LEMMA ServerOnClosedOnce ==
    ASSUME Sane, OnceInv, NEW c \in Clients, NEW i, ServerOnClosed(c, i)
    PROVE  OnceInv'
<1>1. /\ IInv /\ Take(c, i) /\ UNCHANGED <<clientVars, up, wire>>
      /\ \/ Reaching(c, i, "lost") \/ Reaching(c, i, "bye")
      /\ srvConn' = [srvConn EXCEPT ![c] = "none"]
      /\ srv' = srv \ (IF srvConn[c] = "none" THEN {} ELSE CreatedBy(c))
  BY DEF ServerOnClosed, Sane, Dereference
<1>2. OneReplicaPerNode'  BY <1>1 DEF OnceInv, OneReplicaPerNode
<1>3. ASSUME NEW d \in Clients, d # c  PROVE Heard(d)' \subseteq Heard(d)
  <2>1. srvConn'[d] = srvConn[d]  BY <1>1, <1>3 DEF IInv, ServerInv
  <2>2. CreatedBy(d)' \subseteq CreatedBy(d)  BY <1>1 DEF CreatedBy, OwnerOf
  <2> QED  BY <2>1, <2>2 DEF Heard
<1>4. Heard(c)' = {}
  <2>1. srvConn'[c] = "none"  BY <1>1 DEF IInv, ServerInv
  <2>2. CreatedBy(c)' = {}
    <3>1. CASE srvConn[c] = "none"
      <4>1. srv \subseteq Foreign(c)
        BY <1>1, <3>1, NothingOfTheDisconnected DEF IInv
      <4> QED  BY <1>1, <3>1, <4>1 DEF CreatedBy, Foreign, OwnerOf
    <3>2. CASE srvConn[c] # "none"
      BY <1>1, <3>2 DEF CreatedBy, OwnerOf
    <3> QED  BY <3>1, <3>2
  <2> QED  BY <2>1, <2>2 DEF Heard
<1>5. OnceOf(c)'
  <2>1. i = 1 /\ i \in 1..Len(toSrv[c]) /\ toSrv[c] \in Seq(Meant(c))
    <3>1. CASE Reaching(c, i, "lost")  BY <3>1, Handles
    <3>2. CASE Reaching(c, i, "bye")  BY <3>2, Handles
    <3> QED  BY <1>1, <3>1, <3>2
  <2>2. OnceIn(toSrv[c], Heard(c), Unsaid(c), up) /\ up \in BOOLEAN
    BY <1>1 DEF OnceInv, OnceOf, IInv, ServerInv
  <2>3. OnceIn(Without(toSrv[c], 1), {}, Unsaid(c), up)
    BY <2>1, <2>2, OnceEnd
  <2>4. toSrv'[c] = Without(toSrv[c], 1) /\ up' = up /\ Unsaid(c)' = Unsaid(c)
    BY <1>1, <2>1 DEF Take, IInv, ToSrvInv, Unsaid, Topics, clientVars
  <2> QED  BY <1>4, <2>3, <2>4 DEF OnceOf
<1>6. \A d \in Clients : d # c => OnceOf(d)'  BY <1>1, <1>3, OnceElsewhere
<1> QED  BY <1>2, <1>5, <1>6 DEF OnceInv

\* OnceInv at the start.
LEMMA InitOnce == Init => OnceInv
<1> SUFFICES ASSUME Init  PROVE OnceInv
  OBVIOUS
<1>1. OneReplicaPerNode  BY DEF Init, OneReplicaPerNode
<1>2. ASSUME NEW c \in Clients  PROVE OnceOf(c)
  <2>1. toSrv[c] = << >> /\ Heard(c) = {}  BY DEF Init, Heard, CreatedBy
  <2> QED  BY <2>1, OnceEmpty DEF OnceOf
<1> QED  BY <1>1, <1>2 DEF OnceInv

\* OnceInv over every step.
LEMMA NextOnce == Sane /\ OnceInv /\ [Next]_vars => OnceInv'
<1> SUFFICES ASSUME Sane, OnceInv, [Next]_vars  PROVE OnceInv'
  OBVIOUS
<1>1. ASSUME NEW n \in Nodes, AddNode(n) \/ RemoveNode(n)
      PROVE  OnceInv'
  BY <1>1, AddNodeOnce, RemoveOnce
<1>2. ASSUME NEW c \in Clients, StartClient(c) \/ RemoveAllNodes(c) \/ Stop(c)
      PROVE  OnceInv'
  BY <1>2, StartClientOnce, RemoveOnce, StopOnce
<1>3. ASSUME NEW c \in Clients, ClientReceive(c)
      PROVE  OnceInv'
  BY <1>3, ClientReceiveOnce
<1>4. ASSUME NEW c \in Clients, Establish(c) \/ ConnectFails(c) \/ Break(c)
      PROVE  OnceInv'
  BY <1>4, EstablishOnce, StartClientOnce, BreakOnce
<1>5. CASE ServerReceive
  <2>1. CASE ServerUpdate
    <3>1. UNCHANGED <<clientVars, up, srvConn, srv, toSrv, wire>>  BY <2>1 DEF ServerUpdate
    <3>2. OneReplicaPerNode'  BY <3>1 DEF OnceInv, OneReplicaPerNode
    <3>3. \A d \in Clients : OnceOf(d)'
      BY <3>1 DEF OnceInv, OnceOf, Heard, CreatedBy, OwnerOf, Unsaid, Topics, NodesOf,
                  clientVars
    <3> QED  BY <3>2, <3>3 DEF OnceInv
  <2> QED  BY <1>5, <2>1, ServerOnIncomingOnce, ServerOnScopeOnce, ServerOnConstructionOnce,
              ServerOnClosedOnce DEF ServerReceive
<1>6. CASE ServerQuit \/ ServerCrash
  <2>1. /\ toSrv' = [d \in Clients |-> << >>] /\ srv' = {}
        /\ srvConn' = [d \in Clients |-> "none"]
    BY <1>6 DEF ServerQuit, ServerCrash
  <2>2. OneReplicaPerNode'  BY <2>1 DEF OneReplicaPerNode
  <2>3. ASSUME NEW d \in Clients  PROVE OnceOf(d)'
    <3>1. toSrv'[d] = << >> /\ Heard(d)' = {}  BY <2>1 DEF Heard, CreatedBy
    <3> QED  BY <3>1, OnceEmpty DEF OnceOf
  <2> QED  BY <2>2, <2>3 DEF OnceInv
<1>7. CASE UNCHANGED vars
  <2>1. UNCHANGED <<clientVars, up, srvConn, srv, toSrv, wire>>
    BY <1>7 DEF vars, clientVars
  <2>2. OneReplicaPerNode'  BY <2>1 DEF OnceInv, OneReplicaPerNode
  <2>3. \A d \in Clients : OnceOf(d)'
    BY <2>1 DEF OnceInv, OnceOf, Heard, CreatedBy, OwnerOf, Unsaid, Topics, NodesOf,
                clientVars
  <2> QED  BY <2>2, <2>3 DEF OnceInv
<1> QED  BY <1>1, <1>2, <1>3, <1>4, <1>5, <1>6, <1>7 DEF Next

\* OnceInv always holds.
LEMMA AlwaysOnce == Spec => [](Sane /\ OnceInv)
<1>1. Init => Sane /\ OnceInv  BY InitSane, InitOnce
<1>2. (Sane /\ OnceInv) /\ [Next]_vars => (Sane /\ OnceInv)'  BY NextSane, NextOnce
<1> QED  BY <1>1, <1>2, PTL DEF Spec

\* The server never holds two replicas of one node, in either mode and whatever
\* the faults: OnConstruction, which only looks for the id that comes with a
\* node, never hears of a node it has on the connection it has it from.
THEOREM SingleReplicas == Spec => []OneReplicaPerNode
<1>1. Sane /\ OnceInv => OneReplicaPerNode  BY DEF OnceInv
<1> QED  BY <1>1, AlwaysOnce, PTL

---------------------------------------------------------------------------
(* What a client's copies become.                                          *)

\* An id a queue destroys after its i-th packet, and one that a client with
\* the copies S is left with by it.
GoneAfter(q, i, id) ==
    \E j \in (i + 1)..Len(q) : q[j].kind = "construction" /\ id \in q[j].del
Lasts(S, q, id) ==
    \/ id \in S /\ ~GoneAfter(q, 0, id)
    \/ \E i \in 1..Len(q) : /\ q[i].kind = "construction"
                            /\ id \in q[i].new /\ ~GoneAfter(q, i, id)

\* A node will be there when it is there or arrives, with nothing to destroy it
\* behind.
LEMMA BecomesIs ==
    ASSUME IInv, NEW d \in Clients, NEW id
    PROVE  id \in Becomes(d) <=> Lasts(copies[d], toCli[d], id)
<1> DEFINE q == toCli[d]
<1>1. q \in Seq(ToClient(d))  BY DEF IInv, ToCliInv
<1>2. DOMAIN q = 1..Len(q)  BY <1>1, LenProperties
<1>3. id \in Becomes(d) <=>
         \/ id \in copies[d] /\ ~GoneAfter(q, 0, id)
         \/ \E i \in DOMAIN q : /\ q[i].kind = "construction" /\ id \in q[i].new
                                /\ ~GoneAfter(q, i, id)
  BY DEF Becomes, GoneAfter
<1> QED  BY <1>2, <1>3 DEF Lasts

\* What one more packet does to what lasts.
LEMMA LastsAppend ==
    ASSUME NEW S, NEW q \in Seq(S), NEW m \in S, NEW R, NEW id
    PROVE  Lasts(R, Append(q, m), id) <=>
              IF m.kind = "construction"
              THEN id \in m.new \/ (Lasts(R, q, id) /\ id \notin m.del)
              ELSE Lasts(R, q, id)
<1> DEFINE r == Append(q, m)
           hit == m.kind = "construction" /\ id \in m.del
<1>1. /\ Len(q) \in Nat /\ Len(r) = Len(q) + 1 /\ r[Len(q) + 1] = m
      /\ \A j \in 1..Len(q) : r[j] = q[j]
  BY AppendAt, LenProperties
<1> HIDE DEF r
<1>2. ASSUME NEW i \in 0..Len(q)
      PROVE  GoneAfter(r, i, id) <=> GoneAfter(q, i, id) \/ hit
  <2>1. ASSUME GoneAfter(r, i, id)  PROVE GoneAfter(q, i, id) \/ hit
    <3>1. PICK j \in (i + 1)..Len(r) : r[j].kind = "construction" /\ id \in r[j].del
      BY <2>1 DEF GoneAfter
    <3>2. CASE j = Len(q) + 1  BY <1>1, <3>1, <3>2
    <3>3. CASE j # Len(q) + 1
      <4>1. j \in (i + 1)..Len(q) /\ r[j] = q[j]  BY <1>1, <3>3
      <4> QED  BY <3>1, <4>1 DEF GoneAfter
    <3> QED  BY <3>2, <3>3
  <2>2. ASSUME GoneAfter(q, i, id)  PROVE GoneAfter(r, i, id)
    <3>1. PICK j \in (i + 1)..Len(q) : q[j].kind = "construction" /\ id \in q[j].del
      BY <2>2 DEF GoneAfter
    <3>2. j \in (i + 1)..Len(r) /\ r[j] = q[j]  BY <1>1
    <3> QED  BY <3>1, <3>2 DEF GoneAfter
  <2>3. ASSUME hit  PROVE GoneAfter(r, i, id)
    <3>1. Len(q) + 1 \in (i + 1)..Len(r)  BY <1>1
    <3> QED  BY <1>1, <2>3, <3>1 DEF GoneAfter
  <2> QED  BY <2>1, <2>2, <2>3
<1>3. ~GoneAfter(r, Len(r), id)
  <2>1. (Len(r) + 1)..Len(r) = {}  BY <1>1
  <2> QED  BY <2>1 DEF GoneAfter
<1> DEFINE in(x, i) == x[i].kind = "construction" /\ id \in x[i].new /\ ~GoneAfter(x, i, id)
<1>4. \A i \in 1..Len(q) : in(r, i) <=> in(q, i) /\ ~hit
  BY <1>1, <1>2
<1>5. in(r, Len(q) + 1) <=> m.kind = "construction" /\ id \in m.new
  BY <1>1, <1>3
<1>6. (\E i \in 1..Len(r) : in(r, i)) <=>
         (\E i \in 1..Len(q) : in(q, i) /\ ~hit) \/ (m.kind = "construction" /\ id \in m.new)
  <2> HIDE DEF in, hit
  <2>1. \A i \in 1..Len(r) : i \in 1..Len(q) \/ i = Len(q) + 1  BY <1>1
  <2>2. Len(q) + 1 \in 1..Len(r) /\ 1..Len(q) \subseteq 1..Len(r)  BY <1>1
  <2> QED  BY <1>4, <1>5, <2>1, <2>2
<1>7. Lasts(R, r, id) <=> (id \in R /\ ~GoneAfter(r, 0, id)) \/ \E i \in 1..Len(r) : in(r, i)
  BY DEF Lasts
<1>8. Lasts(R, q, id) <=> (id \in R /\ ~GoneAfter(q, 0, id)) \/ \E i \in 1..Len(q) : in(q, i)
  BY DEF Lasts
<1>9. GoneAfter(r, 0, id) <=> GoneAfter(q, 0, id) \/ hit  BY <1>1, <1>2
<1> HIDE DEF in
<1> QED  BY <1>6, <1>7, <1>8, <1>9 DEF r

\* The first packet is handled: what was a copy, or was constructed by it, and
\* is not destroyed by it is a copy then.
LEMMA LastsTail ==
    ASSUME NEW S, NEW q \in Seq(S), q # << >>, NEW R, NEW T, NEW id,
           IF Head(q).kind = "construction"
           THEN id \in T <=> (id \in Head(q).new \/ (id \in R /\ id \notin Head(q).del))
           ELSE id \in T <=> id \in R
    PROVE  Lasts(T, Tail(q), id) <=> Lasts(R, q, id)
<1> DEFINE r == Tail(q)
           m == Head(q)
           hit == m.kind = "construction" /\ id \in m.del
<1>1. /\ Len(q) \in Nat \ {0} /\ Len(r) = Len(q) - 1 /\ m = q[1]
      /\ \A j \in 1..Len(r) : r[j] = q[j + 1]
  BY TailAt
<1>0. IF m.kind = "construction"
      THEN id \in T <=> (id \in m.new \/ (id \in R /\ id \notin m.del))
      ELSE id \in T <=> id \in R
  OBVIOUS
<1> HIDE DEF r, m
<1>2. ASSUME NEW i \in 0..Len(r)
      PROVE  GoneAfter(r, i, id) <=> GoneAfter(q, i + 1, id)
  <2>1. ASSUME GoneAfter(r, i, id)  PROVE GoneAfter(q, i + 1, id)
    <3>1. PICK j \in (i + 1)..Len(r) : r[j].kind = "construction" /\ id \in r[j].del
      BY <2>1 DEF GoneAfter
    <3>2. j + 1 \in ((i + 1) + 1)..Len(q) /\ r[j] = q[j + 1]  BY <1>1
    <3> QED  BY <3>1, <3>2 DEF GoneAfter
  <2>2. ASSUME GoneAfter(q, i + 1, id)  PROVE GoneAfter(r, i, id)
    <3>1. PICK j \in ((i + 1) + 1)..Len(q) : q[j].kind = "construction" /\ id \in q[j].del
      BY <2>2 DEF GoneAfter
    <3>2. /\ j - 1 \in (i + 1)..Len(r) /\ j - 1 \in 1..Len(r) /\ (j - 1) + 1 = j
      BY <1>1
    <3>3. r[j - 1] = q[j]  BY <1>1, <3>2
    <3> QED  BY <3>1, <3>2, <3>3 DEF GoneAfter
  <2> QED  BY <2>1, <2>2
<1>3. GoneAfter(q, 0, id) <=> GoneAfter(q, 1, id) \/ hit
  <2>1. \A j \in (0 + 1)..Len(q) : j = 1 \/ j \in (1 + 1)..Len(q)  BY <1>1
  <2>2. 1 \in (0 + 1)..Len(q) /\ (1 + 1)..Len(q) \subseteq (0 + 1)..Len(q)  BY <1>1
  <2>3. ASSUME GoneAfter(q, 0, id)  PROVE GoneAfter(q, 1, id) \/ hit
    BY <1>1, <2>1, <2>3 DEF GoneAfter
  <2>4. ASSUME GoneAfter(q, 1, id)  PROVE GoneAfter(q, 0, id)
    BY <2>2, <2>4 DEF GoneAfter
  <2>5. ASSUME hit  PROVE GoneAfter(q, 0, id)
    BY <1>1, <2>2, <2>5 DEF GoneAfter
  <2> QED  BY <2>3, <2>4, <2>5
<1> DEFINE in(x, i) == x[i].kind = "construction" /\ id \in x[i].new /\ ~GoneAfter(x, i, id)
<1>4. \A i \in 1..Len(r) : in(r, i) <=> in(q, i + 1)  BY <1>1, <1>2
<1>5. (\E i \in 1..Len(q) : in(q, i)) <=> in(q, 1) \/ \E i \in 1..Len(r) : in(r, i)
  <2> HIDE DEF in
  <2>1. \A i \in 1..Len(q) : i = 1 \/ (i - 1 \in 1..Len(r) /\ (i - 1) + 1 = i)  BY <1>1
  <2>2. \A i \in 1..Len(r) : i + 1 \in 1..Len(q)  BY <1>1
  <2>3. 1 \in 1..Len(q)  BY <1>1
  <2>4. ASSUME NEW i \in 1..Len(q), in(q, i)
        PROVE  in(q, 1) \/ \E k \in 1..Len(r) : in(r, k)
    <3>1. CASE i = 1  BY <2>4, <3>1
    <3>2. CASE i # 1
      <4>1. PICK k : k = i - 1  OBVIOUS
      <4>2. k \in 1..Len(r) /\ k + 1 = i  BY <2>1, <3>2, <4>1
      <4>3. in(q, k + 1)  BY <2>4, <4>2
      <4>4. in(r, k)  BY <1>4, <4>2, <4>3
      <4> QED  BY <4>2, <4>4
    <3> QED  BY <3>1, <3>2
  <2>5. ASSUME NEW k \in 1..Len(r), in(r, k)  PROVE \E i \in 1..Len(q) : in(q, i)
    <3>1. in(q, k + 1)  BY <1>4, <2>5
    <3> QED  BY <2>2, <3>1
  <2> QED  BY <2>3, <2>4, <2>5
<1>6. in(q, 1) <=> m.kind = "construction" /\ id \in m.new /\ ~GoneAfter(q, 1, id)
  BY <1>1
<1>7. Lasts(R, q, id) <=> (id \in R /\ ~GoneAfter(q, 0, id)) \/ \E i \in 1..Len(q) : in(q, i)
  BY DEF Lasts
<1>8. Lasts(T, r, id) <=> (id \in T /\ ~GoneAfter(r, 0, id)) \/ \E i \in 1..Len(r) : in(r, i)
  BY DEF Lasts
<1>9. GoneAfter(r, 0, id) <=> GoneAfter(q, 1, id)
  <2>1. 0 \in 0..Len(r) /\ 0 + 1 = 1  BY <1>1
  <2> QED  BY <1>2, <2>1
<1> HIDE DEF in
<1> QED  BY <1>0, <1>3, <1>5, <1>6, <1>7, <1>8, <1>9 DEF r

\* One answer of several is handled.
LEMMA LastsAssigned ==
    ASSUME NEW S, NEW q \in Seq(S), q # << >>, Head(q).kind = "assigned",
           NEW ids, Assigned(ids) \in S, NEW R, NEW id
    PROVE  Lasts(R, Assign(ids) \o Tail(q), id) <=> Lasts(R, q, id)
<1>1. Tail(q) \in Seq(S)  BY TailAt
<1>2. Lasts(R, Tail(q), id) <=> Lasts(R, q, id)
  BY LastsTail
<1>3. CASE ids = {}
  <2>1. Assign(ids) \o Tail(q) = Tail(q)  BY <1>1, <1>3, ConcatEmptySeq DEF Assign
  <2> QED  BY <1>2, <2>1
<1>4. CASE ids # {}
  <2> DEFINE t == Tail(q)
             a == Assigned(ids)
             s == <<a>>
             r == s \o t
  <2>1. Assign(ids) \o Tail(q) = r  BY <1>4 DEF Assign
  <2>2. s \in Seq(S) /\ t \in Seq(S) /\ Len(s) = 1 /\ s[1] = a /\ Head(s) = a
        /\ Tail(s) = << >> /\ s # << >>
    BY <1>1
  <2>3. a.kind = "assigned"  BY DEF Assigned
  <2>4. r \in Seq(S) /\ r # << >> /\ Head(r) = a /\ Tail(r) = t
    <3> HIDE DEF a, t, s
    <3>1. r \in Seq(S) /\ Len(r) = Len(s) + Len(t) /\ Len(t) \in Nat
      BY <2>2, ConcatProperties, LenProperties
    <3>2. r # << >>  BY <2>2, <3>1, EmptySeq
    <3>3. \A j \in 1..Len(r) : r[j] = IF j <= 1 THEN a ELSE t[j - 1]
      <4>1. \A j \in 1..(Len(s) + Len(t)) :
               (s \o t)[j] = IF j <= Len(s) THEN s[j] ELSE t[j - Len(s)]
        BY <2>2, ConcatProperties
      <4>2. \A j \in 1..Len(r) : j <= 1 => j = 1  BY <3>1
      <4> QED  BY <2>2, <3>1, <4>1, <4>2 DEF r
    <3>4. /\ Tail(r) \in Seq(S) /\ Len(Tail(r)) = Len(t) /\ Head(r) = a
          /\ \A j \in 1..Len(t) : Tail(r)[j] = t[j]
      <4>1. /\ Tail(r) \in Seq(S) /\ Len(Tail(r)) = Len(r) - 1
            /\ \A j \in 1..(Len(r) - 1) : Tail(r)[j] = r[j + 1]
            /\ Head(r) = r[1]
        BY <3>1, <3>2, TailAt
      <4>2. \A j \in 1..Len(t) : j + 1 \in 1..Len(r) /\ ~(j + 1 <= 1) /\ (j + 1) - 1 = j
        BY <2>2, <3>1
      <4>3. 1 \in 1..Len(r) /\ Len(r) - 1 = Len(t)  BY <2>2, <3>1
      <4> QED  BY <3>3, <4>1, <4>2, <4>3
    <3>5. Tail(r) = t  BY <2>2, <3>4, SeqEqual
    <3> QED  BY <3>1, <3>2, <3>4, <3>5
  <2> HIDE DEF r, t, a, s
  <2>5. Lasts(R, Tail(r), id) <=> Lasts(R, r, id)  BY <2>3, <2>4, LastsTail
  <2> QED  BY <1>2, <2>1, <2>4, <2>5 DEF t
<1> QED  BY <1>3, <1>4

---------------------------------------------------------------------------
(* The server's lists account for every replica.                           *)

\* A connection of the server accounts for every replica of another client,
\* as constructed or as queued, and for nothing else; there is none without
\* the process, and no list without a connection.
ListsOfServer(d) ==
    /\ srvConn[d] = "none" => srvHas[d] = {} /\ srvQuery[d] = {}
    /\ srvConn[d] # "none" => srv \cap Foreign(d) \subseteq srvQuery[d] \cup srvHas[d]
    /\ srvHas[d] \subseteq srv /\ srvQuery[d] \subseteq srv
Accounts ==
    /\ ~up => srv = {} /\ \A d \in Clients : srvConn[d] = "none"
    /\ \A d \in Clients : ListsOfServer(d)

\* Update moves ids from one list to the other.
LEMMA UpdateMoves ==
    ASSUME NEW d \in Clients, ListsOfServer(d)
    PROVE  /\ SHasNow(d) \cup SQueryNow(d) = srvHas[d] \cup srvQuery[d]
           /\ srvHas[d] \subseteq SHasNow(d)
           /\ SHasNow(d) \subseteq srv /\ SQueryNow(d) \subseteq srv
           /\ srvConn[d] = "none" => SHasNow(d) = {} /\ SQueryNow(d) = {} /\ SFlush(d) = {}
           /\ SFlush(d) \subseteq srv
BY DEF ListsOfServer, SHasNow, SQueryNow, SFlush

\* The server's part is left alone.
LEMMA AccountsSame ==
    ASSUME Accounts, UNCHANGED serverVars
    PROVE  Accounts'
BY DEF Accounts, ListsOfServer, serverVars, Foreign, OwnerOf, Ids

\* ServerUpdate keeps Accounts.
LEMMA ServerUpdateAccounts ==
    ASSUME IInv, Accounts, ServerUpdate
    PROVE  Accounts'
<1>1. up /\ up' = up /\ UNCHANGED <<srv, srvConn>>  BY DEF ServerUpdate
<1>2. ASSUME NEW d \in Clients  PROVE ListsOfServer(d)'
  <2>1. ListsOfServer(d)  BY DEF Accounts
  <2>2. srvHas'[d] = SHasNow(d) /\ srvQuery'[d] = SQueryNow(d)  BY DEF ServerUpdate
  <2> QED  BY <1>1, <2>1, <2>2, UpdateMoves DEF ListsOfServer, Foreign, OwnerOf
<1> QED  BY <1>1, <1>2 DEF Accounts

\* ServerOnIncoming keeps Accounts.
LEMMA ServerOnIncomingAccounts ==
    ASSUME IInv, Accounts, NEW c \in Clients, NEW i, ServerOnIncoming(c, i)
    PROVE  Accounts'
<1>1. up /\ up' = up /\ srv' = srv  BY DEF ServerOnIncoming, Reaching
<1>2. ASSUME NEW d \in Clients  PROVE ListsOfServer(d)'
  <2>1. ListsOfServer(d)  BY DEF Accounts
  <2>2. CASE srvConn[c] = "none" /\ d = c
    <3>1. srvHas'[d] = {} /\ srvQuery'[d] = srv
      BY <2>2 DEF ServerOnIncoming, Referenced
    <3>2. srvConn'[d] = "pushed"  BY <2>2 DEF ServerOnIncoming, IInv, ServerInv
    <3> QED  BY <1>1, <3>1, <3>2 DEF ListsOfServer
  <2>3. CASE ~(srvConn[c] = "none" /\ d = c)
    <3>1. srvHas'[d] = SHasNow(d) /\ srvQuery'[d] = SQueryNow(d)
      BY <2>3 DEF ServerOnIncoming
    <3>2. srvConn'[d] = srvConn[d]  BY <2>3 DEF ServerOnIncoming, IInv, ServerInv
    <3> QED  BY <1>1, <2>1, <3>1, <3>2, UpdateMoves DEF ListsOfServer, Foreign, OwnerOf
  <2> QED  BY <2>2, <2>3
<1> QED  BY <1>1, <1>2 DEF Accounts

\* ServerOnScope keeps Accounts.
LEMMA ServerOnScopeAccounts ==
    ASSUME IInv, Accounts, NEW c \in Clients, NEW i, ServerOnScope(c, i)
    PROVE  Accounts'
<1>1. up /\ up' = up /\ srv' = srv  BY DEF ServerOnScope, Reaching
<1>2. ASSUME NEW d \in Clients  PROVE ListsOfServer(d)'
  <2>1. ListsOfServer(d)  BY DEF Accounts
  <2>2. srvHas'[d] = SHasNow(d) /\ srvQuery'[d] = SQueryNow(d)  BY DEF ServerOnScope
  <2>3. srvConn'[d] = "none" <=> srvConn[d] = "none"
    BY DEF ServerOnScope, IInv, ServerInv
  <2> QED  BY <1>1, <2>1, <2>2, <2>3, UpdateMoves DEF ListsOfServer, Foreign, OwnerOf
<1> QED  BY <1>1, <1>2 DEF Accounts

\* ServerOnConstruction keeps Accounts.
LEMMA ServerOnConstructionAccounts ==
    ASSUME Sane, Accounts, NEW c \in Clients, NEW i, ServerOnConstruction(c, i)
    PROVE  Accounts'
<1>0. IInv /\ Reaching(c, i, "construction")  BY DEF Sane, ServerOnConstruction
<1>1. up /\ up' = up /\ srvConn' = srvConn  BY DEF ServerOnConstruction, Reaching
<1> DEFINE m == toSrv[c][i]
<1>2. m \in FromClient(c) /\ m.kind = "construction"  BY <1>0, Handles
<1>3. CASE srvConn[c] = "none"
  <2>1. ASSUME NEW d \in Clients  PROVE ListsOfServer(d)'
    <3>1. ListsOfServer(d)  BY DEF Accounts
    <3>2. srvHas'[d] = SHasNow(d) /\ srvQuery'[d] = SQueryNow(d) /\ srv' = srv
      BY <1>3 DEF ServerOnConstruction
    <3> QED  BY <1>1, <3>1, <3>2, UpdateMoves DEF ListsOfServer, Foreign, OwnerOf
  <2> QED  BY <1>1, <2>1 DEF Accounts
<1>4. CASE srvConn[c] # "none"
  <2>1. /\ srv' = (srv \cup Created(m)) \ Doomed(m)
        /\ srvHas' = [d \in Clients |-> HasThen(c, m, d) \ Doomed(m)]
        /\ srvQuery' = [d \in Clients |-> QueryThen(c, m, d) \ Doomed(m)]
    BY <1>4, ConstructionIs
  <2> HIDE DEF m
  <2>2. /\ \A id \in Created(m) : OwnerOf(id) = c
        /\ \A id \in Existing(m) : OwnerOf(id) = c
        /\ Existing(m) \subseteq srv
    BY <1>0, <1>2, ConstructionHolds DEF Existing
  <2>3. ASSUME NEW d \in Clients  PROVE ListsOfServer(d)'
    <3>1. ListsOfServer(d)  BY DEF Accounts
    <3>2. /\ srvHas'[d] = HasThen(c, m, d) \ Doomed(m)
          /\ srvQuery'[d] = QueryThen(c, m, d) \ Doomed(m)
      BY <2>1
    <3>3. /\ SHasNow(d) \cup SQueryNow(d) = srvHas[d] \cup srvQuery[d]
          /\ SHasNow(d) \subseteq srv /\ SQueryNow(d) \subseteq srv
          /\ srvConn[d] = "none" => SHasNow(d) = {} /\ SQueryNow(d) = {}
      BY <3>1, UpdateMoves
    <3>4. HasThen(c, m, d) \subseteq srv \cup Created(m)
      BY <2>2, <3>3 DEF HasThen
    <3>5. QueryThen(c, m, d) \subseteq srv \cup Created(m)
      BY <3>3 DEF QueryThen
    <3>6. srvConn[d] = "none" => HasThen(c, m, d) = {} /\ QueryThen(c, m, d) = {}
      <4>1. srvConn[d] = "none" => d # c /\ d \notin Pushed  BY <1>4 DEF Pushed
      <4> QED  BY <3>3, <4>1 DEF HasThen, QueryThen
    <3>7. ASSUME srvConn[d] # "none", NEW id \in (srv \cup Created(m)) \cap Foreign(d)
          PROVE  id \in HasThen(c, m, d) \cup QueryThen(c, m, d)
      <4>1. CASE d = c
        <5>1. id \notin Created(m) /\ id \notin Existing(m)
          BY <2>2, <3>7, <4>1 DEF Foreign
        <5>2. id \in SHasNow(d) \cup SQueryNow(d)
          BY <3>1, <3>3, <3>7, <5>1 DEF ListsOfServer
        <5> QED  BY <4>1, <5>1, <5>2 DEF HasThen, QueryThen
      <4>2. CASE d # c
        <5>1. d \in Pushed  BY <3>7 DEF Pushed
        <5>2. id \in srv => id \in SHasNow(d) \cup SQueryNow(d)
          BY <3>1, <3>3, <3>7 DEF ListsOfServer
        <5> QED  BY <3>7, <4>2, <5>1, <5>2 DEF HasThen, QueryThen
      <4> QED  BY <4>1, <4>2
    <3>8. Foreign(d)' = Foreign(d)  BY DEF Foreign, OwnerOf
    <3> QED  BY <1>1, <2>1, <3>2, <3>4, <3>5, <3>6, <3>7, <3>8 DEF ListsOfServer
  <2> QED  BY <1>1, <2>3 DEF Accounts
<1> QED  BY <1>3, <1>4

\* ServerOnClosed keeps Accounts.
LEMMA ServerOnClosedAccounts ==
    ASSUME IInv, Accounts, NEW c \in Clients, NEW i, ServerOnClosed(c, i)
    PROVE  Accounts'
<1>1. up /\ up' = up  BY DEF ServerOnClosed, Reaching
<1> DEFINE dropped == IF srvConn[c] = "none" THEN {} ELSE CreatedBy(c)
<1>2. /\ srv' = srv \ dropped /\ srvConn' = [srvConn EXCEPT ![c] = "none"]
      /\ \A d \in Clients : d # c => /\ srvHas'[d] = SHasNow(d) \ dropped
                                     /\ srvQuery'[d] = SQueryNow(d) \ dropped
      /\ srvHas'[c] = {} /\ srvQuery'[c] = {}
  BY DEF ServerOnClosed, Dereference
<1> HIDE DEF dropped
<1>3. ASSUME NEW d \in Clients  PROVE ListsOfServer(d)'
  <2>1. ListsOfServer(d)  BY DEF Accounts
  <2>2. CASE d = c
    <3>1. srvConn'[d] = "none"  BY <1>2, <2>2 DEF IInv, ServerInv
    <3> QED  BY <1>2, <2>2, <3>1 DEF ListsOfServer
  <2>3. CASE d # c
    <3>1. srvConn'[d] = srvConn[d]  BY <1>2, <2>3 DEF IInv, ServerInv
    <3>2. /\ SHasNow(d) \cup SQueryNow(d) = srvHas[d] \cup srvQuery[d]
          /\ SHasNow(d) \subseteq srv /\ SQueryNow(d) \subseteq srv
          /\ srvConn[d] = "none" => SHasNow(d) = {} /\ SQueryNow(d) = {}
      BY <2>1, UpdateMoves
    <3>3. srvHas'[d] = SHasNow(d) \ dropped /\ srvQuery'[d] = SQueryNow(d) \ dropped
      BY <1>2, <2>3
    <3>4. Foreign(d)' = Foreign(d)  BY DEF Foreign, OwnerOf
    <3> QED  BY <1>2, <2>1, <3>1, <3>2, <3>3, <3>4 DEF ListsOfServer
  <2> QED  BY <2>2, <2>3
<1> QED  BY <1>1, <1>3 DEF Accounts

\* ServerReceive keeps Accounts.
LEMMA ServerReceiveAccounts ==
    ASSUME Sane, Accounts, ServerReceive
    PROVE  Accounts'
<1>1. IInv  BY DEF Sane
<1> QED
  BY <1>1, ServerUpdateAccounts, ServerOnIncomingAccounts, ServerOnScopeAccounts,
     ServerOnConstructionAccounts, ServerOnClosedAccounts DEF ServerReceive

\* Accounts at the start.
LEMMA InitAccounts == Init => Accounts
BY DEF Init, Accounts, ListsOfServer

\* Accounts over every step.
LEMMA NextAccounts == Sane /\ Accounts /\ [Next]_vars => Accounts'
<1> SUFFICES ASSUME Sane, Accounts, [Next]_vars  PROVE Accounts'
  OBVIOUS
<1>1. ASSUME NEW n \in Nodes, AddNode(n) \/ RemoveNode(n)
      PROVE  Accounts'
  BY <1>1, AccountsSame DEF AddNode, RemoveNode
<1>2. ASSUME NEW c \in Clients, StartClient(c) \/ RemoveAllNodes(c) \/ Stop(c)
      PROVE  Accounts'
  BY <1>2, AccountsSame DEF StartClient, RemoveAllNodes, Stop
<1>3. ASSUME NEW c \in Clients, ClientReceive(c)
      PROVE  Accounts'
  BY <1>3, AccountsSame, ReceiveElsewhere DEF Sane
<1>4. ASSUME NEW c \in Clients, Establish(c) \/ ConnectFails(c) \/ Break(c)
      PROVE  Accounts'
  BY <1>4, AccountsSame DEF Establish, ConnectFails, Break
<1>5. CASE ServerReceive  BY <1>5, ServerReceiveAccounts
<1>6. CASE ServerQuit \/ ServerCrash
  <2>1. /\ srv' = {} /\ \A d \in Clients : srvConn'[d] = "none"
        /\ \A d \in Clients : srvHas'[d] = {} /\ srvQuery'[d] = {}
    BY <1>6 DEF ServerQuit, ServerCrash
  <2> QED  BY <2>1 DEF Accounts, ListsOfServer
<1>7. CASE UNCHANGED vars
  <2>1. UNCHANGED serverVars  BY <1>7 DEF vars, serverVars
  <2> QED  BY <2>1, AccountsSame
<1> QED  BY <1>1, <1>2, <1>3, <1>4, <1>5, <1>6, <1>7 DEF Next

---------------------------------------------------------------------------
(* What the server believes of a client, step by step.                     *)

\* The same in the next state.
LEMMA BecomesIsNext ==
    ASSUME IInv', NEW d \in Clients, NEW id
    PROVE  id \in Becomes(d)' <=> Lasts(copies'[d], toCli'[d], id)
<1> DEFINE q == toCli'[d]
<1>1. q \in Seq(ToClient(d)')  BY DEF IInv, ToCliInv
<1>2. DOMAIN q = 1..Len(q)  BY <1>1, LenProperties
<1>3. id \in Becomes(d)' <=>
         \/ id \in copies'[d] /\ ~GoneAfter(q, 0, id)
         \/ \E i \in DOMAIN q : /\ q[i].kind = "construction" /\ id \in q[i].new
                                /\ ~GoneAfter(q, i, id)
  BY DEF Becomes, GoneAfter
<1> QED  BY <1>2, <1>3 DEF Lasts

\* No end or beginning of a connection is in a queue.
Plain(q) == \A i \in 1..Len(q) : q[i].kind \notin {"lost", "bye", "incoming"}

\* A client has joined when the server has heard it, and nothing of an end.
LEMMA JoinedIs ==
    ASSUME IInv, NEW c \in Clients
    PROVE  Joined(c) <=> wire[c] /\ srvConn[c] # "none" /\ Plain(toSrv[c])
<1>1. DOMAIN toSrv[c] = 1..Len(toSrv[c])  BY LenProperties DEF IInv, ToSrvInv
<1> QED  BY <1>1 DEF Joined, Plain

\* The same in the next state.
LEMMA JoinedIsNext ==
    ASSUME IInv', NEW c \in Clients
    PROVE  Joined(c)' <=> wire'[c] /\ srvConn'[c] # "none" /\ Plain(toSrv'[c])
<1>1. DOMAIN toSrv'[c] = 1..Len(toSrv'[c])  BY LenProperties DEF IInv, ToSrvInv
<1> QED  BY <1>1 DEF Joined, Plain

\* A plain queue was plain before something was sent.
LEMMA PlainSend ==
    ASSUME NEW S, NEW q \in Seq(S), NEW p \in Seq(S), NEW c, Plain(Send(c, q, p))
    PROVE  Plain(q)
<1>1. CASE Send(c, q, p) = q  BY <1>1
<1>2. CASE Send(c, q, p) = q \o p
  <2>1. /\ Len(q) \in Nat /\ Len(p) \in Nat /\ Len(q \o p) = Len(q) + Len(p)
        /\ \A i \in 1..(Len(q) + Len(p)) :
              (q \o p)[i] = IF i <= Len(q) THEN q[i] ELSE p[i - Len(q)]
    BY ConcatProperties, LenProperties
  <2> DEFINE r == q \o p
  <2>2. Plain(r) /\ Len(r) = Len(q) + Len(p) /\ \A i \in 1..Len(q) : r[i] = q[i]
    BY <1>2, <2>1
  <2> HIDE DEF r
  <2> QED  BY <2>1, <2>2 DEF Plain
<1> QED  BY <1>1, <1>2 DEF Send

\* A queue that is plain without a scope or construction packet was plain with it.
LEMMA PlainTake ==
    ASSUME NEW S, NEW q \in Seq(S), NEW i \in 1..Len(q), Plain(Without(q, i)),
           q[i].kind \in {"scope", "construction"}
    PROVE  Plain(q)
<1> DEFINE r == Without(q, i)
<1>1. /\ Len(q) \in Nat /\ Len(r) = Len(q) - 1
      /\ \A j \in 1..Len(r) : r[j] = IF j < i THEN q[j] ELSE q[j + 1]
  BY WithoutAt, LenProperties
<1> HIDE DEF r
<1> SUFFICES ASSUME NEW j \in 1..Len(q), q[j].kind \in {"lost", "bye", "incoming"}
             PROVE  FALSE
  BY DEF Plain
<1>2. Plain(r)  BY DEF r
<1>3. CASE j < i
  <2>1. j \in 1..Len(r) /\ r[j] = q[j]  BY <1>1, <1>3
  <2> QED  BY <1>2, <2>1 DEF Plain
<1>4. CASE j > i
  <2>1. j - 1 \in 1..Len(r) /\ ~(j - 1 < i) /\ (j - 1) + 1 = j  BY <1>1, <1>4
  <2>2. r[j - 1] = q[j]  BY <1>1, <2>1
  <2> QED  BY <1>2, <2>1, <2>2 DEF Plain
<1> QED  BY <1>1, <1>3, <1>4

\* Constructions and destructions sent.
LEMMA LastsSent ==
    ASSUME NEW d \in Clients, NEW q \in Seq(ToClient(d)), NEW R, NEW id
    PROVE  /\ \A new \in SUBSET Foreign(d) :
                 /\ q \o Construct(new) \in Seq(ToClient(d))
                 /\ Lasts(R, q \o Construct(new), id) <=> id \in new \/ Lasts(R, q, id)
           /\ \A del \in SUBSET Ids :
                 /\ q \o Destruct(del) \in Seq(ToClient(d))
                 /\ Lasts(R, q \o Destruct(del), id) <=> Lasts(R, q, id) /\ id \notin del
           /\ \A m \in ToClient(d) : m.kind # "construction" =>
                 /\ q \o <<m>> \in Seq(ToClient(d))
                 /\ Lasts(R, q \o <<m>>, id) <=> Lasts(R, q, id)
<1>1. q \o << >> = q  BY ConcatEmptySeq
<1>2. \A m \in ToClient(d) : q \o <<m>> = Append(q, m) /\ Append(q, m) \in Seq(ToClient(d))
  BY AppendIsConcat, AppendProperties
<1>3. ASSUME NEW new \in SUBSET Foreign(d)
      PROVE  /\ q \o Construct(new) \in Seq(ToClient(d))
             /\ Lasts(R, q \o Construct(new), id) <=> id \in new \/ Lasts(R, q, id)
  <2>1. CASE new = {}  BY <1>1, <2>1 DEF Construct
  <2>2. CASE new # {}
    <3> DEFINE m == Construction(new, {})
    <3>1. m \in ToClient(d) /\ m.kind = "construction" /\ m.new = new /\ m.del = {}
      BY DEF ToClient, Construction
    <3>2. Construct(new) = <<m>>  BY <2>2 DEF Construct
    <3> HIDE DEF m
    <3>3. Lasts(R, Append(q, m), id) <=> id \in m.new \/ (Lasts(R, q, id) /\ id \notin m.del)
      BY <3>1, LastsAppend
    <3> QED  BY <1>2, <3>1, <3>2, <3>3
  <2> QED  BY <2>1, <2>2
<1>4. ASSUME NEW del \in SUBSET Ids
      PROVE  /\ q \o Destruct(del) \in Seq(ToClient(d))
             /\ Lasts(R, q \o Destruct(del), id) <=> Lasts(R, q, id) /\ id \notin del
  <2>1. CASE del = {}  BY <1>1, <2>1 DEF Destruct
  <2>2. CASE del # {}
    <3> DEFINE m == Construction({}, del)
    <3>1. m \in ToClient(d) /\ m.kind = "construction" /\ m.new = {} /\ m.del = del
      BY DEF ToClient, Construction
    <3>2. Destruct(del) = <<m>>  BY <2>2 DEF Destruct
    <3> HIDE DEF m
    <3>3. Lasts(R, Append(q, m), id) <=> id \in m.new \/ (Lasts(R, q, id) /\ id \notin m.del)
      BY <3>1, LastsAppend
    <3> QED  BY <1>2, <3>1, <3>2, <3>3
  <2> QED  BY <2>1, <2>2
<1>5. ASSUME NEW m \in ToClient(d), m.kind # "construction"
      PROVE  /\ q \o <<m>> \in Seq(ToClient(d))
             /\ Lasts(R, q \o <<m>>, id) <=> Lasts(R, q, id)
  <2>1. Lasts(R, Append(q, m), id) <=> Lasts(R, q, id)  BY <1>5, LastsAppend
  <2> QED  BY <1>2, <2>1
<1> QED  BY <1>3, <1>4, <1>5

\* A delivery to a client that is reached: what Update constructs on it is
\* added, and what the handler destroys on it goes.
Tells(d, x, gone) ==
    \/ gone = {} /\ (x = << >> \/ \E m \in ToClient(d) : m.kind # "construction" /\ x = <<m>>)
    \/ x = Destruct(gone)
    \/ x = Destruct(gone) \o Destruct(gone)

\* What a client will have after the server has sent it a packet.
LEMMA DeliverBecomes ==
    ASSUME IInv, IInv', NEW d \in Clients, wire[d], up, copies'[d] = copies[d],
           NEW gone \in SUBSET Ids, NEW x, Tells(d, x, gone),
           toCli'[d] = Send(d, toCli[d], SPacket(d) \o x), NEW id
    PROVE  id \in Becomes(d)' <=> (id \in Becomes(d) \/ id \in SFlush(d)) /\ id \notin gone
<1> DEFINE q == toCli[d]
           r == q \o SPacket(d)
           R == copies[d]
           S == ToClient(d)
<1>1. q \in Seq(S) /\ SFlush(d) \in SUBSET Foreign(d)
  BY DEF IInv, ToCliInv, ServerInv, SFlush
<1>2. toCli'[d] = q \o (SPacket(d) \o x)  BY DEF Send
<1>3. /\ id \in Becomes(d) <=> Lasts(R, q, id)
      /\ id \in Becomes(d)' <=> Lasts(R, toCli'[d], id)
  BY BecomesIs, BecomesIsNext
<1>4. /\ r \in Seq(S) /\ SPacket(d) \in Seq(S)
      /\ Lasts(R, r, id) <=> id \in SFlush(d) \/ Lasts(R, q, id)
  <2>1. SPacket(d) \in Seq(S)  BY SPacketTyped DEF IInv
  <2>2. /\ q \o Construct(SFlush(d)) \in Seq(S)
        /\ Lasts(R, q \o Construct(SFlush(d)), id) <=> id \in SFlush(d) \/ Lasts(R, q, id)
    BY <1>1, LastsSent
  <2> QED  BY <2>1, <2>2 DEF SPacket
<1> HIDE DEF q, r, R
<1>5. << >> \in Seq(S) /\ \A m \in S : <<m>> \in Seq(S)  BY EmptySeq
<1>6. Destruct(gone) \in Seq(S) /\ Destruct(gone) \o Destruct(gone) \in Seq(S)
  <2>1. Destruct(gone) \in Seq(S)
    BY <1>5 DEF Destruct, Construction, ToClient
  <2> QED  BY <2>1, ConcatProperties
<1>7. x \in Seq(S)  BY <1>5, <1>6 DEF Tells
<1>8. toCli'[d] = r \o x
  <2>1. (q \o SPacket(d)) \o x = q \o (SPacket(d) \o x)
    BY <1>1, <1>4, <1>7, ConcatAssociative
  <2> QED  BY <1>2, <2>1 DEF r
<1>9. Lasts(R, r \o x, id) <=> Lasts(R, r, id) /\ id \notin gone
  <2>1. CASE gone = {} /\ x = << >>
    <3>1. r \o << >> = r  BY <1>4, ConcatEmptySeq
    <3> QED  BY <2>1, <3>1
  <2>2. CASE gone = {} /\ \E m \in S : m.kind # "construction" /\ x = <<m>>
    <3>1. PICK m \in S : m.kind # "construction" /\ x = <<m>>  BY <2>2
    <3>2. Lasts(R, r \o <<m>>, id) <=> Lasts(R, r, id)  BY <1>4, <3>1, LastsSent
    <3> QED  BY <2>2, <3>1, <3>2
  <2>3. /\ r \o Destruct(gone) \in Seq(S)
        /\ Lasts(R, r \o Destruct(gone), id) <=> Lasts(R, r, id) /\ id \notin gone
    BY <1>4, LastsSent
  <2>4. CASE x = Destruct(gone)  BY <2>3, <2>4
  <2>5. CASE x = Destruct(gone) \o Destruct(gone)
    <3> DEFINE t == r \o Destruct(gone)
    <3>1. t \in Seq(S)  BY <2>3
    <3>2. r \o x = t \o Destruct(gone)
      BY <1>4, <1>6, <2>5, ConcatAssociative
    <3> HIDE DEF t
    <3>3. Lasts(R, t \o Destruct(gone), id) <=> Lasts(R, t, id) /\ id \notin gone
      BY <3>1, LastsSent
    <3> QED  BY <2>3, <3>2, <3>3 DEF t
  <2> QED  BY <2>1, <2>2, <2>4, <2>5 DEF Tells
<1> QED  BY <1>3, <1>4, <1>8, <1>9

\* A step of the server on a connection that was joined: what the client's
\* copies become and what the server takes them to be change alike.
Revised(d) ==
    \E gone \in SUBSET Ids :
        /\ \A id \in Foreign(d) : id \in Becomes(d)' <=>
              (id \in Becomes(d) \/ id \in SFlush(d)) /\ ~(id \in gone /\ id \in SHasNow(d))
        /\ \A id \in Foreign(d) : id \in srvHas'[d] <=> id \in SHasNow(d) /\ id \notin gone

\* Ids of a client's own nodes make no difference to it.
LEMMA RevisedBy ==
    ASSUME IInv, IInv', NEW d \in Clients, wire[d], up, copies'[d] = copies[d],
           NEW gone \in SUBSET Ids, NEW x, Tells(d, x, gone \cap SHasNow(d)),
           toCli'[d] = Send(d, toCli[d], SPacket(d) \o x),
           srvHas'[d] \cap Foreign(d) = (SHasNow(d) \ gone) \cap Foreign(d)
    PROVE  Revised(d)
<1>1. gone \cap SHasNow(d) \in SUBSET Ids  OBVIOUS
<1>2. \A id : id \in Becomes(d)' <=>
         (id \in Becomes(d) \/ id \in SFlush(d)) /\ id \notin gone \cap SHasNow(d)
  BY <1>1, DeliverBecomes
<1>3. \A id \in Foreign(d) : id \in srvHas'[d] <=> id \in SHasNow(d) /\ id \notin gone
  OBVIOUS
<1> QED  BY <1>2, <1>3 DEF Revised

\* The server takes up a connection, or what it does to one it has is told.
Fresh(d) ==
    srvConn[d] = "none" /\ srvHas'[d] = {} /\ toCli'[d] = Send(d, toCli[d], <<Scope>>)

\* An answer with no construction destroys nothing.
LEMMA TellsNothing ==
    ASSUME NEW d \in Clients, NEW x, x = << >> \/ x = <<Scope>>
    PROVE  Tells(d, x, {})
BY DEF Tells, ToClient, Scope

\* A client that is sent only what was waiting is accounted for.
LEMMA NothingRevised ==
    ASSUME IInv, IInv', NEW d \in Clients, wire[d], up, copies'[d] = copies[d],
           NEW x, x = << >> \/ x = <<Scope>>,
           toCli'[d] = Send(d, toCli[d], SPacket(d) \o x), srvHas'[d] = SHasNow(d)
    PROVE  Revised(d)
<1>1. {} \in SUBSET Ids /\ {} \cap SHasNow(d) = {}  OBVIOUS
<1>2. Tells(d, x, {} \cap SHasNow(d))  BY <1>1, TellsNothing
<1> QED  BY <1>1, <1>2, RevisedBy

\* After an update of the server, each client that has joined is accounted for.
LEMMA UpdateRevises ==
    ASSUME Sane, IInv', ServerUpdate, NEW d \in Clients, Joined(d)'
    PROVE  Joined(d) /\ Revised(d)
<1>1. /\ IInv /\ up /\ UNCHANGED <<clientVars, srvConn, wire, toSrv>>
      /\ srvHas'[d] = SHasNow(d)
      /\ toCli'[d] = Send(d, toCli[d], SPacket(d) \o << >>)
  BY DEF Sane, ServerUpdate, Deliver, Nothing
<1>2. Joined(d)  BY <1>1 DEF Joined
<1>3. wire[d] /\ copies'[d] = copies[d]  BY <1>1, <1>2 DEF Joined, clientVars
<1> QED  BY <1>1, <1>2, <1>3, NothingRevised

\* A packet taken that is no end of a connection nor its beginning.
LEMMA JoinedBefore ==
    ASSUME Sane, IInv', NEW c \in Clients, NEW i, NEW kind \in {"scope", "construction"},
           Reaching(c, i, kind), Take(c, i), wire' = wire,
           \A d \in Clients : srvConn'[d] = "none" <=> srvConn[d] = "none",
           NEW d \in Clients, Joined(d)'
    PROVE  Joined(d)
<1>1. IInv  BY DEF Sane
<1>2. wire[d] /\ srvConn[d] # "none" /\ Plain(toSrv'[d])  BY JoinedIsNext
<1>3. Plain(toSrv[d])
  <2>1. CASE d = c
    <3>1. /\ i \in 1..Len(toSrv[c]) /\ toSrv[c][i].kind = kind
          /\ toSrv[c] \in Seq(Meant(c))
      BY Handles
    <3>2. toSrv'[c] = Without(toSrv[c], i)  BY <1>1 DEF Take, IInv, ToSrvInv
    <3> QED  BY <1>2, <2>1, <3>1, <3>2, PlainTake
  <2>2. CASE d # c
    <3>1. toSrv'[d] = toSrv[d]  BY <1>1, <2>2 DEF Take, IInv, ToSrvInv
    <3> QED  BY <1>2, <3>1
  <2> QED  BY <2>1, <2>2
<1> QED  BY <1>1, <1>2, <1>3, JoinedIs

\* So it is after the server has accepted a connection,
LEMMA IncomingRevises ==
    ASSUME Sane, OnceInv, IInv', NEW c \in Clients, NEW i, ServerOnIncoming(c, i),
           NEW d \in Clients, Joined(d)'
    PROVE  Fresh(d) \/ (Joined(d) /\ Revised(d))
<1>1. /\ IInv /\ up /\ UNCHANGED <<clientVars, up, wire>> /\ Take(c, i)
      /\ Reaching(c, i, "incoming")
  BY DEF Sane, ServerOnIncoming, Reaching
<1>2. wire[d]  BY <1>1, JoinedIsNext
<1>3. copies'[d] = copies[d]  BY <1>1 DEF clientVars
<1>4. CASE d = c /\ srvConn[c] = "none"
  <2>1. srvHas'[d] = {}  BY <1>4 DEF ServerOnIncoming
  <2>2. toCli'[d] = Send(d, toCli[d], SPacket(d) \o <<Scope>>)
    BY <1>4 DEF ServerOnIncoming, Deliver, Nothing
  <2>3. SPacket(d) = << >>  BY <1>4 DEF SPacket, Construct, SFlush
  <2>4. << >> \o <<Scope>> = <<Scope>>
    <3>1. <<Scope>> \in Seq({Scope})  OBVIOUS
    <3> QED  BY <3>1, ConcatEmptySeq
  <2> QED  BY <1>4, <2>1, <2>2, <2>3, <2>4 DEF Fresh
<1>5. CASE d = c /\ srvConn[c] # "none"
  <2>1. << >> \in Heard(c)  BY <1>5 DEF Heard
  <2>2. Says(toSrv[c][i]) = {<< >>}  BY <1>1 DEF Reaching, Says
  <2>3. Says(toSrv[c][i]) \cap Heard(c) = {}
    <3>1. Heard(c)' \subseteq Heard(c) \cup Says(toSrv[c][i])
      <4>1. CreatedBy(c)' = CreatedBy(c) /\ srvConn' = srvConn
        BY <1>5 DEF ServerOnIncoming, CreatedBy, OwnerOf
      <4> QED  BY <4>1 DEF Heard
    <3> QED  BY <1>1, <3>1, OnceTaken
  <2> QED  BY <2>1, <2>2, <2>3
<1>6. CASE d # c
  <2>1. srvHas'[d] = SHasNow(d) /\ srvConn'[d] = srvConn[d]
    BY <1>1, <1>6 DEF ServerOnIncoming, IInv, ServerInv
  <2>2. toCli'[d] = Send(d, toCli[d], SPacket(d) \o << >>)
    BY <1>6 DEF ServerOnIncoming, Deliver, Nothing
  <2>3. toSrv'[d] = toSrv[d]  BY <1>1, <1>6 DEF Take, IInv, ToSrvInv
  <2>4. Joined(d)  BY <1>1, <2>1, <2>3 DEF Joined
  <2> QED  BY <1>1, <1>2, <1>3, <2>1, <2>2, <2>4, NothingRevised
<1> QED  BY <1>4, <1>5, <1>6

\* after it has handled a scope packet,
LEMMA ScopeRevises ==
    ASSUME Sane, IInv', NEW c \in Clients, NEW i, ServerOnScope(c, i),
           NEW d \in Clients, Joined(d)'
    PROVE  Joined(d) /\ Revised(d)
<1>1. /\ IInv /\ up /\ UNCHANGED <<clientVars, up, wire>> /\ Take(c, i)
      /\ Reaching(c, i, "scope") /\ srvHas'[d] = SHasNow(d)
  BY DEF Sane, ServerOnScope, Reaching
<1>2. wire[d] /\ copies'[d] = copies[d]  BY <1>1, JoinedIsNext DEF clientVars
<1>3. \A e \in Clients : srvConn'[e] = "none" <=> srvConn[e] = "none"
  BY <1>1 DEF ServerOnScope, IInv, ServerInv
<1>4. Joined(d)  BY <1>1, <1>3, JoinedBefore
<1>5. \/ toCli'[d] = Send(d, toCli[d], SPacket(d) \o << >>)
      \/ toCli'[d] = Send(d, toCli[d], SPacket(d) \o <<Scope>>)
  BY DEF ServerOnScope, Deliver, Nothing
<1> QED  BY <1>1, <1>2, <1>4, <1>5, NothingRevised

\* after it has handled a construction packet,
LEMMA ConstructionRevises ==
    ASSUME Sane, IInv', NEW c \in Clients, NEW i, ServerOnConstruction(c, i),
           NEW d \in Clients, Joined(d)'
    PROVE  Joined(d) /\ Revised(d)
<1>1. /\ IInv /\ up /\ UNCHANGED <<clientVars, up, wire, srvConn>> /\ Take(c, i)
      /\ Reaching(c, i, "construction")
  BY DEF Sane, ServerOnConstruction, Reaching
<1>2. wire[d] /\ copies'[d] = copies[d]  BY <1>1, JoinedIsNext DEF clientVars
<1>3. Joined(d)  BY <1>1, JoinedBefore
<1>4. CASE srvConn[c] = "none"
  <2>1. srvHas'[d] = SHasNow(d) /\ toCli'[d] = Send(d, toCli[d], SPacket(d) \o << >>)
    BY <1>4 DEF ServerOnConstruction, Deliver, Nothing
  <2> QED  BY <1>1, <1>2, <1>3, <2>1, NothingRevised
<1>5. CASE srvConn[c] # "none"
  <2> DEFINE m == toSrv[c][i]
  <2>1. m \in Meant(c) /\ m \in FromClient(c) /\ m.kind = "construction"
    BY <1>1, Handles
  <2>2. /\ srvHas'[d] = HasThen(c, m, d) \ Doomed(m)
        /\ toCli'[d] = Send(d, toCli[d], SPacket(d) \o SentThen(c, m, d))
    BY <1>5, ConstructionIs
  <2> HIDE DEF m
  <2>3. /\ \A id \in Created(m) : OwnerOf(id) = c
        /\ \A id \in Existing(m) : OwnerOf(id) = c
        /\ Doomed(m) \subseteq Ids /\ Answered(m) \subseteq Ids
    BY <1>1, <2>1, ConstructionHolds
  <2>4. CASE d = c
    <3>1. \A id \in Doomed(m) : OwnerOf(id) = c
      <4>1. \A id \in Doomed(m) : id \in m.del /\ id # NoId
        BY <2>3 DEF Doomed, Ids, NoId
      <4> QED  BY <2>1, <4>1 DEF Meant
    <3>2. srvHas'[d] \cap Foreign(d) = (SHasNow(d) \ {}) \cap Foreign(d)
      BY <2>2, <2>3, <2>4, <3>1 DEF HasThen, Foreign
    <3>3. {} \in SUBSET Ids /\ {} \cap SHasNow(d) = {}  OBVIOUS
    <3>4. Tells(d, SentThen(c, m, d), {} \cap SHasNow(d))
      <4>1. CASE Answered(m) = {}
        <5>1. SentThen(c, m, d) = << >>  BY <2>4, <4>1 DEF SentThen, Assign
        <5> QED  BY <3>3, <5>1 DEF Tells
      <4>2. CASE Answered(m) # {}
        <5>1. SentThen(c, m, d) = <<Assigned(Answered(m))>>
          BY <2>4, <4>2 DEF SentThen, Assign
        <5>2. Assigned(Answered(m)) \in ToClient(d)
              /\ Assigned(Answered(m)).kind # "construction"
          BY <2>3 DEF ToClient, Assigned
        <5> QED  BY <3>3, <5>1, <5>2 DEF Tells
      <4> QED  BY <4>1, <4>2
    <3> QED  BY <1>1, <1>2, <1>3, <2>2, <3>2, <3>3, <3>4, RevisedBy
  <2>5. CASE d # c
    <3>1. HasThen(c, m, d) = SHasNow(d)  BY <2>5 DEF HasThen
    <3>2. SentThen(c, m, d) = Destruct(Doomed(m) \cap SHasNow(d))
      BY <2>5, <3>1 DEF SentThen
    <3>3. Tells(d, SentThen(c, m, d), Doomed(m) \cap SHasNow(d))  BY <3>2 DEF Tells
    <3> QED  BY <1>1, <1>2, <1>3, <2>2, <2>3, <3>1, <3>3, RevisedBy
  <2> QED  BY <2>4, <2>5
<1> QED  BY <1>4, <1>5

\* and after it has handled the end of a connection.
LEMMA ClosedRevises ==
    ASSUME Sane, IInv', NEW c \in Clients, NEW i, ServerOnClosed(c, i),
           NEW d \in Clients, Joined(d)'
    PROVE  Joined(d) /\ Revised(d)
<1>1. /\ IInv /\ up /\ UNCHANGED <<clientVars, up, wire>> /\ Take(c, i)
      /\ srvConn' = [srvConn EXCEPT ![c] = "none"]
  BY DEF Sane, ServerOnClosed, Reaching
<1>2. wire[d] /\ copies'[d] = copies[d] /\ srvConn'[d] # "none"
  BY <1>1, JoinedIsNext DEF clientVars
<1>3. d # c /\ srvConn'[d] = srvConn[d]  BY <1>1, <1>2 DEF IInv, ServerInv
<1>4. toSrv'[d] = toSrv[d]  BY <1>1, <1>3 DEF Take, IInv, ToSrvInv
<1>5. Joined(d)  BY <1>1, <1>3, <1>4 DEF Joined
<1> DEFINE dropped == IF srvConn[c] = "none" THEN {} ELSE CreatedBy(c)
<1>6. /\ srvHas'[d] = SHasNow(d) \ dropped
      /\ toCli'[d] =
            Send(d, toCli[d], SPacket(d) \o (Destruct(dropped \cap SHasNow(d))
                                           \o Destruct(dropped \cap SHasNow(d))))
  BY <1>3 DEF ServerOnClosed, Dereference, Deliver
<1>7. dropped \in SUBSET Ids  BY <1>1 DEF CreatedBy, IInv, ServerInv
<1> HIDE DEF dropped
<1>8. Tells(d, Destruct(dropped \cap SHasNow(d)) \o Destruct(dropped \cap SHasNow(d)),
            dropped \cap SHasNow(d))
  BY DEF Tells
<1> QED  BY <1>1, <1>2, <1>5, <1>6, <1>7, <1>8, RevisedBy

\* Whatever the server handles, each client that has joined is accounted for.
LEMMA ServerRevises ==
    ASSUME Sane, OnceInv, IInv', ServerReceive, NEW d \in Clients, Joined(d)'
    PROVE  Fresh(d) \/ (Joined(d) /\ Revised(d))
BY UpdateRevises, IncomingRevises, ScopeRevises, ConstructionRevises, ClosedRevises
   DEF ServerReceive

TidyInv == \A c \in Clients : toCli[c] \in Seq(Tidy(c))

\* Control packets and what the server sends are tidy.
LEMMA TidyControl ==
    ASSUME NEW c \in Clients
    PROVE  /\ {Accepted, Scope, Lost, Bye} \subseteq Tidy(c)
           /\ \A ids \in SUBSET Ids : Assigned(ids) \in Tidy(c)
           /\ Middle(c) \subseteq Tidy(c)
BY DEF Tidy, ToClient, Accepted, Scope, Lost, Bye, Assigned, Middle

\* What a Receive of a client leaves in flight to it is what it was, the answer it
\* takes from a packet of several aside.
LEMMA ReceiveShrinks ==
    ASSUME IInv, NEW c \in Clients, ClientReceive(c), NEW S, toCli[c] \in Seq(S),
           S \subseteq ToClient(c),
           \A m \in S : m.kind = "assigned" => \A ids \in SUBSET m.ids : Assigned(ids) \in S
    PROVE  toCli'[c] \in Seq(S)
<1>1. toCli[c] \in Seq(S)  OBVIOUS
<1>2. CASE ClientUpdate(c)  BY <1>1, <1>2 DEF ClientUpdate
<1>3. CASE ClientOnAssigned(c)
  <2>1. PICK id \in Head(toCli[c]).ids :
           toCli'[c] = Assign(Head(toCli[c]).ids \ {id}) \o Tail(toCli[c])
    BY <1>3 DEF ClientOnAssigned, IInv, ToCliInv
  <2>2. toCli[c] # << >> /\ Head(toCli[c]).kind = "assigned"
    BY <1>3 DEF ClientOnAssigned, Arriving
  <2>3. Tail(toCli[c]) \in Seq(S) /\ Head(toCli[c]) \in S
    BY <1>1, <2>2, TailAt
  <2>4. Head(toCli[c]).ids \in SUBSET Ids
    <3>1. Head(toCli[c]) \in ToClient(c)  BY <2>3
    <3> QED  BY <2>2, <3>1 DEF ToClient, Accepted, Scope, Lost, Bye
  <2> DEFINE left == Head(toCli[c]).ids \ {id}
  <2>5. Assigned(left) \in S
    <3>1. left \in SUBSET Head(toCli[c]).ids  BY <2>4
    <3> HIDE DEF left
    <3> QED  BY <2>2, <2>3, <3>1
  <2> HIDE DEF left
  <2>6. Assign(left) \in Seq(S)  BY <2>5, EmptySeq DEF Assign
  <2>7. toCli'[c] = Assign(left) \o Tail(toCli[c])  BY <2>1 DEF left
  <2> QED  BY <2>3, <2>6, <2>7, ConcatProperties
<1>4. ASSUME toCli[c] # << >>, toCli'[c] = Tail(toCli[c])
      PROVE  toCli'[c] \in Seq(S)
  <2>1. Tail(toCli[c]) \in Seq(S)  BY <1>1, <1>4, TailAt
  <2> QED  BY <1>4, <2>1
<1>5. CASE ClientOnAccepted(c)
  BY <1>4, <1>5 DEF ClientOnAccepted, Arriving, IInv, ToCliInv
<1>6. CASE ClientOnScope(c)
  BY <1>4, <1>6 DEF ClientOnScope, Arriving, IInv, ToCliInv
<1>7. CASE ClientOnConstruction(c)
  BY <1>4, <1>7 DEF ClientOnConstruction, Arriving, IInv, ToCliInv
<1>8. CASE ClientOnLost(c)
  BY <1>4, <1>8 DEF ClientOnLost, Arriving, IInv, ToCliInv
<1>9. CASE ClientOnBye(c)
  BY <1>4, <1>9 DEF ClientOnBye, Arriving, IInv, ToCliInv
<1> QED  BY <1>2, <1>3, <1>5, <1>6, <1>7, <1>8, <1>9 DEF ClientReceive

\* A client, handling a packet, leaves packets of the kinds that were there.
LEMMA ReceiveLeaves ==
    ASSUME IInv, NEW c \in Clients, ClientReceive(c), NEW S, toCli[c] \in Seq(S),
           S \subseteq ToClient(c), \A ids \in SUBSET Ids : Assigned(ids) \in S
    PROVE  toCli'[c] \in Seq(S)
<1>1. ASSUME NEW m \in S, m.kind = "assigned"  PROVE m.ids \in SUBSET Ids
  <2>1. m \in ToClient(c)  OBVIOUS
  <2> QED  BY <1>1, <2>1 DEF ToClient, Accepted, Scope, Lost, Bye
<1>2. \A m \in S : m.kind = "assigned" => \A ids \in SUBSET m.ids : Assigned(ids) \in S
  BY <1>1
<1> QED  BY <1>2, ReceiveShrinks

\* Those a client leaves are tidy.
LEMMA TidyReceive ==
    ASSUME IInv, TidyInv, NEW c \in Clients, ClientReceive(c)
    PROVE  toCli'[c] \in Seq(Tidy(c))
<1>1. toCli[c] \in Seq(Tidy(c))  BY DEF TidyInv
<1>2. Tidy(c) \subseteq ToClient(c)  BY DEF Tidy
<1> QED  BY <1>1, <1>2, TidyControl, ReceiveLeaves

\* Those a break leaves are tidy.
LEMMA TidyCut ==
    ASSUME NEW c \in Clients, toCli[c] \in Seq(Tidy(c)), NEW i \in Cuts(toCli[c])
    PROVE  CutOff(toCli[c], i) \in Seq(Tidy(c))
<1>1. Lost \in Tidy(c)  BY TidyControl
<1> QED  BY <1>1, CutOffKeeps

\* TidyInv at the start.
LEMMA InitTidy == Init => TidyInv
<1>1. \A S : << >> \in Seq(S)  BY EmptySeq
<1> QED  BY <1>1 DEF Init, TidyInv

\* TidyInv over every step.
LEMMA NextTidy == IInv /\ ConnInv /\ TidyInv /\ [Next]_vars => TidyInv'
<1> SUFFICES ASSUME IInv, ConnInv, TidyInv, [Next]_vars, NEW c \in Clients
             PROVE  toCli'[c] \in Seq(Tidy(c))
  <2>1. \A d \in Clients : Tidy(d)' = Tidy(d)
    BY DEF Tidy, ToClient, Foreign, OwnerOf
  <2> QED  BY <2>1 DEF TidyInv
<1>0. toCli[c] \in Seq(Tidy(c))  BY DEF TidyInv
<1>1. CASE toCli'[c] = toCli[c]  BY <1>0, <1>1
<1>2. ASSUME NEW n \in Nodes, AddNode(n) \/ RemoveNode(n)
      PROVE  toCli'[c] \in Seq(Tidy(c))
  BY <1>1, <1>2 DEF AddNode, RemoveNode
<1>3. ASSUME NEW d \in Clients, StartClient(d) \/ RemoveAllNodes(d) \/ Stop(d)
      PROVE  toCli'[c] \in Seq(Tidy(c))
  <2>1. toCli'[c] = toCli[c] \/ toCli'[c] = << >>
    BY <1>3 DEF StartClient, RemoveAllNodes, Stop, IInv, ToCliInv
  <2> QED  BY <1>1, <2>1, EmptySeq
<1>4. ASSUME NEW d \in Clients, ClientReceive(d)
      PROVE  toCli'[c] \in Seq(Tidy(c))
  <2>1. d # c => toCli'[c] = toCli[c]  BY <1>4, ReceiveElsewhere
  <2> QED  BY <1>1, <1>4, <2>1, TidyReceive
<1>5. ASSUME NEW d \in Clients, Establish(d) \/ ConnectFails(d) \/ Break(d)
      PROVE  toCli'[c] \in Seq(Tidy(c))
  <2>1. CASE Establish(d)
    <3>1. toCli'[c] = toCli[c] \/ toCli'[c] = <<Accepted>>
      BY <2>1 DEF Establish, IInv, ToCliInv
    <3>2. Accepted \in Tidy(c)  BY TidyControl
    <3>3. <<Accepted>> \in Seq(Tidy(c))  BY <3>2
    <3> QED  BY <1>1, <3>1, <3>3
  <2>2. CASE ConnectFails(d)  BY <1>1, <2>2 DEF ConnectFails
  <2>3. CASE Break(d)
    <3>1. \/ toCli'[c] = toCli[c]
          \/ \E i \in Cuts(toCli[c]) : toCli'[c] = CutOff(toCli[c], i)
      BY <2>3 DEF Break, IInv, ToCliInv
    <3> QED  BY <1>0, <1>1, <3>1, TidyCut
  <2> QED  BY <1>5, <2>1, <2>2, <2>3
<1>6. CASE ServerReceive
  <2>1. PICK p \in Seq(Middle(c)) : toCli'[c] = Send(c, toCli[c], p)
    BY <1>6, ServerSends
  <2>2. p \in Seq(Tidy(c))  BY TidyControl, SeqMonotonic
  <2> QED  BY <1>0, <2>1, <2>2, SendKeeps
<1>7. CASE ServerQuit
  <2> DEFINE p == Destruct(srvHas[c]) \o Destruct(srvHas[c])
  <2>1. toCli'[c] = Send(c, toCli[c], p \o <<Bye>>)
    <3>1. toCli'[c] = Send(c, toCli[c], Destruct(srvHas[c]) \o Destruct(srvHas[c]) \o <<Bye>>)
      BY <1>7 DEF ServerQuit
    <3> QED  BY <3>1
  <2>2. p \in Seq(Middle(c))  BY MiddleSent DEF IInv, ServerInv
  <2> HIDE DEF p
  <2>3. p \in Seq(Tidy(c)) /\ <<Bye>> \in Seq(Tidy(c))
    BY <2>2, TidyControl, SeqMonotonic
  <2>4. p \o <<Bye>> \in Seq(Tidy(c))  BY <2>3, ConcatProperties
  <2> QED  BY <1>0, <2>1, <2>4, SendKeeps
<1>8. CASE ServerCrash
  <2>1. \/ toCli'[c] = toCli[c]
        \/ \E i \in Cuts(toCli[c]) : toCli'[c] = CutOff(toCli[c], i)
    BY <1>8 DEF ServerCrash
  <2> QED  BY <1>0, <1>1, <2>1, TidyCut
<1>9. CASE UNCHANGED vars  BY <1>1, <1>9 DEF vars
<1> QED  BY <1>2, <1>3, <1>4, <1>5, <1>6, <1>7, <1>8, <1>9 DEF Next

\* A Receive of a client: its copies become what they would have.
LEMMA ClientRevises ==
    ASSUME Sane, TidyInv, IInv', NEW c \in Clients, ClientReceive(c),
           NEW d \in Clients, Joined(d)'
    PROVE  Joined(d) /\ \A id \in Foreign(d) : id \in Becomes(d)' <=> id \in Becomes(d)
<1>1. IInv /\ ConnInv /\ UNCHANGED serverVars  BY ReceiveElsewhere DEF Sane
<1>2. CASE d # c
  <2>1. /\ copies'[d] = copies[d] /\ toCli'[d] = toCli[d] /\ toSrv'[d] = toSrv[d]
        /\ wire'[d] = wire[d]
    BY <1>1, <1>2, ReceiveElsewhere
  <2>2. Joined(d)  BY <1>1, <2>1 DEF Joined, serverVars
  <2>3. \A id : id \in Becomes(d)' <=> id \in Becomes(d)
    BY <1>1, <2>1, BecomesIs, BecomesIsNext
  <2> QED  BY <2>2, <2>3
<1>3. CASE d = c
  <2>1. /\ wire[c] \in BOOLEAN /\ (wire'[c] = wire[c] \/ wire'[c] = FALSE)
        /\ \/ toSrv'[c] = Send(c, toSrv[c], CPacket(c))
           \/ toSrv'[c] = Send(c, toSrv[c], <<Scope>>)
    BY <1>1, ReceiveSends DEF IInv, FaultInv
  <2>2. wire'[c] /\ srvConn[c] # "none" /\ Plain(toSrv'[c])
    BY <1>1, <1>3, JoinedIsNext DEF serverVars
  <2>3. wire[c] /\ wire'[c] = wire[c]  BY <2>1, <2>2
  <2>4. Plain(toSrv[c])
    <3>1. CPacket(c) \in Seq(FromClient(c)) /\ <<Scope>> \in Seq(FromClient(c))
          /\ toSrv[c] \in Seq(FromClient(c))
      BY <1>1, CPacketTyped, ControlFromClient DEF IInv, ToSrvInv
    <3> QED  BY <2>1, <2>2, <3>1, PlainSend
  <2>5. Joined(c)  BY <1>1, <2>2, <2>3, <2>4, JoinedIs
  <2> SUFFICES ASSUME NEW id \in Foreign(c)
               PROVE  Lasts(copies'[c], toCli'[c], id) <=> Lasts(copies[c], toCli[c], id)
    <3>1. \A x : x \in Becomes(c) <=> Lasts(copies[c], toCli[c], x)  BY <1>1, BecomesIs
    <3>2. \A x : x \in Becomes(c)' <=> Lasts(copies'[c], toCli'[c], x)  BY BecomesIsNext
    <3> QED  BY <1>3, <2>5, <3>1, <3>2
  <2> DEFINE q == toCli[c]
  <2>6. q \in Seq(Tidy(c)) /\ q \in Seq(ToClient(c))
    BY <1>1 DEF TidyInv, IInv, ToCliInv
  <2>7. ASSUME q # << >>, Head(q).kind # "construction", toCli'[c] = Tail(q),
               copies'[c] = copies[c]
        PROVE  Lasts(copies'[c], toCli'[c], id) <=> Lasts(copies[c], q, id)
    <3> HIDE DEF q
    <3>1. Lasts(copies[c], Tail(q), id) <=> Lasts(copies[c], q, id)
      BY <2>6, <2>7, LastsTail
    <3> QED  BY <2>7, <3>1
  <2>8. CASE ClientUpdate(c)
    <3>1. copies'[c] = copies[c] /\ toCli'[c] = q  BY <2>8 DEF ClientUpdate
    <3> QED  BY <3>1
  <2>9. CASE ClientOnAccepted(c)
    BY <1>1, <2>7, <2>9 DEF ClientOnAccepted, Arriving, IInv, ToCliInv
  <2>10. CASE ClientOnScope(c)
    BY <1>1, <2>7, <2>10 DEF ClientOnScope, Arriving, IInv, ToCliInv
  <2>11. CASE ClientOnAssigned(c)
    <3>1. PICK x \in Head(q).ids : toCli'[c] = Assign(Head(q).ids \ {x}) \o Tail(q)
      BY <1>1, <2>11 DEF ClientOnAssigned, IInv, ToCliInv
    <3>2. q # << >> /\ Head(q).kind = "assigned" /\ copies' = copies
      BY <2>11 DEF ClientOnAssigned, Arriving
    <3> DEFINE left == Head(q).ids \ {x}
    <3>3. Assigned(left) \in ToClient(c)
      <4>1. Head(q) \in ToClient(c)  BY <2>6, <3>2, TailAt
      <4>2. Head(q).ids \in SUBSET Ids
        BY <3>2, <4>1 DEF ToClient, Accepted, Scope, Lost, Bye
      <4> QED  BY <4>2 DEF ToClient, Assigned
    <3>4. toCli'[c] = Assign(left) \o Tail(q)  BY <3>1
    <3> HIDE DEF q, left
    <3>5. Lasts(copies[c], Assign(left) \o Tail(q), id) <=> Lasts(copies[c], q, id)
      BY <2>6, <3>2, <3>3, LastsAssigned
    <3> QED  BY <3>2, <3>4, <3>5 DEF q
  <2>12. CASE ClientOnConstruction(c)
    <3> DEFINE m == Head(q)
               mine == {n \in LiveOf(c) : nid[n] # NoId}
               known == {nid[n] : n \in mine}
    <3>1. q # << >> /\ m.kind = "construction" /\ toCli'[c] = Tail(q)
      BY <1>1, <2>12 DEF ClientOnConstruction, Arriving, IInv, ToCliInv
    <3>2. cConn[c] # "none"
      <4>1. Len(q) # 0 /\ m = q[1]  BY <2>6, <3>1, TailAt
      <4>2. ShapeOf(c)  BY <1>1 DEF ConnInv
      <4> QED  BY <3>1, <4>1, <4>2 DEF ShapeOf, Shape
    <3>3. copies'[c] = (copies[c] \cup (m.new \ known)) \ m.del
      BY <1>1, <2>12, <3>2 DEF ClientOnConstruction, IInv, ClientInv
    <3>4. \A x \in known : OwnerOf(x) = c
      <4> SUFFICES ASSUME NEW n \in mine  PROVE OwnerOf(nid[n]) = c
        OBVIOUS
      <4> QED  BY <1>1 DEF LiveOf, NodesOf, OwnerOf, IInv, ClientInv
    <3> HIDE DEF known
    <3>5. id \notin known  BY <3>4 DEF Foreign
    <3>6. m \in Tidy(c)  BY <2>6, <3>1, TailAt
    <3>7. m.new = {} \/ m.del = {}  BY <3>1, <3>6 DEF Tidy
    <3>8. id \in copies'[c] <=> (id \in m.new \/ (id \in copies[c] /\ id \notin m.del))
      BY <3>3, <3>5, <3>7
    <3> HIDE DEF q
    <3>9. Lasts(copies'[c], Tail(q), id) <=> Lasts(copies[c], q, id)
      BY <2>6, <3>1, <3>8, LastsTail
    <3> QED  BY <3>1, <3>9 DEF q
  <2>13. CASE ClientOnLost(c)
    <3>1. q # << >> /\ Head(q).kind = "lost"  BY <2>13 DEF ClientOnLost, Arriving
    <3>2. 1 \in 1..Len(q) /\ Head(q) = q[1]  BY <2>6, <3>1, TailAt
    <3>3. ShapeOf(c)  BY <1>1 DEF ConnInv
    <3> QED  BY <2>3, <3>1, <3>2, <3>3 DEF ShapeOf, Shape
  <2>14. CASE ClientOnBye(c)
    BY <1>1, <2>2, <2>14 DEF ClientOnBye, IInv, FaultInv
  <2> QED  BY <2>8, <2>9, <2>10, <2>11, <2>12, <2>13, <2>14 DEF ClientReceive
<1> QED  BY <1>2, <1>3
---------------------------------------------------------------------------
(* What the server believes of a client.                                   *)

\* All that was established so far.
Known == Sane /\ OnceInv /\ Accounts /\ TidyInv

\* Known at the start.
LEMMA InitKnown == Init => Known
BY InitSane, InitOnce, InitAccounts, InitTidy DEF Known

\* Known over every step.
LEMMA NextKnown == Known /\ [Next]_vars => Known'
BY NextSane, NextOnce, NextAccounts, NextTidy DEF Known, Sane

\* Known always holds.
LEMMA AlwaysKnown == Spec => []Known
BY InitKnown, NextKnown, PTL DEF Spec

\* Some own nodes are destroyed: at most a packet is sent.
LEMMA DestroyOwnSends ==
    ASSUME IInv, NEW c \in Clients, NEW S \in SUBSET NodesOf(c), DestroyOwn(c, S),
           NEW d \in Clients
    PROVE  \/ toSrv'[d] = toSrv[d]
           \/ \E p \in Seq(FromClient(d)) : toSrv'[d] = Send(d, toSrv[d], p)
<1>1. CASE d # c  BY <1>1 DEF DestroyOwn, IInv, ToSrvInv
<1>2. CASE d = c
  <2> DEFINE del == {nid[n] : n \in S \cap cHas[c]}
  <2>1. toSrv'[d] = Send(d, toSrv[d], Destruct(del))
    BY <1>2 DEF DestroyOwn, IInv, ToSrvInv
  <2>2. del \in SUBSET (Ids \cup {NoId})  BY DEF IInv, ClientInv, NodesOf
  <2> HIDE DEF del
  <2> QED  BY <1>2, <2>1, <2>2, DestructFromClient
<1> QED  BY <1>1, <1>2

\* Neither an application nor the transport joins a connection.
LEMMA OthersRevise ==
    ASSUME IInv, IInv', NEW d \in Clients, Joined(d)',
           \/ \E n \in Nodes : AddNode(n) \/ RemoveNode(n)
           \/ \E c \in Clients : StartClient(c) \/ RemoveAllNodes(c) \/ Stop(c)
           \/ \E c \in Clients : Establish(c) \/ ConnectFails(c) \/ Break(c)
           \/ ServerQuit
           \/ ServerCrash
           \/ UNCHANGED vars
    PROVE  Joined(d) /\ copies'[d] = copies[d] /\ toCli'[d] = toCli[d] /\ srvHas' = srvHas
<1>0. wire'[d] /\ srvConn'[d] # "none" /\ Plain(toSrv'[d])  BY JoinedIsNext
<1> USE DEF serverVars
<1>1. ASSUME NEW n \in Nodes, AddNode(n)
      PROVE  Joined(d) /\ copies'[d] = copies[d] /\ toCli'[d] = toCli[d] /\ srvHas' = srvHas
  BY <1>1 DEF AddNode, Joined
<1>2. ASSUME NEW c \in Clients, NEW S \in SUBSET NodesOf(c), DestroyOwn(c, S),
             UNCHANGED <<link, cConn, nid, copies, serverVars, wire, toCli, faults>>
      PROVE  Joined(d) /\ copies'[d] = copies[d] /\ toCli'[d] = toCli[d] /\ srvHas' = srvHas
  <2>1. Plain(toSrv[d])
    <3>1. toSrv[d] \in Seq(FromClient(d))  BY DEF IInv, ToSrvInv
    <3> QED  BY <1>0, <1>2, <3>1, DestroyOwnSends, PlainSend
  <2> QED  BY <1>0, <1>2, <2>1, JoinedIs
<1>3. ASSUME NEW n \in Nodes, RemoveNode(n)
      PROVE  Joined(d) /\ copies'[d] = copies[d] /\ toCli'[d] = toCli[d] /\ srvHas' = srvHas
  <2>1. Owner[n] \in Clients /\ {n} \in SUBSET NodesOf(Owner[n])
    BY OwnerAssumption DEF NodesOf
  <2> QED  BY <1>2, <1>3, <2>1 DEF RemoveNode
<1>4. ASSUME NEW c \in Clients, RemoveAllNodes(c)
      PROVE  Joined(d) /\ copies'[d] = copies[d] /\ toCli'[d] = toCli[d] /\ srvHas' = srvHas
  BY <1>2, <1>4 DEF RemoveAllNodes
<1>5. ASSUME NEW c \in Clients, StartClient(c) \/ ConnectFails(c)
      PROVE  Joined(d) /\ copies'[d] = copies[d] /\ toCli'[d] = toCli[d] /\ srvHas' = srvHas
  BY <1>5 DEF StartClient, ConnectFails, Joined
<1>6. ASSUME NEW c \in Clients, Stop(c) \/ Break(c)
      PROVE  Joined(d) /\ copies'[d] = copies[d] /\ toCli'[d] = toCli[d] /\ srvHas' = srvHas
  <2>1. c # d  BY <1>0, <1>6 DEF Stop, Break, IInv, FaultInv
  <2>2. /\ toSrv'[d] = toSrv[d] /\ toCli'[d] = toCli[d] /\ copies'[d] = copies[d]
        /\ wire'[d] = wire[d] /\ UNCHANGED <<srvConn, srvHas>>
    <3>1. toSrv' = toSrv \/ \E q : toSrv' = [toSrv EXCEPT ![c] = q]
      BY <1>6 DEF Stop, Break
    <3>2. /\ copies' = copies \/ copies' = [copies EXCEPT ![c] = {}]
          /\ \E q : toCli' = [toCli EXCEPT ![c] = q]
          /\ wire' = [wire EXCEPT ![c] = FALSE]
          /\ UNCHANGED <<srvConn, srvHas>>
      BY <1>6 DEF Stop, Break, clientVars
    <3>3. /\ DOMAIN toSrv = Clients /\ DOMAIN toCli = Clients
          /\ DOMAIN copies = Clients /\ DOMAIN wire = Clients
      BY DEF IInv, FaultInv, ToSrvInv, ToCliInv, ClientInv
    <3>4. toSrv'[d] = toSrv[d]  BY <2>1, <3>1, <3>3
    <3>5. copies'[d] = copies[d]  BY <2>1, <3>2, <3>3
    <3>6. toCli'[d] = toCli[d] /\ wire'[d] = wire[d]  BY <2>1, <3>2, <3>3
    <3> QED  BY <3>2, <3>4, <3>5, <3>6
  <2> QED  BY <2>2 DEF Joined
<1>7. ASSUME NEW c \in Clients, Establish(c)
      PROVE  Joined(d) /\ copies'[d] = copies[d] /\ toCli'[d] = toCli[d] /\ srvHas' = srvHas
  <2>1. CASE c = d
    <3>1. toSrv'[d] = Append(toSrv[d], Incoming) /\ toSrv[d] \in Seq(FromClient(d))
      BY <1>7, <2>1 DEF Establish, IInv, ToSrvInv
    <3>2. Incoming \in FromClient(d) /\ Incoming.kind = "incoming"
      BY DEF FromClient, Incoming
    <3> DEFINE r == Append(toSrv[d], Incoming)
    <3>3. Len(toSrv[d]) + 1 \in 1..Len(r) /\ r[Len(toSrv[d]) + 1] = Incoming
      BY <3>1, <3>2, AppendAt, LenProperties
    <3>4. Plain(r)  BY <1>0, <3>1
    <3> HIDE DEF r
    <3> QED  BY <3>2, <3>3, <3>4 DEF Plain
  <2>2. CASE c # d
    <3>1. /\ toSrv'[d] = toSrv[d] /\ toCli'[d] = toCli[d] /\ copies'[d] = copies[d]
          /\ wire'[d] = wire[d] /\ UNCHANGED <<srvConn, srvHas>>
      BY <1>7, <2>2 DEF Establish, clientVars, IInv, FaultInv, ToSrvInv, ToCliInv
    <3> QED  BY <3>1 DEF Joined
  <2> QED  BY <2>1, <2>2
<1>8. CASE ServerQuit \/ ServerCrash
  BY <1>0, <1>8 DEF ServerQuit, ServerCrash
<1>9. CASE UNCHANGED vars  BY <1>9 DEF vars, Joined
<1> QED  BY <1>1, <1>3, <1>4, <1>5, <1>6, <1>7, <1>8, <1>9

\* A client nothing is sent to will have what it was to have.
LEMMA OthersBecome ==
    ASSUME IInv, IInv', NEW d \in Clients, copies'[d] = copies[d], toCli'[d] = toCli[d]
    PROVE  Becomes(d)' = Becomes(d)
<1>1. \A id : id \in Becomes(d)' <=> id \in Becomes(d)  BY BecomesIs, BecomesIsNext
<1> QED  BY <1>1

\* ServerBeliefSound over every step.
LEMMA NextBelief ==
    ASSUME Known, [Next]_vars, ServerBeliefSound
    PROVE  ServerBeliefSound'
<1>0. Sane /\ OnceInv /\ TidyInv /\ IInv /\ IInv'
  BY NextKnown DEF Known, Sane
<1> SUFFICES ASSUME NEW d \in Clients, Joined(d)', NEW id \in srvHas'[d], OwnerOf(id) # d
             PROVE  id \in Becomes(d)'
  BY DEF ServerBeliefSound, OwnerOf
<1>1. id \in Foreign(d)  BY <1>0 DEF IInv, ServerInv, Foreign
<1>2. ASSUME Joined(d), id \in srvHas[d]  PROVE id \in Becomes(d)
  BY <1>2 DEF ServerBeliefSound
<1>3. CASE ServerReceive
  <2>1. CASE Fresh(d)  BY <2>1 DEF Fresh
  <2>2. CASE Joined(d) /\ Revised(d)
    <3>1. PICK gone \in SUBSET Ids :
            /\ \A x \in Foreign(d) : x \in Becomes(d)' <=>
                  (x \in Becomes(d) \/ x \in SFlush(d)) /\ ~(x \in gone /\ x \in SHasNow(d))
            /\ \A x \in Foreign(d) : x \in srvHas'[d] <=> x \in SHasNow(d) /\ x \notin gone
      BY <2>2 DEF Revised
    <3>2. id \in SHasNow(d) /\ id \notin gone  BY <1>1, <3>1
    <3>3. id \in srvHas[d] \/ id \in SFlush(d)  BY <3>2 DEF SHasNow
    <3> QED  BY <1>1, <1>2, <2>2, <3>1, <3>2, <3>3
  <2> QED  BY <1>0, <1>3, <2>1, <2>2, ServerRevises
<1>4. ASSUME NEW c \in Clients, ClientReceive(c)  PROVE id \in Becomes(d)'
  <2>1. Joined(d) /\ (id \in Becomes(d)' <=> id \in Becomes(d))
    BY <1>0, <1>1, <1>4, ClientRevises
  <2>2. srvHas' = srvHas  BY <1>0, <1>4, ReceiveElsewhere DEF Sane, serverVars
  <2> QED  BY <1>2, <2>1, <2>2
<1>5. ASSUME \/ \E n \in Nodes : AddNode(n) \/ RemoveNode(n)
             \/ \E c \in Clients : StartClient(c) \/ RemoveAllNodes(c) \/ Stop(c)
             \/ \E c \in Clients : Establish(c) \/ ConnectFails(c) \/ Break(c)
             \/ ServerQuit
             \/ ServerCrash
             \/ UNCHANGED vars
      PROVE  id \in Becomes(d)'
  <2>1. Joined(d) /\ copies'[d] = copies[d] /\ toCli'[d] = toCli[d] /\ srvHas' = srvHas
    BY <1>0, <1>5, OthersRevise
  <2> QED  BY <1>0, <1>2, <2>1, OthersBecome
<1> QED  BY <1>3, <1>4, <1>5 DEF Next

\* ServerBeliefSound at the start.
LEMMA InitBelief == Init => ServerBeliefSound
BY DEF Init, ServerBeliefSound, Joined

\* ServerBeliefSound always holds.
LEMMA AlwaysBelief == Spec => [](Known /\ ServerBeliefSound)
<1>1. Init => Known /\ ServerBeliefSound  BY InitKnown, InitBelief
<1>2. (Known /\ ServerBeliefSound) /\ [Next]_vars => (Known /\ ServerBeliefSound)'
  BY NextKnown, NextBelief
<1> QED  BY <1>1, <1>2, PTL DEF Spec

\* constructedReplicaList is right about a peer's replica, in either mode and
\* whatever the faults: while the server's connection to a client and the
\* transport below it are the same one, the client has it or is about to, the
\* packets still in flight to it and what they destroy included.
THEOREM BeliefHolds == Spec => []ServerBeliefSound
BY AlwaysBelief, PTL

---------------------------------------------------------------------------
(* No copy the server does not account for.                                *)

\* Nothing is sent to a client the server has no connection to.
LEMMA NothingSent ==
    ASSUME IInv, Accounts, ServerReceive, NEW d \in Clients,
           srvConn[d] = "none", srvConn'[d] = "none"
    PROVE  toCli'[d] = toCli[d]
<1>1. SHasNow(d) = {} /\ SFlush(d) = {}
  BY UpdateMoves DEF Accounts, ListsOfServer
<1>2. toCli[d] \in Seq(ToClient(d)) /\ SPacket(d) = << >>
  BY <1>1 DEF IInv, ToCliInv, SPacket, Construct
<1>3. << >> \o << >> = << >> /\ toCli[d] \o << >> = toCli[d]
  <2>1. \A S : << >> \in Seq(S)  BY EmptySeq
  <2> QED  BY <1>2, <2>1, ConcatEmptySeq
<1>4. ASSUME NEW extra, Deliver(extra), extra[d] = << >>
      PROVE  toCli'[d] = toCli[d]
  BY <1>2, <1>3, <1>4 DEF Deliver, Send
<1>5. CASE ServerUpdate
  BY <1>4, <1>5 DEF ServerUpdate, Nothing
<1>6. ASSUME NEW c \in Clients, NEW i, ServerOnIncoming(c, i)
      PROVE  toCli'[d] = toCli[d]
  <2>1. c # d  BY <1>6 DEF ServerOnIncoming, IInv, ServerInv
  <2> DEFINE extra == [Nothing EXCEPT ![c] = IF srvConn[c] = "none" THEN <<Scope>> ELSE << >>]
  <2>2. Deliver(extra)  BY <1>6 DEF ServerOnIncoming
  <2>3. extra[d] = << >>  BY <2>1 DEF Nothing
  <2> HIDE DEF extra
  <2> QED  BY <1>4, <2>2, <2>3
<1>7. ASSUME NEW c \in Clients, NEW i, ServerOnScope(c, i)
      PROVE  toCli'[d] = toCli[d]
  <2> DEFINE extra == [Nothing EXCEPT ![c] = IF srvConn[c] = "pushed" THEN <<Scope>>
                                             ELSE << >>]
  <2>2. Deliver(extra)  BY <1>7 DEF ServerOnScope
  <2>3. extra[d] = << >>  BY DEF Nothing
  <2> HIDE DEF extra
  <2> QED  BY <1>4, <2>2, <2>3
<1>8. ASSUME NEW c \in Clients, NEW i, ServerOnConstruction(c, i)
      PROVE  toCli'[d] = toCli[d]
  <2>1. CASE srvConn[c] = "none"
    <3>1. Deliver(Nothing)  BY <1>8, <2>1 DEF ServerOnConstruction
    <3>2. Nothing[d] = << >>  BY DEF Nothing
    <3> QED  BY <1>4, <3>1, <3>2
  <2>2. CASE srvConn[c] # "none"
    <3> DEFINE m == toSrv[c][i]
    <3>1. toCli'[d] = Send(d, toCli[d], SPacket(d) \o SentThen(c, m, d))
      BY <1>8, <2>2, ConstructionIs
    <3> HIDE DEF m
    <3>2. SentThen(c, m, d) = << >>  BY <1>1, <2>2 DEF SentThen, HasThen, Destruct
    <3> QED  BY <1>2, <1>3, <3>1, <3>2 DEF Send
  <2> QED  BY <2>1, <2>2
<1>9. ASSUME NEW c \in Clients, NEW i, ServerOnClosed(c, i)
      PROVE  toCli'[d] = toCli[d]
  <2> DEFINE dropped == IF srvConn[c] = "none" THEN {} ELSE CreatedBy(c)
             extra == [e \in Clients |->
                        (IF e = c THEN << >> ELSE Destruct(dropped \cap SHasNow(e)))
                        \o Destruct(dropped \cap SHasNow(e))]
  <2>1. Deliver(extra)  BY <1>9 DEF ServerOnClosed
  <2>2. extra[d] = << >>
    <3> HIDE DEF dropped
    <3>1. Destruct(dropped \cap SHasNow(d)) = << >>  BY <1>1 DEF Destruct
    <3> QED  BY <1>3, <3>1
  <2> HIDE DEF extra
  <2> QED  BY <1>4, <2>1, <2>2
<1> QED  BY <1>5, <1>6, <1>7, <1>8, <1>9 DEF ServerReceive

\* No packet constructs or destroys.
Idle(q) == \A i \in 1..Len(q) : q[i].kind # "construction"

\* A client with no construction in its queue keeps its copies.
LEMMA IdleSame ==
    ASSUME IInv, ConnInv, NEW c \in Clients, ClientReceive(c), Idle(toCli[c])
    PROVE  Idle(toCli'[c]) /\ copies'[c] = copies[c]
<1> DEFINE q == toCli[c]
<1>1. q \in Seq(ToClient(c)) /\ Len(q) \in Nat  BY LenProperties DEF IInv, ToCliInv
<1>2. Idle(q)  OBVIOUS
<1>3. ASSUME q # << >>, toCli'[c] = Tail(q)  PROVE Idle(toCli'[c])
  <2> HIDE DEF q
  <2>1. \A j \in 1..Len(Tail(q)) : j + 1 \in 1..Len(q) /\ Tail(q)[j] = q[j + 1]
    BY <1>1, <1>3, TailAt
  <2> QED  BY <1>2, <1>3, <2>1 DEF Idle
<1>4. CASE ClientUpdate(c)  BY <1>4 DEF ClientUpdate
<1>5. CASE ClientOnAccepted(c)
  BY <1>3, <1>5 DEF ClientOnAccepted, Arriving, IInv, ToCliInv
<1>6. CASE ClientOnScope(c)
  BY <1>3, <1>6 DEF ClientOnScope, Arriving, IInv, ToCliInv
<1>7. CASE ClientOnAssigned(c)
  <2>1. PICK x \in Head(q).ids : toCli'[c] = Assign(Head(q).ids \ {x}) \o Tail(q)
    BY <1>7 DEF ClientOnAssigned, IInv, ToCliInv
  <2>2. q # << >> /\ Head(q).kind = "assigned" /\ copies' = copies
    BY <1>7 DEF ClientOnAssigned, Arriving
  <2> DEFINE left == Head(q).ids \ {x}
  <2>3. toCli'[c] = Assign(left) \o Tail(q)  BY <2>1
  <2> HIDE DEF q, left
  <2>4. \A j \in 1..Len(Tail(q)) : j + 1 \in 1..Len(q) /\ Tail(q)[j] = q[j + 1]
    BY <1>1, <2>2, TailAt
  <2>5. Tail(q) \in Seq(ToClient(c)) /\ Len(Tail(q)) \in Nat
    BY <1>1, <2>2, TailAt, LenProperties
  <2>6. CASE left = {}
    <3>1. Assign(left) \o Tail(q) = Tail(q)  BY <2>5, <2>6, ConcatEmptySeq DEF Assign
    <3> QED  BY <1>2, <2>2, <2>3, <2>4, <3>1 DEF Idle
  <2>7. CASE left # {}
    <3> DEFINE a == Assigned(left)
               t == Tail(q)
               s == <<a>>
    <3>1. s \o t = Assign(left) \o Tail(q) /\ a.kind = "assigned"
      BY <2>7 DEF Assign, Assigned
    <3>2. s \in Seq({a}) /\ Len(s) = 1 /\ s[1] = a  OBVIOUS
    <3>3. /\ t \in Seq(ToClient(c)) /\ Len(t) \in Nat
          /\ \A j \in 1..Len(t) : t[j].kind # "construction"
      BY <1>2, <2>4, <2>5 DEF Idle
    <3> HIDE DEF a, t, s
    <3>4. s \in Seq({a} \cup ToClient(c)) /\ t \in Seq({a} \cup ToClient(c))
      BY <3>2, <3>3, SeqMonotonic
    <3>5. /\ Len(s \o t) = Len(s) + Len(t)
          /\ \A j \in 1..(Len(s) + Len(t)) :
                (s \o t)[j] = IF j <= Len(s) THEN s[j] ELSE t[j - Len(s)]
      BY <3>4, ConcatProperties
    <3>6. \A j \in 1..(1 + Len(t)) : j = 1 \/ (~(j <= 1) /\ j - 1 \in 1..Len(t))
      BY <3>3
    <3>7. ASSUME NEW j \in 1..Len(s \o t)  PROVE (s \o t)[j].kind # "construction"
      <4>1. CASE j = 1  BY <3>1, <3>2, <3>3, <3>5, <4>1
      <4>2. CASE ~(j <= 1) /\ j - 1 \in 1..Len(t)  BY <3>2, <3>3, <3>5, <4>2
      <4> QED  BY <3>2, <3>5, <3>6, <4>1, <4>2
    <3> QED  BY <2>2, <2>3, <3>1, <3>7 DEF Idle
  <2> QED  BY <2>6, <2>7
<1>8. CASE ClientOnConstruction(c)
  <2>1. q # << >> /\ Head(q).kind = "construction"
    BY <1>8 DEF ClientOnConstruction, Arriving
  <2> HIDE DEF q
  <2>2. 1 \in 1..Len(q) /\ Head(q) = q[1]  BY <1>1, <2>1, TailAt
  <2> QED  BY <1>2, <2>1, <2>2 DEF Idle
<1>9. CASE ClientOnLost(c)
  BY <1>3, <1>9 DEF ClientOnLost, Arriving, IInv, ToCliInv
<1>10. CASE ClientOnBye(c)
  BY <1>3, <1>10 DEF ClientOnBye, Arriving, IInv, ToCliInv
<1> QED  BY <1>4, <1>5, <1>6, <1>7, <1>8, <1>9, <1>10 DEF ClientReceive

\* While no connection was broken, one only ends with its client; and a client
\* without a connection has no copy, nor any coming.
Undisturbed == faults.breaks = 0 /\ faults.crashes = 0
Quiet(d) ==
    /\ \A j \in 1..Len(toSrv[d]) : Ending(toSrv[d][j]) => ~wire[d] /\ link[d] = "stopped"
    /\ up /\ (srvConn[d] = "none" \/ ~wire[d]) => copies[d] = {} /\ Idle(toCli[d])
QuietInv == Undisturbed => \A d \in Clients : Quiet(d)

\* A client that is left alone stays quiet.
LEMMA QuietSame ==
    ASSUME NEW d \in Clients, Quiet(d), wire'[d] = wire[d],
           link[d] = "stopped" => link'[d] = "stopped",
           \A j \in 1..Len(toSrv'[d]) :
              Ending(toSrv'[d][j]) => \E k \in 1..Len(toSrv[d]) : Ending(toSrv[d][k]),
           up' => /\ up /\ copies'[d] = copies[d] /\ toCli'[d] = toCli[d]
                  /\ srvConn'[d] = "none" => srvConn[d] = "none"
    PROVE  Quiet(d)'
BY DEF Quiet

\* Sending nothing that ends a connection.
LEMMA EndsSent ==
    ASSUME NEW S, NEW q \in Seq(S), NEW p \in Seq(S), NEW c,
           \A j \in 1..Len(p) : ~Ending(p[j])
    PROVE  \A j \in 1..Len(Send(c, q, p)) :
              Ending(Send(c, q, p)[j]) => \E k \in 1..Len(q) : Ending(q[k])
<1>1. CASE Send(c, q, p) = q  BY <1>1
<1>2. CASE Send(c, q, p) = q \o p
  <2> DEFINE r == q \o p
  <2>1. /\ Len(q) \in Nat /\ Len(p) \in Nat /\ Len(r) = Len(q) + Len(p)
        /\ \A i \in 1..(Len(q) + Len(p)) :
              r[i] = IF i <= Len(q) THEN q[i] ELSE p[i - Len(q)]
    BY ConcatProperties, LenProperties
  <2> HIDE DEF r
  <2>2. ASSUME NEW j \in 1..Len(r), Ending(r[j])  PROVE \E k \in 1..Len(q) : Ending(q[k])
    <3>1. CASE j <= Len(q)  BY <2>1, <2>2, <3>1
    <3>2. CASE ~(j <= Len(q))
      <4>1. j - Len(q) \in 1..Len(p) /\ r[j] = p[j - Len(q)]  BY <2>1, <3>2
      <4> QED  BY <2>2, <4>1
    <3> QED  BY <3>1, <3>2
  <2> QED  BY <1>2, <2>2 DEF r
<1> QED  BY <1>1, <1>2 DEF Send

\* Constructions and destructions end no connection.
LEMMA DataOnly ==
    ASSUME NEW c \in Clients
    PROVE  /\ \A j \in 1..Len(CPacket(c)) : ~Ending(CPacket(c)[j])
           /\ \A j \in 1..Len(<<Scope>>) : ~Ending(<<Scope>>[j])
           /\ \A del : \A j \in 1..Len(Destruct(del)) : ~Ending(Destruct(del)[j])
<1>1. \A j \in 1..Len(<< >>) : FALSE  OBVIOUS
<1>2. \A x, y : \A j \in 1..Len(<<Construction(x, y)>>) :
                   ~Ending(<<Construction(x, y)>>[j])
  BY DEF Construction, Ending
<1>3. \A j \in 1..Len(<<Scope>>) : ~Ending(<<Scope>>[j])  BY DEF Scope, Ending
<1>4. \A del : \A j \in 1..Len(Destruct(del)) : ~Ending(Destruct(del)[j])
  BY <1>1, <1>2 DEF Destruct
<1> DEFINE new == {<<n, nid[n]>> : n \in CFlush(c)}
<1>5. CPacket(c) = Construct(new)  BY DEF CPacket
<1> HIDE DEF new
<1>6. \A j \in 1..Len(CPacket(c)) : ~Ending(CPacket(c)[j])
  BY <1>1, <1>2, <1>5 DEF Construct
<1> QED  BY <1>3, <1>4, <1>6

\* A packet taken leaves no end that was not there.
LEMMA EndsTaken ==
    ASSUME NEW S, NEW q \in Seq(S), NEW i \in 1..Len(q)
    PROVE  \A j \in 1..Len(Without(q, i)) :
              Ending(Without(q, i)[j]) => \E k \in 1..Len(q) : Ending(q[k])
<1> DEFINE r == Without(q, i)
<1>1. /\ Len(q) \in Nat /\ Len(r) = Len(q) - 1
      /\ \A j \in 1..Len(r) : r[j] = IF j < i THEN q[j] ELSE q[j + 1]
  BY WithoutAt, LenProperties
<1> HIDE DEF r
<1>2. ASSUME NEW j \in 1..Len(r), Ending(r[j])  PROVE \E k \in 1..Len(q) : Ending(q[k])
  <2>1. CASE j < i  BY <1>1, <1>2, <2>1
  <2>2. CASE ~(j < i)
    <3>1. j + 1 \in 1..Len(q) /\ r[j] = q[j + 1]  BY <1>1, <2>2
    <3> QED  BY <1>2, <3>1
  <2> QED  BY <2>1, <2>2
<1> QED  BY <1>2 DEF r

\* The server handles packets only while it runs.
LEMMA ServerRuns == ServerReceive => up
<1>1. ServerUpdate => up  BY DEF ServerUpdate
<1>2. ASSUME NEW c \in Clients, NEW i,
             \/ ServerOnIncoming(c, i) \/ ServerOnScope(c, i)
             \/ ServerOnConstruction(c, i) \/ ServerOnClosed(c, i)
      PROVE  up
  <2>1. \E kind : Reaching(c, i, kind)
    BY <1>2 DEF ServerOnIncoming, ServerOnScope, ServerOnConstruction, ServerOnClosed
  <2> QED  BY <2>1 DEF Reaching
<1> QED  BY <1>1, <1>2 DEF ServerReceive

\* What the server takes, and when it lets a connection go.
LEMMA ServerTakesOne ==
    ASSUME Sane, ServerReceive, NEW d \in Clients
    PROVE  /\ \/ toSrv'[d] = toSrv[d]
              \/ \E i \in 1..Len(toSrv[d]) : toSrv'[d] = Without(toSrv[d], i)
           /\ srvConn'[d] = "none" /\ srvConn[d] # "none" =>
                 \E k \in 1..Len(toSrv[d]) : Ending(toSrv[d][k])
<1>1. /\ toSrv \in [Clients -> Seq(PacketsToSrv)]
      /\ srvConn \in [Clients -> {"none", "pushed", "valid"}]
  BY DEF Sane, IInv, ToSrvInv, ServerInv
<1>2. CASE ServerUpdate  BY <1>2 DEF ServerUpdate
<1>3. ASSUME NEW c \in Clients, NEW i, NEW kind, Reaching(c, i, kind), Take(c, i)
      PROVE  \/ toSrv'[d] = toSrv[d]
             \/ \E k \in 1..Len(toSrv[d]) : toSrv'[d] = Without(toSrv[d], k)
  <2>1. i \in 1..Len(toSrv[c])  BY <1>3, Handles
  <2> QED  BY <1>1, <1>3, <2>1 DEF Take
<1>4. ASSUME NEW c \in Clients, NEW i, ServerOnIncoming(c, i)
      PROVE  srvConn[d] # "none" => srvConn'[d] # "none"
  BY <1>1, <1>4 DEF ServerOnIncoming
<1>5. ASSUME NEW c \in Clients, NEW i, ServerOnScope(c, i)
      PROVE  srvConn[d] # "none" => srvConn'[d] # "none"
  BY <1>1, <1>5 DEF ServerOnScope
<1>6. ASSUME NEW c \in Clients, NEW i, ServerOnConstruction(c, i)
      PROVE  srvConn' = srvConn
  BY <1>6 DEF ServerOnConstruction
<1>7. ASSUME NEW c \in Clients, NEW i, ServerOnClosed(c, i)
      PROVE  srvConn[d] # "none" /\ srvConn'[d] = "none" =>
                \E k \in 1..Len(toSrv[d]) : Ending(toSrv[d][k])
  <2>1. i \in 1..Len(toSrv[c]) /\ Ending(toSrv[c][i])
    <3>1. CASE Reaching(c, i, "lost")
      <4>1. i \in 1..Len(toSrv[c]) /\ toSrv[c][i].kind = "lost"  BY <3>1, Handles
      <4> QED  BY <4>1 DEF Ending
    <3>2. CASE Reaching(c, i, "bye")
      <4>1. i \in 1..Len(toSrv[c]) /\ toSrv[c][i].kind = "bye"  BY <3>2, Handles
      <4> QED  BY <4>1 DEF Ending
    <3> QED  BY <1>7, <3>1, <3>2 DEF ServerOnClosed
  <2>2. d # c => srvConn'[d] = srvConn[d]  BY <1>1, <1>7 DEF ServerOnClosed
  <2> QED  BY <2>1, <2>2
<1>8. ASSUME NEW c \in Clients, NEW i,
             \/ ServerOnIncoming(c, i) \/ ServerOnScope(c, i)
             \/ ServerOnConstruction(c, i) \/ ServerOnClosed(c, i)
      PROVE  \/ toSrv'[d] = toSrv[d]
             \/ \E k \in 1..Len(toSrv[d]) : toSrv'[d] = Without(toSrv[d], k)
  <2>1. Take(c, i) /\ \E kind : Reaching(c, i, kind)
    BY <1>8 DEF ServerOnIncoming, ServerOnScope, ServerOnConstruction, ServerOnClosed
  <2> QED  BY <1>3, <2>1
<1> QED  BY <1>2, <1>4, <1>5, <1>6, <1>7, <1>8 DEF ServerReceive, ServerUpdate

\* A client that handles a packet keeps QuietInv.
LEMMA ReceiveQuiet ==
    ASSUME Sane, NEW c \in Clients, ClientReceive(c), NEW d \in Clients, Quiet(d)
    PROVE  Quiet(d)'
<1>1. IInv /\ ConnInv /\ UNCHANGED serverVars /\ up \in BOOLEAN
  BY ReceiveElsewhere DEF Sane, IInv, ServerInv
<1>2. CASE d # c
  BY <1>1, <1>2, ReceiveElsewhere, QuietSame DEF serverVars
<1>3. CASE d = c
  <2>1. link[c] # "stopped"
    BY DEF ClientReceive, ClientUpdate, ClientOnAccepted, ClientOnScope, ClientOnAssigned,
           ClientOnConstruction, ClientOnLost, ClientOnBye, Arriving, Active
  <2>2. \A k \in 1..Len(toSrv[c]) : ~Ending(toSrv[c][k])  BY <1>3, <2>1 DEF Quiet
  <2>3. /\ wire[c] \in BOOLEAN
        /\ wire'[c] = wire[c] \/ (wire'[c] = FALSE /\ ~(wire[c] /\ up))
        /\ \/ toSrv'[c] = Send(c, toSrv[c], CPacket(c))
           \/ toSrv'[c] = Send(c, toSrv[c], <<Scope>>)
    BY <1>1, ReceiveSends DEF IInv, FaultInv
  <2>4. /\ CPacket(c) \in Seq(FromClient(c)) /\ <<Scope>> \in Seq(FromClient(c))
        /\ toSrv[c] \in Seq(FromClient(c))
    BY <1>1, CPacketTyped, ControlFromClient DEF IInv, ToSrvInv
  <2>5. \A j \in 1..Len(toSrv'[c]) : ~Ending(toSrv'[c][j])
    BY <2>2, <2>3, <2>4, EndsSent, DataOnly
  <2>6. ASSUME up', srvConn'[c] = "none" \/ ~wire'[c]
        PROVE  copies'[c] = {} /\ Idle(toCli'[c])
    <3>1. up /\ (srvConn[c] = "none" \/ ~wire[c])  BY <1>1, <2>3, <2>6 DEF serverVars
    <3>2. copies[c] = {} /\ Idle(toCli[c])  BY <1>3, <3>1 DEF Quiet
    <3> QED  BY <1>1, <3>2, IdleSame
  <2> QED  BY <1>3, <2>5, <2>6 DEF Quiet
<1> QED  BY <1>2, <1>3

\* The server, handling a packet, keeps QuietInv.
LEMMA ServerQuiet ==
    ASSUME Sane, Accounts, ServerReceive, NEW d \in Clients, Quiet(d)
    PROVE  Quiet(d)'
<1>1. IInv /\ UNCHANGED <<clientVars, up, wire>>  BY ServerSends DEF Sane
<1>2. toSrv[d] \in Seq(FromClient(d)) /\ wire[d] \in BOOLEAN
  BY <1>1 DEF IInv, ToSrvInv, FaultInv
<1>3. \A j \in 1..Len(toSrv'[d]) :
         Ending(toSrv'[d][j]) => \E k \in 1..Len(toSrv[d]) : Ending(toSrv[d][k])
  BY <1>2, ServerTakesOne, EndsTaken
<1>4. ASSUME srvConn'[d] = "none" \/ ~wire[d], up
      PROVE  copies[d] = {} /\ Idle(toCli[d]) /\ toCli'[d] = toCli[d]
  <2>1. CASE ~wire[d]
    <3>1. toCli'[d] = toCli[d]  BY <1>1, <2>1, ServerSends DEF Send
    <3> QED  BY <1>4, <2>1, <3>1 DEF Quiet
  <2>2. CASE wire[d]
    <3>1. srvConn[d] = "none"
      BY <1>4, <2>2, ServerTakesOne DEF Quiet
    <3> QED  BY <1>1, <1>4, <2>2, <3>1, NothingSent DEF Quiet
  <2> QED  BY <2>1, <2>2
<1> QED  BY <1>1, <1>3, <1>4 DEF Quiet, clientVars

\* Every other step keeps QuietInv.
LEMMA RestQuiet ==
    ASSUME IInv, NEW d \in Clients, Quiet(d),
           \/ \E n \in Nodes : AddNode(n) \/ RemoveNode(n)
           \/ \E c \in Clients : StartClient(c) \/ RemoveAllNodes(c) \/ Stop(c)
           \/ \E c \in Clients : Establish(c) \/ ConnectFails(c)
           \/ ServerQuit
           \/ UNCHANGED vars
    PROVE  Quiet(d)'
<1> USE DEF serverVars
<1>1. ASSUME NEW n \in Nodes, AddNode(n)  PROVE Quiet(d)'
  BY <1>1, QuietSame DEF AddNode
<1>2. ASSUME NEW c \in Clients, NEW S \in SUBSET NodesOf(c), DestroyOwn(c, S),
             UNCHANGED <<link, cConn, nid, copies, serverVars, wire, toCli, faults>>
      PROVE  Quiet(d)'
  <2>1. \A j \in 1..Len(toSrv'[d]) :
           Ending(toSrv'[d][j]) => \E k \in 1..Len(toSrv[d]) : Ending(toSrv[d][k])
    <3>1. CASE d # c  BY <1>2, <3>1 DEF DestroyOwn, IInv, ToSrvInv
    <3>2. CASE d = c
      <4> DEFINE del == {nid[n] : n \in S \cap cHas[c]}
      <4>1. toSrv'[d] = Send(d, toSrv[d], Destruct(del))
        BY <1>2, <3>2 DEF DestroyOwn, IInv, ToSrvInv
      <4>2. del \in SUBSET (Ids \cup {NoId})  BY DEF IInv, ClientInv, NodesOf
      <4> HIDE DEF del
      <4>3. Destruct(del) \in Seq(FromClient(d)) /\ toSrv[d] \in Seq(FromClient(d))
        BY <4>2, DestructFromClient DEF IInv, ToSrvInv
      <4> QED  BY <4>1, <4>3, EndsSent, DataOnly
    <3> QED  BY <3>1, <3>2
  <2> QED  BY <1>2, <2>1, QuietSame
<1>3. ASSUME NEW n \in Nodes, RemoveNode(n)  PROVE Quiet(d)'
  <2>1. Owner[n] \in Clients /\ {n} \in SUBSET NodesOf(Owner[n])
    BY OwnerAssumption DEF NodesOf
  <2> QED  BY <1>2, <1>3, <2>1 DEF RemoveNode
<1>4. ASSUME NEW c \in Clients, RemoveAllNodes(c)  PROVE Quiet(d)'
  BY <1>2, <1>4 DEF RemoveAllNodes
<1>5. ASSUME NEW c \in Clients, StartClient(c) \/ ConnectFails(c)  PROVE Quiet(d)'
  <2>1. link[d] = "stopped" => link'[d] = "stopped"
    BY <1>5 DEF StartClient, ConnectFails, IInv, ClientInv
  <2> QED  BY <1>5, <2>1, QuietSame DEF StartClient, ConnectFails
<1>6. ASSUME NEW c \in Clients, Stop(c)  PROVE Quiet(d)'
  <2>1. CASE d = c
    <3>1. /\ wire'[c] = FALSE /\ link'[c] = "stopped" /\ copies'[c] = {} /\ toCli'[c] = << >>
      BY <1>6 DEF Stop, IInv, FaultInv, ClientInv, ToCliInv
    <3>2. Idle(<< >>)  BY DEF Idle
    <3> QED  BY <2>1, <3>1, <3>2 DEF Quiet
  <2>2. CASE d # c
    <3>1. toSrv' = toSrv \/ \E q : toSrv' = [toSrv EXCEPT ![c] = q]  BY <1>6 DEF Stop
    <3>2. toSrv'[d] = toSrv[d]  BY <2>2, <3>1 DEF IInv, ToSrvInv
    <3>3. /\ wire'[d] = wire[d] /\ link'[d] = link[d] /\ copies'[d] = copies[d]
          /\ toCli'[d] = toCli[d] /\ UNCHANGED <<up, srvConn>>
      BY <1>6, <2>2 DEF Stop, IInv, FaultInv, ClientInv, ToCliInv
    <3> QED  BY <3>2, <3>3, QuietSame
  <2> QED  BY <2>1, <2>2
<1>7. ASSUME NEW c \in Clients, Establish(c)  PROVE Quiet(d)'
  <2>1. CASE d = c
    <3>1. /\ copies' = copies /\ toCli'[c] = <<Accepted>> /\ ~wire[c] /\ up
          /\ link[c] # "stopped"
          /\ toSrv'[c] = Append(toSrv[c], Incoming) /\ toSrv[c] \in Seq(FromClient(c))
      BY <1>7 DEF Establish, clientVars, IInv, ToCliInv, ToSrvInv
    <3>2. copies[c] = {} /\ \A k \in 1..Len(toSrv[c]) : ~Ending(toSrv[c][k])
      BY <2>1, <3>1 DEF Quiet
    <3>3. Idle(<<Accepted>>)  BY DEF Idle, Accepted
    <3>4. Incoming \in FromClient(c) /\ ~Ending(Incoming)
      BY DEF FromClient, Incoming, Ending
    <3> DEFINE r == Append(toSrv[c], Incoming)
    <3>5. \A j \in 1..Len(r) : ~Ending(r[j])
      <4>1. /\ Len(toSrv[c]) \in Nat /\ Len(r) = Len(toSrv[c]) + 1
            /\ \A j \in 1..Len(toSrv[c]) : r[j] = toSrv[c][j]
            /\ r[Len(toSrv[c]) + 1] = Incoming
        BY <3>1, <3>4, AppendAt, LenProperties
      <4> HIDE DEF r
      <4> QED  BY <3>2, <3>4, <4>1
    <3> QED  BY <2>1, <3>1, <3>2, <3>3, <3>5 DEF Quiet
  <2>2. CASE d # c
    <3>1. /\ wire'[d] = wire[d] /\ link'[d] = link[d] /\ copies'[d] = copies[d]
          /\ toCli'[d] = toCli[d] /\ toSrv'[d] = toSrv[d] /\ UNCHANGED <<up, srvConn>>
      BY <1>7, <2>2 DEF Establish, clientVars, IInv, FaultInv, ToCliInv, ToSrvInv
    <3> QED  BY <3>1, QuietSame
  <2> QED  BY <2>1, <2>2
<1>8. CASE ServerQuit
  <2>1. toSrv'[d] = << >> /\ up' = FALSE  BY <1>8 DEF ServerQuit
  <2> QED  BY <2>1 DEF Quiet
<1>9. CASE UNCHANGED vars  BY <1>9, QuietSame DEF vars
<1> QED  BY <1>1, <1>3, <1>4, <1>5, <1>6, <1>7, <1>8, <1>9

\* A system that is undisturbed was so before.
LEMMA UndisturbedBefore ==
    ASSUME IInv, [Next]_vars, Undisturbed'
    PROVE  /\ Undisturbed /\ \A c \in Clients : ~Break(c)
           /\ ~ServerCrash
<1>1. /\ faults \in [breaks : Nat, crashes : Nat, quits : Nat]
  BY DEF IInv, FaultInv
<1>2. ASSUME NEW c \in Clients, Break(c)  PROVE FALSE
  <2>1. faults'.breaks = faults.breaks + 1  BY <1>1, <1>2 DEF Break
  <2> QED  BY <1>1, <2>1 DEF Undisturbed
<1>3. ASSUME ServerCrash  PROVE FALSE
  <2>1. faults'.crashes = faults.crashes + 1  BY <1>1, <1>3 DEF ServerCrash
  <2> QED  BY <1>1, <2>1 DEF Undisturbed
<1>4. CASE ServerQuit
  <2>1. faults'.breaks = faults.breaks /\ faults'.crashes = faults.crashes
    BY <1>1, <1>4 DEF ServerQuit
  <2> QED  BY <1>2, <1>3, <2>1 DEF Undisturbed
<1>5. CASE faults' = faults  BY <1>2, <1>3, <1>5 DEF Undisturbed
<1>6. ASSUME NEW c \in Clients, ClientReceive(c)  PROVE faults' = faults
  BY <1>6 DEF ClientReceive, ClientUpdate, ClientOnAccepted, ClientOnScope, ClientOnAssigned,
              ClientOnConstruction, ClientOnLost, ClientOnBye
<1>7. CASE ServerReceive
  BY <1>5, <1>7, ServerSends
<1>8. ASSUME NEW n \in Nodes, AddNode(n) \/ RemoveNode(n)  PROVE faults' = faults
  BY <1>8 DEF AddNode, RemoveNode
<1>9. ASSUME NEW c \in Clients, StartClient(c) \/ RemoveAllNodes(c) \/ Stop(c)
             \/ Establish(c) \/ ConnectFails(c)
      PROVE  faults' = faults
  BY <1>9 DEF StartClient, RemoveAllNodes, Stop, Establish, ConnectFails
<1>10. CASE UNCHANGED vars  BY <1>5, <1>10 DEF vars
<1> QED  BY <1>2, <1>3, <1>4, <1>5, <1>6, <1>7, <1>8, <1>9, <1>10 DEF Next

\* QuietInv over every step.
LEMMA NextQuiet == Known /\ [Next]_vars /\ QuietInv => QuietInv'
<1> SUFFICES ASSUME Known, [Next]_vars, QuietInv, Undisturbed', NEW d \in Clients
             PROVE  Quiet(d)'
  BY DEF QuietInv
<1>1. Sane /\ Accounts /\ IInv  BY DEF Known, Sane
<1>2. Undisturbed /\ (\A c \in Clients : ~Break(c)) /\ ~ServerCrash
  BY <1>1, UndisturbedBefore
<1>3. Quiet(d)  BY <1>2 DEF QuietInv
<1>4. CASE ServerReceive  BY <1>1, <1>3, <1>4, ServerQuiet
<1>5. ASSUME NEW c \in Clients, ClientReceive(c)  PROVE Quiet(d)'
  BY <1>1, <1>3, <1>5, ReceiveQuiet
<1> QED  BY <1>1, <1>2, <1>3, <1>4, <1>5, RestQuiet DEF Next

\* NoStaleCopy over every step.
LEMMA NextStale == Known /\ [Next]_vars /\ QuietInv /\ NoStaleCopy => NoStaleCopy'
<1> SUFFICES ASSUME Known, [Next]_vars, QuietInv, NoStaleCopy, Undisturbed',
                    NEW d \in Clients, Joined(d)', NEW id \in Becomes(d)'
             PROVE  id \in srvHas'[d]
  BY DEF NoStaleCopy, Undisturbed
<1>0. Sane /\ OnceInv /\ TidyInv /\ IInv /\ IInv'
  BY NextKnown DEF Known, Sane
<1>1. Undisturbed  BY <1>0, UndisturbedBefore
<1>2. Joined(d) => Becomes(d) \subseteq srvHas[d]  BY <1>1 DEF NoStaleCopy, Undisturbed
<1>3. id \in Foreign(d)
  <2>1. Lasts(copies'[d], toCli'[d], id)  BY <1>0, BecomesIsNext
  <2>2. copies'[d] \subseteq Foreign(d)
    BY <1>0 DEF IInv, ClientInv, Foreign, OwnerOf
  <2>3. toCli'[d] \in Seq(ToClient(d))
    BY <1>0 DEF IInv, ToCliInv, ToClient, Foreign, OwnerOf
  <2>4. \A i \in 1..Len(toCli'[d]) : toCli'[d][i] \in ToClient(d)
    BY <2>3, ElementOfSeq, LenProperties
  <2>5. \A m \in ToClient(d) : m.kind = "construction" => m.new \subseteq Foreign(d)
    BY DEF ToClient, Accepted, Scope, Lost, Bye
  <2> QED  BY <2>1, <2>2, <2>4, <2>5 DEF Lasts
<1>4. CASE ServerReceive
  <2>1. CASE Fresh(d)
    <3>1. UNCHANGED <<clientVars, up, wire>>  BY <1>0, <1>4, ServerSends
    <3>2. copies[d] = {} /\ Idle(toCli[d])
      <4>1. up  BY <1>4, ServerRuns
      <4>2. Quiet(d)  BY <1>1 DEF QuietInv
      <4> QED  BY <2>1, <4>1, <4>2 DEF Quiet, Fresh
    <3>3. toCli[d] \in Seq(ToClient(d)) /\ Scope \in ToClient(d) /\ Scope.kind # "construction"
      BY <1>0 DEF IInv, ToCliInv, ToClient, Scope
    <3>4. ~Lasts(copies[d], toCli[d], id)  BY <3>2 DEF Lasts, Idle
    <3>5. ~Lasts(copies[d], Send(d, toCli[d], <<Scope>>), id)
      BY <3>3, <3>4, LastsSent DEF Send
    <3>6. copies'[d] = copies[d] /\ toCli'[d] = Send(d, toCli[d], <<Scope>>)
      BY <2>1, <3>1 DEF Fresh, clientVars
    <3>7. id \in Becomes(d)' <=> Lasts(copies'[d], toCli'[d], id)  BY <1>0, BecomesIsNext
    <3> QED  BY <3>5, <3>6, <3>7
  <2>2. CASE Joined(d) /\ Revised(d)
    <3>1. PICK gone \in SUBSET Ids :
            /\ \A x \in Foreign(d) : x \in Becomes(d)' <=>
                  (x \in Becomes(d) \/ x \in SFlush(d)) /\ ~(x \in gone /\ x \in SHasNow(d))
            /\ \A x \in Foreign(d) : x \in srvHas'[d] <=> x \in SHasNow(d) /\ x \notin gone
      BY <2>2 DEF Revised
    <3>2. id \in SHasNow(d)  BY <1>2, <1>3, <2>2, <3>1 DEF SHasNow
    <3> QED  BY <1>3, <3>1, <3>2
  <2> QED  BY <1>0, <1>4, <2>1, <2>2, ServerRevises
<1>5. ASSUME NEW c \in Clients, ClientReceive(c)  PROVE id \in srvHas'[d]
  <2>1. Joined(d) /\ (id \in Becomes(d)' <=> id \in Becomes(d))
    BY <1>0, <1>3, <1>5, ClientRevises
  <2>2. srvHas' = srvHas  BY <1>0, <1>5, ReceiveElsewhere DEF Sane, serverVars
  <2> QED  BY <1>2, <2>1, <2>2
<1>6. ASSUME \/ \E n \in Nodes : AddNode(n) \/ RemoveNode(n)
             \/ \E c \in Clients : StartClient(c) \/ RemoveAllNodes(c) \/ Stop(c)
             \/ \E c \in Clients : Establish(c) \/ ConnectFails(c) \/ Break(c)
             \/ ServerQuit
             \/ ServerCrash
             \/ UNCHANGED vars
      PROVE  id \in srvHas'[d]
  <2>1. Joined(d) /\ copies'[d] = copies[d] /\ toCli'[d] = toCli[d] /\ srvHas' = srvHas
    BY <1>0, <1>6, OthersRevise
  <2> QED  BY <1>0, <1>2, <2>1, OthersBecome
<1> QED  BY <1>4, <1>5, <1>6 DEF Next

\* NoStaleCopy at the start.
LEMMA InitStale == Init => QuietInv /\ NoStaleCopy
<1> SUFFICES ASSUME Init, NEW d \in Clients  PROVE Quiet(d) /\ ~Joined(d)
  BY DEF QuietInv, NoStaleCopy
<1>1. toSrv[d] = << >> /\ toCli[d] = << >> /\ copies[d] = {} /\ wire[d] = FALSE
  BY DEF Init
<1>2. Len(<< >>) = 0  OBVIOUS
<1> QED  BY <1>1, <1>2 DEF Quiet, Idle, Joined

\* While no connection was broken and the server did not crash, a client keeps no
\* copy the server does not account for, in either mode, with any number of clients
\* that come and go and a server that may quit.  (A break does leave such copies:
\* PopConnection deletes nothing in a client.)
THEOREM NoneStale == Spec => []NoStaleCopy
<1>1. Init => Known /\ QuietInv /\ NoStaleCopy  BY InitKnown, InitStale
<1>2. (Known /\ QuietInv /\ NoStaleCopy) /\ [Next]_vars => (Known /\ QuietInv /\ NoStaleCopy)'
  BY NextKnown, NextQuiet, NextStale
<1> QED  BY <1>1, <1>2, PTL DEF Spec

---------------------------------------------------------------------------
(* While the server's thread keeps up with the ends of connections.        *)

\* A queue of packets of one connection: its end comes last, once the transport
\* is gone, its beginning first, before the server takes it up, and what
\* constructs or destroys only while the server has it.
Orderly(q, carries, taken) ==
    \A j \in 1..Len(q) :
        /\ Ending(q[j]) => j = Len(q) /\ ~carries
        /\ q[j].kind = "incoming" => j = 1 /\ ~taken
        /\ q[j].kind = "construction" => taken

\* Data behind an orderly queue leave it orderly.
LEMMA OrderlySend ==
    ASSUME NEW S, NEW q \in Seq(S), NEW p \in Seq(S), NEW t \in BOOLEAN, Orderly(q, TRUE, t),
           \A j \in 1..Len(p) : /\ ~Ending(p[j]) /\ p[j].kind # "incoming"
                                /\ p[j].kind = "construction" => t
    PROVE  Orderly(q \o p, TRUE, t)
<1> DEFINE r == q \o p
<1>1. /\ Len(q) \in Nat /\ Len(p) \in Nat /\ Len(r) = Len(q) + Len(p)
      /\ \A i \in 1..(Len(q) + Len(p)) :
            r[i] = IF i <= Len(q) THEN q[i] ELSE p[i - Len(q)]
  BY ConcatProperties, LenProperties
<1> HIDE DEF r
<1>2. ASSUME NEW j \in 1..Len(r)
      PROVE  /\ ~Ending(r[j]) /\ r[j].kind = "incoming" => j = 1 /\ ~t
             /\ r[j].kind = "construction" => t
  <2>1. CASE j <= Len(q)
    <3>1. j \in 1..Len(q) /\ r[j] = q[j]  BY <1>1, <2>1
    <3> QED  BY <3>1 DEF Orderly
  <2>2. CASE ~(j <= Len(q))
    <3>1. j - Len(q) \in 1..Len(p) /\ r[j] = p[j - Len(q)]  BY <1>1, <2>2
    <3> QED  BY <3>1
  <2> QED  BY <2>1, <2>2
<1> QED  BY <1>2 DEF Orderly, r

\* So does taking a packet out,
LEMMA OrderlyWithout ==
    ASSUME NEW S, NEW q \in Seq(S), NEW i \in 1..Len(q), NEW w, NEW t, Orderly(q, w, t)
    PROVE  Orderly(Without(q, i), w, t)
<1> DEFINE r == Without(q, i)
<1>1. /\ Len(q) \in Nat /\ Len(r) = Len(q) - 1
      /\ \A j \in 1..Len(r) : r[j] = IF j < i THEN q[j] ELSE q[j + 1]
  BY WithoutAt, LenProperties
<1> HIDE DEF r
<1>2. ASSUME NEW j \in 1..Len(r)
      PROVE  /\ Ending(r[j]) => j = Len(r) /\ ~w
             /\ r[j].kind = "incoming" => j = 1 /\ ~t
             /\ r[j].kind = "construction" => t
  <2>1. CASE j < i
    <3>1. j \in 1..Len(q) /\ r[j] = q[j] /\ j # Len(q)  BY <1>1, <2>1
    <3> QED  BY <3>1 DEF Orderly
  <2>2. CASE ~(j < i)
    <3>1. j + 1 \in 1..Len(q) /\ r[j] = q[j + 1] /\ j + 1 # 1 /\ (j + 1 = Len(q) => j = Len(r))
      BY <1>1, <2>2
    <3> QED  BY <3>1 DEF Orderly
  <2> QED  BY <2>1, <2>2
<1> QED  BY <1>2 DEF Orderly, r

\* and losing those behind some packet.
LEMMA OrderlyPrefix ==
    ASSUME NEW S, NEW q \in Seq(S), NEW i \in 0..Len(q), NEW t, Orderly(q, TRUE, t)
    PROVE  Orderly(SubSeq(q, 1, i), TRUE, t) /\ SubSeq(q, 1, i) \in Seq(S)
<1> DEFINE r == SubSeq(q, 1, i)
<1>1. Len(q) \in Nat /\ Len(r) = i /\ \A j \in 1..i : r[j] = q[j]
  BY PrefixAt, LenProperties
<1>2. r \in Seq(S)  BY PrefixKeeps
<1> HIDE DEF r
<1>3. \A j \in 1..Len(r) : j \in 1..Len(q) /\ r[j] = q[j]  BY <1>1
<1> QED  BY <1>2, <1>3 DEF Orderly, r

\* The connection is cut: its end follows what is still received.
LEMMA OrderlyEnd ==
    ASSUME NEW S, NEW q \in Seq(S), NEW r \in KeptToSrv(q), NEW m \in {Lost, Bye}, NEW t,
           Orderly(q, TRUE, t)
    PROVE  Orderly(Append(r, m), FALSE, t)
<1>1. Orderly(r, TRUE, t) /\ r \in Seq(S)
  <2>1. PICK i \in 0..Len(q) :
           \/ r = SubSeq(q, 1, i)
           \/ \E k \in 1..i : IsData(q[k]) /\ r = Without(SubSeq(q, 1, i), k)
    BY KeptForm
  <2>2. Orderly(SubSeq(q, 1, i), TRUE, t) /\ SubSeq(q, 1, i) \in Seq(S)
    BY OrderlyPrefix
  <2>3. CASE r = SubSeq(q, 1, i)  BY <2>2, <2>3
  <2>4. ASSUME NEW k \in 1..i, r = Without(SubSeq(q, 1, i), k)
        PROVE  Orderly(r, TRUE, t) /\ r \in Seq(S)
    <3>1. Len(SubSeq(q, 1, i)) = i  BY PrefixAt, LenProperties
    <3> DEFINE s == SubSeq(q, 1, i)
    <3>2. s \in Seq(S) /\ Orderly(s, TRUE, t) /\ k \in 1..Len(s) /\ r = Without(s, k)
      BY <2>2, <2>4, <3>1
    <3> HIDE DEF s
    <3> QED  BY <3>2, OrderlyWithout, WithoutKeeps
  <2> QED  BY <2>1, <2>3, <2>4
<1> DEFINE s == Append(r, m)
<1>2. /\ Len(r) \in Nat /\ Len(s) = Len(r) + 1 /\ s[Len(r) + 1] = m
      /\ \A j \in 1..Len(r) : s[j] = r[j]
  BY <1>1, AppendAt, LenProperties
<1> HIDE DEF s
<1>3. m.kind # "incoming" /\ m.kind # "construction"  BY DEF Lost, Bye
<1>4. ASSUME NEW j \in 1..Len(s)
      PROVE  /\ Ending(s[j]) => j = Len(s)
             /\ s[j].kind = "incoming" => j = 1 /\ ~t
             /\ s[j].kind = "construction" => t
  <2>1. CASE j = Len(s)  BY <1>2, <1>3, <2>1
  <2>2. CASE j # Len(s)
    <3>1. j \in 1..Len(r) /\ s[j] = r[j]  BY <1>2, <2>2
    <3> QED  BY <1>1, <3>1 DEF Orderly
  <2> QED  BY <2>1, <2>2
<1> QED  BY <1>4 DEF Orderly, s

\* Packets that destroy nothing of the client they are for.
Harmless(c) == {m \in ToClient(c) : m.kind = "construction" => m.del \subseteq Foreign(c)}

\* Until the server takes up a connection its client knows nothing but that it
\* was accepted; and nothing in flight destroys a node of the client's own.
InOrder(c) ==
    /\ Orderly(toSrv[c], wire[c], srvConn[c] # "none")
    /\ wire[c] /\ up /\ srvConn[c] = "none" =>
         /\ Len(toSrv[c]) # 0 /\ toSrv[c][1].kind = "incoming"
         /\ cConn[c] # "valid"
         /\ \A i \in 1..Len(toCli[c]) : toCli[c][i].kind = "accepted"
Spared(c) ==
    up => /\ toCli[c] \in Seq(Harmless(c))
          /\ \A n \in NodesOf(c) : own[n] # "dangling"
PromptInv == \A c \in Clients : InOrder(c) /\ Spared(c)

\* Only a packet that destroys a client's own node can harm it.
LEMMA HarmlessControl ==
    ASSUME NEW c \in Clients
    PROVE  /\ {Accepted, Scope, Lost, Bye} \subseteq Harmless(c)
           /\ \A ids \in SUBSET Ids : Assigned(ids) \in Harmless(c)
           /\ \A new \in SUBSET Foreign(c) : Construct(new) \in Seq(Harmless(c))
           /\ \A del \in SUBSET Foreign(c) : Destruct(del) \in Seq(Harmless(c))
<1>1. {Accepted, Scope, Lost, Bye} \subseteq Harmless(c)
  BY DEF Harmless, ToClient, Accepted, Scope, Lost, Bye
<1>2. \A ids \in SUBSET Ids : Assigned(ids) \in Harmless(c)
  BY DEF Harmless, ToClient, Assigned
<1>3. \A new, del \in SUBSET Foreign(c) : Construction(new, del) \in Harmless(c)
  BY DEF Harmless, ToClient, Construction, Foreign
<1>4. << >> \in Seq(Harmless(c)) /\ \A m \in Harmless(c) : <<m>> \in Seq(Harmless(c))
  BY EmptySeq
<1>5. {} \in SUBSET Foreign(c)  OBVIOUS
<1>6. \A new \in SUBSET Foreign(c) : Construct(new) \in Seq(Harmless(c))
  BY <1>3, <1>4, <1>5 DEF Construct
<1>7. \A del \in SUBSET Foreign(c) : Destruct(del) \in Seq(Harmless(c))
  BY <1>3, <1>4, <1>5 DEF Destruct
<1> QED  BY <1>1, <1>2, <1>6, <1>7

\* The server has nothing left of a connection that is gone for good.
LEMMA NoneLeft ==
    ASSUME Known, NEW c \in Clients, up, ~wire[c], toSrv[c] = << >>
    PROVE  srvConn[c] = "none"
<1>1. OnceIn(toSrv[c], Heard(c), Unsaid(c), TRUE)
  BY DEF Known, OnceInv, OnceOf
<1>2. << >> \in Unsaid(c)  BY DEF Unsaid, Topics
<1>3. Len(toSrv[c]) = 0  OBVIOUS
<1>4. << >> \notin Heard(c)  BY <1>1, <1>2, <1>3 DEF OnceIn, Ends
<1> QED  BY <1>4 DEF Heard

\* An orderly queue is so whatever the server has.
LEMMA OrderlyWeaker ==
    ASSUME NEW q, NEW w \in BOOLEAN, NEW t, Orderly(q, w, t)
    PROVE  Orderly(q, FALSE, t)
BY DEF Orderly

\* A connection that is left alone stays in order.
LEMMA InOrderSame ==
    ASSUME NEW d \in Clients, InOrder(d), toSrv'[d] = toSrv[d], wire'[d] = wire[d],
           srvConn'[d] = srvConn[d], toCli'[d] = toCli[d], up' => up,
           cConn'[d] = cConn[d]
    PROVE  InOrder(d)'
BY DEF InOrder

\* A client that is left alone stays spared.
LEMMA SparedSame ==
    ASSUME NEW d \in Clients, Spared(d), up' => up, toCli'[d] = toCli[d],
           \A n \in NodesOf(d) : own'[n] = "dangling" => own[n] = "dangling"
    PROVE  Spared(d)'
BY DEF Spared, Harmless, ToClient, Foreign, OwnerOf, NodesOf

\* A client or the network ends a connection.
LEMMA InOrderCut ==
    ASSUME IInv, NEW c \in Clients, InOrder(c), wire'[c] = FALSE, UNCHANGED serverVars,
           NEW m \in {Lost, Bye},
           IF wire[c] /\ up
           THEN \E q \in KeptToSrv(toSrv[c]) : toSrv'[c] = Append(q, m)
           ELSE toSrv'[c] = toSrv[c]
    PROVE  InOrder(c)'
<1>1. srvConn' = srvConn /\ wire[c] \in BOOLEAN /\ toSrv[c] \in Seq(FromClient(c))
  BY DEF serverVars, IInv, FaultInv, ToSrvInv
<1>2. CASE wire[c] /\ up
  <2>1. PICK q \in KeptToSrv(toSrv[c]) : toSrv'[c] = Append(q, m)  BY <1>2
  <2>2. Orderly(toSrv[c], TRUE, srvConn[c] # "none")
    <3>1. wire[c] = TRUE  BY <1>1, <1>2
    <3> QED  BY <3>1 DEF InOrder
  <2>3. Orderly(Append(q, m), FALSE, srvConn[c] # "none")
    BY <1>1, <2>2, OrderlyEnd
  <2> QED  BY <1>1, <2>1, <2>3 DEF InOrder
<1>3. CASE ~(wire[c] /\ up)
  <2>1. Orderly(toSrv[c], FALSE, srvConn[c] # "none")
    BY <1>1, OrderlyWeaker DEF InOrder
  <2> QED  BY <1>1, <1>3, <2>1 DEF InOrder
<1> QED  BY <1>2, <1>3

\* Every other step keeps PromptInv.
LEMMA RestPrompt ==
    ASSUME Known, Prompt, PromptInv, NEW d \in Clients,
           \/ \E n \in Nodes : AddNode(n) \/ RemoveNode(n)
           \/ \E c \in Clients : StartClient(c) \/ RemoveAllNodes(c) \/ Stop(c)
           \/ \E c \in Clients : Establish(c) \/ ConnectFails(c) \/ Break(c)
           \/ ServerQuit
           \/ ServerCrash
           \/ UNCHANGED vars
    PROVE  InOrder(d)' /\ Spared(d)'
<1>0. /\ IInv /\ ConnInv /\ InOrder(d) /\ Spared(d) /\ ListsOf(d)
      /\ up \in BOOLEAN
  BY DEF Known, Sane, PromptInv, ConnInv, IInv, ServerInv
<1>1. ASSUME NEW n \in Nodes, AddNode(n)  PROVE InOrder(d)' /\ Spared(d)'
  <2>1. \A k \in NodesOf(d) : own'[k] = "dangling" => own[k] = "dangling"
    BY <1>0, <1>1 DEF AddNode, NodesOf, IInv, ClientInv
  <2> QED  BY <1>0, <1>1, <2>1, InOrderSame, SparedSame DEF AddNode, serverVars
<1>2. ASSUME NEW c \in Clients, NEW S \in SUBSET NodesOf(c), DestroyOwn(c, S),
             UNCHANGED <<link, cConn, nid, copies, serverVars, wire, toCli, faults>>
      PROVE  InOrder(d)' /\ Spared(d)'
  <2>0. UNCHANGED <<cConn, up, srvConn, wire, toCli>>  BY <1>2 DEF serverVars
  <2>1. \A k \in NodesOf(d) : own'[k] = "dangling" => own[k] = "dangling"
    BY <1>2 DEF DestroyOwn, NodesOf
  <2>2. Spared(d)'  BY <1>0, <2>0, <2>1, SparedSame
  <2>3. CASE toSrv'[d] = toSrv[d]  BY <1>0, <2>0, <2>2, <2>3, InOrderSame
  <2>4. CASE d = c /\ toSrv'[d] # toSrv[d]
    <3> DEFINE del == {nid[n] : n \in S \cap cHas[c]}
               p == Destruct(del)
    <3>1. toSrv'[d] = Send(d, toSrv[d], p)
      BY <1>0, <1>2, <2>4 DEF DestroyOwn, IInv, ToSrvInv
    <3>2. del \in SUBSET (Ids \cup {NoId})  BY <1>0 DEF IInv, ClientInv, NodesOf
    <3>3. wire[d] = TRUE /\ up /\ toSrv'[d] = toSrv[d] \o p
      BY <1>0, <2>4, <3>1 DEF Send, IInv, FaultInv
    <3>4. p \in Seq(FromClient(d)) /\ toSrv[d] \in Seq(FromClient(d))
      <4> HIDE DEF del
      <4> QED  BY <1>0, <3>2, DestructFromClient DEF IInv, ToSrvInv
    <3>5. srvConn[d] # "none"
      <4>1. S \cap cHas[c] # {}
        <5>1. ASSUME S \cap cHas[c] = {}  PROVE FALSE
          <6>1. del = {}  BY <5>1
          <6> HIDE DEF del
          <6>2. toSrv'[d] = toSrv[d] \o << >>  BY <3>3, <6>1 DEF Destruct
          <6> QED  BY <2>4, <3>4, <6>2, ConcatEmptySeq
        <5> QED  BY <5>1
      <4>2. cConn[c] = "valid"  BY <1>0, <2>4, <4>1 DEF ListsOf
      <4> QED  BY <1>0, <2>4, <3>3, <4>2 DEF InOrder
    <3> HIDE DEF p
    <3>6. \A j \in 1..Len(p) : ~Ending(p[j]) /\ p[j].kind = "construction"
      <4>1. \A j \in 1..Len(<< >>) : FALSE  OBVIOUS
      <4>2. \A x : \A j \in 1..Len(<<Construction({}, x)>>) :
               <<Construction({}, x)>>[j].kind = "construction"
        BY DEF Construction
      <4>3. \A j \in 1..Len(p) : p[j].kind = "construction"
        <5> HIDE DEF del
        <5> QED  BY <4>1, <4>2 DEF p, Destruct
      <4> QED  BY <4>3 DEF Ending
    <3>7. Orderly(toSrv[d], TRUE, TRUE)
      <4>1. wire[d] = TRUE /\ (srvConn[d] # "none") = TRUE  BY <3>3, <3>5
      <4>2. Orderly(toSrv[d], wire[d], srvConn[d] # "none")  BY <1>0 DEF InOrder
      <4> HIDE DEF Orderly
      <4> QED  BY <4>1, <4>2
    <3>8. Orderly(toSrv[d] \o p, TRUE, TRUE)  BY <3>4, <3>6, <3>7, OrderlySend
    <3>9. InOrder(d)'
      <4>1. wire'[d] = TRUE /\ (srvConn'[d] # "none") = TRUE  BY <2>0, <3>3, <3>5
      <4>2. Orderly(toSrv'[d], wire'[d], srvConn'[d] # "none")  BY <3>3, <3>8, <4>1
      <4> QED  BY <4>1, <4>2 DEF InOrder
    <3> QED  BY <2>2, <3>9
  <2>5. d # c => toSrv'[d] = toSrv[d]  BY <1>0, <1>2 DEF DestroyOwn, IInv, ToSrvInv
  <2> QED  BY <2>3, <2>4, <2>5
<1>3. ASSUME NEW n \in Nodes, RemoveNode(n)  PROVE InOrder(d)' /\ Spared(d)'
  <2>1. Owner[n] \in Clients /\ {n} \in SUBSET NodesOf(Owner[n])
    BY OwnerAssumption DEF NodesOf
  <2> QED  BY <1>2, <1>3, <2>1 DEF RemoveNode
<1>4. ASSUME NEW c \in Clients, RemoveAllNodes(c)  PROVE InOrder(d)' /\ Spared(d)'
  BY <1>2, <1>4 DEF RemoveAllNodes
<1>5. ASSUME NEW c \in Clients, StartClient(c) \/ ConnectFails(c)
      PROVE  InOrder(d)' /\ Spared(d)'
  BY <1>0, <1>5, InOrderSame, SparedSame DEF StartClient, ConnectFails, serverVars
<1>6. ASSUME NEW c \in Clients, Stop(c)  PROVE InOrder(d)' /\ Spared(d)'
  <2>1. \A k \in NodesOf(d) : own'[k] = "dangling" => own[k] = "dangling"
    BY <1>6 DEF Stop, NodesOf
  <2>2. UNCHANGED serverVars /\ up' = up  BY <1>6 DEF Stop, serverVars
  <2>3. CASE d = c
    <3>1. wire'[c] = FALSE /\ toCli'[c] = << >>
      BY <1>0, <1>6 DEF Stop, IInv, FaultInv, ToCliInv
    <3>2. IF wire[c] /\ up
          THEN \E q \in KeptToSrv(toSrv[c]) : toSrv'[c] = Append(q, Bye)
          ELSE toSrv'[c] = toSrv[c]
      BY <1>0, <1>6 DEF Stop, IInv, ToSrvInv
    <3>3. InOrder(d)'  BY <1>0, <2>2, <2>3, <3>1, <3>2, InOrderCut
    <3>4. Spared(d)'
      <4>1. << >> \in Seq(Harmless(d)')  BY EmptySeq
      <4> QED  BY <1>0, <2>1, <2>2, <2>3, <3>1, <4>1 DEF Spared, NodesOf
    <3> QED  BY <3>3, <3>4
  <2>4. CASE d # c
    <3>1. toSrv' = toSrv \/ \E q : toSrv' = [toSrv EXCEPT ![c] = q]  BY <1>6 DEF Stop
    <3>2. toSrv'[d] = toSrv[d]  BY <1>0, <2>4, <3>1 DEF IInv, ToSrvInv
    <3>3. wire'[d] = wire[d] /\ cConn'[d] = cConn[d] /\ toCli'[d] = toCli[d]
      BY <1>0, <1>6, <2>4 DEF Stop, IInv, FaultInv, ClientInv, ToCliInv
    <3> QED  BY <1>0, <2>1, <2>2, <3>2, <3>3, InOrderSame, SparedSame DEF serverVars
  <2> QED  BY <2>3, <2>4
<1>7. ASSUME NEW c \in Clients, Break(c)  PROVE InOrder(d)' /\ Spared(d)'
  <2>2. UNCHANGED <<clientVars, serverVars>> /\ up' = up /\ own' = own
    BY <1>7 DEF Break, serverVars, clientVars
  <2>3. CASE d = c
    <3>1. wire'[c] = FALSE /\ \E i \in Cuts(toCli[c]) : toCli'[c] = CutOff(toCli[c], i)
      BY <1>0, <1>7 DEF Break, IInv, FaultInv, ToCliInv
    <3>2. IF wire[c] /\ up
          THEN \E q \in KeptToSrv(toSrv[c]) : toSrv'[c] = Append(q, Lost)
          ELSE toSrv'[c] = toSrv[c]
      BY <1>0, <1>7 DEF Break, IInv, ToSrvInv
    <3>3. InOrder(d)'  BY <1>0, <2>2, <2>3, <3>1, <3>2, InOrderCut
    <3>4. ASSUME up  PROVE toCli'[d] \in Seq(Harmless(d))
      <4>1. toCli[c] \in Seq(Harmless(c)) /\ Lost \in Harmless(c)
        BY <1>0, <2>3, <3>4, HarmlessControl DEF Spared
      <4> QED  BY <2>3, <3>1, <4>1, CutOffKeeps
    <3>5. Spared(d)'
      BY <1>0, <2>2, <3>4 DEF Spared, Harmless, ToClient, Foreign, OwnerOf, NodesOf
    <3> QED  BY <3>3, <3>5
  <2>4. CASE d # c
    <3>1. toSrv' = toSrv \/ \E q : toSrv' = [toSrv EXCEPT ![c] = q]  BY <1>7 DEF Break
    <3>2. toSrv'[d] = toSrv[d]  BY <1>0, <2>4, <3>1 DEF IInv, ToSrvInv
    <3>3. wire'[d] = wire[d] /\ toCli'[d] = toCli[d]
      BY <1>0, <1>7, <2>4 DEF Break, IInv, FaultInv, ToCliInv
    <3> QED  BY <1>0, <2>2, <3>2, <3>3, InOrderSame, SparedSame DEF serverVars, clientVars
  <2> QED  BY <2>3, <2>4
<1>8. ASSUME NEW c \in Clients, Establish(c)  PROVE InOrder(d)' /\ Spared(d)'
  <2>1. UNCHANGED <<clientVars, serverVars>> /\ up' = up /\ own' = own /\ cConn' = cConn
        /\ srvConn' = srvConn
    BY <1>8 DEF Establish, serverVars, clientVars
  <2>2. CASE d = c
    <3>1. /\ up /\ ~wire[c] /\ toSrv[c] = << >> /\ link[c] \in {"connecting", "lost"}
          /\ wire'[c] = TRUE /\ toCli'[c] = <<Accepted>>
          /\ toSrv'[c] = Append(<< >>, Incoming)
      BY <1>0, <1>8 DEF Establish, IInv, FaultInv, ToCliInv, ToSrvInv
    <3>2. srvConn[c] = "none"  BY <3>1, NoneLeft
    <3>3. cConn[c] = "none"  BY <1>0, <2>2, <3>1 DEF ListsOf
    <3> DEFINE r == Append(<< >>, Incoming)
    <3>4. Len(r) = 1 /\ r[1] = Incoming  OBVIOUS
    <3> HIDE DEF r
    <3>5. Orderly(r, TRUE, FALSE)
      BY <3>4 DEF Orderly, Incoming, Ending
    <3>6. Orderly(toSrv'[c], wire'[c], srvConn'[c] # "none")
      <4>1. (srvConn'[c] # "none") = FALSE  BY <2>1, <3>2
      <4> QED  BY <3>1, <3>5, <4>1 DEF r
    <3>7. \A i \in 1..Len(<<Accepted>>) : <<Accepted>>[i].kind = "accepted"
      BY DEF Accepted
    <3>8. InOrder(d)'
      <4>1. Len(toSrv'[c]) # 0 /\ toSrv'[c][1].kind = "incoming"
        BY <3>1, <3>4 DEF r, Incoming
      <4> QED  BY <2>1, <2>2, <3>1, <3>3, <3>6, <3>7, <4>1 DEF InOrder
    <3>9. Spared(d)'
      <4>1. Accepted \in Harmless(d)  BY HarmlessControl
      <4>2. toCli'[d] \in Seq(Harmless(d))  BY <2>2, <3>1, <4>1
      <4> QED  BY <1>0, <2>1, <4>2 DEF Spared, Harmless, ToClient, Foreign, OwnerOf, NodesOf
    <3> QED  BY <3>8, <3>9
  <2>3. CASE d # c
    <3>1. /\ wire'[d] = wire[d] /\ toCli'[d] = toCli[d] /\ toSrv'[d] = toSrv[d]
      BY <1>0, <1>8, <2>3 DEF Establish, IInv, FaultInv, ToCliInv, ToSrvInv
    <3> QED  BY <1>0, <2>1, <3>1, InOrderSame, SparedSame
  <2> QED  BY <2>2, <2>3
<1>9. CASE ServerQuit
  <2>1. toSrv'[d] = << >> /\ up' = FALSE  BY <1>9 DEF ServerQuit
  <2>2. Len(<< >>) = 0  OBVIOUS
  <2> QED  BY <2>1, <2>2 DEF InOrder, Orderly, Spared
<1>10. CASE ServerCrash
  <2>1. /\ toSrv'[d] = << >> /\ wire'[d] = FALSE /\ own' = own /\ up' = up
        /\ \/ toCli'[d] = toCli[d]
           \/ \E i \in Cuts(toCli[d]) : toCli'[d] = CutOff(toCli[d], i)
    BY <1>10 DEF ServerCrash, clientVars
  <2>2. Len(<< >>) = 0  OBVIOUS
  <2>3. InOrder(d)'  BY <2>1, <2>2 DEF InOrder, Orderly
  <2>4. ASSUME up  PROVE toCli'[d] \in Seq(Harmless(d))
    <3>1. toCli[d] \in Seq(Harmless(d)) /\ Lost \in Harmless(d)
      BY <1>0, <2>4, HarmlessControl DEF Spared
    <3> QED  BY <2>1, <3>1, CutOffKeeps
  <2>5. Spared(d)'
    BY <1>0, <2>1, <2>4 DEF Spared, Harmless, ToClient, Foreign, OwnerOf, NodesOf
  <2> QED  BY <2>3, <2>5
<1>11. CASE UNCHANGED vars  BY <1>0, <1>11, InOrderSame, SparedSame DEF vars
<1> QED  BY <1>1, <1>3, <1>4, <1>5, <1>6, <1>7, <1>8, <1>9, <1>10, <1>11

\* A Receive of a client destroys none of its own nodes.
LEMMA ReceiveSpares ==
    ASSUME Known, NEW c \in Clients, ClientReceive(c), Spared(c)
    PROVE  Spared(c)'
<1>1. IInv /\ ConnInv /\ up' = up  BY ReceiveElsewhere DEF Known, Sane, serverVars
<1> SUFFICES ASSUME up
             PROVE  /\ toCli'[c] \in Seq(Harmless(c))
                    /\ \A n \in NodesOf(c) : own'[n] # "dangling"
  BY <1>1 DEF Spared, Harmless, ToClient, Foreign, OwnerOf, NodesOf
<1>2. toCli[c] \in Seq(Harmless(c)) /\ \A n \in NodesOf(c) : own[n] # "dangling"
  BY DEF Spared
<1>3. toCli'[c] \in Seq(Harmless(c))
  <2>1. Harmless(c) \subseteq ToClient(c)  BY DEF Harmless
  <2> QED  BY <1>1, <1>2, <2>1, HarmlessControl, ReceiveLeaves
<1>4. CASE ClientOnConstruction(c)
  <2> DEFINE m == Head(toCli[c])
  <2>1. m \in Harmless(c) /\ m.kind = "construction"
    BY <1>2, <1>4, TailAt DEF ClientOnConstruction, Arriving
  <2>2. \/ own' = own
        \/ \E hit : /\ \A n \in hit : n \in NodesOf(c) /\ nid[n] # NoId /\ nid[n] \in m.del
                    /\ own' = [n \in Nodes |-> IF n \in hit THEN "dangling" ELSE own[n]]
    BY <1>4 DEF ClientOnConstruction, LiveOf
  <2>3. \A n \in NodesOf(c) : nid[n] # NoId => nid[n] \notin m.del
    <3>1. m.del \subseteq Foreign(c)  BY <2>1 DEF Harmless
    <3>2. \A n \in NodesOf(c) : nid[n] # NoId => OwnerOf(nid[n]) = c
      BY <1>1 DEF IInv, ClientInv, NodesOf, OwnerOf
    <3> QED  BY <3>1, <3>2 DEF Foreign
  <2> HIDE DEF m
  <2> QED  BY <1>2, <1>3, <2>2, <2>3 DEF NodesOf
<1>5. CASE ClientOnBye(c)
  <2>1. \A n \in NodesOf(c) : own'[n] # "dangling"
    BY <1>2, <1>5 DEF ClientOnBye, NodesOf
  <2> QED  BY <1>3, <2>1
<1>6. CASE own' = own  BY <1>2, <1>3, <1>6
<1> QED  BY <1>4, <1>5, <1>6 DEF ClientReceive, ClientUpdate, ClientOnAccepted, ClientOnScope,
                                 ClientOnAssigned, ClientOnLost

\* A client that handles a packet keeps that a connection is in order.
LEMMA ReceiveInOrder ==
    ASSUME Known, NEW c \in Clients, ClientReceive(c), InOrder(c)
    PROVE  InOrder(c)'
<1>1. IInv /\ ConnInv /\ up' = up /\ srvConn' = srvConn
  BY ReceiveElsewhere DEF Known, Sane, serverVars
<1>2. /\ wire[c] \in BOOLEAN
      /\ wire'[c] = wire[c] \/ (wire'[c] = FALSE /\ ~(wire[c] /\ up))
      /\ \/ toSrv'[c] = Send(c, toSrv[c], CPacket(c))
         \/ toSrv'[c] = Send(c, toSrv[c], <<Scope>>)
  BY <1>1, ReceiveSends DEF IInv, FaultInv
<1>3. Orderly(toSrv[c], wire[c], srvConn[c] # "none")  BY DEF InOrder
<1>4. CASE ~(wire[c] /\ up)
  <2>1. toSrv'[c] = toSrv[c]  BY <1>2, <1>4 DEF Send
  <2>2. Orderly(toSrv[c], wire'[c], srvConn[c] # "none")
    <3>1. CASE wire'[c] = wire[c]  BY <1>3, <3>1
    <3>2. CASE wire'[c] = FALSE  BY <1>2, <1>3, <3>2, OrderlyWeaker
    <3> QED  BY <1>2, <3>1, <3>2
  <2>3. ~(wire'[c] /\ up')  BY <1>1, <1>2, <1>4
  <2> QED  BY <1>1, <2>1, <2>2, <2>3 DEF InOrder
<1>5. CASE wire[c] /\ up
  <2>1. wire[c] = TRUE /\ wire'[c] = TRUE  BY <1>2, <1>5
  <2>2. PICK p : /\ p = CPacket(c) \/ p = <<Scope>>
                 /\ toSrv'[c] = toSrv[c] \o p
    BY <1>2, <1>5 DEF Send
  <2>3. p \in Seq(FromClient(c)) /\ toSrv[c] \in Seq(FromClient(c))
    BY <1>1, <2>2, CPacketTyped, ControlFromClient DEF IInv, ToSrvInv
  <2>4. \A j \in 1..Len(p) : \/ p[j].kind = "scope"
                             \/ p[j].kind = "construction" /\ CFlush(c) # {}
    <3>1. CASE p = <<Scope>>  BY <3>1 DEF Scope
    <3>2. CASE p = CPacket(c)
      <4> DEFINE new == {<<n, nid[n]>> : n \in CFlush(c)}
      <4>1. CPacket(c) = Construct(new) /\ (new # {} => CFlush(c) # {})  BY DEF CPacket
      <4> HIDE DEF new
      <4>2. CASE new = {}
        <5>1. p = << >>  BY <3>2, <4>1, <4>2 DEF Construct
        <5> QED  BY <5>1
      <4>3. CASE new # {}
        <5>1. p = <<Construction(new, {})>>  BY <3>2, <4>1, <4>3 DEF Construct
        <5>2. Len(p) = 1 /\ p[1] = Construction(new, {})  BY <5>1
        <5>3. p[1].kind = "construction"  BY <5>2 DEF Construction
        <5> QED  BY <4>1, <4>3, <5>2, <5>3
      <4> QED  BY <4>2, <4>3
    <3> QED  BY <2>2, <3>1, <3>2
  <2> DEFINE t == srvConn[c] # "none"
  <2>5. CFlush(c) # {} => t
    BY <1>5 DEF CFlush, InOrder
  <2>6. Orderly(toSrv[c] \o p, TRUE, t)
    <3>1. t \in BOOLEAN /\ Orderly(toSrv[c], TRUE, t)  BY <1>3, <2>1
    <3>2. \A j \in 1..Len(p) : /\ ~Ending(p[j]) /\ p[j].kind # "incoming"
                               /\ p[j].kind = "construction" => t
      <4> HIDE DEF t
      <4> QED  BY <2>4, <2>5 DEF Ending
    <3> HIDE DEF t
    <3> QED  BY <2>3, <3>1, <3>2, OrderlySend
  <2>7. ASSUME srvConn[c] = "none"
        PROVE  /\ Len(toSrv'[c]) # 0 /\ toSrv'[c][1].kind = "incoming"
               /\ cConn'[c] # "valid"
               /\ \A i \in 1..Len(toCli'[c]) : toCli'[c][i].kind = "accepted"
    <3>1. /\ Len(toSrv[c]) # 0 /\ toSrv[c][1].kind = "incoming"
          /\ cConn[c] # "valid"
          /\ \A i \in 1..Len(toCli[c]) : toCli[c][i].kind = "accepted"
      BY <1>5, <2>7 DEF InOrder
    <3>2. Len(toSrv'[c]) # 0 /\ toSrv'[c][1].kind = "incoming"
      <4> DEFINE q == toSrv[c]
                 r == q \o p
      <4>1. /\ Len(q) \in Nat /\ Len(p) \in Nat /\ Len(r) = Len(q) + Len(p)
            /\ \A i \in 1..(Len(q) + Len(p)) :
                  r[i] = IF i <= Len(q) THEN q[i] ELSE p[i - Len(q)]
        BY <2>3, ConcatProperties, LenProperties
      <4>2. toSrv'[c] = r  BY <2>2
      <4>3. Len(q) # 0 /\ q[1].kind = "incoming"  BY <3>1
      <4> HIDE DEF q, r
      <4>4. 1 \in 1..(Len(q) + Len(p)) /\ 1 <= Len(q)  BY <4>1, <4>3
      <4>5. r[1] = q[1]  BY <4>1, <4>4
      <4> QED  BY <4>1, <4>2, <4>3, <4>5
    <3>3. toCli[c] \in Seq(ToClient(c))  BY <1>1 DEF IInv, ToCliInv
    <3>4. \A kind : Arriving(c, kind) => kind = "accepted"
      <4>1. toCli[c] # << >> => 1 \in 1..Len(toCli[c]) /\ Head(toCli[c]) = toCli[c][1]
        BY <3>3, TailAt
      <4> QED  BY <3>1, <4>1 DEF Arriving
    <3>5. CFlush(c) = {}  BY <3>1 DEF CFlush
    <3>6. ClientOnAccepted(c)
      BY <3>4, <3>5 DEF ClientReceive, ClientUpdate, ClientOnScope, ClientOnAssigned,
                        ClientOnConstruction, ClientOnLost, ClientOnBye
    <3>7. /\ cConn'[c] # "valid" /\ toCli[c] # << >>
          /\ toCli'[c] = Tail(toCli[c])
      BY <1>1, <3>1, <3>6 DEF ClientOnAccepted, Arriving, IInv, ClientInv, ToCliInv
    <3>8. \A i \in 1..Len(toCli'[c]) : i + 1 \in 1..Len(toCli[c])
                                       /\ toCli'[c][i] = toCli[c][i + 1]
      BY <3>3, <3>7, TailAt
    <3> QED  BY <3>1, <3>2, <3>7, <3>8
  <2> QED  BY <1>1, <2>1, <2>2, <2>6, <2>7 DEF InOrder
<1> QED  BY <1>4, <1>5

\* A client that handles a packet keeps PromptInv.
LEMMA ReceivePrompt ==
    ASSUME Known, NEW c \in Clients, ClientReceive(c), PromptInv
    PROVE  PromptInv'
<1>1. IInv /\ ConnInv /\ UNCHANGED serverVars  BY ReceiveElsewhere DEF Known, Sane
<1>2. InOrder(c)' /\ Spared(c)'  BY ReceiveInOrder, ReceiveSpares DEF PromptInv
<1>3. ASSUME NEW d \in Clients, d # c  PROVE InOrder(d)' /\ Spared(d)'
  <2>1. InOrder(d) /\ Spared(d)  BY DEF PromptInv
  <2>2. \A n \in NodesOf(d) : own'[n] = own[n]  BY <1>1, <1>3, ReceiveElsewhere DEF NodesOf
  <2> QED  BY <1>1, <1>3, <2>1, <2>2, ReceiveElsewhere, InOrderSame, SparedSame DEF serverVars
<1> QED  BY <1>2, <1>3 DEF PromptInv

\* The server, seen from one client: what it takes and what it knows of it.
LEMMA ServerOrder ==
    ASSUME Known, ServerReceive, NEW d \in Clients, InOrder(d)
    PROVE  Orderly(toSrv'[d], wire[d], srvConn'[d] # "none")
<1>0. /\ Sane /\ IInv
      /\ toSrv \in [Clients -> Seq(PacketsToSrv)]
      /\ srvConn \in [Clients -> {"none", "pushed", "valid"}]
  BY DEF Known, Sane, IInv, ToSrvInv, ServerInv
<1>1. Orderly(toSrv[d], wire[d], srvConn[d] # "none")  BY DEF InOrder
<1>2. ASSUME NEW i, NEW kind, Reaching(d, i, kind), toSrv'[d] = Without(toSrv[d], i)
      PROVE  /\ Orderly(toSrv'[d], wire[d], srvConn[d] # "none")
             /\ i \in 1..Len(toSrv[d]) /\ toSrv[d][i].kind = kind
             /\ toSrv[d] \in Seq(Meant(d))
  <2>1. i \in 1..Len(toSrv[d]) /\ toSrv[d] \in Seq(Meant(d)) /\ toSrv[d][i].kind = kind
    BY <1>0, <1>2, Handles
  <2> DEFINE q == toSrv[d]
             w == wire[d]
             t == srvConn[d] # "none"
             s == Meant(d)
  <2>2. Orderly(q, w, t) /\ q \in Seq(s) /\ i \in 1..Len(q)  BY <1>1, <2>1
  <2> HIDE DEF q, w, t, s
  <2>3. Orderly(Without(q, i), w, t)  BY <2>2, OrderlyWithout
  <2> QED  BY <1>2, <2>1, <2>3 DEF q, w, t
<1>3. ASSUME NEW c \in Clients, NEW i, Take(c, i)
      PROVE  /\ c # d => toSrv'[d] = toSrv[d]
             /\ c = d => toSrv'[d] = Without(toSrv[d], i)
  BY <1>0, <1>3 DEF Take
<1>4. CASE ServerUpdate  BY <1>1, <1>4 DEF ServerUpdate
<1>5. ASSUME NEW c \in Clients, NEW i, ServerOnIncoming(c, i)
      PROVE  Orderly(toSrv'[d], wire[d], srvConn'[d] # "none")
  <2>1. Reaching(c, i, "incoming") /\ Take(c, i)  BY <1>5 DEF ServerOnIncoming
  <2>2. CASE c # d
    <3>1. srvConn'[d] = srvConn[d]  BY <1>0, <1>5, <2>2 DEF ServerOnIncoming
    <3> QED  BY <1>1, <1>3, <2>1, <2>2, <3>1
  <2>3. CASE c = d
    <3>1. /\ Orderly(toSrv'[d], wire[d], srvConn[d] # "none")
          /\ i \in 1..Len(toSrv[d]) /\ toSrv[d][i].kind = "incoming"
      BY <1>2, <1>3, <2>1, <2>3
    <3>2. i = 1 /\ srvConn[d] = "none"  BY <1>1, <3>1 DEF Orderly
    <3>3. srvConn'[d] # "none"  BY <1>0, <1>5, <2>3, <3>2 DEF ServerOnIncoming
    <3>4. toSrv[d] \in Seq(PacketsToSrv) /\ toSrv'[d] = Without(toSrv[d], 1)
      BY <1>0, <1>3, <2>1, <2>3, <3>2
    <3> DEFINE q == toSrv[d]
               r == Without(q, 1)
    <3>5. /\ Len(q) \in Nat /\ Len(r) = Len(q) - 1
          /\ \A j \in 1..Len(r) : r[j] = q[j + 1]
      <4>1. 1 \in 1..Len(q)  BY <3>1, <3>2
      <4>2. q \in Seq(PacketsToSrv)  BY <3>4
      <4> HIDE DEF q
      <4>3. Len(r) = Len(q) - 1 /\ \A j \in 1..Len(r) : r[j] = IF j < 1 THEN q[j] ELSE q[j + 1]
        BY <4>1, <4>2, WithoutAt
      <4>4. Len(q) \in Nat  BY <4>2, LenProperties
      <4> HIDE DEF r
      <4>5. \A j \in 1..Len(r) : ~(j < 1)  OBVIOUS
      <4> QED  BY <4>3, <4>4, <4>5
    <3>6. Orderly(q, wire[d], srvConn[d] # "none")  BY <1>1
    <3>7. Orderly(r, wire[d], srvConn[d] # "none") /\ toSrv'[d] = r  BY <3>1, <3>4
    <3> HIDE DEF q, r
    <3>8. \A j \in 1..Len(r) : r[j].kind # "incoming"
      <4> TAKE j \in 1..Len(r)
      <4>1. j + 1 \in 1..Len(q) /\ j + 1 # 1 /\ r[j] = q[j + 1]  BY <3>5
      <4> QED  BY <3>6, <4>1 DEF Orderly
    <3> QED  BY <3>3, <3>7, <3>8 DEF Orderly
  <2> QED  BY <2>2, <2>3
<1>6. ASSUME NEW c \in Clients, NEW i, NEW kind, Reaching(c, i, kind), Take(c, i),
             srvConn'[d] = "none" <=> srvConn[d] = "none"
      PROVE  Orderly(toSrv'[d], wire[d], srvConn'[d] # "none")
  <2>1. (srvConn'[d] # "none") = (srvConn[d] # "none")  BY <1>6
  <2>2. Orderly(toSrv'[d], wire[d], srvConn[d] # "none")
    BY <1>1, <1>2, <1>3, <1>6
  <2> QED  BY <2>1, <2>2
<1>7. ASSUME NEW c \in Clients, NEW i, ServerOnScope(c, i)
      PROVE  Orderly(toSrv'[d], wire[d], srvConn'[d] # "none")
  <2>1. srvConn'[d] = "none" <=> srvConn[d] = "none"
    BY <1>0, <1>7 DEF ServerOnScope
  <2> QED  BY <1>6, <1>7, <2>1 DEF ServerOnScope
<1>8. ASSUME NEW c \in Clients, NEW i, ServerOnConstruction(c, i)
      PROVE  Orderly(toSrv'[d], wire[d], srvConn'[d] # "none")
  <2>1. srvConn'[d] = "none" <=> srvConn[d] = "none"  BY <1>8 DEF ServerOnConstruction
  <2>2. Reaching(c, i, "construction") /\ Take(c, i)  BY <1>8 DEF ServerOnConstruction
  <2> QED  BY <1>6, <2>1, <2>2
<1>9. ASSUME NEW c \in Clients, NEW i, ServerOnClosed(c, i)
      PROVE  Orderly(toSrv'[d], wire[d], srvConn'[d] # "none")
  <2>1. Take(c, i) /\ (Reaching(c, i, "lost") \/ Reaching(c, i, "bye"))
    BY <1>9 DEF ServerOnClosed
  <2>2. CASE c # d
    <3>1. srvConn'[d] = srvConn[d]  BY <1>0, <1>9, <2>2 DEF ServerOnClosed
    <3> QED  BY <1>1, <1>3, <2>1, <2>2, <3>1
  <2>3. CASE c = d
    <3>1. PICK kind \in {"lost", "bye"} : Reaching(d, i, kind)  BY <2>1, <2>3
    <3>2. /\ Orderly(toSrv'[d], wire[d], srvConn[d] # "none")
          /\ i \in 1..Len(toSrv[d]) /\ toSrv[d][i].kind = kind
      BY <1>2, <1>3, <2>1, <2>3, <3>1
    <3>3. Ending(toSrv[d][i])  BY <3>2 DEF Ending
    <3>4. i = Len(toSrv[d])  BY <1>1, <3>2, <3>3 DEF Orderly
    <3>5. i = 1  BY <1>0, <3>1, Handles
    <3>6. Len(toSrv'[d]) = 0
      <4>1. toSrv[d] \in Seq(PacketsToSrv) /\ toSrv'[d] = Without(toSrv[d], i)
        BY <1>0, <1>3, <2>1, <2>3
      <4>2. Len(Without(toSrv[d], i)) = Len(toSrv[d]) - 1  BY <3>2, <4>1, WithoutAt
      <4> QED  BY <3>4, <3>5, <4>1, <4>2
    <3> QED  BY <3>6 DEF Orderly
  <2> QED  BY <2>2, <2>3
<1> QED  BY <1>4, <1>5, <1>7, <1>8, <1>9 DEF ServerReceive

\* A packet that begins a connection is not overtaken.
LEMMA FirstIncoming ==
    ASSUME Known, NEW d \in Clients, InOrder(d), wire[d], up, srvConn[d] = "none",
           NEW i, NEW kind, Reaching(d, i, kind)
    PROVE  kind = "incoming"
<1>1. Sane /\ toSrv[d] \in Seq(Meant(d)) /\ i \in 1..Len(toSrv[d]) /\ toSrv[d][i].kind = kind
  BY Handles DEF Known
<1>2. Orderly(toSrv[d], wire[d], FALSE) /\ toSrv[d][1].kind = "incoming"
  <2>1. (srvConn[d] # "none") = FALSE  OBVIOUS
  <2> QED  BY <2>1 DEF InOrder
<1>3. CanTake(toSrv[d], i)  BY DEF Reaching
<1>4. i = 1
  <2>1. kind # "construction" /\ ~Ending(toSrv[d][i])  BY <1>1, <1>2 DEF Orderly
  <2>2. ASSUME i # 1  PROVE FALSE
    <3>1. 1 \in 1..(i - 1)  BY <1>1, <2>2, LenProperties
    <3>2. ~IsData(toSrv[d][1])  BY <1>2 DEF IsData
    <3> QED  BY <1>1, <1>3, <2>1, <2>2, <3>1, <3>2 DEF CanTake, IsData
  <2> QED  BY <2>2
<1> QED  BY <1>1, <1>2, <1>4

\* The server, handling a packet, keeps that a connection is in order.
LEMMA ServerInOrder ==
    ASSUME Known, ServerReceive, NEW d \in Clients, InOrder(d)
    PROVE  InOrder(d)'
<1>1. /\ Sane /\ IInv /\ Accounts /\ up /\ UNCHANGED <<clientVars, up, wire>>
      /\ srvConn \in [Clients -> {"none", "pushed", "valid"}]
      /\ toSrv \in [Clients -> Seq(PacketsToSrv)]
  BY ServerRuns, ServerSends DEF Known, Sane, IInv, ServerInv, ToSrvInv
<1>2. Orderly(toSrv'[d], wire'[d], srvConn'[d] # "none")  BY <1>1, ServerOrder
<1>3. ASSUME wire[d], srvConn'[d] = "none"
      PROVE  srvConn[d] = "none" /\ toSrv'[d] = toSrv[d] /\ toCli'[d] = toCli[d]
  <2>1. srvConn[d] = "none"
    <3>1. \A k \in 1..Len(toSrv[d]) : ~Ending(toSrv[d][k])  BY <1>3 DEF InOrder, Orderly
    <3> QED  BY <1>1, <1>3, <3>1, ServerTakesOne
  <2>2. \A i, kind : Reaching(d, i, kind) => kind = "incoming"
    BY <1>1, <1>3, <2>1, FirstIncoming
  <2>3. ASSUME NEW c \in Clients, NEW i, ServerOnIncoming(c, i)  PROVE c # d
    BY <1>1, <1>3, <2>1, <2>3 DEF ServerOnIncoming
  <2>4. ASSUME NEW c \in Clients, NEW i,
               ServerOnScope(c, i) \/ ServerOnConstruction(c, i) \/ ServerOnClosed(c, i)
        PROVE  c # d
    <3>1. \E kind \in {"scope", "construction", "lost", "bye"} : Reaching(c, i, kind)
      BY <2>4 DEF ServerOnScope, ServerOnConstruction, ServerOnClosed
    <3> QED  BY <2>2, <3>1
  <2>5. ASSUME NEW c \in Clients, NEW i, c # d, Take(c, i)  PROVE toSrv'[d] = toSrv[d]
    BY <1>1, <2>5 DEF Take
  <2>6. ASSUME NEW c \in Clients, NEW i,
               \/ ServerOnIncoming(c, i) \/ ServerOnScope(c, i)
               \/ ServerOnConstruction(c, i) \/ ServerOnClosed(c, i)
        PROVE  toSrv'[d] = toSrv[d]
    <3>1. Take(c, i)
      BY <2>6 DEF ServerOnIncoming, ServerOnScope, ServerOnConstruction, ServerOnClosed
    <3> QED  BY <2>3, <2>4, <2>5, <2>6, <3>1
  <2>7. toSrv'[d] = toSrv[d]  BY <2>6 DEF ServerReceive, ServerUpdate
  <2> QED  BY <1>1, <1>3, <2>1, <2>7, NothingSent
<1> QED  BY <1>1, <1>2, <1>3 DEF InOrder, clientVars

\* What else a handler sends a client destroys none of the client's own nodes, but
\* for what the end of its former connection sends to a client that is back.
LEMMA ServerSendsHarmless ==
    ASSUME Known, ServerReceive, NEW d \in Clients,
           ~(srvConn[d] # "none" /\ srvConn'[d] = "none" /\ wire[d])
    PROVE  \E p \in Seq(Harmless(d)) : toCli'[d] = Send(d, toCli[d], p)
<1> DEFINE Sent1 == \E p \in Seq(Harmless(d)) : toCli'[d] = Send(d, toCli[d], p)
<1>1. /\ Sane /\ IInv /\ Accounts /\ srvConn \in [Clients -> {"none", "pushed", "valid"}]
  BY DEF Known, Sane, IInv, ServerInv
<1>2. SPacket(d) \in Seq(Harmless(d))
  <2>1. SFlush(d) \in SUBSET Foreign(d)  BY <1>1 DEF IInv, ServerInv, SFlush
  <2> QED  BY <2>1, HarmlessControl DEF SPacket
<1>3. ASSUME NEW x \in Seq(Harmless(d)), toCli'[d] = Send(d, toCli[d], SPacket(d) \o x)
      PROVE  Sent1
  <2>1. SPacket(d) \o x \in Seq(Harmless(d))  BY <1>2, ConcatProperties
  <2> QED  BY <1>3, <2>1
<1>4. << >> \in Seq(Harmless(d)) /\ <<Scope>> \in Seq(Harmless(d))
  <2>1. Scope \in Harmless(d)  BY HarmlessControl
  <2> QED  BY <2>1, EmptySeq
<1> SUFFICES Sent1
  OBVIOUS
<1> HIDE DEF Sent1
<1>5. CASE ServerUpdate
  <2>1. toCli'[d] = Send(d, toCli[d], SPacket(d) \o << >>)
    BY <1>5 DEF ServerUpdate, Deliver, Nothing
  <2> QED  BY <1>3, <1>4, <2>1
<1>6. ASSUME NEW c \in Clients, NEW i, ServerOnIncoming(c, i) \/ ServerOnScope(c, i)
      PROVE  Sent1
  <2>1. \/ toCli'[d] = Send(d, toCli[d], SPacket(d) \o << >>)
        \/ toCli'[d] = Send(d, toCli[d], SPacket(d) \o <<Scope>>)
    BY <1>6 DEF ServerOnIncoming, ServerOnScope, Deliver, Nothing
  <2> QED  BY <1>3, <1>4, <2>1
<1>7. ASSUME NEW c \in Clients, NEW i, ServerOnConstruction(c, i)
      PROVE  Sent1
  <2>1. CASE srvConn[c] = "none"
    <3>1. toCli'[d] = Send(d, toCli[d], SPacket(d) \o << >>)
      BY <1>7, <2>1 DEF ServerOnConstruction, Deliver, Nothing
    <3> QED  BY <1>3, <1>4, <3>1
  <2>2. CASE srvConn[c] # "none"
    <3> DEFINE m == toSrv[c][i]
    <3>1. toCli'[d] = Send(d, toCli[d], SPacket(d) \o SentThen(c, m, d))
      BY <1>7, <2>2, ConstructionIs
    <3>2. m \in Meant(c) /\ m \in FromClient(c) /\ m.kind = "construction"
      <4>1. Reaching(c, i, "construction")  BY <1>7 DEF ServerOnConstruction
      <4> QED  BY <1>1, <4>1, Handles
    <3> HIDE DEF m
    <3>3. Answered(m) \subseteq Ids /\ Doomed(m) \subseteq Ids
      BY <1>1, <3>2, ConstructionHolds
    <3>4. CASE d = c
      <4>1. Assigned(Answered(m)) \in Harmless(d)  BY <3>3, HarmlessControl
      <4>2. SentThen(c, m, d) \in Seq(Harmless(d))
        BY <1>4, <3>4, <4>1 DEF SentThen, Assign
      <4> QED  BY <1>3, <3>1, <4>2
    <3>5. CASE d # c
      <4>1. \A id \in Doomed(m) : id \in m.del /\ id # NoId
        BY <3>3 DEF Doomed, Ids, NoId
      <4>2. Doomed(m) \subseteq Foreign(d)
        BY <3>2, <3>3, <3>5, <4>1 DEF Meant, Foreign
      <4>3. Doomed(m) \cap HasThen(c, m, d) \in SUBSET Foreign(d)  BY <4>2
      <4>4. SentThen(c, m, d) \in Seq(Harmless(d))
        BY <3>5, <4>3, HarmlessControl DEF SentThen
      <4> QED  BY <1>3, <3>1, <4>4
    <3> QED  BY <3>4, <3>5
  <2> QED  BY <2>1, <2>2
<1>8. ASSUME NEW c \in Clients, NEW i, ServerOnClosed(c, i)
      PROVE  Sent1
  <2> DEFINE dropped == IF srvConn[c] = "none" THEN {} ELSE CreatedBy(c)
             again == Destruct(dropped \cap SHasNow(d))
  <2>1. /\ srvConn'[c] = "none"
        /\ d = c => toCli'[d] = Send(d, toCli[d], SPacket(d) \o (<< >> \o again))
        /\ d # c => toCli'[d] = Send(d, toCli[d], SPacket(d) \o (again \o again))
    BY <1>1, <1>8 DEF ServerOnClosed, Deliver
  <2>2. CASE d = c /\ srvConn[d] = "none"
    <3>1. again = << >>  BY <2>2 DEF Destruct
    <3> HIDE DEF again
    <3>2. << >> \o again \in Seq(Harmless(d))  BY <1>4, <3>1, ConcatProperties
    <3> QED  BY <1>3, <2>1, <2>2, <3>2
  <2>3. CASE d = c /\ ~wire[d]
    <3>1. toCli'[d] = Send(d, toCli[d], << >>)  BY <2>1, <2>3 DEF Send
    <3> QED  BY <1>4, <3>1 DEF Sent1
  <2>4. CASE d # c
    <3>1. dropped \cap SHasNow(d) \in SUBSET Foreign(d)
      BY <1>1, <2>4 DEF CreatedBy, IInv, ServerInv, Foreign
    <3> HIDE DEF dropped
    <3>2. again \o again \in Seq(Harmless(d))
      BY <3>1, HarmlessControl, ConcatProperties
    <3> HIDE DEF again
    <3> QED  BY <1>3, <2>1, <2>4, <3>2
  <2> HIDE DEF again, dropped
  <2> QED  BY <2>1, <2>2, <2>3, <2>4
<1> QED  BY <1>5, <1>6, <1>7, <1>8 DEF ServerReceive

\* The server, handling a packet, keeps that a client's own nodes are spared.
LEMMA ServerSpares ==
    ASSUME Known, ServerReceive, PromptInv, NEW d \in Clients
    PROVE  Spared(d)'
<1>1. /\ Sane /\ IInv /\ up /\ UNCHANGED <<clientVars, up, wire>>
      /\ toCli[d] \in Seq(Harmless(d)) /\ \A n \in NodesOf(d) : own[n] # "dangling"
  BY ServerRuns, ServerSends DEF Known, Sane, PromptInv, Spared
<1>2. wire[d] => \A k \in 1..Len(toSrv[d]) : ~Ending(toSrv[d][k])
  BY DEF PromptInv, InOrder, Orderly
<1>3. PICK p \in Seq(Harmless(d)) : toCli'[d] = Send(d, toCli[d], p)
  BY <1>1, <1>2, ServerTakesOne, ServerSendsHarmless
<1>4. toCli'[d] \in Seq(Harmless(d))  BY <1>1, <1>3, SendKeeps
<1> QED  BY <1>1, <1>4 DEF Spared, Harmless, ToClient, Foreign, OwnerOf, NodesOf, clientVars

\* PromptInv over every step.
LEMMA NextPrompt == Known /\ Prompt /\ PromptInv /\ [Next]_vars => PromptInv'
<1> SUFFICES ASSUME Known, Prompt, PromptInv, [Next]_vars  PROVE PromptInv'
  OBVIOUS
<1>1. CASE ServerReceive
  BY <1>1, ServerInOrder, ServerSpares DEF PromptInv
<1>2. ASSUME NEW c \in Clients, ClientReceive(c)  PROVE PromptInv'
  BY <1>2, ReceivePrompt
<1>3. CASE \/ \E n \in Nodes : AddNode(n) \/ RemoveNode(n)
           \/ \E c \in Clients : StartClient(c) \/ RemoveAllNodes(c) \/ Stop(c)
           \/ \E c \in Clients : Establish(c) \/ ConnectFails(c) \/ Break(c)
           \/ ServerQuit
           \/ ServerCrash
           \/ UNCHANGED vars
  BY <1>3, RestPrompt DEF PromptInv
<1> QED  BY <1>1, <1>2, <1>3 DEF Next

\* PromptInv at the start.
LEMMA InitPrompt == Init => PromptInv
<1> SUFFICES ASSUME Init, NEW c \in Clients  PROVE InOrder(c) /\ Spared(c)
  BY DEF PromptInv
<1>1. /\ toSrv[c] = << >> /\ toCli[c] = << >> /\ wire[c] = FALSE
      /\ \A n \in Nodes : own[n] = "none"
  BY DEF Init
<1>2. Len(<< >>) = 0 /\ << >> \in Seq(Harmless(c))  BY EmptySeq
<1> QED  BY <1>1, <1>2 DEF InOrder, Orderly, Spared, NodesOf

\* Known, ServerBeliefSound and PromptInv always hold, when the server is prompt.
LEMMA AlwaysPrompt ==
    ASSUME Prompt
    PROVE  Spec => [](Known /\ ServerBeliefSound /\ PromptInv)
<1> DEFINE All == Known /\ ServerBeliefSound /\ PromptInv
<1>1. Init => All  BY InitKnown, InitBelief, InitPrompt
<1>2. All /\ [Next]_vars => All'  BY NextKnown, NextBelief, NextPrompt
<1> QED  BY <1>1, <1>2, PTL DEF Spec

\* "Got OnConstruction but no connection yet", the assertion of the code, holds in
\* the clients and, while the server's thread handles the end of a connection
\* before the client is back, in the server: a client constructs nothing before
\* the server has answered its scope change.  (Data that overtakes the packet
\* which begins a second connection, still behind the end of the first, is what
\* Prompt excludes.)
THEOREM ConstructionsConnected ==
    ASSUME Prompt
    PROVE  Spec => []ConstructionHasConnection
<1>1. Known /\ PromptInv => ConstructionHasConnection
  <2> SUFFICES ASSUME Known, PromptInv, NEW c \in Clients
               PROVE  /\ Arriving(c, "construction") => cConn[c] # "none"
                      /\ \A i \in DOMAIN toSrv[c] :
                            Reaching(c, i, "construction") => srvConn[c] # "none"
    BY DEF ConstructionHasConnection
  <2>1. Sane /\ IInv /\ ConnInv  BY DEF Known, Sane
  <2>2. Arriving(c, "construction") => cConn[c] # "none"
    <3>1. toCli[c] \in Seq(ToClient(c))  BY <2>1 DEF IInv, ToCliInv
    <3>2. toCli[c] # << >> => Len(toCli[c]) # 0 /\ Head(toCli[c]) = toCli[c][1]
      BY <3>1, TailAt
    <3>3. ShapeOf(c)  BY <2>1 DEF ConnInv
    <3> QED  BY <3>2, <3>3 DEF ShapeOf, Shape, Arriving
  <2>3. ASSUME NEW i, Reaching(c, i, "construction")  PROVE srvConn[c] # "none"
    <3>1. i \in 1..Len(toSrv[c]) /\ toSrv[c][i].kind = "construction"
      BY <2>1, <2>3, Handles
    <3> QED  BY <3>1 DEF PromptInv, InOrder, Orderly
  <2> QED  BY <2>2, <2>3
<1> QED  BY <1>1, AlwaysPrompt, PTL

---------------------------------------------------------------------------
(* What destroys a client's own nodes.                                     *)

\* What a queue holds decides what kind of queue it is.
LEMMA SeqOf ==
    ASSUME NEW S, NEW T, NEW q \in Seq(S), \A j \in 1..Len(q) : q[j] \in T
    PROVE  q \in Seq(T)
<1>1. Len(q) \in Nat /\ q \in [1..Len(q) -> S]  BY LenProperties
<1>2. q = [j \in 1..Len(q) |-> q[j]]  BY <1>1
<1> DEFINE e(j) == q[j]
<1>3. \A j \in 1..Len(q) : e(j) \in T  OBVIOUS
<1> HIDE DEF e
<1>4. [j \in 1..Len(q) |-> e(j)] \in Seq(T)  BY <1>1, <1>3, IsASeq
<1> QED  BY <1>2, <1>4 DEF e

\* Packets that destroy, of a client's own nodes, at most those given.
Sparing(c, S) ==
    {m \in ToClient(c) : m.kind = "construction" => m.del \subseteq Foreign(c) \cup S}

\* What packets name of a client's own nodes is the least they destroy of them.
DoomedIn(c, q) ==
    {id \in UNION {q[i].del : i \in {j \in DOMAIN q : IsData(q[j])}} : OwnerOf(id) = c}

LEMMA DoomedIs ==
    ASSUME NEW c \in Clients, NEW q \in Seq(ToClient(c))
    PROVE  /\ DoomedIn(c, q) \cap Foreign(c) = {}
           /\ q \in Seq(Sparing(c, DoomedIn(c, q)))
           /\ \A S : S \cap Foreign(c) = {} /\ q \in Seq(Sparing(c, S))
                        => DoomedIn(c, q) \subseteq S
<1> DEFINE D == DoomedIn(c, q)
<1>1. DOMAIN q = 1..Len(q) /\ \A i \in 1..Len(q) : q[i] \in ToClient(c)
  BY LenProperties, ElementOfSeq
<1>2. \A i \in 1..Len(q) : q[i].kind = "construction" => q[i].del \subseteq Ids
  BY <1>1 DEF ToClient, Accepted, Scope, Lost, Bye, Foreign
<1>3. q \in Seq(Sparing(c, D))
  <2>1. \A i \in 1..Len(q) : q[i].kind = "construction" =>
            \A id \in q[i].del : id \in Foreign(c) \/ id \in D
    BY <1>1, <1>2 DEF IsData, Foreign, DoomedIn
  <2>2. \A i \in 1..Len(q) : q[i] \in Sparing(c, D)  BY <1>1, <2>1 DEF Sparing
  <2> QED  BY <2>2, SeqOf
<1>4. ASSUME NEW S, S \cap Foreign(c) = {}, q \in Seq(Sparing(c, S)), NEW id \in D
      PROVE  id \in S
  <2>1. PICK i \in 1..Len(q) : q[i].kind = "construction" /\ id \in q[i].del /\ OwnerOf(id) = c
    BY <1>1, <1>4 DEF IsData, DoomedIn
  <2>2. q[i] \in Sparing(c, S)  BY <1>4, <2>1, ElementOfSeq
  <2> QED  BY <2>1, <2>2 DEF Sparing, Foreign
<1>5. D \cap Foreign(c) = {}  BY DEF Foreign, DoomedIn
<1> QED  BY <1>3, <1>4, <1>5

\* A step adds to what destroys a client's own nodes only for one of two reasons.
LEMMA DoomedForCause ==
    ASSUME Known, Known', [Next]_vars, NEW d \in Clients, up',
           ~(srvConn[d] # "none" /\ srvConn'[d] = "none" /\ wire[d])
    PROVE  OwnDoomed(d)' \subseteq OwnDoomed(d)
<1> DEFINE S == OwnDoomed(d)
           T == Sparing(d, S)
<1>0. /\ IInv /\ ConnInv /\ toCli \in [Clients -> Seq(PacketsToCli)]
      /\ toCli[d] \in Seq(ToClient(d)) /\ toCli'[d] \in Seq(ToClient(d))
  BY DEF Known, Sane, IInv, ToCliInv, ToClient, Foreign, OwnerOf
<1>10. /\ S = DoomedIn(d, toCli[d])
       /\ OwnDoomed(d)' = DoomedIn(d, toCli'[d])
  BY DEF OwnDoomed, DoomedIn, IsData, OwnerOf
<1>1. /\ S \cap Foreign(d) = {} /\ toCli[d] \in Seq(T)
      /\ T \subseteq ToClient(d) /\ Harmless(d) \subseteq T
  <2>1. S \cap Foreign(d) = {} /\ toCli[d] \in Seq(T)  BY <1>0, <1>10, DoomedIs
  <2> QED  BY <2>1 DEF Sparing, Harmless
<1>2. {Accepted, Lost} \subseteq T /\ \A ids \in SUBSET Ids : Assigned(ids) \in T
  BY <1>1, HarmlessControl
<1> SUFFICES toCli'[d] \in Seq(T)
  <2>1. DoomedIn(d, toCli'[d]) \subseteq S
    BY <1>0, <1>1, DoomedIs
  <2> QED  BY <1>10, <2>1
<1> HIDE DEF S, T
<1>3. CASE ServerReceive
  <2>1. PICK p \in Seq(Harmless(d)) : toCli'[d] = Send(d, toCli[d], p)
    BY <1>3, ServerSendsHarmless
  <2>2. p \in Seq(T)  BY <1>1, <2>1
  <2> QED  BY <1>1, <2>1, <2>2, SendKeeps
<1>4. ASSUME NEW c \in Clients, ClientReceive(c)  PROVE toCli'[d] \in Seq(T)
  <2>1. CASE c = d  BY <1>0, <1>1, <1>2, <1>4, <2>1, ReceiveLeaves
  <2>2. CASE c # d  BY <1>0, <1>1, <1>4, <2>2, ReceiveElsewhere
  <2> QED  BY <2>1, <2>2
<1>5. ASSUME NEW c \in Clients, Stop(c) \/ Establish(c)  PROVE toCli'[d] \in Seq(T)
  <2>1. toCli' = [toCli EXCEPT ![c] = << >>] \/ toCli' = [toCli EXCEPT ![c] = <<Accepted>>]
    BY <1>5 DEF Stop, Establish
  <2>2. toCli'[d] \in {toCli[d], << >>, <<Accepted>>}  BY <1>0, <2>1
  <2>3. << >> \in Seq(T) /\ <<Accepted>> \in Seq(T)  BY <1>2, EmptySeq
  <2> QED  BY <1>1, <2>2, <2>3
<1>6. CASE ServerCrash \/ \E c \in Clients : Break(c)
  <2>1. toCli'[d] = toCli[d] \/ \E i \in Cuts(toCli[d]) : toCli'[d] = CutOff(toCli[d], i)
    <3>1. CASE ServerCrash  BY <3>1 DEF ServerCrash
    <3>2. ASSUME NEW c \in Clients, Break(c)
          PROVE  toCli'[d] = toCli[d] \/ \E i \in Cuts(toCli[d]) : toCli'[d] = CutOff(toCli[d], i)
      <4>1. PICK i \in Cuts(toCli[c]) : toCli' = [toCli EXCEPT ![c] = CutOff(toCli[c], i)]
        BY <3>2 DEF Break
      <4> QED  BY <1>0, <4>1
    <3> QED  BY <1>6, <3>1, <3>2
  <2> QED  BY <1>1, <1>2, <2>1, CutOffKeeps
<1>7. CASE \/ \E n \in Nodes : AddNode(n) \/ RemoveNode(n)
           \/ \E c \in Clients : StartClient(c) \/ RemoveAllNodes(c) \/ ConnectFails(c)
           \/ UNCHANGED vars
  <2>1. toCli' = toCli
    BY <1>7 DEF AddNode, RemoveNode, StartClient, RemoveAllNodes, ConnectFails, vars
  <2> QED  BY <1>1, <2>1
<1>8. ~ServerQuit  BY DEF ServerQuit
<1> QED  BY <1>3, <1>4, <1>5, <1>6, <1>7, <1>8 DEF Next

\* A client is told to destroy a node of its own only by a server that quits, or when
\* the server's thread handles the end of the client's former connection after the
\* client has come back: whatever else is destroyed at that moment, however often
\* connections broke, in either delivery mode, and with no assumption on the thread.
THEOREM OwnNodesForCause == Spec => OwnNodesDoomedForCause
<1>1. Known /\ Known' /\ [Next]_vars =>
          [\A c \in Clients :
              \/ OwnDoomed(c)' \subseteq OwnDoomed(c)
              \/ ~up'
              \/ srvConn[c] # "none" /\ srvConn'[c] = "none" /\ wire[c]]_vars
  BY DoomedForCause
<1> QED  BY <1>1, AlwaysKnown, PTL DEF Spec, OwnNodesDoomedForCause

---------------------------------------------------------------------------
(* What a copy leaves a client for.                                        *)

\* While the server keeps up, a connected client is joined to the server by the
\* time it is sent anything that constructs or destroys.
LEMMA ConnectedIsJoined ==
    ASSUME Known, PromptInv, NEW d \in Clients, wire[d], up,
           srvConn[d] # "none"
    PROVE  Joined(d)
<1>1. IInv  BY DEF Known, Sane
<1>2. Orderly(toSrv[d], TRUE, TRUE)
  <2>1. wire[d] = TRUE  BY <1>1 DEF IInv, FaultInv
  <2>2. (srvConn[d] # "none") = TRUE  OBVIOUS
  <2> QED  BY <2>1, <2>2 DEF PromptInv, InOrder
<1>3. Plain(toSrv[d])  BY <1>2 DEF Orderly, Plain, Ending
<1> QED  BY <1>1, <1>3, JoinedIs

\* Only a destruction that reaches it, or its own end, takes a copy from a client.
LEMMA CopiesDrop ==
    ASSUME IInv, [Next]_vars, NEW d \in Clients, NEW id \in copies[d], id \notin copies'[d]
    PROVE  \/ link'[d] = "stopped"
           \/ /\ toCli[d] # << >> /\ Head(toCli[d]).kind = "construction"
              /\ cConn[d] # "none"
<1> USE DEF IInv, ClientInv
<1>1. ASSUME NEW c \in Clients, Stop(c)  PROVE c = d /\ link'[d] = "stopped"
  BY <1>1 DEF Stop
<1>2. ASSUME NEW c \in Clients, ClientReceive(c)
      PROVE  c = d /\ toCli[d] # << >> /\ Head(toCli[d]).kind = "construction"
             /\ cConn[d] # "none"
  BY <1>2 DEF ClientReceive, ClientUpdate, ClientOnAccepted, ClientOnScope, ClientOnAssigned,
              ClientOnConstruction, ClientOnLost, ClientOnBye, Arriving
<1>3. ASSUME NEW n \in Nodes, AddNode(n) \/ RemoveNode(n)  PROVE FALSE
  BY <1>3 DEF AddNode, RemoveNode
<1>4. ASSUME NEW c \in Clients,
             StartClient(c) \/ RemoveAllNodes(c) \/ Establish(c) \/ ConnectFails(c) \/ Break(c)
      PROVE  FALSE
  BY <1>4 DEF StartClient, RemoveAllNodes, Establish, ConnectFails, Break, clientVars
<1>5. ASSUME ServerReceive \/ ServerQuit \/ ServerCrash \/ UNCHANGED vars  PROVE FALSE
  <2>1. ServerReceive => UNCHANGED clientVars  BY ServerSends DEF IInv
  <2> QED  BY <1>5, <2>1 DEF ServerQuit, ServerCrash, vars, clientVars
<1> QED  BY <1>1, <1>2, <1>3, <1>4, <1>5 DEF Next

\* While the server's thread keeps up with the ends of connections, a copy leaves a
\* client only because the server no longer has the replica, or constructs it anew
\* on that client, or because the client stops or is no longer connected: no
\* destruction arrives that the server, which believes the client to have what it
\* sent, does not make good.
THEOREM CopiesDropForCause ==
    ASSUME Prompt
    PROVE  Spec => CopyDropsForCause
<1> DEFINE All == Known /\ ServerBeliefSound /\ PromptInv
           Cause == \A d \in Clients : \A id \in copies[d] \ copies'[d] :
                       \/ id \notin srv
                       \/ id \in srvQuery[d] \/ id \in Becomes(d)
                       \/ link'[d] = "stopped" \/ ~wire[d]
<1>1. All /\ [Next]_vars => [Cause]_vars
  <2> SUFFICES ASSUME Known, ServerBeliefSound, PromptInv, [Next]_vars,
                      NEW d \in Clients, NEW id \in copies[d], id \notin copies'[d],
                      id \in srv, wire[d], link'[d] # "stopped"
               PROVE  id \in srvQuery[d] \/ id \in Becomes(d)
    OBVIOUS
  <2>1. IInv /\ ConnInv /\ Accounts  BY DEF Known, Sane
  <2>2. toCli[d] # << >> /\ Head(toCli[d]).kind = "construction" /\ cConn[d] # "none"
    BY <2>1, CopiesDrop
  <2>3. id \in Ids /\ OwnerOf(id) # d  BY <2>1 DEF IInv, ClientInv, Foreign
  <2>4. up  BY <2>1 DEF Accounts, ListsOfServer
  <2>5. srvConn[d] # "none"
    <3> SUFFICES ASSUME srvConn[d] = "none"  PROVE FALSE
      OBVIOUS
    <3>1. toCli[d] \in Seq(ToClient(d))  BY <2>1 DEF IInv, ToCliInv
    <3>2. 1 \in 1..Len(toCli[d]) /\ Head(toCli[d]) = toCli[d][1]  BY <2>2, <3>1, TailAt
    <3> QED  BY <2>2, <2>4, <3>2 DEF PromptInv, InOrder
  <2>6. Joined(d)  BY <2>4, <2>5, ConnectedIsJoined
  <2>7. id \in srvQuery[d] \cup srvHas[d]
    BY <2>1, <2>3, <2>5 DEF Accounts, ListsOfServer, Foreign
  <2> QED  BY <2>3, <2>6, <2>7 DEF ServerBeliefSound
<1> QED  BY <1>1, AlwaysPrompt, PTL DEF Spec, CopyDropsForCause
---------------------------------------------------------------------------
(* A client that is back before the end of its former connection is seen.  *)

\* A client only returns when the server's thread has handled the packets with which
\* the connection it returns from began: of two beginnings one is not left waiting
\* behind another.
BeginsOne ==
    \A c \in Clients : Establish(c) =>
        \A i \in DOMAIN toSrv[c] : toSrv[c][i].kind \notin {"incoming", "scope"}

\* The beginning of a connection waits for the server, in front of it what is left
\* of the former one, which began, and behind it at most the client's scope packet.
Begins(q) == \E i \in 1..Len(q) : q[i].kind = "incoming"
Renewed(q) ==
    \A i \in 1..Len(q) : q[i].kind = "incoming" =>
        /\ \A j \in 1..Len(q) : j < i => q[j].kind \notin {"incoming", "scope"}
        /\ \A j \in 1..Len(q) : i < j => q[j].kind = "scope"

\* Meanwhile the server answers what is left of the former connection, on the new
\* one; but it does not validate the new one, so the client makes nothing of it.
Unscoped(c) == {m \in ToClient(c) : m.kind # "scope"}
Awaits(c) == wire[c] /\ up /\ Begins(toSrv[c])
BackOf(c) ==
    Awaits(c) => cConn[c] # "valid" /\ toCli[c] \in Seq(Unscoped(c)) /\ Renewed(toSrv[c])
BackInv == \A c \in Clients : BackOf(c)

\* Two sequences, one behind the other.
LEMMA JoinedAt ==
    ASSUME NEW S, NEW q \in Seq(S), NEW p \in Seq(S)
    PROVE  /\ Len(q) \in Nat /\ Len(p) \in Nat /\ Len(q \o p) = Len(q) + Len(p)
           /\ \A i \in 1..(Len(q) + Len(p)) :
                 (q \o p)[i] = IF i <= Len(q) THEN q[i] ELSE p[i - Len(q)]
BY ConcatProperties, LenProperties

\* What the server sends besides a scope packet.
LEMMA UnscopedSent ==
    ASSUME NEW d \in Clients
    PROVE  /\ << >> \in Seq(Unscoped(d)) /\ Unscoped(d) \subseteq ToClient(d)
           /\ \A ids \in SUBSET Ids : Assigned(ids) \in Unscoped(d)
           /\ \A del \in SUBSET Ids : Destruct(del) \in Seq(Unscoped(d))
           /\ \A ids \in SUBSET Ids : Assign(ids) \in Seq(Unscoped(d))
           /\ ServerInv => SPacket(d) \in Seq(Unscoped(d))
<1>1. \A del \in SUBSET Ids : Construction({}, del) \in Unscoped(d)
  BY DEF Unscoped, ToClient, Construction
<1>2. \A ids \in SUBSET Ids : Assigned(ids) \in Unscoped(d)
  BY DEF Unscoped, ToClient, Assigned
<1>3. ASSUME ServerInv  PROVE Construction(SFlush(d), {}) \in Unscoped(d)
  <2>1. SFlush(d) \subseteq Foreign(d)  BY <1>3 DEF SFlush, ServerInv
  <2> QED  BY <2>1 DEF Unscoped, ToClient, Construction
<1>4. << >> \in Seq(Unscoped(d)) /\ Unscoped(d) \subseteq ToClient(d)
  BY EmptySeq DEF Unscoped
<1>5. \A del \in SUBSET Ids : Destruct(del) \in Seq(Unscoped(d))
  BY <1>1, <1>4 DEF Destruct
<1>6. \A ids \in SUBSET Ids : Assign(ids) \in Seq(Unscoped(d))
  BY <1>2, <1>4 DEF Assign
<1>7. ServerInv => SPacket(d) \in Seq(Unscoped(d))
  BY <1>3, <1>4 DEF SPacket, Construct
<1> QED  BY <1>2, <1>4, <1>5, <1>6, <1>7

\* Sending what begins nothing begins nothing.
LEMMA BeginsSent ==
    ASSUME NEW S, NEW q \in Seq(S), NEW p \in Seq(S), NEW c,
           \A j \in 1..Len(p) : p[j].kind # "incoming",
           Begins(Send(c, q, p))
    PROVE  Begins(q)
<1> DEFINE r == q \o p
<1>1. /\ Len(q) \in Nat /\ Len(p) \in Nat /\ Len(r) = Len(q) + Len(p)
      /\ \A i \in 1..(Len(q) + Len(p)) :
            r[i] = IF i <= Len(q) THEN q[i] ELSE p[i - Len(q)]
  BY ConcatProperties, LenProperties
<1> HIDE DEF r
<1>2. CASE Begins(r)
  <2>1. PICK i \in 1..Len(r) : r[i].kind = "incoming"  BY <1>2 DEF Begins
  <2>2. i <= Len(q)
    <3>1. ASSUME ~(i <= Len(q))  PROVE FALSE
      <4>1. i - Len(q) \in 1..Len(p) /\ r[i] = p[i - Len(q)]  BY <1>1, <3>1
      <4> QED  BY <2>1, <4>1
    <3> QED  BY <3>1
  <2> QED  BY <1>1, <2>1, <2>2 DEF Begins
<1> QED  BY <1>2 DEF Send, r

\* The scope packet of the client may come behind the beginning,
LEMMA RenewedScope ==
    ASSUME NEW S, NEW q \in Seq(S), Scope \in S, Renewed(q), Begins(q)
    PROVE  Renewed(q \o <<Scope>>)
<1> DEFINE p == <<Scope>>
           r == q \o p
<1>1. p \in Seq(S) /\ Len(p) = 1 /\ p[1].kind = "scope"
  BY DEF Scope
<1> HIDE DEF p
<1>2. /\ Len(q) \in Nat /\ Len(r) = Len(q) + 1
      /\ \A i \in 1..(Len(q) + 1) : r[i] = IF i <= Len(q) THEN q[i] ELSE p[i - Len(q)]
  BY <1>1, JoinedAt
<1> HIDE DEF r
<1>3. \A i \in 1..Len(r) : \/ i \in 1..Len(q) /\ r[i] = q[i]
                           \/ i = Len(q) + 1 /\ r[i].kind = "scope"
  BY <1>1, <1>2
<1> SUFFICES Renewed(r)  BY DEF p, r
<1> SUFFICES ASSUME NEW i \in 1..Len(r), r[i].kind = "incoming", NEW j \in 1..Len(r)
             PROVE  /\ j < i => r[j].kind \notin {"incoming", "scope"}
                    /\ i < j => r[j].kind = "scope"
  BY DEF Renewed
<1>4. i \in 1..Len(q) /\ q[i].kind = "incoming"  BY <1>3
<1>5. CASE j \in 1..Len(q) /\ r[j] = q[j]
  BY <1>4, <1>5 DEF Renewed
<1>6. CASE j = Len(q) + 1 /\ r[j].kind = "scope"
  BY <1>2, <1>4, <1>6
<1> QED  BY <1>3, <1>5, <1>6

\* and a packet may be taken,
LEMMA RenewedWithout ==
    ASSUME NEW S, NEW q \in Seq(S), NEW i \in 1..Len(q), Renewed(q)
    PROVE  Renewed(Without(q, i))
<1> DEFINE r == Without(q, i)
<1>1. /\ Len(q) \in Nat /\ Len(r) = Len(q) - 1
      /\ \A j \in 1..Len(r) : r[j] = IF j < i THEN q[j] ELSE q[j + 1]
  BY WithoutAt, LenProperties
<1> HIDE DEF r
<1> DEFINE at(j) == IF j < i THEN j ELSE j + 1
<1>2. \A j \in 1..Len(r) : at(j) \in 1..Len(q) /\ r[j] = q[at(j)]
  BY <1>1
<1>3. \A j, k \in 1..Len(r) : j < k => at(j) < at(k)
  BY <1>1
<1> HIDE DEF at
<1>4. ASSUME NEW k \in 1..Len(r), r[k].kind = "incoming", NEW j \in 1..Len(r)
      PROVE  /\ j < k => r[j].kind \notin {"incoming", "scope"}
             /\ k < j => r[j].kind = "scope"
  <2>1. /\ at(k) \in 1..Len(q) /\ q[at(k)].kind = "incoming"
        /\ at(j) \in 1..Len(q) /\ r[j] = q[at(j)]
    BY <1>2, <1>4
  <2>2. (j < k => at(j) < at(k)) /\ (k < j => at(k) < at(j))  BY <1>3, <1>4
  <2> QED  BY <2>1, <2>2 DEF Renewed
<1>5. Renewed(r)  BY <1>4 DEF Renewed
<1> QED  BY <1>5 DEF r

\* after which nothing begins, when it was the beginning that was taken.
LEMMA BeginsWithout ==
    ASSUME NEW S, NEW q \in Seq(S), NEW i \in 1..Len(q)
    PROVE  /\ Begins(Without(q, i)) => Begins(q)
           /\ Renewed(q) /\ q[i].kind = "incoming" => ~Begins(Without(q, i))
<1> DEFINE r == Without(q, i)
<1>1. /\ Len(q) \in Nat /\ Len(r) = Len(q) - 1
      /\ \A j \in 1..Len(r) : r[j] = IF j < i THEN q[j] ELSE q[j + 1]
  BY WithoutAt, LenProperties
<1> HIDE DEF r
<1> DEFINE at(j) == IF j < i THEN j ELSE j + 1
<1>2. \A j \in 1..Len(r) : at(j) \in 1..Len(q) /\ r[j] = q[at(j)] /\ (at(j) < i \/ i < at(j))
  BY <1>1
<1> HIDE DEF at
<1>3. Begins(r) => Begins(q)  BY <1>2 DEF Begins
<1>4. Renewed(q) /\ q[i].kind = "incoming" => ~Begins(r)
  <2>1. ASSUME Renewed(q), q[i].kind = "incoming", NEW j \in 1..Len(r)
        PROVE  r[j].kind # "incoming"
    BY <1>2, <2>1 DEF Renewed
  <2> QED  BY <2>1 DEF Begins
<1> QED  BY <1>3, <1>4 DEF r

\* A client that is left alone stays as it is.
LEMMA BackSame ==
    ASSUME NEW d \in Clients, BackOf(d), toSrv'[d] = toSrv[d], wire'[d] => wire[d],
           up' => up, toCli'[d] = toCli[d], cConn'[d] = cConn[d]
    PROVE  BackOf(d)'
<1>1. Unscoped(d)' = Unscoped(d)  BY DEF Unscoped, ToClient, Foreign, OwnerOf
<1> QED  BY <1>1 DEF BackOf, Awaits

\* What a client sends, waiting: nothing but its scope packet.
LEMMA BackSends ==
    ASSUME IInv, ConnInv, NEW c \in Clients, BackOf(c), up' = up, wire'[c] => wire[c],
           NEW p \in Seq(FromClient(c)), toSrv'[c] = Send(c, toSrv[c], p),
           \A j \in 1..Len(p) : p[j].kind # "incoming",
           cConn[c] # "valid" => p = << >> \/ p = <<Scope>>,
           Awaits(c) => cConn'[c] # "valid" /\ toCli'[c] \in Seq(Unscoped(c))
    PROVE  BackOf(c)'
<1> SUFFICES ASSUME Awaits(c)'
             PROVE  cConn'[c] # "valid" /\ toCli'[c] \in Seq(Unscoped(c)) /\ Renewed(toSrv'[c])
  BY DEF BackOf, Unscoped, ToClient, Foreign, OwnerOf
<1>1. toSrv[c] \in Seq(FromClient(c))  BY DEF IInv, ToSrvInv
<1>2. Awaits(c)
  <2>1. Begins(Send(c, toSrv[c], p)) /\ wire[c] /\ up  BY DEF Awaits
  <2> QED  BY <1>1, <2>1, BeginsSent DEF Awaits
<1>3. cConn[c] # "valid" /\ Renewed(toSrv[c])  BY <1>2 DEF BackOf
<1>4. toSrv'[c] = toSrv[c] \o p  BY <1>2 DEF Send, Awaits
<1>5. Renewed(toSrv'[c])
  <2>1. CASE p = << >>
    <3>1. toSrv'[c] = toSrv[c]  BY <1>1, <1>4, <2>1, ConcatEmptySeq
    <3> QED  BY <1>3, <3>1
  <2>2. CASE p = <<Scope>>
    <3>1. Scope \in FromClient(c)  BY ControlFromClient
    <3>2. Begins(toSrv[c])  BY <1>2 DEF Awaits
    <3> QED  BY <1>1, <1>3, <1>4, <2>2, <3>1, <3>2, RenewedScope
  <2> QED  BY <1>3, <2>1, <2>2
<1> QED  BY <1>2, <1>5

\* A client that handles a packet.
LEMMA ReceiveBack ==
    ASSUME IInv, ConnInv, BackInv, NEW e \in Clients, ClientReceive(e), NEW c \in Clients
    PROVE  BackOf(c)'
<1>1. BackOf(c)  BY DEF BackInv
<1>2. CASE c # e
  <2>1. /\ toSrv'[c] = toSrv[c] /\ wire'[c] = wire[c] /\ up' = up
        /\ toCli'[c] = toCli[c] /\ cConn'[c] = cConn[c]
    BY <1>2, ReceiveElsewhere DEF serverVars
  <2> QED  BY <1>1, <2>1, BackSame
<1>3. CASE c = e
  <2>1. /\ ListsOf(c) /\ up' = up /\ DOMAIN cConn = Clients
        /\ toCli[c] \in Seq(ToClient(c))
        /\ wire[c] \in BOOLEAN /\ (wire'[c] = wire[c] \/ wire'[c] = FALSE)
    BY <1>3, ReceiveElsewhere, ReceiveSends
    DEF serverVars, ConnInv, IInv, ClientInv, ToCliInv, FaultInv
  <2>2. CPacket(c) \in Seq(FromClient(c)) /\ <<Scope>> \in Seq(FromClient(c))
    BY CPacketTyped, ControlFromClient DEF IInv
  <2>3. /\ \A j \in 1..Len(<<Scope>>) : <<Scope>>[j].kind # "incoming"
        /\ \A j \in 1..Len(CPacket(c)) : CPacket(c)[j].kind # "incoming"
    <3>1. \A x : \A j \in 1..Len(Construct(x)) : Construct(x)[j].kind # "incoming"
      BY DEF Construct, Construction
    <3> QED  BY <3>1 DEF Scope, CPacket
  <2>4. cConn[c] # "valid" => CPacket(c) = << >>
    BY DEF CPacket, CFlush, Construct
  <2>5. Awaits(c) => cConn'[c] # "valid" /\ toCli'[c] \in Seq(Unscoped(c))
    <3> SUFFICES ASSUME Awaits(c)
                 PROVE  cConn'[c] # "valid" /\ toCli'[c] \in Seq(Unscoped(c))
      OBVIOUS
    <3>1. cConn[c] # "valid" /\ toCli[c] \in Seq(Unscoped(c))  BY <1>1 DEF BackOf
    <3>2. toCli'[c] \in Seq(Unscoped(c))
      BY <1>3, <3>1, UnscopedSent, ReceiveLeaves
    <3>3. ~ClientOnScope(c)
      <4>1. ASSUME ClientOnScope(c)  PROVE FALSE
        <5>1. toCli[c] # << >> /\ Head(toCli[c]).kind = "scope"
          BY <4>1 DEF ClientOnScope, Arriving
        <5>2. Head(toCli[c]) \in Unscoped(c)  BY <3>1, <5>1, TailAt
        <5> QED  BY <5>1, <5>2 DEF Unscoped
      <4> QED  BY <4>1
    <3>4. cConn'[c] # "valid"
      BY <1>3, <2>1, <3>1, <3>3
      DEF ClientReceive, ClientUpdate, ClientOnAccepted, ClientOnAssigned,
          ClientOnConstruction, ClientOnLost, ClientOnBye
    <3> QED  BY <3>2, <3>4
  <2>6. PICK p \in Seq(FromClient(c)) :
           /\ toSrv'[c] = Send(c, toSrv[c], p)
           /\ p = CPacket(c) \/ p = <<Scope>>
    BY <1>3, <2>2, ReceiveSends
  <2>7. wire'[c] => wire[c]  BY <2>1
  <2>8. /\ \A j \in 1..Len(p) : p[j].kind # "incoming"
        /\ cConn[c] # "valid" => p = << >> \/ p = <<Scope>>
    BY <2>3, <2>4, <2>6
  <2> QED  BY <1>1, <2>1, <2>5, <2>6, <2>7, <2>8, BackSends
<1> QED  BY <1>2, <1>3

\* Other steps but those of the server.
LEMMA RestBack ==
    ASSUME IInv, ConnInv, BackInv, BeginsOne, NEW c \in Clients,
           \/ \E n \in Nodes : AddNode(n) \/ RemoveNode(n)
           \/ \E d \in Clients : StartClient(d) \/ RemoveAllNodes(d) \/ Stop(d)
           \/ \E d \in Clients : Establish(d) \/ ConnectFails(d) \/ Break(d)
           \/ ServerQuit
           \/ ServerCrash
           \/ UNCHANGED vars
    PROVE  BackOf(c)'
<1>0. /\ BackOf(c) /\ ListsOf(c) /\ wire \in [Clients -> BOOLEAN] /\ up \in BOOLEAN
      /\ DOMAIN toSrv = Clients /\ DOMAIN toCli = Clients /\ DOMAIN cConn = Clients
      /\ DOMAIN link = Clients /\ DOMAIN wire = Clients
  BY DEF BackInv, ConnInv, IInv, FaultInv, ToSrvInv, ToCliInv, ClientInv, ServerInv
<1>1. ASSUME NEW n \in Nodes, AddNode(n)  PROVE BackOf(c)'
  BY <1>0, <1>1, BackSame DEF AddNode, serverVars
<1>2. ASSUME NEW d \in Clients, NEW S \in SUBSET NodesOf(d), DestroyOwn(d, S),
             UNCHANGED <<link, cConn, nid, copies, serverVars, wire, toCli, faults>>
      PROVE  BackOf(c)'
  <2>0. UNCHANGED <<cConn, up, wire, toCli>>  BY <1>2 DEF serverVars
  <2>1. CASE c # d
    <3>1. toSrv'[c] = toSrv[c]  BY <1>0, <1>2, <2>1 DEF DestroyOwn
    <3> QED  BY <1>0, <2>0, <3>1, BackSame
  <2>2. CASE c = d
    <3> DEFINE del == {nid[n] : n \in S \cap cHas[d]}
               p == Destruct(del)
    <3>1. toSrv'[c] = Send(c, toSrv[c], p)  BY <1>0, <1>2, <2>2 DEF DestroyOwn
    <3>2. del \in SUBSET (Ids \cup {NoId})  BY DEF IInv, ClientInv, NodesOf
    <3>3. cConn[c] # "valid" => del = {}  BY <1>0, <2>2 DEF ListsOf
    <3> HIDE DEF del
    <3>4. p \in Seq(FromClient(c))  BY <3>2, DestructFromClient
    <3>5. cConn[c] # "valid" => p = << >>  BY <3>3 DEF Destruct
    <3>6. \A j \in 1..Len(p) : p[j].kind # "incoming"
      BY DEF Destruct, Construction
    <3>7. Awaits(c) => cConn'[c] # "valid" /\ toCli'[c] \in Seq(Unscoped(c))
      BY <1>0, <2>0 DEF BackOf
    <3>8. up' = up /\ (wire'[c] => wire[c])  BY <2>0
    <3> HIDE DEF p
    <3> QED  BY <1>0, <3>1, <3>4, <3>5, <3>6, <3>7, <3>8, BackSends
  <2> QED  BY <2>1, <2>2
<1>3. ASSUME NEW n \in Nodes, RemoveNode(n)  PROVE BackOf(c)'
  <2>1. Owner[n] \in Clients /\ {n} \in SUBSET NodesOf(Owner[n])
    BY OwnerAssumption DEF NodesOf
  <2> QED  BY <1>2, <1>3, <2>1 DEF RemoveNode
<1>4. ASSUME NEW d \in Clients, RemoveAllNodes(d)  PROVE BackOf(c)'
  BY <1>2, <1>4 DEF RemoveAllNodes
<1>5. ASSUME NEW d \in Clients, StartClient(d) \/ ConnectFails(d)  PROVE BackOf(c)'
  BY <1>0, <1>5, BackSame DEF StartClient, ConnectFails, serverVars
<1>6. ASSUME NEW d \in Clients, Stop(d) \/ Break(d)  PROVE BackOf(c)'
  <2>1. /\ toSrv' = toSrv \/ \E q : toSrv' = [toSrv EXCEPT ![d] = q]
        /\ \E q : toCli' = [toCli EXCEPT ![d] = q]
        /\ wire' = [wire EXCEPT ![d] = FALSE] /\ up' = up
        /\ cConn' = cConn \/ cConn' = [cConn EXCEPT ![d] = "none"]
    <3>1. toSrv' = toSrv \/ \E q : toSrv' = [toSrv EXCEPT ![d] = q]
      BY <1>6 DEF Stop, Break
    <3> QED  BY <1>6, <3>1 DEF Stop, Break, clientVars, serverVars
  <2>2. CASE c = d
    <3>1. wire'[c] = FALSE  BY <1>0, <2>1, <2>2
    <3> QED  BY <3>1 DEF BackOf, Awaits
  <2>3. CASE c # d
    <3>1. toSrv'[c] = toSrv[c]  BY <1>0, <2>1, <2>3
    <3>2. toCli'[c] = toCli[c]  BY <1>0, <2>1, <2>3
    <3>3. wire'[c] = wire[c]  BY <1>0, <2>1, <2>3
    <3>4. cConn'[c] = cConn[c]  BY <1>0, <2>1, <2>3
    <3>5. up' => up  BY <2>1
    <3> QED  BY <1>0, <3>1, <3>2, <3>3, <3>4, <3>5, BackSame
  <2> QED  BY <2>2, <2>3
<1>7. ASSUME NEW d \in Clients, Establish(d)  PROVE BackOf(c)'
  <2>1. CASE c # d
    <3>1. /\ toSrv'[c] = toSrv[c] /\ toCli'[c] = toCli[c] /\ wire'[c] = wire[c]
          /\ cConn' = cConn /\ up' = up
      BY <1>0, <1>7, <2>1 DEF Establish, clientVars, serverVars
    <3> QED  BY <1>0, <3>1, BackSame
  <2>2. CASE c = d
    <3>1. /\ toCli'[c] = <<Accepted>> /\ toSrv'[c] = Append(toSrv[c], Incoming)
          /\ cConn' = cConn /\ link[c] \in {"connecting", "lost"}
      BY <1>0, <1>7, <2>2 DEF Establish, clientVars
    <3>2. cConn[c] = "none"  BY <1>0, <3>1 DEF ListsOf
    <3>3. <<Accepted>> \in Seq(Unscoped(c)')
      <4>1. Accepted \in Unscoped(c)'  BY DEF Unscoped, ToClient, Accepted
      <4> QED  BY <4>1
    <3>4. Renewed(Append(toSrv[c], Incoming))
      <4> DEFINE q == toSrv[c]
                 r == Append(q, Incoming)
      <4>1. /\ q \in Seq(FromClient(c)) /\ DOMAIN q = 1..Len(q) /\ Len(q) \in Nat
        BY LenProperties DEF IInv, ToSrvInv
      <4>2. \A i \in 1..Len(q) : q[i].kind \notin {"incoming", "scope"}
        BY <1>7, <2>2, <4>1 DEF BeginsOne
      <4> HIDE DEF q
      <4>3. /\ Len(r) = Len(q) + 1 /\ r[Len(q) + 1] = Incoming
            /\ \A i \in 1..Len(q) : r[i] = q[i]
        BY <4>1, AppendProperties
      <4> HIDE DEF r
      <4>4. Renewed(r)  BY <4>1, <4>2, <4>3 DEF Renewed
      <4> QED  BY <4>4 DEF q, r
    <3> QED  BY <3>1, <3>2, <3>3, <3>4 DEF BackOf
  <2> QED  BY <2>1, <2>2
<1>8. CASE ServerQuit
  <2>1. up' = FALSE  BY <1>8 DEF ServerQuit
  <2> QED  BY <2>1 DEF BackOf, Awaits
<1>9. CASE ServerCrash
  <2>1. wire'[c] = FALSE  BY <1>9 DEF ServerCrash
  <2> QED  BY <2>1 DEF BackOf, Awaits
<1>10. CASE UNCHANGED vars  BY <1>0, <1>10, BackSame DEF vars
<1> QED  BY <1>1, <1>3, <1>4, <1>5, <1>6, <1>7, <1>8, <1>9, <1>10

\* The server is not to validate a connection whose beginning it has not seen.
LEMMA ScopeWaits ==
    ASSUME Sane, NEW c \in Clients, NEW i, Reaching(c, i, "scope"), Renewed(toSrv[c])
    PROVE  ~Begins(toSrv[c])
<1> SUFFICES ASSUME NEW k \in 1..Len(toSrv[c]), toSrv[c][k].kind = "incoming"
             PROVE  FALSE
  BY DEF Begins
<1>1. i \in 1..Len(toSrv[c]) /\ toSrv[c][i].kind = "scope" /\ Len(toSrv[c]) \in Nat
  BY Handles
<1>2. k < i
  <2>1. ~(i < k)  BY <1>1 DEF Renewed
  <2>2. i # k  BY <1>1
  <2> QED  BY <1>1, <2>1, <2>2
<1>3. k \in 1..(i - 1)  BY <1>1, <1>2
<1>4. CanTake(toSrv[c], i)  BY DEF Reaching
<1>5. IsData(toSrv[c][k])  BY <1>1, <1>2, <1>3, <1>4 DEF CanTake, IsData
<1> QED  BY <1>5 DEF IsData

\* What else the server sends a client that waits: nothing that validates.
LEMMA ServerSendsUnscoped ==
    ASSUME Sane, ServerReceive, NEW d \in Clients,
           \A i : ~ServerOnIncoming(d, i) /\ ~ServerOnScope(d, i)
    PROVE  \E p \in Seq(Unscoped(d)) : toCli'[d] = Send(d, toCli[d], p)
<1> DEFINE Sent1 == \E p \in Seq(Unscoped(d)) : toCli'[d] = Send(d, toCli[d], p)
<1>1. IInv /\ ServerInv  BY DEF Sane, IInv
<1>2. SPacket(d) \in Seq(Unscoped(d)) /\ << >> \in Seq(Unscoped(d))
  BY <1>1, UnscopedSent
<1>3. ASSUME NEW x \in Seq(Unscoped(d)), toCli'[d] = Send(d, toCli[d], SPacket(d) \o x)
      PROVE  Sent1
  <2>1. SPacket(d) \o x \in Seq(Unscoped(d))  BY <1>2, ConcatProperties
  <2> QED  BY <1>3, <2>1
<1> SUFFICES Sent1
  OBVIOUS
<1> HIDE DEF Sent1
<1>4. CASE ServerUpdate
  <2>1. toCli'[d] = Send(d, toCli[d], SPacket(d) \o << >>)
    BY <1>4 DEF ServerUpdate, Deliver, Nothing
  <2> QED  BY <1>2, <1>3, <2>1
<1>5. ASSUME NEW c \in Clients, NEW i, ServerOnIncoming(c, i) \/ ServerOnScope(c, i)
      PROVE  Sent1
  <2>1. c # d  BY <1>5
  <2>2. toCli'[d] = Send(d, toCli[d], SPacket(d) \o << >>)
    BY <1>5, <2>1 DEF ServerOnIncoming, ServerOnScope, Deliver, Nothing
  <2> QED  BY <1>2, <1>3, <2>2
<1>6. ASSUME NEW c \in Clients, NEW i, ServerOnConstruction(c, i)
      PROVE  Sent1
  <2>1. CASE srvConn[c] = "none"
    <3>1. toCli'[d] = Send(d, toCli[d], SPacket(d) \o << >>)
      BY <1>6, <2>1 DEF ServerOnConstruction, Deliver, Nothing
    <3> QED  BY <1>2, <1>3, <3>1
  <2>2. CASE srvConn[c] # "none"
    <3> DEFINE m == toSrv[c][i]
    <3>1. toCli'[d] = Send(d, toCli[d], SPacket(d) \o SentThen(c, m, d))
      BY <1>6, <2>2, ConstructionIs
    <3>2. m \in FromClient(c) /\ m.kind = "construction"
      <4>1. Reaching(c, i, "construction")  BY <1>6 DEF ServerOnConstruction
      <4> QED  BY <4>1, Handles
    <3> HIDE DEF m
    <3>3. Answered(m) \subseteq Ids /\ Doomed(m) \subseteq Ids
      BY <1>1, <3>2, ConstructionHolds
    <3>4. SentThen(c, m, d) \in Seq(Unscoped(d))
      BY <3>3, UnscopedSent DEF SentThen
    <3> QED  BY <1>3, <3>1, <3>4
  <2> QED  BY <2>1, <2>2
<1>7. ASSUME NEW c \in Clients, NEW i, ServerOnClosed(c, i)
      PROVE  Sent1
  <2> DEFINE dropped == IF srvConn[c] = "none" THEN {} ELSE CreatedBy(c)
             again == Destruct(dropped \cap SHasNow(d))
  <2>1. \/ toCli'[d] = Send(d, toCli[d], SPacket(d) \o (<< >> \o again))
        \/ toCli'[d] = Send(d, toCli[d], SPacket(d) \o (again \o again))
    BY <1>7 DEF ServerOnClosed, Deliver
  <2>2. dropped \cap SHasNow(d) \in SUBSET Ids  BY <1>1 DEF CreatedBy, ServerInv
  <2> HIDE DEF dropped
  <2>3. again \in Seq(Unscoped(d))  BY <2>2, UnscopedSent
  <2> HIDE DEF again
  <2>4. << >> \o again \in Seq(Unscoped(d)) /\ again \o again \in Seq(Unscoped(d))
    BY <1>2, <2>3, ConcatProperties
  <2> QED  BY <1>3, <2>1, <2>4
<1> QED  BY <1>4, <1>5, <1>6, <1>7 DEF ServerReceive

\* The server, handling a packet.
LEMMA ServerBack ==
    ASSUME Sane, BackInv, ServerReceive, NEW c \in Clients
    PROVE  BackOf(c)'
<1>0. /\ IInv /\ UNCHANGED <<clientVars, up, wire>> /\ toSrv[c] \in Seq(FromClient(c))
      /\ BackOf(c) /\ DOMAIN toSrv = Clients
  BY ServerSends DEF Sane, IInv, ToSrvInv, BackInv
<1> SUFFICES ASSUME Awaits(c)'
             PROVE  cConn[c] # "valid" /\ toCli'[c] \in Seq(Unscoped(c)) /\ Renewed(toSrv'[c])
  BY <1>0 DEF BackOf, Unscoped, ToClient, Foreign, OwnerOf, clientVars
<1>1. Begins(toSrv'[c]) /\ wire[c] /\ up  BY <1>0 DEF Awaits
<1>2. \/ toSrv'[c] = toSrv[c]
      \/ \E i \in 1..Len(toSrv[c]) : toSrv'[c] = Without(toSrv[c], i)
  BY ServerTakesOne
<1>3. Awaits(c)
  <2>1. Begins(toSrv[c])  BY <1>0, <1>1, <1>2, BeginsWithout
  <2> QED  BY <1>1, <2>1 DEF Awaits
<1>4. cConn[c] # "valid" /\ toCli[c] \in Seq(Unscoped(c)) /\ Renewed(toSrv[c])
  BY <1>0, <1>3 DEF BackOf
<1>5. Renewed(toSrv'[c])  BY <1>0, <1>2, <1>4, RenewedWithout
<1>6. ASSUME NEW i, ServerOnIncoming(c, i)  PROVE FALSE
  <2>1. Reaching(c, i, "incoming") /\ Take(c, i)  BY <1>6 DEF ServerOnIncoming
  <2>2. i \in 1..Len(toSrv[c]) /\ toSrv[c][i].kind = "incoming"  BY <2>1, Handles
  <2>3. toSrv'[c] = Without(toSrv[c], i)  BY <1>0, <2>1 DEF Take
  <2> QED  BY <1>0, <1>1, <1>4, <2>2, <2>3, BeginsWithout
<1>7. ASSUME NEW i, ServerOnScope(c, i)  PROVE FALSE
  <2>1. Reaching(c, i, "scope")  BY <1>7 DEF ServerOnScope
  <2> QED  BY <1>3, <1>4, <2>1, ScopeWaits DEF Awaits
<1>8. PICK p \in Seq(Unscoped(c)) : toCli'[c] = Send(c, toCli[c], p)
  BY <1>6, <1>7, ServerSendsUnscoped
<1>9. toCli'[c] \in Seq(Unscoped(c))  BY <1>4, <1>8, SendKeeps
<1> QED  BY <1>4, <1>5, <1>9

\* BackInv at the start, and over every step of such clients.
LEMMA InitBack == Init => BackInv
BY DEF Init, BackInv, BackOf, Awaits

LEMMA NextBack == Sane /\ BackInv /\ [Next]_vars /\ [BeginsOne]_vars => BackInv'
<1> SUFFICES ASSUME Sane, BackInv, [Next]_vars, [BeginsOne]_vars, NEW c \in Clients
             PROVE  BackOf(c)'
  BY DEF BackInv
<1>0. IInv /\ ConnInv  BY DEF Sane
<1>1. CASE ServerReceive  BY <1>1, ServerBack
<1>2. ASSUME NEW d \in Clients, ClientReceive(d)  PROVE BackOf(c)'
  BY <1>0, <1>2, ReceiveBack
<1>3. CASE UNCHANGED vars
  <2>1. BackOf(c)  BY DEF BackInv
  <2>2. /\ toSrv' = toSrv /\ wire' = wire /\ up' = up /\ toCli' = toCli /\ cConn' = cConn
    BY <1>3 DEF vars, clientVars, serverVars
  <2> QED  BY <2>1, <2>2, BackSame
<1>4. ASSUME ~UNCHANGED vars,
             \/ \E n \in Nodes : AddNode(n) \/ RemoveNode(n)
             \/ \E d \in Clients : StartClient(d) \/ RemoveAllNodes(d) \/ Stop(d)
             \/ \E d \in Clients : Establish(d) \/ ConnectFails(d) \/ Break(d)
             \/ ServerQuit
             \/ ServerCrash
      PROVE  BackOf(c)'
  <2>1. BeginsOne  BY <1>4
  <2> QED  BY <1>0, <1>4, <2>1, RestBack
<1> QED  BY <1>1, <1>2, <1>3, <1>4 DEF Next

---------------------------------------------------------------------------
(* Packets that matter once a connection is validated.                     *)

\* What follows the first scope packet of a queue is good; so is what it holds when
\* its receiver has seen one.
Behind(q, good) ==
    \A j, k \in 1..Len(q) : k < j /\ q[k].kind = "scope" => q[j] \in good
Right(q, seen, good) == Behind(q, good) /\ (seen => q \in Seq(good))

\* A queue that is all good, or holds no scope packet.
LEMMA BehindAll ==
    ASSUME NEW S, NEW q \in Seq(S), NEW good
    PROVE  /\ q \in Seq(good) => Behind(q, good)
           /\ (\A k \in 1..Len(q) : q[k].kind # "scope") => Behind(q, good)
<1>1. q \in Seq(good) => \A j \in 1..Len(q) : q[j] \in good  BY ElementOfSeq
<1> QED  BY <1>1 DEF Behind

\* More may be good, and good packets may be sent.
LEMMA RightSent ==
    ASSUME NEW S, NEW q \in Seq(S), NEW good, NEW better, good \subseteq better,
           better \subseteq S, NEW seen, Right(q, seen, good), NEW c, NEW p \in Seq(better)
    PROVE  Right(Send(c, q, p), seen, better)
<1> DEFINE r == q \o p
<1>1. p \in Seq(S)  BY SeqMonotonic
<1>2. /\ Len(q) \in Nat /\ Len(p) \in Nat /\ Len(r) = Len(q) + Len(p)
      /\ \A i \in 1..(Len(q) + Len(p)) :
            r[i] = IF i <= Len(q) THEN q[i] ELSE p[i - Len(q)]
  BY <1>1, JoinedAt
<1>3. \A i \in 1..Len(p) : p[i] \in better  BY ElementOfSeq
<1>4. Right(q, seen, better)
  <2>1. seen => q \in Seq(better)  BY SeqMonotonic DEF Right
  <2> QED  BY <2>1 DEF Right, Behind
<1>5. seen => r \in Seq(better)  BY <1>4, ConcatProperties DEF Right
<1> HIDE DEF r
<1>6. Behind(r, better)
  <2> SUFFICES ASSUME NEW j \in 1..Len(r), NEW k \in 1..Len(r), k < j, r[k].kind = "scope"
               PROVE  r[j] \in better
    BY DEF Behind
  <2>1. CASE j <= Len(q)
    <3>1. j \in 1..Len(q) /\ k \in 1..Len(q) /\ r[j] = q[j] /\ r[k] = q[k]  BY <1>2, <2>1
    <3> QED  BY <1>4, <3>1 DEF Right, Behind
  <2>2. CASE ~(j <= Len(q))
    <3>1. j - Len(q) \in 1..Len(p) /\ r[j] = p[j - Len(q)]  BY <1>2, <2>2
    <3> QED  BY <1>3, <3>1
  <2> QED  BY <2>1, <2>2
<1>7. Right(r, seen, better)  BY <1>5, <1>6 DEF Right
<1> QED  BY <1>4, <1>7 DEF Send, r

\* A packet taken at the head.
LEMMA BehindTail ==
    ASSUME NEW S, NEW q \in Seq(S), q # << >>, NEW good, Behind(q, good)
    PROVE  /\ Behind(Tail(q), good)
           /\ Head(q).kind = "scope" => Tail(q) \in Seq(good)
<1> DEFINE r == Tail(q)
<1>1. /\ r \in Seq(S) /\ Len(r) = Len(q) - 1 /\ Len(q) \in Nat \ {0}
      /\ \A j \in 1..(Len(q) - 1) : r[j] = q[j + 1]
      /\ Head(q) = q[1]
  BY TailAt
<1> HIDE DEF r
<1>2. Behind(r, good)
  <2> SUFFICES ASSUME NEW j \in 1..Len(r), NEW k \in 1..Len(r), k < j, r[k].kind = "scope"
               PROVE  r[j] \in good
    BY DEF Behind
  <2>1. /\ j + 1 \in 1..Len(q) /\ r[j] = q[j + 1]
        /\ k + 1 \in 1..Len(q) /\ r[k] = q[k + 1]
        /\ k + 1 < j + 1
    BY <1>1
  <2> QED  BY <2>1 DEF Behind
<1>3. ASSUME Head(q).kind = "scope"  PROVE r \in Seq(good)
  <2>1. ASSUME NEW j \in 1..Len(r)  PROVE r[j] \in good
    <3>1. 1 \in 1..Len(q) /\ j + 1 \in 1..Len(q) /\ 1 < j + 1 /\ r[j] = q[j + 1]
      BY <1>1, <2>1
    <3> QED  BY <1>1, <1>3, <3>1 DEF Behind
  <2> QED  BY <1>1, <2>1, SeqOf
<1> QED  BY <1>2, <1>3 DEF r

\* What is left of an answer stays in front.
LEMMA BehindAssign ==
    ASSUME NEW S, NEW q \in Seq(S), NEW good, Behind(q, good), NEW ids, Assign(ids) \in Seq(S)
    PROVE  Behind(Assign(ids) \o q, good)
<1> DEFINE a == Assign(ids)
           r == a \o q
<1>1. \A i \in 1..Len(a) : a[i].kind # "scope"
  <2>1. \A i \in 1..Len(<<Assigned(ids)>>) : <<Assigned(ids)>>[i].kind # "scope"
    BY DEF Assigned
  <2> QED  BY <2>1 DEF Assign
<1> HIDE DEF a
<1>2. a \in Seq(S)  BY DEF a
<1>3. /\ Len(q) \in Nat /\ Len(a) \in Nat /\ Len(r) = Len(a) + Len(q)
      /\ \A i \in 1..(Len(a) + Len(q)) :
            r[i] = IF i <= Len(a) THEN a[i] ELSE q[i - Len(a)]
  BY <1>2, JoinedAt
<1> HIDE DEF r
<1>4. Behind(r, good)
  <2> SUFFICES ASSUME NEW j \in 1..Len(r), NEW k \in 1..Len(r), k < j, r[k].kind = "scope"
               PROVE  r[j] \in good
    BY DEF Behind
  <2>1. ~(k <= Len(a))
    <3>1. ASSUME k <= Len(a)  PROVE FALSE
      <4>1. k \in 1..Len(a) /\ r[k] = a[k]  BY <1>3, <3>1
      <4> QED  BY <1>1, <4>1
    <3> QED  BY <3>1
  <2>2. /\ k - Len(a) \in 1..Len(q) /\ r[k] = q[k - Len(a)]
        /\ j - Len(a) \in 1..Len(q) /\ r[j] = q[j - Len(a)]
        /\ k - Len(a) < j - Len(a)
    BY <1>3, <2>1
  <2> QED  BY <2>2 DEF Behind
<1> QED  BY <1>4 DEF a, r

---------------------------------------------------------------------------
(* The ids of a client's own nodes.                                        *)

\* A queue asks for the construction of a node; it answers with an id.
Asked(q, n) == \E j \in 1..Len(q) : <<n>> \in Says(q[j])
Answers(q, id) == \E j \in 1..Len(q) : q[j].kind = "assigned" /\ id \in q[j].ids

\* Packets that name nodes by the id they have, and those that answer with ids
\* the server keeps, nodes that are gone aside.
Named(c) ==
    {m \in FromClient(c) : m.kind = "construction" =>
        \A e \in m.new : own[e[1]] # "gone" => e[2] = nid[e[1]]}
Granted(c) ==
    {m \in ToClient(c) : m.kind = "assigned" =>
        \A id \in m.ids : OwnerOf(id) = c /\ (own[id.node] # "gone" => id \in srv)}

\* The server is still to hear of a node the client has constructed, or keeps it
\* under the id the client has or is being told.
Told(c) ==
    \A n \in cHas[c] :
        \/ Asked(toSrv[c], n)
        \/ \E id \in srv : id.node = n /\ (nid[n] = id \/ Answers(toCli[c], id))

\* Of a client that has joined: what it asks for has the names its nodes have, and
\* what it is answered on this connection, from where it will heed answers, is kept
\* by the server.  What was answered to its former connection is in front of that.
AssignOf(c) ==
    /\ toSrv[c] \in Seq(Named(c))
    /\ Right(toCli[c], cConn[c] = "valid", Granted(c))
    /\ Told(c)
AssignInv == \A c \in Clients : Joined(c) => AssignOf(c)

\* What is asked or answered stays so when more is sent,
LEMMA AskedSent ==
    ASSUME NEW S, NEW q \in Seq(S), NEW p \in Seq(S), NEW n
    PROVE  /\ Asked(q, n) \/ Asked(p, n) => Asked(q \o p, n)
           /\ \A id : Answers(q, id) \/ Answers(p, id) => Answers(q \o p, id)
<1> DEFINE r == q \o p
<1>1. /\ Len(q) \in Nat /\ Len(p) \in Nat /\ Len(r) = Len(q) + Len(p)
      /\ \A i \in 1..(Len(q) + Len(p)) :
            r[i] = IF i <= Len(q) THEN q[i] ELSE p[i - Len(q)]
  BY ConcatProperties, LenProperties
<1> HIDE DEF r
<1>2. \A i \in 1..Len(q) : i \in 1..Len(r) /\ r[i] = q[i]  BY <1>1
<1>3. \A i \in 1..Len(p) : Len(q) + i \in 1..Len(r) /\ r[Len(q) + i] = p[i]  BY <1>1
<1>4. Asked(q, n) \/ Asked(p, n) => Asked(r, n)  BY <1>2, <1>3 DEF Asked
<1>5. \A id : Answers(q, id) \/ Answers(p, id) => Answers(r, id)
  BY <1>2, <1>3 DEF Answers
<1> QED  BY <1>4, <1>5 DEF r

\* and when a packet that says nothing of it is taken out.
LEMMA AskedWithout ==
    ASSUME NEW S, NEW q \in Seq(S), NEW i \in 1..Len(q), NEW n, Asked(q, n),
           <<n>> \notin Says(q[i])
    PROVE  Asked(Without(q, i), n)
<1> DEFINE r == Without(q, i)
<1>1. /\ Len(q) \in Nat /\ Len(r) = Len(q) - 1
      /\ \A j \in 1..Len(r) : r[j] = IF j < i THEN q[j] ELSE q[j + 1]
  BY WithoutAt, LenProperties
<1>2. PICK k \in 1..Len(q) : <<n>> \in Says(q[k])  BY DEF Asked
<1>3. k # i  BY <1>2
<1> HIDE DEF r
<1>4. CASE k < i
  <2>1. k \in 1..Len(r) /\ r[k] = q[k]  BY <1>1, <1>4
  <2> QED  BY <1>2, <2>1 DEF Asked, r
<1>5. CASE ~(k < i)
  <2>1. k - 1 \in 1..Len(r) /\ r[k - 1] = q[k]  BY <1>1, <1>3, <1>5
  <2> QED  BY <1>2, <2>1 DEF Asked, r
<1> QED  BY <1>4, <1>5

\* Handling a packet drops no answer but its own.
LEMMA AnswersTail ==
    ASSUME NEW S, NEW q \in Seq(S), q # << >>, NEW id, Answers(q, id)
    PROVE  Answers(Tail(q), id) \/ (Head(q).kind = "assigned" /\ id \in Head(q).ids)
<1> DEFINE r == Tail(q)
<1>1. /\ Len(q) \in Nat \ {0} /\ Len(r) = Len(q) - 1 /\ Head(q) = q[1]
      /\ \A j \in 1..(Len(q) - 1) : r[j] = q[j + 1]
  BY TailAt
<1> HIDE DEF r
<1>2. PICK k \in 1..Len(q) : q[k].kind = "assigned" /\ id \in q[k].ids  BY DEF Answers
<1>3. CASE k = 1  BY <1>1, <1>2, <1>3
<1>4. CASE k # 1
  <2>1. k - 1 \in 1..Len(r) /\ r[k - 1] = q[k]  BY <1>1, <1>4
  <2> QED  BY <1>2, <2>1 DEF Answers, r
<1> QED  BY <1>3, <1>4

\* An answer names the ids it assigns.
LEMMA AnswersAssign ==
    ASSUME NEW ids, NEW id \in ids
    PROVE  Answers(Assign(ids), id)
<1>1. Assign(ids) = <<Assigned(ids)>>  BY DEF Assign
<1>2. Len(<<Assigned(ids)>>) = 1 /\ <<Assigned(ids)>>[1] = Assigned(ids)  OBVIOUS
<1>3. Assigned(ids).kind = "assigned" /\ Assigned(ids).ids = ids  BY DEF Assigned
<1> QED  BY <1>1, <1>2, <1>3 DEF Answers

\* Nothing of a connection the server has ends it, or begins another.
LEMMA JoinedRuns ==
    ASSUME Known, NEW c \in Clients, Joined(c)
    PROVE  /\ up = TRUE /\ wire[c] = TRUE /\ srvConn[c] # "none"
           /\ \A k \in 1..Len(toSrv[c]) : ~Ending(toSrv[c][k]) /\ toSrv[c][k].kind # "incoming"
<1>1. IInv  BY DEF Known, Sane
<1>2. wire[c] /\ srvConn[c] # "none" /\ Plain(toSrv[c])  BY <1>1, JoinedIs
<1>3. wire[c] = TRUE  BY <1>1, <1>2 DEF IInv, FaultInv
<1>4. up  BY <1>2 DEF Known, Accounts
<1>5. up = TRUE  BY <1>1, <1>4 DEF IInv, ServerInv
<1> QED  BY <1>2, <1>3, <1>5 DEF Plain, Ending

\* ... so a node it has is not asked for again, nor one that is yet to be.
LEMMA NotTwice ==
    ASSUME Known, NEW c \in Clients, Joined(c), NEW n \in NodesOf(c)
    PROVE  /\ n \in cQuery[c] \/ own[n] = "none" \/ cConn[c] = "none" =>
                 ~Asked(toSrv[c], n) /\ \A id \in srv : id.node # n
           /\ \A id \in srv : id.node = n => ~Asked(toSrv[c], n)
<1>1. /\ up = TRUE /\ wire[c] = TRUE
      /\ \A k \in 1..Len(toSrv[c]) : ~Ending(toSrv[c][k])
  BY JoinedRuns
<1>2. OnceIn(toSrv[c], Heard(c), Unsaid(c), TRUE)
  BY <1>1 DEF Known, OnceInv, OnceOf
<1>3. ASSUME n \in cQuery[c] \/ own[n] = "none" \/ cConn[c] = "none"
      PROVE  <<n>> \in Unsaid(c)
  BY <1>1, <1>3 DEF Unsaid
<1>4. ASSUME NEW id \in srv, id.node = n  PROVE <<n>> \in Heard(c)
  BY <1>4 DEF Heard, CreatedBy, OwnerOf, NodesOf
<1>5. <<n>> \in Unsaid(c) => ~Asked(toSrv[c], n) /\ <<n>> \notin Heard(c)
  <2>1. Len(toSrv[c]) \in Nat  BY LenProperties DEF Known, Sane, IInv, ToSrvInv
  <2> QED  BY <1>1, <1>2, <2>1 DEF OnceIn, Over, Ends, Asked
<1>6. <<n>> \in Heard(c) => ~Asked(toSrv[c], n)
  BY <1>1, <1>2 DEF OnceIn, Anew, Asked
<1> QED  BY <1>3, <1>4, <1>5, <1>6

\* The packets of a client stay right as long as the nodes they ask for keep
\* their names.
LEMMA NamedStays ==
    ASSUME IInv, [Next]_vars, NEW c \in Clients, NEW q \in Seq(Named(c)),
           \A n \in NodesOf(c) : Asked(q, n) /\ own'[n] # "gone" => nid'[n] = nid[n]
    PROVE  q \in Seq(Named(c)')
<1>1. ASSUME NEW j \in 1..Len(q)  PROVE q[j] \in Named(c)'
  <2> DEFINE m == q[j]
  <2>1. m \in Named(c) /\ m \in FromClient(c)  BY ElementOfSeq DEF Named
  <2>2. ASSUME m.kind = "construction", NEW e \in m.new, own'[e[1]] # "gone"
        PROVE  e[2] = nid'[e[1]]
    <3>1. e \in PairsOf(c)  BY <2>1, <2>2 DEF FromClient, Incoming, Scope, Lost, Bye
    <3>2. e[1] \in NodesOf(c) /\ e[1] \in Nodes  BY <3>1 DEF PairsOf, NodesOf
    <3>3. own[e[1]] # "gone"  BY <2>2, <3>2, GoneStays
    <3>4. e[2] = nid[e[1]]  BY <2>1, <2>2, <3>3 DEF Named
    <3>5. <<e[1]>> \in Says(m)  BY <2>2 DEF Says
    <3>6. Asked(q, e[1])  BY <3>5 DEF Asked
    <3> QED  BY <2>2, <3>2, <3>4, <3>6
  <2> HIDE DEF m
  <2>3. m \in Named(c)'  BY <2>1, <2>2 DEF Named
  <2> QED  BY <2>3 DEF m
<1> QED  BY <1>1, SeqOf

\* What the server has assigned stays right while it has the connection.
LEMMA GrantedStays ==
    ASSUME Sane, [Next]_vars, NEW c \in Clients, srvConn'[c] # "none"
    PROVE  Granted(c) \subseteq Granted(c)'
<1> SUFFICES ASSUME NEW m \in Granted(c)  PROVE m \in Granted(c)'
  OBVIOUS
<1>0. IInv /\ m \in ToClient(c)  BY DEF Sane, Granted
<1>1. ASSUME m.kind = "assigned", NEW id \in m.ids, own'[id.node] # "gone"  PROVE id \in srv'
  <2>1. id \in Ids /\ id.node \in Nodes
    BY <1>0, <1>1 DEF ToClient, Accepted, Scope, Lost, Bye, Ids
  <2>2. own[id.node] # "gone"  BY <1>0, <1>1, <2>1, GoneStays
  <2>3. id \in srv /\ OwnerOf(id) = c  BY <1>1, <2>2 DEF Granted
  <2> QED  BY <2>2, <2>3, Drops
<1>2. m.kind = "assigned" => \A id \in m.ids : OwnerOf(id) = c
  BY DEF Granted
<1> QED  BY <1>0, <1>1, <1>2 DEF Granted, OwnerOf

\* A step that answers nothing and asks for nothing but destructions.
LEMMA AssignKept ==
    ASSUME Sane, [Next]_vars, NEW c \in Clients, AssignOf(c), srvConn'[c] # "none",
           NEW p \in Seq(FromClient(c)),
           \A j \in 1..Len(p) : p[j].kind = "construction" => p[j].new = {},
           toSrv'[c] = toSrv[c] \/ toSrv'[c] = Send(c, toSrv[c], p),
           toCli'[c] = toCli[c], cConn'[c] = cConn[c], cHas'[c] \subseteq cHas[c],
           \A n \in NodesOf(c) : nid'[n] = nid[n], srv' = srv
    PROVE  AssignOf(c)'
<1>0. IInv  BY DEF Sane
<1>1. toSrv[c] \in Seq(Named(c)) /\ toSrv[c] \in Seq(Named(c)')
  <2>1. toSrv[c] \in Seq(Named(c))  BY DEF AssignOf
  <2>2. toSrv[c] \in Seq(Named(c)')  BY <1>0, <2>1, NamedStays
  <2> QED  BY <2>1, <2>2
<1>2. p \in Seq(Named(c)')
  <2>1. \A j \in 1..Len(p) : p[j] \in FromClient(c)  BY ElementOfSeq
  <2>2. \A j \in 1..Len(p) : p[j] \in Named(c)'  BY <2>1 DEF Named
  <2> QED  BY <2>2, SeqOf
<1>3. toSrv'[c] \in Seq(Named(c)')  BY <1>1, <1>2, SendKeeps
<1>4. Right(toCli'[c], cConn'[c] = "valid", Granted(c)')
  <2> DEFINE good == Granted(c)
             better == Granted(c)'
  <2>1. Right(toCli[c], cConn[c] = "valid", good)  BY DEF AssignOf
  <2>2. good \subseteq better  BY GrantedStays
  <2> HIDE DEF good, better
  <2>3. Right(toCli[c], cConn[c] = "valid", better)
    BY <2>1, <2>2, SeqMonotonic DEF Right, Behind
  <2> QED  BY <2>3 DEF better
<1>5. \A n : Asked(toSrv[c], n) => Asked(toSrv'[c], n)
  <2>1. toSrv[c] \in Seq(FromClient(c))  BY <1>0 DEF IInv, ToSrvInv
  <2>2. \A n : Asked(toSrv[c], n) => Asked(toSrv[c] \o p, n)  BY <2>1, AskedSent
  <2> QED  BY <2>2 DEF Send
<1>6. Told(c)'
  <2>1. Told(c)  BY DEF AssignOf
  <2>2. cHas[c] \subseteq NodesOf(c)  BY DEF Sane, ConnInv, ListsOf, LiveOf
  <2> QED  BY <1>5, <2>1, <2>2 DEF Told
<1> QED  BY <1>3, <1>4, <1>6 DEF AssignOf

\* Every other step keeps AssignInv.
LEMMA RestAssign ==
    ASSUME Known, IInv', AssignInv, [Next]_vars, NEW c \in Clients, Joined(c)',
           \/ \E n \in Nodes : AddNode(n) \/ RemoveNode(n)
           \/ \E d \in Clients : StartClient(d) \/ RemoveAllNodes(d) \/ Stop(d)
           \/ \E d \in Clients : Establish(d) \/ ConnectFails(d) \/ Break(d)
           \/ ServerQuit
           \/ ServerCrash
           \/ UNCHANGED vars
    PROVE  AssignOf(c)'
<1>0. /\ Sane /\ IInv /\ wire'[c] /\ srvConn'[c] # "none" /\ Plain(toSrv'[c])
  BY JoinedIsNext DEF Known, Sane
<1>1. ASSUME toSrv'[c] = toSrv[c], toCli'[c] = toCli[c], cHas'[c] = cHas[c],
             cConn'[c] = cConn[c], nid' = nid, srv' = srv,
             wire'[c] = wire[c], srvConn'[c] = srvConn[c]
      PROVE  AssignOf(c)'
  <2>1. Joined(c)  BY <1>0, <1>1, JoinedIs
  <2>2. AssignOf(c)  BY <2>1 DEF AssignInv
  <2>3. << >> \in Seq(FromClient(c)) /\ \A j \in 1..Len(<< >>) : FALSE  BY EmptySeq
  <2> QED  BY <1>0, <1>1, <2>2, <2>3, AssignKept
<1>2. ASSUME NEW n \in Nodes, AddNode(n)  PROVE AssignOf(c)'
  BY <1>1, <1>2 DEF AddNode, serverVars
<1>3. ASSUME NEW d \in Clients, NEW S \in SUBSET NodesOf(d), DestroyOwn(d, S),
             UNCHANGED <<link, cConn, nid, copies, serverVars, wire, toCli, faults>>
      PROVE  AssignOf(c)'
  <2> DEFINE del == {nid[n] : n \in S \cap cHas[d]}
             p == Destruct(del)
  <2>2. cHas'[c] \subseteq cHas[c]
    BY <1>0, <1>3 DEF DestroyOwn, IInv, ClientInv
  <2>3. /\ toCli'[c] = toCli[c] /\ nid' = nid /\ srv' = srv /\ cConn'[c] = cConn[c]
        /\ wire'[c] = wire[c] /\ srvConn'[c] = srvConn[c]
    BY <1>3 DEF serverVars
  <2>4. toSrv'[c] = toSrv[c] \/ toSrv'[c] = Send(c, toSrv[c], p)
    BY <1>0, <1>3 DEF DestroyOwn, IInv, ToSrvInv
  <2>5. del \in SUBSET (Ids \cup {NoId})  BY <1>0 DEF IInv, ClientInv, NodesOf
  <2>6. \A e \in Clients : p \in Seq(FromClient(e))
    <3> HIDE DEF del
    <3> QED  BY <2>5, DestructFromClient
  <2>7. \A j \in 1..Len(p) : p[j].kind = "construction" => p[j].new = {}
    <3>1. \A j \in 1..Len(<< >>) : FALSE  OBVIOUS
    <3>2. \A x : \A j \in 1..Len(<<Construction({}, x)>>) : <<Construction({}, x)>>[j].new = {}
      BY DEF Construction
    <3> HIDE DEF del
    <3> QED  BY <3>1, <3>2 DEF Destruct
  <2> HIDE DEF p
  <2>8. p \in Seq(FromClient(c)) /\ toSrv[c] \in Seq(FromClient(c))
    BY <1>0, <2>6 DEF IInv, ToSrvInv
  <2>9. Plain(toSrv[c])  BY <1>0, <2>4, <2>8, PlainSend
  <2>10. Joined(c)  BY <1>0, <2>3, <2>9, JoinedIs
  <2>11. AssignOf(c)  BY <2>10 DEF AssignInv
  <2> QED  BY <1>0, <2>2, <2>3, <2>4, <2>7, <2>8, <2>11, AssignKept
<1>4. ASSUME NEW n \in Nodes, RemoveNode(n)  PROVE AssignOf(c)'
  <2>1. Owner[n] \in Clients /\ {n} \in SUBSET NodesOf(Owner[n])
    BY OwnerAssumption DEF NodesOf
  <2> QED  BY <1>3, <1>4, <2>1 DEF RemoveNode
<1>5. ASSUME NEW d \in Clients, RemoveAllNodes(d)  PROVE AssignOf(c)'
  BY <1>3, <1>5 DEF RemoveAllNodes
<1>6. ASSUME NEW d \in Clients, StartClient(d) \/ ConnectFails(d)  PROVE AssignOf(c)'
  BY <1>1, <1>6 DEF StartClient, ConnectFails, serverVars
<1>7. ASSUME NEW d \in Clients, Stop(d) \/ Break(d)  PROVE AssignOf(c)'
  <2>1. c # d  BY <1>0, <1>7 DEF Stop, Break, IInv, FaultInv
  <2>2. /\ toSrv' = toSrv \/ \E q : toSrv' = [toSrv EXCEPT ![d] = q]
        /\ cHas' = cHas \/ cHas' = [cHas EXCEPT ![d] = {}]
        /\ cConn' = cConn \/ cConn' = [cConn EXCEPT ![d] = "none"]
        /\ \E q : toCli' = [toCli EXCEPT ![d] = q]
        /\ wire' = [wire EXCEPT ![d] = FALSE]
        /\ UNCHANGED <<srvConn, srv, nid>>
    <3>1. toSrv' = toSrv \/ \E q : toSrv' = [toSrv EXCEPT ![d] = q]
      BY <1>7 DEF Stop, Break
    <3> QED  BY <1>7, <3>1 DEF Stop, Break, clientVars, serverVars
  <2>3. /\ DOMAIN toSrv = Clients /\ DOMAIN toCli = Clients /\ DOMAIN cConn = Clients
        /\ DOMAIN cHas = Clients /\ DOMAIN wire = Clients
    BY <1>0 DEF IInv, FaultInv, ToSrvInv, ToCliInv, ClientInv
  <2>4. toSrv'[c] = toSrv[c]  BY <2>1, <2>2, <2>3
  <2>5. cHas'[c] = cHas[c] /\ cConn'[c] = cConn[c]  BY <2>1, <2>2, <2>3
  <2>6. toCli'[c] = toCli[c] /\ wire'[c] = wire[c]  BY <2>1, <2>2, <2>3
  <2> QED  BY <1>1, <2>2, <2>4, <2>5, <2>6
<1>8. ASSUME NEW d \in Clients, Establish(d)  PROVE AssignOf(c)'
  <2>1. c # d
    <3>1. ASSUME c = d  PROVE FALSE
      <4>1. toSrv'[c] = Append(toSrv[c], Incoming) /\ toSrv[c] \in Seq(FromClient(c))
        BY <1>0, <1>8, <3>1 DEF Establish, IInv, ToSrvInv
      <4> DEFINE q == toSrv[c]
                 r == Append(q, Incoming)
      <4>2. Plain(r) /\ q \in Seq(FromClient(c))  BY <1>0, <4>1
      <4> HIDE DEF q
      <4>3. Len(q) \in Nat /\ Len(r) = Len(q) + 1 /\ r[Len(q) + 1] = Incoming
        BY <4>2, AppendProperties, LenProperties
      <4> HIDE DEF r
      <4> QED  BY <4>2, <4>3 DEF Plain, Incoming
    <3> QED  BY <3>1
  <2>2. /\ toSrv'[c] = toSrv[c] /\ toCli'[c] = toCli[c] /\ cHas' = cHas /\ cConn' = cConn
        /\ wire'[c] = wire[c] /\ UNCHANGED <<srvConn, srv, nid>>
    BY <1>0, <1>8, <2>1
    DEF Establish, clientVars, serverVars, IInv, FaultInv, ToSrvInv, ToCliInv
  <2> QED  BY <1>1, <2>2
<1>9. CASE ServerQuit \/ ServerCrash
  BY <1>0, <1>9 DEF ServerQuit, ServerCrash
<1>10. CASE UNCHANGED vars  BY <1>1, <1>10 DEF vars
<1> QED  BY <1>2, <1>4, <1>5, <1>6, <1>7, <1>8, <1>9, <1>10


\* What a client takes of its queue, and what it learns.
LEMMA ReceiveTakes ==
    ASSUME IInv, NEW c \in Clients, ClientReceive(c)
    PROVE  \/ /\ nid' = nid
              /\ \/ toCli'[c] = toCli[c]
                 \/ /\ toCli[c] # << >> /\ Head(toCli[c]).kind # "assigned"
                    /\ toCli'[c] = Tail(toCli[c])
           \/ /\ toCli[c] # << >> /\ Head(toCli[c]).kind = "assigned"
              /\ \E x \in Head(toCli[c]).ids :
                    /\ nid' = IF cConn[c] # "none" /\ own[x.node] = "live"
                                 /\ x.node \in CHasNow(c)
                              THEN [nid EXCEPT ![x.node] = x] ELSE nid
                    /\ toCli'[c] = Assign(Head(toCli[c]).ids \ {x}) \o Tail(toCli[c])
<1>0. DOMAIN toCli = Clients  BY DEF IInv, ToCliInv
<1>1. CASE ClientUpdate(c)  BY <1>1 DEF ClientUpdate
<1>2. CASE ClientOnAccepted(c)  BY <1>0, <1>2 DEF ClientOnAccepted, Arriving
<1>3. CASE ClientOnScope(c)  BY <1>0, <1>3 DEF ClientOnScope, Arriving
<1>4. CASE ClientOnAssigned(c)  BY <1>0, <1>4 DEF ClientOnAssigned, Arriving
<1>5. CASE ClientOnConstruction(c)  BY <1>0, <1>5 DEF ClientOnConstruction, Arriving
<1>6. CASE ClientOnLost(c)  BY <1>0, <1>6 DEF ClientOnLost, Arriving
<1>7. CASE ClientOnBye(c)  BY <1>0, <1>7 DEF ClientOnBye, Arriving
<1> QED  BY <1>1, <1>2, <1>3, <1>4, <1>5, <1>6, <1>7 DEF ClientReceive

\* ... and what it then has on the server.
LEMMA ReceiveHas ==
    ASSUME IInv, NEW c \in Clients, ClientReceive(c)
    PROVE  cHas'[c] \subseteq CHasNow(c)
<1>0. DOMAIN cHas = Clients /\ cHas[c] \subseteq CHasNow(c)
  BY DEF IInv, ClientInv, CHasNow
<1>1. CASE ClientUpdate(c)  BY <1>0, <1>1 DEF ClientUpdate
<1>2. CASE ClientOnAccepted(c)  BY <1>0, <1>2 DEF ClientOnAccepted
<1>3. CASE ClientOnScope(c)  BY <1>0, <1>3 DEF ClientOnScope
<1>4. CASE ClientOnAssigned(c)  BY <1>0, <1>4 DEF ClientOnAssigned
<1>5. CASE ClientOnConstruction(c)  BY <1>0, <1>5 DEF ClientOnConstruction
<1>6. CASE ClientOnLost(c)  BY <1>0, <1>6 DEF ClientOnLost
<1>7. CASE ClientOnBye(c)  BY <1>0, <1>7 DEF ClientOnBye
<1> QED  BY <1>1, <1>2, <1>3, <1>4, <1>5, <1>6, <1>7 DEF ClientReceive

\* Part of an answer is as right as the whole.
LEMMA GrantedPart ==
    ASSUME NEW c \in Clients
    PROVE  /\ Granted(c) \subseteq ToClient(c)
           /\ \A m \in Granted(c) : m.kind = "assigned" =>
                 \A ids \in SUBSET m.ids : Assigned(ids) \in Granted(c)
<1>1. Granted(c) \subseteq ToClient(c)  BY DEF Granted
<1>2. ASSUME NEW m \in Granted(c), m.kind = "assigned", NEW ids \in SUBSET m.ids
      PROVE  Assigned(ids) \in Granted(c)
  <2>1. m.ids \subseteq Ids
    BY <1>1, <1>2 DEF ToClient, Accepted, Scope, Lost, Bye
  <2>2. Assigned(ids) \in ToClient(c) /\ Assigned(ids).ids = ids
    BY <2>1 DEF ToClient, Assigned
  <2> QED  BY <1>2, <2>2 DEF Granted
<1> QED  BY <1>1, <1>2

\* A client that handles a packet, and what is left of its queue.
LEMMA ReceiveRight ==
    ASSUME IInv, NEW c \in Clients, ClientReceive(c), NEW good, good \subseteq ToClient(c),
           \A m \in good : m.kind = "assigned" =>
               \A ids \in SUBSET m.ids : Assigned(ids) \in good,
           Right(toCli[c], cConn[c] = "valid", good)
    PROVE  Right(toCli'[c], cConn'[c] = "valid", good)
<1>0. toCli[c] \in Seq(ToClient(c)) /\ DOMAIN toCli = Clients /\ DOMAIN cConn = Clients
  BY DEF IInv, ToCliInv, ClientInv
<1>1. Behind(toCli[c], good)  BY DEF Right
<1>2. Behind(toCli'[c], good)
  <2>1. CASE toCli'[c] = toCli[c]  BY <1>1, <2>1
  <2>2. CASE toCli[c] # << >> /\ toCli'[c] = Tail(toCli[c])
    BY <1>0, <1>1, <2>2, BehindTail
  <2>3. ASSUME toCli[c] # << >>, Head(toCli[c]).kind = "assigned",
               NEW x \in Head(toCli[c]).ids,
               toCli'[c] = Assign(Head(toCli[c]).ids \ {x}) \o Tail(toCli[c])
        PROVE  Behind(toCli'[c], good)
    <3> DEFINE left == Head(toCli[c]).ids \ {x}
    <3>1. Head(toCli[c]) \in ToClient(c) /\ Tail(toCli[c]) \in Seq(ToClient(c))
      BY <1>0, <2>3, TailAt
    <3>2. left \in SUBSET Ids
      BY <2>3, <3>1 DEF ToClient, Accepted, Scope, Lost, Bye
    <3>3. toCli'[c] = Assign(left) \o Tail(toCli[c])  BY <2>3
    <3> HIDE DEF left
    <3>4. Assign(left) \in Seq(ToClient(c))  BY <3>2, AssignToClient
    <3>5. Behind(Tail(toCli[c]), good)  BY <1>0, <1>1, <2>3, BehindTail
    <3> QED  BY <3>1, <3>3, <3>4, <3>5, BehindAssign
  <2> QED  BY <2>1, <2>2, <2>3, ReceiveTakes
<1>3. cConn'[c] = "valid" => cConn[c] = "valid" \/ ClientOnScope(c)
  BY <1>0 DEF ClientReceive, ClientUpdate, ClientOnAccepted, ClientOnAssigned,
              ClientOnConstruction, ClientOnLost, ClientOnBye
<1>4. cConn[c] = "valid" => toCli'[c] \in Seq(good)
  <2>1. cConn[c] = "valid" => toCli[c] \in Seq(good)  BY DEF Right
  <2> QED  BY <2>1, ReceiveShrinks
<1>5. ClientOnScope(c) => toCli'[c] \in Seq(good)
  <2> SUFFICES ASSUME ClientOnScope(c)  PROVE toCli'[c] \in Seq(good)
    OBVIOUS
  <2>1. toCli[c] # << >> /\ Head(toCli[c]).kind = "scope" /\ toCli'[c] = Tail(toCli[c])
    BY <1>0 DEF ClientOnScope, Arriving
  <2> QED  BY <1>0, <1>1, <2>1, BehindTail
<1> QED  BY <1>2, <1>3, <1>4, <1>5 DEF Right

\* A client that handles a packet keeps AssignInv of itself,
LEMMA ReceiveAssign ==
    ASSUME Known, IInv', AssignInv, NEW c \in Clients, ClientReceive(c), Joined(c)'
    PROVE  AssignOf(c)'
<1>0. /\ Sane /\ IInv /\ ConnInv /\ [Next]_vars /\ UNCHANGED serverVars
      /\ wire'[c] /\ srvConn'[c] # "none" /\ Plain(toSrv'[c])
  BY ReceiveElsewhere, JoinedIsNext DEF Known, Sane, Next
<1>sent. CPacket(c) \in Seq(FromClient(c)) /\ <<Scope>> \in Seq(FromClient(c))
  <2>1. IInv  BY <1>0
  <2> QED  BY <2>1, CPacketTyped, ControlFromClient DEF IInv
<1>1. Joined(c) /\ AssignOf(c)
  <2>1. wire[c] /\ srvConn[c] # "none"
    BY <1>0, ReceiveSends DEF serverVars
  <2>2. PICK p : /\ p = CPacket(c) \/ p = <<Scope>>
                 /\ toSrv'[c] = Send(c, toSrv[c], p)
    BY <1>0, ReceiveSends
  <2>3. p \in Seq(FromClient(c)) /\ toSrv[c] \in Seq(FromClient(c))
    BY <1>0, <1>sent, <2>2 DEF IInv, ToSrvInv
  <2>4. Plain(toSrv[c])  BY <1>0, <2>2, <2>3, PlainSend
  <2> QED  BY <1>0, <2>1, <2>4, JoinedIs DEF AssignInv
<1>2. up /\ wire[c] = TRUE  BY <1>1, JoinedRuns
<1>3. PICK p : /\ p = CPacket(c) \/ (p = <<Scope>> /\ CFlush(c) = {})
               /\ toSrv'[c] = toSrv[c] \o p
  BY <1>0, <1>2, ReceiveSends DEF Send
<1>4. /\ p \in Seq(FromClient(c)) /\ toSrv[c] \in Seq(FromClient(c))
      /\ toCli[c] \in Seq(ToClient(c)) /\ cQuery[c] \subseteq NodesOf(c)
      /\ DOMAIN nid = Nodes /\ cHas[c] \subseteq LiveOf(c)
  <2>1. p \in Seq(FromClient(c))
    BY <1>sent, <1>3
  <2> QED  BY <1>0, <2>1 DEF IInv, ToSrvInv, ToCliInv, ClientInv, ConnInv, ListsOf
<1>5. ASSUME NEW n \in NodesOf(c), nid'[n] # nid[n]
      PROVE  /\ ~Asked(toSrv[c], n) /\ n \notin CFlush(c)
             /\ nid'[n] \in srv /\ nid'[n].node = n
  <2>1. PICK x \in Head(toCli[c]).ids :
           /\ toCli[c] # << >> /\ Head(toCli[c]).kind = "assigned"
           /\ own[x.node] = "live" /\ nid' = [nid EXCEPT ![x.node] = x]
           /\ x.node \in CHasNow(c)
    BY <1>0, <1>5, ReceiveTakes
  <2>2. n \in Nodes /\ x.node = n /\ nid'[n] = x  BY <1>4, <1>5, <2>1 DEF NodesOf
  <2>3. x \in srv
    <3>1. toCli[c] \in Seq(Granted(c))
      <4>1. cConn[c] = "valid"  BY <1>0, <2>1, ListsAfter DEF ConnInv
      <4> QED  BY <1>1, <4>1 DEF AssignOf, Right
    <3>2. Head(toCli[c]) \in Granted(c)  BY <2>1, <3>1, TailAt
    <3> QED  BY <2>1, <3>2 DEF Granted
  <2>4. ~Asked(toSrv[c], n) /\ n \notin cQuery[c]
    BY <1>1, <2>2, <2>3, NotTwice
  <2> QED  BY <2>2, <2>3, <2>4 DEF CFlush
<1>6. toSrv[c] \in Seq(Named(c)')
  <2>1. toSrv[c] \in Seq(Named(c))  BY <1>1 DEF AssignOf
  <2>2. \A n \in NodesOf(c) : Asked(toSrv[c], n) /\ own'[n] # "gone" => nid'[n] = nid[n]
    BY <1>5
  <2> QED  BY <1>0, <2>1, <2>2, NamedStays
<1>7. p \in Seq(Named(c)')
  <2>1. CASE p = <<Scope>>
    <3>1. Scope \in Named(c)'  BY DEF Named, FromClient, Scope
    <3> QED  BY <2>1, <3>1
  <2>2. CASE p = CPacket(c)
    <3> DEFINE new == {<<n, nid[n]>> : n \in CFlush(c)}
    <3>1. p = Construct(new)  BY <2>2 DEF CPacket
    <3>2. \A e \in new : e[2] = nid'[e[1]]
      <4>1. \A n \in CFlush(c) : nid'[n] = nid[n]  BY <1>4, <1>5 DEF CFlush
      <4> QED  BY <4>1
    <3> HIDE DEF new
    <3>3. CASE new = {}
      <4>1. p = << >>  BY <3>1, <3>3 DEF Construct
      <4> QED  BY <4>1, EmptySeq
    <3>4. CASE new # {}
      <4>1. p = <<Construction(new, {})>>  BY <3>1, <3>4 DEF Construct
      <4>2. Construction(new, {}) \in FromClient(c)
        <5>1. Len(<<Construction(new, {})>>) = 1  OBVIOUS
        <5> QED  BY <1>4, <4>1, <5>1, ElementOfSeq
      <4>3. Construction(new, {}) \in Named(c)'
        BY <3>2, <4>2 DEF Named, Construction
      <4> QED  BY <4>1, <4>3
    <3> QED  BY <3>3, <3>4
  <2> QED  BY <1>3, <2>1, <2>2
<1>8. toSrv'[c] \in Seq(Named(c)')  BY <1>3, <1>6, <1>7, ConcatProperties
<1>9. Right(toCli'[c], cConn'[c] = "valid", Granted(c)')
  <2>1. Right(toCli[c], cConn[c] = "valid", Granted(c))  BY <1>1 DEF AssignOf
  <2>2. Right(toCli'[c], cConn'[c] = "valid", Granted(c))
    BY <1>0, <2>1, GrantedPart, ReceiveRight
  <2> DEFINE good == Granted(c)
             better == Granted(c)'
  <2>3. good \subseteq better  BY <1>0, GrantedStays
  <2>4. Right(toCli'[c], cConn'[c] = "valid", good)  BY <2>2
  <2> HIDE DEF good, better
  <2>5. Right(toCli'[c], cConn'[c] = "valid", better)
    BY <2>3, <2>4, SeqMonotonic DEF Right, Behind
  <2> QED  BY <2>5 DEF better
<1>10. \A n : Asked(toSrv[c], n) \/ Asked(p, n) => Asked(toSrv'[c], n)
  BY <1>3, <1>4, AskedSent
<1>11. ASSUME NEW n \in CFlush(c)  PROVE Asked(toSrv'[c], n)
  <2> DEFINE new == {<<k, nid[k]>> : k \in CFlush(c)}
  <2>1. p = Construct(new) /\ <<n, nid[n]>> \in new  BY <1>3, <1>11 DEF CPacket
  <2> HIDE DEF new
  <2>2. p = <<Construction(new, {})>>  BY <2>1 DEF Construct
  <2>3. 1 \in 1..Len(p) /\ p[1] = Construction(new, {})  BY <2>2
  <2>4. <<n>> \in Says(Construction(new, {}))  BY <2>1 DEF Says, Construction
  <2>5. Asked(p, n)  BY <2>3, <2>4 DEF Asked
  <2> QED  BY <1>10, <2>5
<1>12. ASSUME NEW id \in srv, NEW n \in cHas[c], id.node = n, nid'[n] = nid[n],
              Answers(toCli[c], id)
       PROVE  nid'[n] = id \/ Answers(toCli'[c], id)
  <2>1. ASSUME toCli[c] # << >>, Head(toCli[c]).kind # "assigned",
               toCli'[c] = Tail(toCli[c])
        PROVE  Answers(toCli'[c], id)
    BY <1>4, <1>12, <2>1, AnswersTail
  <2>2. ASSUME toCli[c] # << >>, Head(toCli[c]).kind = "assigned",
               NEW x \in Head(toCli[c]).ids,
               nid' = IF cConn[c] # "none" /\ own[x.node] = "live" /\ x.node \in CHasNow(c)
                      THEN [nid EXCEPT ![x.node] = x] ELSE nid,
               toCli'[c] = Assign(Head(toCli[c]).ids \ {x}) \o Tail(toCli[c])
        PROVE  nid'[n] = id \/ Answers(toCli'[c], id)
    <3> DEFINE left == Head(toCli[c]).ids \ {x}
    <3>1. Tail(toCli[c]) \in Seq(ToClient(c)) /\ Assign(left) \in Seq(ToClient(c))
      <4>1. Head(toCli[c]) \in ToClient(c) /\ Tail(toCli[c]) \in Seq(ToClient(c))
        BY <1>4, <2>2, TailAt
      <4>2. left \in SUBSET Ids
        BY <2>2, <4>1 DEF ToClient, Accepted, Scope, Lost, Bye
      <4> HIDE DEF left
      <4> QED  BY <4>1, <4>2, AssignToClient
    <3>2. ASSUME Answers(Assign(left), id) \/ Answers(Tail(toCli[c]), id)
          PROVE  Answers(Assign(left) \o Tail(toCli[c]), id)
      <4> DEFINE s == ToClient(c)
                 q == Assign(left)
                 r == Tail(toCli[c])
      <4>1. q \in Seq(s) /\ r \in Seq(s) /\ (Answers(q, id) \/ Answers(r, id))
        BY <3>1, <3>2
      <4> HIDE DEF s, q, r
      <4>2. Answers(q \o r, id)  BY <4>1, AskedSent
      <4> QED  BY <4>2 DEF q, r
    <3>3. CASE id = x
      <4>1. n \in Nodes /\ own[n] = "live" /\ n \in CHasNow(c) /\ cConn[c] # "none"
        BY <1>0, <1>4, <1>12 DEF LiveOf, NodesOf, CHasNow, ConnInv, ListsOf
      <4> QED  BY <1>4, <1>12, <2>2, <3>3, <4>1
    <3>4. CASE id # x /\ id \in Head(toCli[c]).ids
      <4>1. id \in left  BY <3>4
      <4> HIDE DEF left
      <4>2. Answers(Assign(left), id)  BY <4>1, AnswersAssign
      <4>3. Assign(left) \o Tail(toCli[c]) = toCli'[c]  BY <2>2 DEF left
      <4> QED  BY <3>2, <4>2, <4>3
    <3>5. CASE id \notin Head(toCli[c]).ids
      <4>1. Answers(Tail(toCli[c]), id)  BY <1>4, <1>12, <2>2, <3>5, AnswersTail
      <4>2. Assign(left) \o Tail(toCli[c]) = toCli'[c]  BY <2>2
      <4> HIDE DEF left
      <4> QED  BY <3>2, <4>1, <4>2
    <3> QED  BY <3>3, <3>4, <3>5
  <2> QED  BY <1>0, <1>12, <2>1, <2>2, ReceiveTakes
<1>13. Told(c)'
  <2> SUFFICES ASSUME NEW n \in cHas'[c]
               PROVE  \/ Asked(toSrv'[c], n)
                      \/ \E id \in srv' : id.node = n
                                          /\ (nid'[n] = id \/ Answers(toCli'[c], id))
    BY DEF Told
  <2>1. n \in cHas[c] \cup CFlush(c)  BY <1>0, ReceiveHas DEF CHasNow
  <2>2. CASE n \in CFlush(c)  BY <1>11, <2>2
  <2>3. CASE n \in cHas[c]
    <3>1. srv' = srv  BY <1>0 DEF serverVars
    <3>2. n \in NodesOf(c)  BY <1>4, <2>3 DEF LiveOf
    <3>3. CASE nid'[n] # nid[n]  BY <1>5, <3>1, <3>2, <3>3
    <3>4. CASE nid'[n] = nid[n]
      <4>1. \/ Asked(toSrv[c], n)
            \/ \E id \in srv : id.node = n /\ (nid[n] = id \/ Answers(toCli[c], id))
        BY <1>1, <2>3 DEF AssignOf, Told
      <4> QED  BY <1>10, <1>12, <2>3, <3>1, <3>4, <4>1
    <3> QED  BY <3>3, <3>4
  <2> QED  BY <2>1, <2>2, <2>3
<1> QED  BY <1>8, <1>9, <1>13 DEF AssignOf

\* and of the others.
LEMMA ReceiveAssigns ==
    ASSUME Known, IInv', AssignInv, NEW d \in Clients, ClientReceive(d),
           NEW c \in Clients, Joined(c)'
    PROVE  AssignOf(c)'
<1>1. CASE c = d  BY <1>1, ReceiveAssign
<1>2. CASE c # d
  <2>1. /\ Sane /\ IInv /\ ConnInv /\ [Next]_vars /\ UNCHANGED serverVars
        /\ wire'[c] /\ srvConn'[c] # "none" /\ Plain(toSrv'[c])
    BY ReceiveElsewhere, JoinedIsNext DEF Known, Sane, Next
  <2>2. /\ toSrv'[c] = toSrv[c] /\ toCli'[c] = toCli[c] /\ cHas'[c] = cHas[c]
        /\ wire'[c] = wire[c] /\ srv' = srv /\ srvConn' = srvConn /\ cConn'[c] = cConn[c]
        /\ \A n \in NodesOf(c) : nid'[n] = nid[n]
    BY <1>2, <2>1, ReceiveElsewhere DEF serverVars, NodesOf
  <2>3. AssignOf(c)  BY <2>1, <2>2, JoinedIs DEF AssignInv
  <2>4. << >> \in Seq(FromClient(c)) /\ \A j \in 1..Len(<< >>) : FALSE  BY EmptySeq
  <2> QED  BY <2>1, <2>2, <2>3, <2>4, AssignKept
<1> QED  BY <1>1, <1>2

\* Packets that give nobody an id.
Silent(c) == {m \in ToClient(c) : m.kind # "assigned"}

\* What the server sends besides answers assigns nothing.
LEMMA SilentSent ==
    ASSUME NEW d \in Clients
    PROVE  /\ << >> \in Seq(Silent(d)) /\ <<Scope>> \in Seq(Silent(d))
           /\ \A del \in SUBSET Ids : Destruct(del) \in Seq(Silent(d))
           /\ ServerInv => SPacket(d) \in Seq(Silent(d))
<1>1. Scope \in Silent(d)  BY DEF Silent, ToClient, Scope
<1>2. \A del \in SUBSET Ids : Construction({}, del) \in Silent(d)
  BY DEF Silent, ToClient, Construction
<1>3. ASSUME ServerInv  PROVE Construction(SFlush(d), {}) \in Silent(d)
  <2>1. SFlush(d) \subseteq Foreign(d)  BY <1>3 DEF SFlush, ServerInv
  <2> QED  BY <2>1 DEF Silent, ToClient, Construction
<1>4. << >> \in Seq(Silent(d))  BY EmptySeq
<1>5. \A del \in SUBSET Ids : Destruct(del) \in Seq(Silent(d))
  BY <1>2, <1>4 DEF Destruct
<1>6. ServerInv => SPacket(d) \in Seq(Silent(d))
  BY <1>3, <1>4 DEF SPacket, Construct
<1> QED  BY <1>1, <1>4, <1>5, <1>6

\* The server keeps what it has of a node that is not gone.
LEMMA KeepsNamed ==
    ASSUME Sane, [Next]_vars, NEW c \in Clients, srvConn'[c] # "none",
           NEW id \in srv, OwnerOf(id) = c, own[id.node] # "gone"
    PROVE  id \in srv'
BY Drops

\* The server answers nobody, and handles nothing of the client that asks.
LEMMA AssignUnanswered ==
    ASSUME Sane, [Next]_vars, NEW c \in Clients, AssignOf(c), srvConn'[c] # "none",
           UNCHANGED clientVars, NEW p \in Seq(Silent(c)),
           toCli'[c] = Send(c, toCli[c], p),
           \/ toSrv'[c] = toSrv[c]
           \/ \E i \in 1..Len(toSrv[c]) : /\ toSrv'[c] = Without(toSrv[c], i)
                                          /\ toSrv[c][i].kind # "construction"
    PROVE  AssignOf(c)'
<1>0. /\ IInv /\ cHas' = cHas /\ nid' = nid
      /\ toSrv[c] \in Seq(FromClient(c)) /\ toCli[c] \in Seq(ToClient(c))
  BY DEF Sane, IInv, ToSrvInv, ToCliInv, clientVars
<1>1. toSrv'[c] \in Seq(Named(c)')
  <2>1. toSrv[c] \in Seq(Named(c))  BY DEF AssignOf
  <2>2. toSrv[c] \in Seq(Named(c)')  BY <1>0, <2>1, NamedStays
  <2> QED  BY <2>2, WithoutKeeps
<1>2. Right(toCli'[c], cConn'[c] = "valid", Granted(c)')
  <2>1. Right(toCli[c], cConn[c] = "valid", Granted(c))  BY DEF AssignOf
  <2>2. Granted(c) \subseteq Granted(c)' /\ Granted(c)' \subseteq ToClient(c)
    BY GrantedStays DEF Granted, ToClient, Foreign, OwnerOf
  <2>3. Silent(c) \subseteq Granted(c)'  BY DEF Silent, Granted, ToClient, Foreign, OwnerOf
  <2>4. p \in Seq(Granted(c)')  BY <2>3, SeqMonotonic
  <2>5. Right(Send(c, toCli[c], p), cConn[c] = "valid", Granted(c)')
    BY <1>0, <2>1, <2>2, <2>4, RightSent
  <2> QED  BY <2>5 DEF clientVars
<1>3. \A n : Asked(toSrv[c], n) => Asked(toSrv'[c], n)
  <2>1. ASSUME NEW i \in 1..Len(toSrv[c]), toSrv[c][i].kind # "construction",
               NEW n, Asked(toSrv[c], n)
        PROVE  Asked(Without(toSrv[c], i), n)
    <3>1. <<n>> \notin Says(toSrv[c][i])  BY <2>1 DEF Says
    <3> QED  BY <1>0, <2>1, <3>1, AskedWithout
  <2> QED  BY <2>1
<1>4. \A id : Answers(toCli[c], id) => Answers(toCli'[c], id)
  <2>1. p \in Seq(ToClient(c))
    <3>1. Silent(c) \subseteq ToClient(c)  BY DEF Silent
    <3> QED  BY <3>1, SeqMonotonic
  <2>2. \A id : Answers(toCli[c], id) => Answers(toCli[c] \o p, id)
    BY <1>0, <2>1, AskedSent
  <2> QED  BY <2>2 DEF Send
<1>5. ASSUME NEW n \in cHas[c], NEW id \in srv, id.node = n  PROVE id \in srv'
  <2>1. n \in LiveOf(c)  BY <1>5 DEF Sane, ConnInv, ListsOf
  <2> QED  BY <1>5, <2>1, KeepsNamed DEF LiveOf, NodesOf, OwnerOf
<1>6. Told(c)'
  <2>1. Told(c)  BY DEF AssignOf
  <2> QED  BY <1>0, <1>3, <1>4, <1>5, <2>1 DEF Told
<1> QED  BY <1>1, <1>2, <1>6 DEF AssignOf

\* The server takes up a connection: its client makes nothing of it yet, whatever
\* the server has answered, meanwhile, to what was left of the former one.
LEMMA IncomingAssign ==
    ASSUME Known, BackInv, NEW c \in Clients, NEW i, ServerOnIncoming(c, i),
           wire[c], srvConn[c] = "none"
    PROVE  AssignOf(c)'
<1>0. /\ Sane /\ IInv /\ ConnInv /\ up /\ ServerInv
      /\ UNCHANGED clientVars /\ DOMAIN toSrv = Clients
      /\ toSrv[c] \in Seq(FromClient(c)) /\ toCli[c] \in Seq(ToClient(c))
  BY DEF Known, Sane, ServerOnIncoming, Reaching, IInv, ToSrvInv, ToCliInv
<1>1. /\ i = 1 /\ 1 \in 1..Len(toSrv[c]) /\ Len(toSrv[c]) \in Nat
      /\ toSrv[c][1].kind = "incoming" /\ toSrv'[c] = Without(toSrv[c], 1)
  <2>1. Reaching(c, i, "incoming") /\ Take(c, i)  BY DEF ServerOnIncoming
  <2>2. i = 1 /\ i \in 1..Len(toSrv[c]) /\ Len(toSrv[c]) \in Nat /\ toSrv[c][i].kind = "incoming"
    BY <1>0, <2>1, Handles
  <2> QED  BY <1>0, <2>1, <2>2 DEF Take
<1>2. cConn[c] # "valid" /\ toCli[c] \in Seq(Unscoped(c)) /\ Renewed(toSrv[c])
  <2>1. Awaits(c)  BY <1>0, <1>1 DEF Awaits, Begins
  <2> QED  BY <2>1 DEF BackInv, BackOf
<1>3. cHas'[c] = {} /\ cConn'[c] # "valid"
  BY <1>0, <1>2 DEF ConnInv, ListsOf, clientVars
<1>4. toSrv'[c] \in Seq(Named(c)')
  <2> DEFINE q == toSrv[c]
             r == Without(q, 1)
  <2>1. /\ r \in Seq(FromClient(c)) /\ Len(r) = Len(q) - 1
        /\ \A j \in 1..(Len(q) - 1) : r[j] = q[j + 1]
    <3>1. q \in Seq(FromClient(c)) /\ 1 \in 1..Len(q) /\ Len(q) \in Nat  BY <1>0, <1>1
    <3> HIDE DEF q
    <3>2. /\ Without(q, 1) \in Seq(FromClient(c)) /\ Len(Without(q, 1)) = Len(q) - 1
          /\ \A j \in 1..(Len(q) - 1) :
                Without(q, 1)[j] = IF j < 1 THEN q[j] ELSE q[j + 1]
      BY <3>1, WithoutAt
    <3>3. \A j \in 1..(Len(q) - 1) : ~(j < 1)  BY <3>1
    <3> QED  BY <3>2, <3>3
  <2> HIDE DEF r
  <2>2. ASSUME NEW j \in 1..Len(r)  PROVE r[j] \in Named(c)'
    <3>1. j + 1 \in 1..Len(q) /\ 1 < j + 1 /\ r[j] = q[j + 1]  BY <1>1, <2>1, <2>2
    <3>2. r[j].kind = "scope"  BY <1>1, <1>2, <3>1 DEF Renewed
    <3>3. r[j] \in FromClient(c)  BY <2>1, ElementOfSeq
    <3> QED  BY <3>2, <3>3 DEF Named, FromClient, PairsOf, NodesOf
  <2>3. r \in Seq(Named(c)')  BY <2>1, <2>2, SeqOf
  <2> QED  BY <1>1, <2>3 DEF r
<1>5. Right(toCli'[c], cConn'[c] = "valid", Granted(c)')
  <2>1. toCli'[c] = Send(c, toCli[c], SPacket(c) \o <<Scope>>)
    BY DEF ServerOnIncoming, Deliver, Nothing
  <2>2. SPacket(c) \o <<Scope>> \in Seq(Silent(c))
    BY <1>0, SilentSent, ConcatProperties
  <2>3. Silent(c) \subseteq Granted(c)' /\ Granted(c)' \subseteq ToClient(c)
    BY DEF Silent, Granted, ToClient, Foreign, OwnerOf
  <2> DEFINE p == SPacket(c) \o <<Scope>>
             good == Granted(c)'
  <2>4. p \in Seq(good)  BY <2>2, <2>3, SeqMonotonic
  <2> HIDE DEF p, good
  <2>5. \A k \in 1..Len(toCli[c]) : toCli[c][k].kind # "scope"
    BY <1>2, ElementOfSeq DEF Unscoped
  <2>6. Behind(toCli[c], good)  BY <1>0, <2>5, BehindAll
  <2>7. Right(toCli[c], FALSE, good)  BY <2>6 DEF Right
  <2>8. good \subseteq ToClient(c)  BY <2>3 DEF good
  <2>9. Right(Send(c, toCli[c], p), FALSE, good)
    BY <1>0, <2>4, <2>7, <2>8, RightSent
  <2>10. (cConn'[c] = "valid") = FALSE  BY <1>3
  <2> QED  BY <2>1, <2>9, <2>10 DEF p, good
<1> QED  BY <1>3, <1>4, <1>5 DEF AssignOf, Told

\* The server handles what a client constructs, and answers it.
LEMMA ConstructionAssign ==
    ASSUME Sane, [Next]_vars, NEW c \in Clients, NEW i, ServerOnConstruction(c, i),
           srvConn[c] # "none", wire[c], AssignOf(c)
    PROVE  AssignOf(c)'
<1> DEFINE m == toSrv[c][i]
           a == Assign(Answered(m))
<1>0. /\ IInv /\ ServerInv /\ up /\ UNCHANGED <<clientVars, srvConn>>
      /\ toSrv[c] \in Seq(FromClient(c)) /\ toCli[c] \in Seq(ToClient(c))
      /\ cHas[c] \subseteq LiveOf(c)
  BY DEF Sane, IInv, ToSrvInv, ToCliInv, ConnInv, ListsOf, ServerOnConstruction, Reaching
<1>1. /\ i \in 1..Len(toSrv[c]) /\ m \in Meant(c) /\ m \in FromClient(c)
      /\ m.kind = "construction" /\ toSrv'[c] = Without(toSrv[c], i)
  <2>1. Reaching(c, i, "construction") /\ Take(c, i)  BY DEF ServerOnConstruction
  <2> QED  BY <1>0, <2>1, Handles DEF Take, IInv, ToSrvInv
<1>2. /\ srv' = (srv \cup Created(m)) \ Doomed(m)
      /\ toCli'[c] = Send(c, toCli[c], SPacket(c) \o SentThen(c, m, c))
  BY ConstructionIs
<1>3. m \in Named(c)
  <2>1. toSrv[c] \in Seq(Named(c))  BY DEF AssignOf
  <2> QED  BY <1>1, <2>1, ElementOfSeq
<1> HIDE DEF m
<1>4. /\ m.new \subseteq PairsOf(c) /\ Answered(m) \in SUBSET Ids
      /\ \A id \in Answered(m) : OwnerOf(id) = c
  BY <1>0, <1>1, ConstructionHolds
<1>5. m.new # {} => srv' = srv \cup Created(m)
  BY <1>1, <1>2 DEF Meant, Doomed
<1>6. NoId \notin srv  BY <1>0 DEF ServerInv, Ids, NoId
<1>7. \A e \in m.new : e[2] = NoId => IdFor(e) \in Answered(m) /\ IdFor(e) \in srv'
  <2>1. \A e \in m.new : e[2] = NoId => IdFor(e) \in Answered(m) /\ IdFor(e) \in Created(m)
    BY <1>6 DEF Answered, Created
  <2> QED  BY <1>5, <2>1
<1>8. Answered(m) \subseteq srv'  BY <1>7 DEF Answered
<1>9. toSrv'[c] \in Seq(Named(c)')
  <2>1. toSrv[c] \in Seq(Named(c))  BY DEF AssignOf
  <2>2. toSrv[c] \in Seq(Named(c)')  BY <1>0, <2>1, NamedStays DEF clientVars
  <2> QED  BY <1>1, <2>2, WithoutKeeps
<1>10. /\ SPacket(c) \in Seq(ToClient(c)) /\ SPacket(c) \in Seq(Silent(c))
       /\ a \in Seq(ToClient(c)) /\ SPacket(c) \o a \in Seq(ToClient(c))
       /\ toCli'[c] = toCli[c] \o (SPacket(c) \o a)
  <2>1. SPacket(c) \in Seq(Silent(c)) /\ Silent(c) \subseteq ToClient(c)
    BY <1>0, SilentSent DEF Silent
  <2>2. SPacket(c) \in Seq(ToClient(c))  BY <2>1, SeqMonotonic
  <2>3. a \in Seq(ToClient(c))  BY <1>4, AssignToClient
  <2>4. SentThen(c, m, c) = a  BY DEF SentThen
  <2> HIDE DEF a
  <2> QED  BY <1>0, <1>2, <2>1, <2>2, <2>3, <2>4, ConcatProperties DEF Send
<1>11. Right(toCli'[c], cConn'[c] = "valid", Granted(c)')
  <2>1. Right(toCli[c], cConn[c] = "valid", Granted(c))  BY DEF AssignOf
  <2>2. srvConn'[c] # "none"  BY <1>0
  <2>3. Granted(c) \subseteq Granted(c)' /\ Granted(c)' \subseteq ToClient(c)
    BY <2>2, GrantedStays DEF Granted, ToClient, Foreign, OwnerOf
  <2>4. Silent(c) \subseteq Granted(c)'  BY DEF Silent, Granted, ToClient, Foreign, OwnerOf
  <2>5. SPacket(c) \in Seq(Granted(c)')  BY <1>10, <2>4, SeqMonotonic
  <2>6. Assigned(Answered(m)) \in Granted(c)'
    <3>1. Assigned(Answered(m)) \in ToClient(c)  BY <1>4 DEF ToClient, Assigned
    <3>2. Assigned(Answered(m)).ids = Answered(m)  BY DEF Assigned
    <3> QED  BY <1>4, <1>8, <3>1, <3>2 DEF Granted, ToClient, Foreign, OwnerOf
  <2>7. a \in Seq(Granted(c)')  BY <2>6, EmptySeq DEF Assign
  <2> HIDE DEF a
  <2>8. SPacket(c) \o a \in Seq(Granted(c)')  BY <2>5, <2>7, ConcatProperties
  <2>9. Right(Send(c, toCli[c], SPacket(c) \o a), cConn[c] = "valid", Granted(c)')
    BY <1>0, <2>1, <2>3, <2>8, RightSent
  <2>10. toCli'[c] = Send(c, toCli[c], SPacket(c) \o a)  BY <1>0, <1>10 DEF Send
  <2> QED  BY <1>0, <2>9, <2>10 DEF clientVars
<1>12. \A id : Answers(toCli[c], id) \/ Answers(a, id) => Answers(toCli'[c], id)
  <2> HIDE DEF a
  <2>1. \A id : Answers(a, id) => Answers(SPacket(c) \o a, id)  BY <1>10, AskedSent
  <2> DEFINE s == ToClient(c)
             q == toCli[c]
             r == SPacket(c) \o a
  <2>2. q \in Seq(s) /\ r \in Seq(s)  BY <1>0, <1>10
  <2> HIDE DEF s, q, r
  <2>3. \A id : Answers(q, id) \/ Answers(r, id) => Answers(q \o r, id)  BY <2>2, AskedSent
  <2> QED  BY <1>10, <2>1, <2>3 DEF q, r
<1>13. Told(c)'
  <2> SUFFICES ASSUME NEW n \in cHas[c]
               PROVE  \/ Asked(toSrv'[c], n)
                      \/ \E id \in srv' : id.node = n
                                          /\ (nid[n] = id \/ Answers(toCli'[c], id))
    BY <1>0 DEF Told, clientVars
  <2>1. n \in Nodes /\ Owner[n] = c /\ own[n] # "gone"  BY <1>0 DEF LiveOf, NodesOf
  <2>2. CASE \E id \in srv : id.node = n /\ (nid[n] = id \/ Answers(toCli[c], id))
    <3>1. PICK id \in srv : id.node = n /\ (nid[n] = id \/ Answers(toCli[c], id))
      BY <2>2
    <3>2. id \in srv'  BY <1>0, <2>1, <3>1, KeepsNamed DEF OwnerOf
    <3> QED  BY <1>12, <3>1, <3>2
  <2>3. CASE Asked(toSrv[c], n) /\ <<n>> \notin Says(m)
    BY <1>0, <1>1, <2>3, AskedWithout DEF m
  <2>4. CASE <<n>> \in Says(m)
    <3>1. PICK e \in m.new : e[1] = n  BY <1>1, <2>4 DEF Says
    <3>2. e[2] = nid[n]  BY <1>1, <1>3, <2>1, <3>1 DEF Named
    <3>3. CASE nid[n] = NoId
      <4>1. IdFor(e) \in Answered(m) /\ IdFor(e) \in srv' /\ IdFor(e).node = n
        BY <1>7, <3>1, <3>2, <3>3 DEF IdFor
      <4>2. Answers(a, IdFor(e))  BY <4>1, AnswersAssign
      <4> HIDE DEF a
      <4> QED  BY <1>12, <4>1, <4>2
    <3>4. CASE nid[n] # NoId
      <4>1. nid[n].node = n  BY <1>0, <2>1, <3>4 DEF IInv, ClientInv
      <4>2. IdFor(e) = nid[n]  BY <3>2, <3>4 DEF IdFor
      <4>3. nid[n] \in srv \cup Created(m)  BY <3>1, <3>2, <4>2 DEF Created
      <4>4. nid[n] \in srv'  BY <1>5, <3>1, <4>3
      <4> QED  BY <4>1, <4>4
    <3> QED  BY <3>3, <3>4
  <2>5. \/ Asked(toSrv[c], n)
        \/ \E id \in srv : id.node = n /\ (nid[n] = id \/ Answers(toCli[c], id))
    BY DEF AssignOf, Told
  <2> QED  BY <2>2, <2>3, <2>4, <2>5
<1> QED  BY <1>9, <1>11, <1>13 DEF AssignOf


\* A connection the server has does not begin again.
LEMMA BeginsAnew ==
    ASSUME Sane, OnceInv, NEW c \in Clients, NEW i, ServerOnIncoming(c, i)
    PROVE  srvConn[c] = "none"
<1> SUFFICES ASSUME srvConn[c] # "none"  PROVE FALSE
  OBVIOUS
<1>1. /\ UNCHANGED <<clientVars, up, wire>> /\ Take(c, i) /\ Reaching(c, i, "incoming")
  BY DEF ServerOnIncoming
<1>2. << >> \in Heard(c)  BY DEF Heard
<1>3. Says(toSrv[c][i]) = {<< >>}  BY <1>1 DEF Reaching, Says
<1>4. Heard(c)' \subseteq Heard(c) \cup Says(toSrv[c][i])
  <2>1. CreatedBy(c)' = CreatedBy(c) /\ srvConn' = srvConn
    BY DEF ServerOnIncoming, CreatedBy, OwnerOf
  <2> QED  BY <2>1 DEF Heard
<1>5. Says(toSrv[c][i]) \cap Heard(c) = {}  BY <1>1, <1>4, OnceTaken
<1> QED  BY <1>2, <1>3, <1>5

\* The server, handling a packet, keeps AssignInv.
LEMMA ServerAssigns ==
    ASSUME Known, IInv', BackInv, AssignInv, ServerReceive, NEW c \in Clients, Joined(c)'
    PROVE  AssignOf(c)'
<1>0. /\ Sane /\ IInv /\ ServerInv /\ up /\ [Next]_vars
      /\ UNCHANGED <<clientVars, up, wire>> /\ wire[c] /\ srvConn'[c] # "none"
      /\ srvConn \in [Clients -> {"none", "pushed", "valid"}]
      /\ DOMAIN toSrv = Clients
  BY ServerRuns, ServerSends, JoinedIsNext DEF Known, Sane, IInv, ServerInv, ToSrvInv, Next
<1>1. ASSUME Joined(c), NEW p \in Seq(Silent(c)), toCli'[c] = Send(c, toCli[c], p),
             \/ toSrv'[c] = toSrv[c]
             \/ \E i \in 1..Len(toSrv[c]) : /\ toSrv'[c] = Without(toSrv[c], i)
                                            /\ toSrv[c][i].kind # "construction"
      PROVE  AssignOf(c)'
  <2>1. AssignOf(c)  BY <1>1 DEF AssignInv
  <2> QED  BY <1>0, <1>1, <2>1, AssignUnanswered
<1>2. ASSUME NEW p \in Seq(Silent(c))  PROVE SPacket(c) \o p \in Seq(Silent(c))
  BY <1>0, <1>2, SilentSent, ConcatProperties
<1>3. ASSUME NEW d \in Clients, NEW i, NEW kind, Reaching(d, i, kind), Take(d, i)
      PROVE  /\ d # c => toSrv'[c] = toSrv[c]
             /\ d = c => /\ i \in 1..Len(toSrv[c]) /\ toSrv[c][i].kind = kind
                         /\ toSrv'[c] = Without(toSrv[c], i)
  <2>1. i \in 1..Len(toSrv[d]) /\ toSrv[d][i].kind = kind  BY <1>0, <1>3, Handles
  <2> QED  BY <1>0, <1>3, <2>1 DEF Take
<1>4. CASE ServerUpdate
  <2>1. /\ toCli'[c] = Send(c, toCli[c], SPacket(c) \o << >>)
        /\ toSrv'[c] = toSrv[c] /\ srvConn' = srvConn
    BY <1>4 DEF ServerUpdate, Deliver, Nothing
  <2>2. Joined(c)  BY <1>4 DEF ServerUpdate, Joined
  <2> QED  BY <1>1, <1>2, <2>1, <2>2, SilentSent
<1>5. ASSUME NEW d \in Clients, NEW i, ServerOnIncoming(d, i)  PROVE AssignOf(c)'
  <2>1. CASE d = c /\ srvConn[c] = "none"
    BY <1>0, <1>5, <2>1, IncomingAssign
  <2>2. CASE ~(d = c /\ srvConn[c] = "none")
    <3>1. Joined(c)
      <4>1. d # c
        <5>1. srvConn[d] = "none"  BY <1>0, <1>5, BeginsAnew DEF Known
        <5> QED  BY <2>2, <5>1
      <4>2. srvConn'[c] = srvConn[c] /\ toSrv'[c] = toSrv[c]
        BY <1>0, <1>5, <4>1 DEF ServerOnIncoming, Take
      <4> QED  BY <1>0, <4>2 DEF Joined
    <3>2. \/ toCli'[c] = Send(c, toCli[c], SPacket(c) \o << >>)
          \/ toCli'[c] = Send(c, toCli[c], SPacket(c) \o <<Scope>>)
      BY <1>5 DEF ServerOnIncoming, Deliver, Nothing
    <3>3. Reaching(d, i, "incoming") /\ Take(d, i)  BY <1>5 DEF ServerOnIncoming
    <3>4. \/ toSrv'[c] = toSrv[c]
          \/ \E k \in 1..Len(toSrv[c]) : /\ toSrv'[c] = Without(toSrv[c], k)
                                         /\ toSrv[c][k].kind # "construction"
      BY <1>3, <3>3
    <3> QED  BY <1>1, <1>2, <3>1, <3>2, <3>4, SilentSent
  <2> QED  BY <2>1, <2>2
<1>6. ASSUME NEW d \in Clients, NEW i, ServerOnScope(d, i)  PROVE AssignOf(c)'
  <2>1. Reaching(d, i, "scope") /\ Take(d, i)  BY <1>6 DEF ServerOnScope
  <2>2. Joined(c)
    <3>1. \A e \in Clients : srvConn'[e] = "none" <=> srvConn[e] = "none"
      BY <1>0, <1>6 DEF ServerOnScope
    <3> QED  BY <1>0, <2>1, <3>1, JoinedBefore
  <2>3. \/ toCli'[c] = Send(c, toCli[c], SPacket(c) \o << >>)
        \/ toCli'[c] = Send(c, toCli[c], SPacket(c) \o <<Scope>>)
    BY <1>6 DEF ServerOnScope, Deliver, Nothing
  <2>4. \/ toSrv'[c] = toSrv[c]
        \/ \E k \in 1..Len(toSrv[c]) : /\ toSrv'[c] = Without(toSrv[c], k)
                                       /\ toSrv[c][k].kind # "construction"
    BY <1>3, <2>1
  <2> QED  BY <1>1, <1>2, <2>2, <2>3, <2>4, SilentSent
<1>7. ASSUME NEW d \in Clients, NEW i, ServerOnConstruction(d, i)  PROVE AssignOf(c)'
  <2>1. Reaching(d, i, "construction") /\ Take(d, i) /\ srvConn' = srvConn
    BY <1>7 DEF ServerOnConstruction
  <2>2. Joined(c)  BY <1>0, <2>1, JoinedBefore
  <2>3. CASE d = c
    <3>1. AssignOf(c)  BY <2>2 DEF AssignInv
    <3>2. srvConn[c] # "none"  BY <2>2 DEF Joined
    <3> QED  BY <1>0, <1>7, <2>3, <3>1, <3>2, ConstructionAssign
  <2>4. CASE d # c
    <3>1. toSrv'[c] = toSrv[c]  BY <1>3, <2>1, <2>4
    <3>2. CASE srvConn[d] = "none"
      <4>1. toCli'[c] = Send(c, toCli[c], SPacket(c) \o << >>)
        BY <1>7, <3>2 DEF ServerOnConstruction, Deliver, Nothing
      <4> QED  BY <1>1, <1>2, <2>2, <3>1, <4>1, SilentSent
    <3>3. CASE srvConn[d] # "none"
      <4> DEFINE m == toSrv[d][i]
      <4>1. toCli'[c] = Send(c, toCli[c], SPacket(c) \o SentThen(d, m, c))
        BY <1>7, <3>3, ConstructionIs
      <4>2. m \in FromClient(d) /\ m.kind = "construction"  BY <1>0, <2>1, Handles
      <4> HIDE DEF m
      <4>3. Doomed(m) \subseteq Ids  BY <1>0, <4>2, ConstructionHolds
      <4>4. SentThen(d, m, c) \in Seq(Silent(c))
        BY <2>4, <4>3, SilentSent DEF SentThen
      <4> QED  BY <1>1, <1>2, <2>2, <3>1, <4>1, <4>4
    <3> QED  BY <3>2, <3>3
  <2> QED  BY <2>3, <2>4
<1>8. ASSUME NEW d \in Clients, NEW i, ServerOnClosed(d, i)  PROVE AssignOf(c)'
  <2>1. d # c /\ srvConn'[c] = srvConn[c]
    BY <1>0, <1>8 DEF ServerOnClosed
  <2>2. Take(d, i) /\ (Reaching(d, i, "lost") \/ Reaching(d, i, "bye"))
    BY <1>8 DEF ServerOnClosed
  <2>3. toSrv'[c] = toSrv[c]  BY <1>3, <2>1, <2>2
  <2>7. Joined(c)  BY <1>0, <2>1, <2>3 DEF Joined
  <2> DEFINE dropped == IF srvConn[d] = "none" THEN {} ELSE CreatedBy(d)
             p == Destruct(dropped \cap SHasNow(c)) \o Destruct(dropped \cap SHasNow(c))
  <2>4. toCli'[c] = Send(c, toCli[c], SPacket(c) \o p)
    BY <1>8, <2>1 DEF ServerOnClosed, Deliver
  <2>5. dropped \cap SHasNow(c) \in SUBSET Ids
    BY <1>0 DEF CreatedBy, ServerInv
  <2>6. p \in Seq(Silent(c))
    <3> HIDE DEF dropped
    <3> QED  BY <2>5, SilentSent, ConcatProperties
  <2> HIDE DEF p
  <2> QED  BY <1>1, <1>2, <2>3, <2>4, <2>6, <2>7
<1> QED  BY <1>4, <1>5, <1>6, <1>7, <1>8 DEF ServerReceive

\* AssignInv over every step.
LEMMA NextAssign ==
    Known /\ BackInv /\ AssignInv /\ [Next]_vars => AssignInv'
<1> SUFFICES ASSUME Known, BackInv, AssignInv, [Next]_vars,
                    NEW c \in Clients, Joined(c)'
             PROVE  AssignOf(c)'
  BY DEF AssignInv
<1>0. IInv'  BY NextKnown DEF Known, Sane
<1>1. CASE ServerReceive  BY <1>0, <1>1, ServerAssigns
<1>2. ASSUME NEW d \in Clients, ClientReceive(d)  PROVE AssignOf(c)'
  BY <1>0, <1>2, ReceiveAssigns
<1>3. CASE \/ \E n \in Nodes : AddNode(n) \/ RemoveNode(n)
           \/ \E d \in Clients : StartClient(d) \/ RemoveAllNodes(d) \/ Stop(d)
           \/ \E d \in Clients : Establish(d) \/ ConnectFails(d) \/ Break(d)
           \/ ServerQuit
           \/ ServerCrash
           \/ UNCHANGED vars
  BY <1>0, <1>3, RestAssign
<1> QED  BY <1>1, <1>2, <1>3 DEF Next

\* AssignInv always holds of such clients.
LEMMA AlwaysAssign ==
    Spec /\ [][BeginsOne]_vars => [](Known /\ BackInv /\ AssignInv)
<1> DEFINE All == Known /\ BackInv /\ AssignInv
<1>1. Init => All
  <2>1. Init => AssignInv  BY DEF Init, AssignInv, Joined
  <2> QED  BY <2>1, InitKnown, InitBack
<1>2. All /\ [Next]_vars /\ [BeginsOne]_vars => All'
  <2>1. Known => Sane  BY DEF Known
  <2> QED  BY <2>1, NextKnown, NextBack, NextAssign
<1> QED  BY <1>1, <1>2, PTL DEF Spec

\* The owner and the server agree on the id of a node the owner has constructed:
\* the server has the replica under that id, or the construction is still on its
\* way to it, or the answer of OnLocalConstructionAccepted on its way back.  So it
\* is although the server's thread may be stalled and answers on the new connection
\* what came on the former one, provided the client is not back a second time before
\* the server has seen it back once; and, with no such proviso, when the thread
\* keeps up with the ends of connections.
THEOREM AssignedIdsHold ==
    /\ Spec /\ [][BeginsOne]_vars => []AssignedIdHolds
    /\ Prompt => (Spec => []AssignedIdHolds)
<1>1. Known /\ AssignInv => AssignedIdHolds
  <2> SUFFICES ASSUME Known, AssignInv, NEW n \in Nodes, NEW c, c = Owner[n],
                      Settled(c), own[n] = "live", n \in cHas[c], nid[n] # NoId
               PROVE  \/ nid[n] \in srv
                      \/ \E m \in Sent(c) : \E e \in m.new : e[1] = n
                      \/ \E i \in DOMAIN toCli[c] :
                            /\ toCli[c][i].kind = "assigned"
                            /\ \E id \in toCli[c][i].ids \cap srv : id.node = n
    BY DEF AssignedIdHolds
  <2>1. c \in Clients /\ IInv  BY OwnerAssumption DEF Known, Sane
  <2>2. Joined(c)  BY DEF Settled
  <2>3. /\ toSrv[c] \in Seq(FromClient(c)) /\ toCli[c] \in Seq(ToClient(c))
        /\ DOMAIN toSrv[c] = 1..Len(toSrv[c]) /\ DOMAIN toCli[c] = 1..Len(toCli[c])
    BY <2>1, LenProperties DEF IInv, ToSrvInv, ToCliInv
  <2>4. Told(c)  BY <2>1, <2>2 DEF AssignInv, AssignOf
  <2>5. CASE Asked(toSrv[c], n)
    <3>1. PICK j \in 1..Len(toSrv[c]) : <<n>> \in Says(toSrv[c][j])  BY <2>5 DEF Asked
    <3>2. toSrv[c][j].kind = "construction" /\ \E e \in toSrv[c][j].new : e[1] = n
      BY <3>1 DEF Says
    <3> QED  BY <2>3, <3>1, <3>2 DEF Sent, IsData
  <2>6. CASE \E id \in srv : id.node = n /\ (nid[n] = id \/ Answers(toCli[c], id))
    <3>1. PICK id \in srv : id.node = n /\ (nid[n] = id \/ Answers(toCli[c], id))
      BY <2>6
    <3>2. CASE Answers(toCli[c], id)
      BY <2>3, <3>1, <3>2 DEF Answers
    <3> QED  BY <3>1, <3>2
  <2> QED  BY <2>4, <2>5, <2>6 DEF Told
<1>2. Spec /\ [][BeginsOne]_vars => []AssignedIdHolds  BY <1>1, AlwaysAssign, PTL
<1>3. ASSUME Prompt  PROVE Spec => []AssignedIdHolds
  <2>1. [BeginsOne]_vars
    <3>1. ASSUME NEW c \in Clients, Establish(c), NEW i \in DOMAIN toSrv[c]  PROVE FALSE
      <4>1. toSrv[c] = << >>  BY <1>3, <3>1 DEF Establish
      <4> QED  BY <3>1, <4>1
    <3> QED  BY <3>1 DEF BeginsOne
  <2> QED  BY <1>2, <2>1, PTL
<1> QED  BY <1>2, <1>3


---------------------------------------------------------------------------
(* The replicas of nodes that are gone.                                    *)

\* The server has the connection a client is on.
Taken(c) == wire[c] /\ srvConn[c] # "none"

\* While the server keeps up, nothing of a connection it has ends it.
LEMMA TakenRuns ==
    ASSUME Known, PromptInv, NEW c \in Clients, Taken(c)
    PROVE  /\ up /\ wire[c] = TRUE
           /\ \A k \in 1..Len(toSrv[c]) : ~Ending(toSrv[c][k]) /\ toSrv[c][k].kind # "incoming"
<1>1. wire[c] = TRUE  BY DEF Taken, Known, Sane, IInv, FaultInv
<1>2. up  BY DEF Taken, Known, Accounts
<1>3. Orderly(toSrv[c], TRUE, TRUE)
  <2>1. (srvConn[c] # "none") = TRUE  BY DEF Taken
  <2> QED  BY <1>1, <2>1 DEF PromptInv, InOrder
<1> QED  BY <1>1, <1>2, <1>3 DEF Orderly

\* A connected client has every node it holds on one of its two lists.
ListedInv ==
    \A c \in Clients : cConn[c] # "none" => LiveOf(c) \subseteq cQuery[c] \cup cHas[c]

\* A client, handling a packet, keeps its nodes on its lists while connected.
LEMMA ReceiveListed ==
    ASSUME IInv, NEW c \in Clients, ClientReceive(c), ListedInv, cConn'[c] # "none"
    PROVE  LiveOf(c)' \subseteq cQuery'[c] \cup cHas'[c]
<1>0. /\ DOMAIN cConn = Clients /\ DOMAIN cQuery = Clients /\ DOMAIN cHas = Clients
      /\ cConn[c] # "none" => LiveOf(c) \subseteq cQuery[c] \cup cHas[c]
  BY DEF IInv, ClientInv, ListedInv
<1>1. CQueryNow(c) \cup CHasNow(c) = cQuery[c] \cup cHas[c]
  BY DEF CQueryNow, CHasNow, CFlush
<1>2. ASSUME own' = own, cConn[c] # "none",
             cHas'[c] = CHasNow(c), cQuery'[c] = CQueryNow(c)
      PROVE  LiveOf(c)' \subseteq cQuery'[c] \cup cHas'[c]
  BY <1>0, <1>1, <1>2 DEF LiveOf, NodesOf
<1>3. CASE ClientUpdate(c)
  <2>1. cConn[c] # "none"  BY <1>3 DEF ClientUpdate
  <2> QED  BY <1>0, <1>2, <1>3, <2>1 DEF ClientUpdate
<1>4. CASE ClientOnAccepted(c)
  <2>1. CASE cConn[c] = "none"
    BY <1>0, <1>4, <2>1 DEF ClientOnAccepted, LiveOf, NodesOf
  <2>2. CASE cConn[c] # "none"
    BY <1>0, <1>2, <1>4, <2>2 DEF ClientOnAccepted
  <2> QED  BY <2>1, <2>2
<1>5. CASE ClientOnScope(c)
  <2>1. cConn[c] # "none"  BY <1>0, <1>5 DEF ClientOnScope
  <2> QED  BY <1>0, <1>2, <1>5, <2>1 DEF ClientOnScope
<1>6. CASE ClientOnAssigned(c)
  <2>1. cConn[c] # "none"  BY <1>6 DEF ClientOnAssigned
  <2> QED  BY <1>0, <1>2, <1>6, <2>1 DEF ClientOnAssigned
<1>7. CASE ClientOnConstruction(c)
  <2>1. cConn' = cConn /\ cConn[c] # "none"  BY <1>7 DEF ClientOnConstruction
  <2>2. PICK hit : /\ own' = [n \in Nodes |-> IF n \in hit THEN "dangling" ELSE own[n]]
                   /\ cHas'[c] = CHasNow(c) \ hit /\ cQuery'[c] = CQueryNow(c) \ hit
    BY <1>0, <1>7, <2>1 DEF ClientOnConstruction
  <2>3. LiveOf(c)' \subseteq LiveOf(c) \ hit
    BY <2>2 DEF LiveOf, NodesOf
  <2> QED  BY <1>0, <1>1, <2>1, <2>2, <2>3
<1>8. CASE ClientOnLost(c) \/ ClientOnBye(c)
  BY <1>0, <1>8 DEF ClientOnLost, ClientOnBye
<1> QED  BY <1>3, <1>4, <1>5, <1>6, <1>7, <1>8 DEF ClientReceive

\* ListedInv over every step.
LEMMA NextListed == IInv /\ ConnInv /\ ListedInv /\ [Next]_vars => ListedInv'
<1> SUFFICES ASSUME IInv, ConnInv, ListedInv, [Next]_vars, NEW c \in Clients,
                    cConn'[c] # "none"
             PROVE  LiveOf(c)' \subseteq cQuery'[c] \cup cHas'[c]
  BY DEF ListedInv
<1>0. /\ DOMAIN cConn = Clients /\ DOMAIN cQuery = Clients /\ DOMAIN cHas = Clients
      /\ DOMAIN own = Nodes
      /\ cConn[c] # "none" => LiveOf(c) \subseteq cQuery[c] \cup cHas[c]
  BY DEF IInv, ClientInv, ListedInv
<1>1. ASSUME cConn' = cConn, cQuery'[c] = cQuery[c], cHas'[c] = cHas[c],
             \A n \in NodesOf(c) : own'[n] = "live" => own[n] = "live"
      PROVE  LiveOf(c)' \subseteq cQuery'[c] \cup cHas'[c]
  BY <1>0, <1>1 DEF LiveOf, NodesOf
<1>2. ASSUME NEW d \in Clients, NEW S \in SUBSET NodesOf(d), DestroyOwn(d, S), cConn' = cConn
      PROVE  LiveOf(c)' \subseteq cQuery'[c] \cup cHas'[c]
  <2>1. LiveOf(c)' \subseteq LiveOf(c) \ S
    BY <1>2 DEF DestroyOwn, LiveOf, NodesOf
  <2>2. cQuery[c] \ S \subseteq cQuery'[c] /\ cHas[c] \ S \subseteq cHas'[c]
    BY <1>0, <1>2 DEF DestroyOwn
  <2> QED  BY <1>0, <1>2, <2>1, <2>2
<1>3. ASSUME NEW n \in Nodes, AddNode(n)
      PROVE  LiveOf(c)' \subseteq cQuery'[c] \cup cHas'[c]
  <2>1. CASE Owner[n] # c
    <3>1. \A k \in NodesOf(c) : own'[k] = own[k]
      BY <1>0, <1>3, <2>1 DEF AddNode, NodesOf
    <3>2. cConn' = cConn /\ cQuery'[c] = cQuery[c] /\ cHas' = cHas
      BY <1>0, <1>3, <2>1 DEF AddNode
    <3> QED  BY <1>1, <3>1, <3>2
  <2>2. CASE Owner[n] = c
    <3>1. cConn' = cConn /\ cHas' = cHas /\ own' = [own EXCEPT ![n] = "live"]
      BY <1>3 DEF AddNode
    <3>2. cQuery'[c] = cQuery[c] \cup {n}
      BY <1>0, <1>3, <2>2, <3>1 DEF AddNode
    <3>3. LiveOf(c)' \subseteq LiveOf(c) \cup {n}
      BY <1>0, <3>1 DEF LiveOf, NodesOf
    <3> QED  BY <1>0, <3>1, <3>2, <3>3
  <2> QED  BY <2>1, <2>2
<1>4. ASSUME NEW n \in Nodes, RemoveNode(n)
      PROVE  LiveOf(c)' \subseteq cQuery'[c] \cup cHas'[c]
  <2>1. Owner[n] \in Clients /\ {n} \in SUBSET NodesOf(Owner[n])
    BY OwnerAssumption DEF NodesOf
  <2> QED  BY <1>2, <1>4, <2>1 DEF RemoveNode
<1>5. ASSUME NEW d \in Clients, RemoveAllNodes(d)
      PROVE  LiveOf(c)' \subseteq cQuery'[c] \cup cHas'[c]
  BY <1>2, <1>5 DEF RemoveAllNodes
<1>6. ASSUME NEW d \in Clients, Stop(d)
      PROVE  LiveOf(c)' \subseteq cQuery'[c] \cup cHas'[c]
  <2>1. d # c /\ cConn'[c] = cConn[c]  BY <1>0, <1>6 DEF Stop
  <2>2. cQuery'[c] = cQuery[c] /\ cHas'[c] = cHas[c]  BY <1>0, <1>6, <2>1 DEF Stop
  <2>3. LiveOf(c)' \subseteq LiveOf(c)  BY <1>6 DEF Stop, LiveOf, NodesOf
  <2> QED  BY <1>0, <2>1, <2>2, <2>3
<1>7. ASSUME NEW d \in Clients, ClientReceive(d)
      PROVE  LiveOf(c)' \subseteq cQuery'[c] \cup cHas'[c]
  <2>1. CASE d = c  BY <1>7, <2>1, ReceiveListed
  <2>2. CASE d # c
    <3>1. /\ cConn'[c] = cConn[c] /\ cQuery'[c] = cQuery[c] /\ cHas'[c] = cHas[c]
          /\ \A n \in NodesOf(c) : own'[n] = own[n]
      BY <1>7, <2>2, ReceiveElsewhere DEF NodesOf
    <3> QED  BY <1>0, <3>1 DEF LiveOf, NodesOf
  <2> QED  BY <2>1, <2>2
<1>8. ASSUME NEW d \in Clients, StartClient(d) \/ Establish(d) \/ ConnectFails(d) \/ Break(d)
      PROVE  LiveOf(c)' \subseteq cQuery'[c] \cup cHas'[c]
  BY <1>1, <1>8 DEF StartClient, Establish, ConnectFails, Break, clientVars
<1>9. CASE ServerReceive \/ ServerQuit \/ ServerCrash \/ UNCHANGED vars
  <2>1. ServerReceive => UNCHANGED clientVars  BY ServerSends
  <2> QED  BY <1>1, <1>9, <2>1 DEF ServerQuit, ServerCrash, vars, clientVars
<1> QED  BY <1>3, <1>4, <1>5, <1>6, <1>7, <1>8, <1>9 DEF Next

\* The authority has given every id there is.
Given(c) ==
    {m \in ToClient(c) : m.kind = "assigned" => \A id \in m.ids : id.k <= issued[id.node]}
IssuedInv ==
    /\ \A n \in Nodes : nid[n] # NoId => nid[n].k <= issued[n]
    /\ \A c \in Clients : toCli[c] \in Seq(Given(c))

\* The counter never goes back.
LEMMA IssuedGrows ==
    ASSUME IInv, ConnInv, [Next]_vars, NEW n \in Nodes
    PROVE  issued[n] \in Nat /\ issued'[n] \in Nat /\ issued[n] <= issued'[n]
<1>0. issued \in [Nodes -> Nat]  BY DEF IInv, ServerInv
<1>1. ASSUME issued' = issued
      PROVE  issued[n] \in Nat /\ issued'[n] \in Nat /\ issued[n] <= issued'[n]
  <2>1. issued[n] \in Nat  BY <1>0
  <2> QED  BY <1>1, <2>1
<1>2. CASE ServerReceive
  <2>1. ASSUME NEW c \in Clients, NEW i, ServerOnConstruction(c, i)
        PROVE  \/ issued' = issued
               \/ issued' = [k \in Nodes |-> IF <<k, NoId>> \in toSrv[c][i].new
                                             THEN issued[k] + 1 ELSE issued[k]]
    BY <2>1 DEF ServerOnConstruction
  <2>2. ASSUME NEW S, issued' = [k \in Nodes |-> IF <<k, NoId>> \in S
                                                 THEN issued[k] + 1 ELSE issued[k]]
        PROVE  issued[n] \in Nat /\ issued'[n] \in Nat /\ issued[n] <= issued'[n]
    <3>1. issued[n] \in Nat  BY <1>0
    <3>2. issued'[n] = issued[n] \/ issued'[n] = issued[n] + 1  BY <2>2
    <3> QED  BY <3>1, <3>2
  <2>3. issued' = issued \/ \E c \in Clients : \E i : ServerOnConstruction(c, i)
    BY <1>2 DEF ServerReceive, ServerUpdate, ServerOnIncoming, ServerOnScope, ServerOnClosed
  <2> QED  BY <1>1, <2>1, <2>2, <2>3
<1>3. CASE ServerQuit \/ ServerCrash \/ UNCHANGED vars
  BY <1>1, <1>3 DEF ServerQuit, ServerCrash, vars
<1>4. ASSUME NEW c \in Clients, ClientReceive(c)  PROVE issued' = issued
  BY <1>4, ReceiveElsewhere DEF serverVars
<1>5. ASSUME NEW c \in Clients,
             \/ StartClient(c) \/ RemoveAllNodes(c) \/ Stop(c)
             \/ Establish(c) \/ ConnectFails(c) \/ Break(c)
      PROVE  issued' = issued
  BY <1>5 DEF StartClient, RemoveAllNodes, Stop, Establish, ConnectFails, Break, serverVars
<1>6. ASSUME NEW k \in Nodes, AddNode(k) \/ RemoveNode(k)  PROVE issued' = issued
  BY <1>6 DEF AddNode, RemoveNode, serverVars
<1> QED  BY <1>1, <1>2, <1>3, <1>4, <1>5, <1>6 DEF Next

\* An id that has been given stays given.
LEMMA GivenStays ==
    ASSUME IInv, ConnInv, [Next]_vars, NEW c \in Clients
    PROVE  Given(c) \subseteq Given(c)'
<1> SUFFICES ASSUME NEW m \in Given(c)  PROVE m \in Given(c)'
  OBVIOUS
<1>1. m \in ToClient(c)  BY DEF Given
<1>2. ASSUME m.kind = "assigned", NEW id \in m.ids  PROVE id.k <= issued'[id.node]
  <2>1. id \in Ids /\ id.node \in Nodes /\ id.k \in Nat
    BY <1>1, <1>2 DEF ToClient, Accepted, Scope, Lost, Bye, Ids
  <2>2. id.k <= issued[id.node]  BY <1>2 DEF Given
  <2>3. issued[id.node] \in Nat /\ issued'[id.node] \in Nat
        /\ issued[id.node] <= issued'[id.node]
    BY <2>1, IssuedGrows
  <2> QED  BY <2>1, <2>2, <2>3
<1>3. m \in ToClient(c)'  BY <1>1 DEF ToClient, Foreign, OwnerOf
<1> QED  BY <1>2, <1>3 DEF Given

\* Part of an answer gives no more than the whole, and no other packet gives an id.
LEMMA GivenPart ==
    ASSUME NEW c \in Clients
    PROVE  /\ Given(c) \subseteq ToClient(c)
           /\ \A m \in Given(c) : m.kind = "assigned" =>
                 \A ids \in SUBSET m.ids : Assigned(ids) \in Given(c)
           /\ {Accepted, Scope, Lost, Bye} \subseteq Given(c)
           /\ Silent(c) \subseteq Given(c)
<1>1. Given(c) \subseteq ToClient(c)  BY DEF Given
<1>2. ASSUME NEW m \in Given(c), m.kind = "assigned", NEW ids \in SUBSET m.ids
      PROVE  Assigned(ids) \in Given(c)
  <2>1. m.ids \subseteq Ids
    BY <1>1, <1>2 DEF ToClient, Accepted, Scope, Lost, Bye
  <2>2. Assigned(ids) \in ToClient(c) /\ Assigned(ids).ids = ids
    BY <2>1 DEF ToClient, Assigned
  <2> QED  BY <1>2, <2>2 DEF Given
<1>3. {Accepted, Scope, Lost, Bye} \subseteq Given(c)
  BY DEF Given, ToClient, Accepted, Scope, Lost, Bye
<1>4. Silent(c) \subseteq Given(c)  BY DEF Silent, Given
<1> QED  BY <1>1, <1>2, <1>3, <1>4

\* What the server sends is silent, the answer to a construction aside.
LEMMA ServerAnswers ==
    ASSUME Sane, ServerReceive, NEW c \in Clients
    PROVE  \E p \in Seq(Silent(c)) :
              \/ toCli'[c] = Send(c, toCli[c], p)
              \/ \E i : /\ ServerOnConstruction(c, i) /\ srvConn[c] # "none"
                        /\ toSrv[c][i] \in Meant(c) /\ toSrv[c][i].kind = "construction"
                        /\ toCli'[c] = Send(c, toCli[c], p \o Assign(Answered(toSrv[c][i])))
<1>0. IInv /\ ServerInv  BY DEF Sane, IInv
<1>1. ASSUME NEW x \in Seq(Silent(c)), toCli'[c] = Send(c, toCli[c], SPacket(c) \o x)
      PROVE  \E p \in Seq(Silent(c)) : toCli'[c] = Send(c, toCli[c], p)
  <2>1. SPacket(c) \o x \in Seq(Silent(c))  BY <1>0, SilentSent, ConcatProperties
  <2> QED  BY <1>1, <2>1
<1>2. CASE ServerUpdate
  <2>1. toCli'[c] = Send(c, toCli[c], SPacket(c) \o << >>)
    BY <1>2 DEF ServerUpdate, Deliver, Nothing
  <2> QED  BY <1>1, <2>1, SilentSent
<1>3. ASSUME NEW d \in Clients, NEW i, ServerOnIncoming(d, i) \/ ServerOnScope(d, i)
      PROVE  \E p \in Seq(Silent(c)) : toCli'[c] = Send(c, toCli[c], p)
  <2>1. \/ toCli'[c] = Send(c, toCli[c], SPacket(c) \o << >>)
        \/ toCli'[c] = Send(c, toCli[c], SPacket(c) \o <<Scope>>)
    BY <1>3 DEF ServerOnIncoming, ServerOnScope, Deliver, Nothing
  <2> QED  BY <1>1, <2>1, SilentSent
<1>4. ASSUME NEW d \in Clients, NEW i, ServerOnClosed(d, i)
      PROVE  \E p \in Seq(Silent(c)) : toCli'[c] = Send(c, toCli[c], p)
  <2> DEFINE dropped == IF srvConn[d] = "none" THEN {} ELSE CreatedBy(d)
             del == dropped \cap SHasNow(c)
             p == (IF c = d THEN << >> ELSE Destruct(del)) \o Destruct(del)
  <2>1. toCli'[c] = Send(c, toCli[c], SPacket(c) \o p)
    BY <1>4 DEF ServerOnClosed, Deliver
  <2>2. del \in SUBSET Ids  BY <1>0 DEF CreatedBy, ServerInv
  <2>3. p \in Seq(Silent(c))
    <3> HIDE DEF del
    <3> QED  BY <2>2, SilentSent, ConcatProperties
  <2> HIDE DEF p
  <2> QED  BY <1>1, <2>1, <2>3
<1>5. ASSUME NEW d \in Clients, NEW i, ServerOnConstruction(d, i)
      PROVE  \E p \in Seq(Silent(c)) :
                \/ toCli'[c] = Send(c, toCli[c], p)
                \/ /\ d = c /\ srvConn[c] # "none"
                   /\ toSrv[c][i] \in Meant(c) /\ toSrv[c][i].kind = "construction"
                   /\ toCli'[c] = Send(c, toCli[c], p \o Assign(Answered(toSrv[c][i])))
  <2>1. CASE srvConn[d] = "none"
    <3>1. toCli'[c] = Send(c, toCli[c], SPacket(c) \o << >>)
      BY <1>5, <2>1 DEF ServerOnConstruction, Deliver, Nothing
    <3> QED  BY <1>1, <3>1, SilentSent
  <2>2. CASE srvConn[d] # "none"
    <3> DEFINE m == toSrv[d][i]
    <3>1. toCli'[c] = Send(c, toCli[c], SPacket(c) \o SentThen(d, m, c))
      BY <1>5, <2>2, ConstructionIs
    <3>2. m \in Meant(d) /\ m \in FromClient(d) /\ m.kind = "construction"
      <4>1. Reaching(d, i, "construction")  BY <1>5 DEF ServerOnConstruction
      <4> QED  BY <4>1, Handles
    <3>3. CASE d = c
      <4>1. SentThen(d, m, c) = Assign(Answered(toSrv[c][i]))  BY <3>3 DEF SentThen
      <4>2. SPacket(c) \in Seq(Silent(c))  BY <1>0, SilentSent
      <4> QED  BY <2>2, <3>1, <3>2, <3>3, <4>1, <4>2
    <3> HIDE DEF m
    <3>4. CASE d # c
      <4>1. Doomed(m) \subseteq Ids  BY <1>0, <3>2, ConstructionHolds
      <4>2. SentThen(d, m, c) \in Seq(Silent(c))  BY <3>4, <4>1, SilentSent DEF SentThen
      <4> QED  BY <1>1, <3>1, <4>2
    <3> QED  BY <3>3, <3>4
  <2> QED  BY <2>1, <2>2
<1>6. ASSUME NEW d \in Clients, NEW i, ServerOnConstruction(d, i)
      PROVE  \E p \in Seq(Silent(c)) :
                \/ toCli'[c] = Send(c, toCli[c], p)
                \/ \E j : /\ ServerOnConstruction(c, j) /\ srvConn[c] # "none"
                          /\ toSrv[c][j] \in Meant(c) /\ toSrv[c][j].kind = "construction"
                          /\ toCli'[c] = Send(c, toCli[c], p \o Assign(Answered(toSrv[c][j])))
  BY <1>5, <1>6
<1> QED  BY <1>2, <1>3, <1>4, <1>6 DEF ServerReceive

\* Every id on its way to a client has been given.
LEMMA IssuedPackets ==
    ASSUME Sane, IssuedInv, [Next]_vars, NEW c \in Clients
    PROVE  toCli'[c] \in Seq(Given(c)')
<1>0. IInv /\ ConnInv /\ DOMAIN toCli = Clients  BY DEF Sane, IInv, ToCliInv
<1> DEFINE S == Given(c)'
<1>1. Given(c) \subseteq S  BY <1>0, GivenStays
<1>2. toCli[c] \in Seq(Given(c))  BY DEF IssuedInv
<1>3. toCli[c] \in Seq(S)  BY <1>1, <1>2, SeqMonotonic
<1>4. {Accepted, Scope, Lost, Bye} \subseteq S /\ Silent(c) \subseteq S
  BY <1>1, GivenPart
<1>5. \A ids \in SUBSET Ids : (\A id \in ids : id.k <= issued'[id.node])
                                 => Assigned(ids) \in S
  BY DEF Given, ToClient, Assigned, Foreign, OwnerOf
<1> SUFFICES toCli'[c] \in Seq(S)
  OBVIOUS
<1> HIDE DEF S
<1>6. CASE toCli'[c] = toCli[c]  BY <1>3, <1>6
<1>7. ASSUME NEW i \in Cuts(toCli[c])  PROVE CutOff(toCli[c], i) \in Seq(S)
  <2>1. Lost \in S  BY <1>4
  <2> QED  BY <1>3, <2>1, CutOffKeeps
<1>8. ASSUME NEW n \in Nodes, AddNode(n) \/ RemoveNode(n)
      PROVE  toCli'[c] \in Seq(S)
  BY <1>6, <1>8 DEF AddNode, RemoveNode
<1>9. ASSUME NEW d \in Clients, StartClient(d) \/ RemoveAllNodes(d) \/ Stop(d)
      PROVE  toCli'[c] \in Seq(S)
  <2>1. toCli'[c] = toCli[c] \/ toCli'[c] = << >>
    BY <1>0, <1>9 DEF StartClient, RemoveAllNodes, Stop
  <2> QED  BY <1>6, <2>1, EmptySeq
<1>10. ASSUME NEW d \in Clients, ClientReceive(d)
       PROVE  toCli'[c] \in Seq(S)
  <2>1. CASE d = c
    <3>1. toCli'[c] \in Seq(Given(c))
      BY <1>0, <1>2, <1>10, <2>1, GivenPart, ReceiveShrinks
    <3> QED  BY <1>1, <3>1, SeqMonotonic
  <2>2. CASE d # c
    <3>1. toCli'[c] = toCli[c]  BY <1>0, <1>10, <2>2, ReceiveElsewhere
    <3> QED  BY <1>6, <3>1
  <2> QED  BY <2>1, <2>2
<1>11. ASSUME NEW d \in Clients, Establish(d) \/ ConnectFails(d) \/ Break(d)
       PROVE  toCli'[c] \in Seq(S)
  <2>1. CASE Establish(d)
    <3>1. toCli'[c] = toCli[c] \/ toCli'[c] = <<Accepted>>
      BY <1>0, <2>1 DEF Establish
    <3>2. <<Accepted>> \in Seq(S)  BY <1>4
    <3> QED  BY <1>6, <3>1, <3>2
  <2>2. CASE ConnectFails(d)  BY <1>6, <2>2 DEF ConnectFails
  <2>3. CASE Break(d)
    <3>1. \/ toCli'[c] = toCli[c]
          \/ \E i \in Cuts(toCli[c]) : toCli'[c] = CutOff(toCli[c], i)
      BY <1>0, <2>3 DEF Break
    <3> QED  BY <1>6, <1>7, <3>1
  <2> QED  BY <1>11, <2>1, <2>2, <2>3
<1>12. CASE ServerReceive
  <2>1. PICK p \in Seq(Silent(c)) :
              \/ toCli'[c] = Send(c, toCli[c], p)
              \/ \E i : /\ ServerOnConstruction(c, i) /\ srvConn[c] # "none"
                        /\ toSrv[c][i] \in Meant(c) /\ toSrv[c][i].kind = "construction"
                        /\ toCli'[c] = Send(c, toCli[c], p \o Assign(Answered(toSrv[c][i])))
    BY <1>12, ServerAnswers
  <2>2. p \in Seq(S)  BY <1>4, SeqMonotonic
  <2>3. CASE toCli'[c] = Send(c, toCli[c], p)  BY <1>3, <2>2, <2>3, SendKeeps
  <2>4. ASSUME NEW i, ServerOnConstruction(c, i), srvConn[c] # "none",
               NEW m, m = toSrv[c][i], m \in Meant(c), m.kind = "construction",
               toCli'[c] = Send(c, toCli[c], p \o Assign(Answered(m)))
        PROVE  toCli'[c] \in Seq(S)
    <3>1. m \in FromClient(c)  BY <2>4 DEF Meant
    <3>2. Answered(m) \in SUBSET Ids /\ m.new \subseteq PairsOf(c)
      BY <1>0, <2>4, <3>1, ConstructionHolds
    <3>3. issued' = [n \in Nodes |-> IF <<n, NoId>> \in m.new
                                     THEN issued[n] + 1 ELSE issued[n]]
      BY <2>4, ConstructionIs
    <3>4. ASSUME NEW id \in Answered(m)  PROVE id.k <= issued'[id.node]
      <4>1. PICK e \in m.new : e[2] = NoId /\ id = IdFor(e)  BY DEF Answered
      <4>2. e = <<e[1], NoId>> /\ e[1] \in Nodes  BY <3>2, <4>1 DEF PairsOf, NodesOf
      <4>3. id.node = e[1] /\ id.k = issued[e[1]] + 1  BY <4>1 DEF IdFor
      <4>4. issued'[e[1]] = issued[e[1]] + 1  BY <3>3, <4>1, <4>2
      <4>5. issued[e[1]] \in Nat  BY <1>0, <4>2 DEF IInv, ServerInv
      <4> QED  BY <4>3, <4>4, <4>5
    <3>5. Assigned(Answered(m)) \in S  BY <1>5, <3>2, <3>4
    <3>6. Assign(Answered(m)) \in Seq(S)  BY <3>5, EmptySeq DEF Assign
    <3>7. p \o Assign(Answered(m)) \in Seq(S)  BY <2>2, <3>6, ConcatProperties
    <3> QED  BY <1>3, <2>4, <3>7, SendKeeps
  <2> QED  BY <2>1, <2>3, <2>4
<1>13. CASE ServerQuit
  <2> DEFINE p == Destruct(srvHas[c]) \o Destruct(srvHas[c])
  <2>1. toCli'[c] = Send(c, toCli[c], p \o <<Bye>>)
    <3>1. toCli'[c] = Send(c, toCli[c], Destruct(srvHas[c]) \o Destruct(srvHas[c]) \o <<Bye>>)
      BY <1>13 DEF ServerQuit
    <3> QED  BY <3>1
  <2>2. p \in Seq(Silent(c))
    <3>1. srvHas[c] \in SUBSET Ids  BY <1>0 DEF IInv, ServerInv
    <3> QED  BY <3>1, SilentSent, ConcatProperties
  <2> HIDE DEF p
  <2>3. p \in Seq(S) /\ <<Bye>> \in Seq(S)  BY <1>4, <2>2, SeqMonotonic
  <2>4. p \o <<Bye>> \in Seq(S)  BY <2>3, ConcatProperties
  <2> QED  BY <1>3, <2>1, <2>4, SendKeeps
<1>14. CASE ServerCrash
  <2>1. \/ toCli'[c] = toCli[c]
        \/ \E i \in Cuts(toCli[c]) : toCli'[c] = CutOff(toCli[c], i)
    BY <1>14 DEF ServerCrash
  <2> QED  BY <1>6, <1>7, <2>1
<1>15. CASE UNCHANGED vars  BY <1>6, <1>15 DEF vars
<1> QED  BY <1>8, <1>9, <1>10, <1>11, <1>12, <1>13, <1>14, <1>15 DEF Next

\* A client learns the id of a node it holds, and only from an answer.
LEMMA LearnsId ==
    ASSUME Sane, [Next]_vars, NEW n \in Nodes, nid'[n] # nid[n]
    PROVE  /\ own[n] = "live" /\ toCli[Owner[n]] # << >>
           /\ Head(toCli[Owner[n]]).kind = "assigned"
           /\ nid'[n] \in Head(toCli[Owner[n]]).ids /\ nid'[n].node = n
<1>0. IInv /\ ConnInv /\ DOMAIN nid = Nodes  BY DEF Sane, IInv, ClientInv
<1>1. ASSUME nid' = nid  PROVE FALSE
  BY <1>1
<1>2. ASSUME NEW k \in Nodes, AddNode(k) \/ RemoveNode(k)  PROVE FALSE
  BY <1>1, <1>2 DEF AddNode, RemoveNode
<1>3. ASSUME NEW c \in Clients,
             \/ StartClient(c) \/ RemoveAllNodes(c) \/ Stop(c)
             \/ Establish(c) \/ ConnectFails(c) \/ Break(c)
      PROVE  FALSE
  BY <1>1, <1>3
     DEF StartClient, RemoveAllNodes, Stop, Establish, ConnectFails, Break, clientVars
<1>4. CASE ServerReceive \/ ServerQuit \/ ServerCrash \/ UNCHANGED vars
  <2>1. ServerReceive => UNCHANGED clientVars  BY <1>0, ServerSends
  <2> QED  BY <1>1, <1>4, <2>1 DEF ServerQuit, ServerCrash, vars, clientVars
<1>5. ASSUME NEW c \in Clients, ClientReceive(c)
      PROVE  /\ own[n] = "live" /\ toCli[Owner[n]] # << >>
             /\ Head(toCli[Owner[n]]).kind = "assigned"
             /\ nid'[n] \in Head(toCli[Owner[n]]).ids /\ nid'[n].node = n
  <2>1. Owner[n] = c  BY <1>0, <1>5, ReceiveElsewhere
  <2>2. PICK x \in Head(toCli[c]).ids :
           /\ toCli[c] # << >> /\ Head(toCli[c]).kind = "assigned"
           /\ own[x.node] = "live" /\ nid' = [nid EXCEPT ![x.node] = x]
    BY <1>0, <1>5, ReceiveTakes
  <2>3. x.node = n /\ nid'[n] = x  BY <1>0, <2>2
  <2> QED  BY <2>1, <2>2, <2>3
<1> QED  BY <1>2, <1>3, <1>4, <1>5 DEF Next

\* IssuedInv over every step.
LEMMA NextIssued == Sane /\ IssuedInv /\ [Next]_vars => IssuedInv'
<1> SUFFICES ASSUME Sane, IssuedInv, [Next]_vars  PROVE IssuedInv'
  OBVIOUS
<1>0. IInv /\ ConnInv  BY DEF Sane
<1>1. ASSUME NEW n \in Nodes, nid'[n] # NoId  PROVE nid'[n].k <= issued'[n]
  <2>1. /\ issued[n] \in Nat /\ issued'[n] \in Nat /\ issued[n] <= issued'[n]
    BY <1>0, IssuedGrows
  <2>2. ASSUME NEW id \in Ids, id.k <= issued[n]  PROVE id.k <= issued'[n]
    BY <2>1, <2>2 DEF Ids
  <2>3. CASE nid'[n] = nid[n]
    <3>1. nid[n] \in Ids /\ nid[n].k <= issued[n]
      BY <1>0, <1>1, <2>3 DEF IInv, ClientInv, IssuedInv
    <3> QED  BY <2>2, <2>3, <3>1
  <2>4. CASE nid'[n] # nid[n]
    <3> DEFINE m == Head(toCli[Owner[n]])
    <3>1. /\ toCli[Owner[n]] # << >> /\ m.kind = "assigned"
          /\ nid'[n] \in m.ids /\ nid'[n].node = n
      BY <2>4, LearnsId
    <3>2. m \in Given(Owner[n]) /\ m \in ToClient(Owner[n])
      <4>1. toCli[Owner[n]] \in Seq(Given(Owner[n]))
        BY OwnerAssumption DEF IssuedInv
      <4> QED  BY <3>1, <4>1, TailAt DEF Given
    <3> HIDE DEF m
    <3>3. nid'[n] \in Ids /\ nid'[n].k <= issued[n]
      BY <3>1, <3>2 DEF Given, ToClient, Accepted, Scope, Lost, Bye
    <3> QED  BY <2>2, <3>3
  <2> QED  BY <2>3, <2>4
<1>2. \A c \in Clients : toCli'[c] \in Seq(Given(c)')  BY IssuedPackets
<1> QED  BY <1>1, <1>2 DEF IssuedInv

\* A packet constructs a node under an id; one from the j-th on destroys an id.
Makes(m, n, id) == m.kind = "construction" /\ <<n, id>> \in m.new
Destroys(q, j, id) == \E k \in j..Len(q) : q[k].kind = "construction" /\ id \in q[k].del

\* Of a node that is gone, what the server has, or is yet to construct, under the
\* id the owner knows is to be destroyed by a packet behind it.
GhostAt(c, n) ==
    own[n] = "gone" /\ nid[n] # NoId =>
        /\ nid[n] \in srv => Destroys(toSrv[c], 1, nid[n])
        /\ \A j \in 1..Len(toSrv[c]) :
              Makes(toSrv[c][j], n, nid[n]) => Destroys(toSrv[c], j, nid[n])
GhostOf(c) == \A n \in NodesOf(c) : GhostAt(c, n)
GhostInv == \A c \in Clients : Taken(c) => GhostOf(c)

\* A destruction in a queue stays behind what it was behind when more is sent,
LEMMA DestroysSent ==
    ASSUME NEW S, NEW q \in Seq(S), NEW p \in Seq(S), NEW j \in Nat \ {0}, NEW id
    PROVE  /\ Destroys(q, j, id) => Destroys(q \o p, j, id)
           /\ j <= Len(q) + 1 /\ Destroys(p, 1, id) => Destroys(q \o p, j, id)
<1> DEFINE r == q \o p
<1>1. /\ Len(q) \in Nat /\ Len(p) \in Nat /\ Len(r) = Len(q) + Len(p)
      /\ \A i \in 1..(Len(q) + Len(p)) :
            r[i] = IF i <= Len(q) THEN q[i] ELSE p[i - Len(q)]
  BY ConcatProperties, LenProperties
<1> HIDE DEF r
<1>2. ASSUME Destroys(q, j, id)  PROVE Destroys(r, j, id)
  <2>1. PICK k \in j..Len(q) : q[k].kind = "construction" /\ id \in q[k].del
    BY <1>2 DEF Destroys
  <2>2. k \in j..Len(r) /\ r[k] = q[k]  BY <1>1, <2>1
  <2> QED  BY <2>1, <2>2 DEF Destroys
<1>3. ASSUME j <= Len(q) + 1, Destroys(p, 1, id)  PROVE Destroys(r, j, id)
  <2>1. PICK k \in 1..Len(p) : p[k].kind = "construction" /\ id \in p[k].del
    BY <1>3 DEF Destroys
  <2>2. Len(q) + k \in j..Len(r) /\ r[Len(q) + k] = p[k]  BY <1>1, <1>3, <2>1
  <2> QED  BY <2>1, <2>2 DEF Destroys
<1> QED  BY <1>2, <1>3 DEF r

\* and when the first packet is taken, unless that was the destruction.
LEMMA DestroysRest ==
    ASSUME NEW S, NEW q \in Seq(S), Len(q) # 0, NEW id, NEW j \in 1..Len(q),
           Destroys(q, j, id),
           j = 1 => ~(q[1].kind = "construction" /\ id \in q[1].del)
    PROVE  Destroys(Without(q, 1), IF j = 1 THEN 1 ELSE j - 1, id)
<1> DEFINE r == Without(q, 1)
<1>1. /\ Len(q) \in Nat /\ Len(r) = Len(q) - 1
      /\ \A i \in 1..Len(r) : r[i] = q[i + 1]
  <2>1. Len(q) \in Nat /\ 1 \in 1..Len(q)  BY LenProperties
  <2>2. Len(r) = Len(q) - 1 /\ \A i \in 1..Len(r) : r[i] = IF i < 1 THEN q[i] ELSE q[i + 1]
    BY <2>1, WithoutAt
  <2> HIDE DEF r
  <2>3. \A i \in 1..Len(r) : ~(i < 1)  OBVIOUS
  <2> QED  BY <2>1, <2>2, <2>3
<1> HIDE DEF r
<1>2. PICK k \in j..Len(q) : q[k].kind = "construction" /\ id \in q[k].del  BY DEF Destroys
<1>3. k # 1  BY <1>2
<1>4. k - 1 \in (IF j = 1 THEN 1 ELSE j - 1)..Len(r) /\ r[k - 1] = q[k]  BY <1>1, <1>2, <1>3
<1> QED  BY <1>2, <1>4 DEF Destroys, r

\* More is sent, but no node that is gone is constructed.
LEMMA GhostKept ==
    ASSUME IInv, NEW c \in Clients, NEW n \in NodesOf(c), GhostAt(c, n),
           own'[n] = "gone" /\ nid'[n] # NoId =>
              /\ own[n] = "gone" /\ nid'[n] = nid[n]
              /\ nid[n] \in srv' => nid[n] \in srv,
           NEW p \in Seq(FromClient(c)),
           own'[n] = "gone" => \A j \in 1..Len(p) : \A id : ~Makes(p[j], n, id),
           toSrv'[c] = toSrv[c] \o p
    PROVE  GhostAt(c, n)'
<1> SUFFICES ASSUME own'[n] = "gone", nid'[n] # NoId
             PROVE  /\ nid'[n] \in srv' => Destroys(toSrv'[c], 1, nid'[n])
                    /\ \A j \in 1..Len(toSrv'[c]) :
                          Makes(toSrv'[c][j], n, nid'[n]) => Destroys(toSrv'[c], j, nid'[n])
  BY DEF GhostAt
<1> DEFINE q == toSrv[c]
           r == q \o p
           id == nid[n]
<1>0. q \in Seq(FromClient(c)) /\ toSrv'[c] = r /\ nid'[n] = id
      /\ (nid'[n] \in srv' => id \in srv)
  BY DEF IInv, ToSrvInv
<1>1. /\ id \in srv => Destroys(q, 1, id)
      /\ \A j \in 1..Len(q) : Makes(q[j], n, id) => Destroys(q, j, id)
  BY DEF GhostAt
<1>2. /\ Len(q) \in Nat /\ Len(p) \in Nat /\ Len(r) = Len(q) + Len(p)
      /\ \A i \in 1..(Len(q) + Len(p)) :
            r[i] = IF i <= Len(q) THEN q[i] ELSE p[i - Len(q)]
  BY <1>0, ConcatProperties, LenProperties
<1> HIDE DEF q, id
<1>3. \A j \in Nat \ {0} : Destroys(q, j, id) => Destroys(r, j, id)
  BY <1>0, DestroysSent
<1> HIDE DEF r
<1>4. id \in srv => Destroys(r, 1, id)  BY <1>1, <1>3
<1>5. ASSUME NEW j \in 1..Len(r), Makes(r[j], n, id)  PROVE Destroys(r, j, id)
  <2>1. CASE j <= Len(q)
    <3>1. j \in 1..Len(q) /\ j \in Nat \ {0} /\ r[j] = q[j]  BY <1>2, <2>1
    <3> QED  BY <1>1, <1>3, <1>5, <3>1
  <2>2. CASE ~(j <= Len(q))
    <3>1. j - Len(q) \in 1..Len(p) /\ r[j] = p[j - Len(q)]  BY <1>2, <2>2
    <3> QED  BY <1>5, <3>1
  <2> QED  BY <2>1, <2>2
<1> QED  BY <1>0, <1>4, <1>5

\* A client removes nodes: the server is told of those it was asked to construct.
LEMMA DestroyOwnGhost ==
    ASSUME Known, PromptInv, ListedInv, NEW c \in Clients, Taken(c), GhostOf(c),
           NEW S \in SUBSET NodesOf(c), DestroyOwn(c, S),
           \A n \in S : own[n] \in {"live", "dangling"},
           UNCHANGED <<nid, serverVars>>
    PROVE  GhostOf(c)'
<1> DEFINE del == {nid[n] : n \in S \cap cHas[c]}
           p == Destruct(del)
<1>0. /\ IInv /\ up /\ wire[c] /\ srv' = srv /\ nid' = nid
      /\ toSrv'[c] = toSrv[c] \o p /\ toSrv[c] \in Seq(FromClient(c))
      /\ own' = [n \in Nodes |-> IF n \in S THEN "gone" ELSE own[n]]
  BY TakenRuns DEF Known, Sane, DestroyOwn, Send, serverVars, IInv, ToSrvInv
<1>1. p \in Seq(FromClient(c))
  <2>1. del \in SUBSET (Ids \cup {NoId})  BY <1>0 DEF IInv, ClientInv, NodesOf
  <2> HIDE DEF del
  <2> QED  BY <2>1, DestructFromClient
<1>2. \A j \in 1..Len(p) : \A n, id : ~Makes(p[j], n, id)
  <2> HIDE DEF del
  <2>1. CASE del = {}
    <3>1. p = << >>  BY <2>1 DEF Destruct
    <3> QED  BY <3>1
  <2>2. CASE del # {}
    <3>1. p = <<Construction({}, del)>>  BY <2>2 DEF Destruct
    <3>2. Len(p) = 1 /\ p[1] = Construction({}, del)  BY <3>1
    <3> HIDE DEF p
    <3> QED  BY <3>2 DEF Makes, Construction
  <2> QED  BY <2>1, <2>2
<1>3. \A id \in del : Destroys(p, 1, id)
  <2> HIDE DEF del
  <2> TAKE id \in del
  <2>1. p = <<Construction({}, del)>>  BY DEF Destruct
  <2>2. Len(p) = 1 /\ p[1] = Construction({}, del)  BY <2>1
  <2> HIDE DEF p
  <2> QED  BY <2>2 DEF Destroys, Construction
<1> SUFFICES ASSUME NEW n \in NodesOf(c)  PROVE GhostAt(c, n)'
  BY DEF GhostOf, NodesOf
<1>4. GhostAt(c, n) /\ n \in Nodes  BY DEF GhostOf, NodesOf
<1>5. CASE n \notin S
  <2>1. own'[n] = own[n]  BY <1>0, <1>4, <1>5
  <2> HIDE DEF p
  <2> QED  BY <1>0, <1>1, <1>2, <1>4, <2>1, GhostKept
<1>6. CASE n \in S \cap cHas[c]
  <2> DEFINE id == nid[n]
  <2>1. Destroys(p, 1, id)  BY <1>3, <1>6
  <2> HIDE DEF p, id
  <2> DEFINE q == toSrv[c]
             r == q \o p
             s == FromClient(c)
  <2>2. q \in Seq(s) /\ p \in Seq(s) /\ toSrv'[c] = r  BY <1>0, <1>1
  <2> HIDE DEF q, s
  <2>3. \A j \in Nat \ {0} : j <= Len(q) + 1 => Destroys(r, j, id)
    BY <2>1, <2>2, DestroysSent
  <2>4. Len(q) \in Nat /\ Len(r) = Len(q) + Len(p) /\ Len(p) \in Nat
    BY <2>2, ConcatProperties, LenProperties
  <2>5. Len(p) <= 1
    <3>1. Len(<< >>) <= 1 /\ \A x : Len(<<Construction({}, x)>>) <= 1  OBVIOUS
    <3> HIDE DEF del
    <3> QED  BY <3>1 DEF p, Destruct
  <2> HIDE DEF r
  <2>6. \A j \in 1..Len(r) : j \in Nat \ {0} /\ j <= Len(q) + 1  BY <2>4, <2>5
  <2>7. Destroys(r, 1, id)
    <3>1. 1 \in Nat \ {0} /\ 1 <= Len(q) + 1  BY <2>4
    <3> QED  BY <2>3, <3>1
  <2>8. \A j \in 1..Len(r) : Destroys(r, j, id)  BY <2>3, <2>6
  <2> QED  BY <1>0, <2>2, <2>7, <2>8 DEF GhostAt, id
<1>7. CASE n \in S \ cHas[c]
  <2>1. n \in LiveOf(c)
    <3>1. own[n] # "dangling"  BY <1>0 DEF PromptInv, Spared
    <3> QED  BY <1>7, <3>1 DEF LiveOf
  <2>2. n \in cQuery[c] \/ cConn[c] = "none"  BY <1>7, <2>1 DEF ListedInv
  <2>3. ~Asked(toSrv[c], n) /\ \A id \in srv : id.node # n
    <3>1. Joined(c)  BY <1>0, ConnectedIsJoined DEF Taken
    <3> QED  BY <2>2, <3>1, NotTwice
  <2>4. nid[n] # NoId => nid[n].node = n  BY <1>0, <1>4 DEF IInv, ClientInv
  <2>5. \A j \in 1..Len(toSrv[c]) : \A id : ~Makes(toSrv[c][j], n, id)
    BY <2>3 DEF Asked, Says, Makes
  <2> DEFINE q == toSrv[c]
             r == q \o p
             s == FromClient(c)
  <2>6. q \in Seq(s) /\ p \in Seq(s)  BY <1>0, <1>1
  <2> HIDE DEF p, s
  <2>7. /\ Len(q) \in Nat /\ Len(p) \in Nat /\ Len(r) = Len(q) + Len(p)
        /\ \A i \in 1..(Len(q) + Len(p)) :
              r[i] = IF i <= Len(q) THEN q[i] ELSE p[i - Len(q)]
    BY <2>6, ConcatProperties, LenProperties
  <2>8. \A j \in 1..Len(r) : \A id : ~Makes(r[j], n, id)
    <3> TAKE j \in 1..Len(r)
    <3> HIDE DEF q, r
    <3>1. CASE j <= Len(q)
      <4>1. j \in 1..Len(q) /\ r[j] = q[j]  BY <2>7, <3>1
      <4> QED  BY <2>5, <4>1 DEF q
    <3>2. CASE ~(j <= Len(q))
      <4>1. j - Len(q) \in 1..Len(p) /\ r[j] = p[j - Len(q)]  BY <2>7, <3>2
      <4> QED  BY <1>2, <4>1
    <3> QED  BY <3>1, <3>2
  <2> QED  BY <1>0, <2>3, <2>4, <2>8 DEF GhostAt
<1> QED  BY <1>5, <1>6, <1>7

\* The server handles the first packet of the client.
LEMMA GhostTake ==
    ASSUME IInv, NEW c \in Clients, NEW n \in NodesOf(c), GhostAt(c, n), UNCHANGED clientVars,
           1 \in 1..Len(toSrv[c]), toSrv'[c] = Without(toSrv[c], 1),
           nid[n] # NoId /\ nid[n] \in srv' =>
              /\ nid[n] \in srv \/ Makes(toSrv[c][1], n, nid[n])
              /\ ~(toSrv[c][1].kind = "construction" /\ nid[n] \in toSrv[c][1].del)
    PROVE  GhostAt(c, n)'
<1>0. own' = own /\ nid' = nid  BY DEF clientVars
<1> SUFFICES ASSUME own[n] = "gone", nid[n] # NoId
             PROVE  /\ nid[n] \in srv' => Destroys(toSrv'[c], 1, nid[n])
                    /\ \A j \in 1..Len(toSrv'[c]) :
                          Makes(toSrv'[c][j], n, nid[n]) => Destroys(toSrv'[c], j, nid[n])
  BY <1>0 DEF GhostAt
<1> DEFINE q == toSrv[c]
           r == Without(q, 1)
           id == nid[n]
<1>1. q \in Seq(FromClient(c)) /\ toSrv'[c] = r /\ 1 \in 1..Len(q)  BY DEF IInv, ToSrvInv
<1>2. /\ id \in srv => Destroys(q, 1, id)
      /\ \A j \in 1..Len(q) : Makes(q[j], n, id) => Destroys(q, j, id)
  BY DEF GhostAt
<1>3. id \in srv' => /\ id \in srv \/ Makes(q[1], n, id)
                     /\ ~(q[1].kind = "construction" /\ id \in q[1].del)
  OBVIOUS
<1> HIDE DEF q, id
<1>4. Len(q) \in Nat /\ Len(q) # 0  BY <1>1, LenProperties
<1>5. ASSUME id \in srv'  PROVE Destroys(r, 1, id)
  <2>1. Destroys(q, 1, id)  BY <1>1, <1>2, <1>3, <1>5
  <2>2. ~(q[1].kind = "construction" /\ id \in q[1].del)  BY <1>3, <1>5
  <2> DEFINE s == FromClient(c)
  <2>3. q \in Seq(s)  BY <1>1
  <2> HIDE DEF s
  <2>4. Destroys(Without(q, 1), IF 1 = 1 THEN 1 ELSE 1 - 1, id)
    BY <1>1, <1>4, <2>1, <2>2, <2>3, DestroysRest
  <2> QED  BY <2>4
<1>6. ASSUME NEW j \in 1..Len(r), Makes(r[j], n, id)  PROVE Destroys(r, j, id)
  <2>1. /\ Len(r) = Len(q) - 1
        /\ \A i \in 1..Len(r) : r[i] = IF i < 1 THEN q[i] ELSE q[i + 1]
    BY <1>1, WithoutAt
  <2> HIDE DEF r
  <2>2. j + 1 \in 1..Len(q) /\ r[j] = q[j + 1] /\ j + 1 # 1 /\ (j + 1) - 1 = j
    BY <1>4, <2>1
  <2>3. Destroys(q, j + 1, id)  BY <1>2, <1>6, <2>2
  <2> DEFINE s == FromClient(c)
             l == j + 1
  <2>4. q \in Seq(s)  BY <1>1
  <2>5. l \in 1..Len(q) /\ l # 1 /\ l - 1 = j /\ Destroys(q, l, id)  BY <2>2, <2>3
  <2> HIDE DEF s, l
  <2>6. Destroys(Without(q, 1), IF l = 1 THEN 1 ELSE l - 1, id)
    BY <1>4, <2>4, <2>5, DestroysRest
  <2> QED  BY <2>5, <2>6 DEF r
<1> QED  BY <1>1, <1>5, <1>6 DEF q, id

\* A construction the server handles: what it creates under the id the owner has
\* is what the packet brings under it, since an id it chooses is a new one.
LEMMA ConstructionGhost ==
    ASSUME Sane, IssuedInv, Ordered, NEW c \in Clients, NEW i, ServerOnConstruction(c, i),
           srvConn[c] # "none", GhostOf(c)
    PROVE  GhostOf(c)'
<1>0. /\ IInv /\ ServerInv /\ UNCHANGED clientVars
  BY DEF Sane, IInv, ServerOnConstruction
<1>1. /\ 1 \in 1..Len(toSrv[c]) /\ i = 1 /\ toSrv[c][1] \in FromClient(c)
      /\ toSrv[c][1].kind = "construction" /\ toSrv'[c] = Without(toSrv[c], 1)
  <2>1. Reaching(c, i, "construction") /\ Take(c, i)  BY DEF ServerOnConstruction
  <2>2. i = 1  BY <2>1 DEF Reaching, CanTake
  <2> QED  BY <1>0, <2>1, <2>2, Handles DEF Take, IInv, ToSrvInv
<1> DEFINE m == toSrv[c][1]
<1>2. srv' = (srv \cup Created(m)) \ Doomed(m)
  BY <1>1, ConstructionIs
<1>3. m \in FromClient(c) /\ m.kind = "construction"  BY <1>1
<1> SUFFICES ASSUME NEW n \in NodesOf(c)  PROVE GhostAt(c, n)'
  BY DEF GhostOf, NodesOf
<1>4. GhostAt(c, n) /\ n \in Nodes  BY DEF GhostOf, NodesOf
<1>5. ASSUME nid[n] # NoId, nid[n] \in srv'
      PROVE  (nid[n] \in srv \/ Makes(m, n, nid[n])) /\ nid[n] \notin m.del
  <2> HIDE DEF m
  <2>1. nid[n] \notin m.del  BY <1>2, <1>5 DEF Doomed
  <2>2. ASSUME nid[n] \notin srv  PROVE Makes(m, n, nid[n])
    <3>1. PICK e \in m.new : e[2] \notin srv /\ nid[n] = IdFor(e)
      BY <1>2, <1>5, <2>2 DEF Created
    <3>2. e \in PairsOf(c) /\ e = <<e[1], e[2]>> /\ e[1] \in Nodes
      <4>1. e \in PairsOf(c)  BY <1>0, <1>3, <3>1, ConstructionHolds
      <4> QED  BY <4>1 DEF PairsOf, NodesOf
    <3>3. nid[n].node = n /\ nid[n] \in Ids  BY <1>0, <1>4, <1>5 DEF IInv, ClientInv
    <3>4. e[2] # NoId
      <4> SUFFICES ASSUME e[2] = NoId  PROVE FALSE
        OBVIOUS
      <4>1. nid[n].node = e[1] /\ nid[n].k = issued[e[1]] + 1  BY <3>1 DEF IdFor
      <4>2. nid[n].k <= issued[n]  BY <1>4, <1>5 DEF IssuedInv
      <4>3. issued[n] \in Nat  BY <1>0, <1>4 DEF ServerInv
      <4>4. e[1] = n  BY <3>3, <4>1
      <4> QED  BY <4>1, <4>2, <4>3, <4>4
    <3>5. e[2] = nid[n]  BY <3>1, <3>4 DEF IdFor
    <3>6. e[1] = n
      <4>1. e[2].node = e[1]  BY <3>2, <3>4 DEF PairsOf
      <4> QED  BY <3>3, <3>5, <4>1
    <3> QED  BY <1>3, <3>1, <3>2, <3>5, <3>6 DEF Makes
  <2> QED  BY <2>1, <2>2
<1> QED  BY <1>0, <1>1, <1>4, <1>5, GhostTake

\* Handling a packet, the server leaves no ghost without its destruction.
LEMMA ServerGhost ==
    ASSUME Known, PromptInv, IssuedInv, GhostInv, Ordered, ServerReceive,
           NEW c \in Clients, Taken(c)'
    PROVE  GhostOf(c)'
<1>0. /\ Sane /\ IInv /\ ServerInv /\ up
      /\ UNCHANGED <<clientVars, up, wire>> /\ wire[c] /\ srvConn'[c] # "none"
      /\ srvConn \in [Clients -> {"none", "pushed", "valid"}]
      /\ DOMAIN toSrv = Clients /\ toSrv[c] \in Seq(FromClient(c))
  BY ServerRuns, ServerSends DEF Known, Sane, Taken, IInv, ServerInv, ToSrvInv
<1>1. ASSUME srvConn[c] # "none", toSrv'[c] = toSrv[c],
             \A id \in srv' \ srv : OwnerOf(id) # c
      PROVE  GhostOf(c)'
  <2>1. GhostOf(c)  BY <1>0, <1>1 DEF GhostInv, Taken
  <2> SUFFICES ASSUME NEW n \in NodesOf(c)  PROVE GhostAt(c, n)'
    BY DEF GhostOf, NodesOf
  <2>2. GhostAt(c, n) /\ own' = own /\ nid' = nid
    BY <1>0, <2>1 DEF GhostOf, clientVars
  <2>3. nid[n] # NoId => OwnerOf(nid[n]) = c
    BY <1>0 DEF IInv, ClientInv, NodesOf, OwnerOf
  <2> QED  BY <1>1, <2>2, <2>3 DEF GhostAt
<1>2. ASSUME NEW d \in Clients, NEW i, NEW kind, Reaching(d, i, kind), Take(d, i)
      PROVE  /\ d # c => toSrv'[c] = toSrv[c]
             /\ d = c => /\ i = 1 /\ 1 \in 1..Len(toSrv[c]) /\ toSrv[c][1].kind = kind
                         /\ toSrv'[c] = Without(toSrv[c], 1)
                         /\ srvConn[c] = "none" => kind = "incoming"
  <2>1. i \in 1..Len(toSrv[d]) /\ toSrv[d][i].kind = kind  BY <1>0, <1>2, Handles
  <2>2. i = 1  BY <1>2 DEF Reaching, CanTake
  <2>3. d = c /\ srvConn[c] = "none" => kind = "incoming"
    BY <1>0, <1>2, FirstIncoming DEF PromptInv
  <2> QED  BY <1>0, <1>2, <2>1, <2>2, <2>3 DEF Take
<1>3. ASSUME NEW d \in Clients, NEW i, NEW kind, Reaching(d, i, kind), Take(d, i),
             srvConn[c] # "none", srv' = srv, kind # "construction"
      PROVE  GhostOf(c)'
  <2>1. CASE d # c  BY <1>1, <1>2, <1>3, <2>1
  <2>2. CASE d = c
    <3>1. GhostOf(c)  BY <1>0, <1>3 DEF GhostInv, Taken
    <3> SUFFICES ASSUME NEW n \in NodesOf(c)  PROVE GhostAt(c, n)'
      BY DEF GhostOf, NodesOf
    <3>2. GhostAt(c, n)  BY <3>1 DEF GhostOf
    <3>3. /\ 1 \in 1..Len(toSrv[c]) /\ toSrv[c][1].kind = kind
          /\ toSrv'[c] = Without(toSrv[c], 1)
      BY <1>2, <1>3, <2>2
    <3> QED  BY <1>0, <1>3, <3>2, <3>3, GhostTake
  <2> QED  BY <2>1, <2>2
<1>4. CASE ServerUpdate
  <2>1. srvConn' = srvConn /\ srv' = srv /\ toSrv' = toSrv  BY <1>4 DEF ServerUpdate
  <2> QED  BY <1>0, <1>1, <2>1
<1>5. ASSUME NEW d \in Clients, NEW i, ServerOnIncoming(d, i)  PROVE GhostOf(c)'
  <2>1. Reaching(d, i, "incoming") /\ Take(d, i) /\ srv' = srv
    BY <1>5 DEF ServerOnIncoming
  <2>2. CASE srvConn[c] # "none"  BY <1>3, <2>1, <2>2
  <2>3. CASE srvConn[c] = "none"
    <3>1. d = c  BY <1>0, <1>5, <2>3 DEF ServerOnIncoming
    <3>2. \A k \in 1..Len(toSrv[c]) : toSrv[c][k].kind # "construction"
      BY <2>3 DEF PromptInv, InOrder, Orderly
    <3>3. 1 \in 1..Len(toSrv[c]) /\ toSrv'[c] = Without(toSrv[c], 1)
      BY <1>2, <2>1, <3>1
    <3>4. \A k \in 1..Len(toSrv'[c]) : toSrv'[c][k].kind # "construction"
      <4> DEFINE q == toSrv[c]
                 r == Without(q, 1)
      <4>1. Len(q) \in Nat /\ toSrv'[c] = r  BY <1>0, <3>3, LenProperties
      <4>2. Len(r) = Len(q) - 1 /\ \A k \in 1..Len(r) : r[k] = IF k < 1 THEN q[k] ELSE q[k + 1]
        BY <1>0, <3>3, WithoutAt
      <4> HIDE DEF r
      <4>3. \A k \in 1..Len(r) : k + 1 \in 1..Len(q) /\ r[k] = q[k + 1]  BY <4>1, <4>2
      <4> QED  BY <3>2, <4>1, <4>3
    <3> SUFFICES ASSUME NEW n \in NodesOf(c), nid[n] # NoId
                 PROVE  nid[n] \notin srv
      BY <1>0, <2>1, <3>4 DEF GhostOf, GhostAt, Makes, NodesOf, clientVars
    <3>5. srv \subseteq Foreign(c)  BY <1>0, <2>3, NothingOfTheDisconnected
    <3>6. OwnerOf(nid[n]) = c  BY <1>0 DEF IInv, ClientInv, NodesOf, OwnerOf
    <3> QED  BY <3>5, <3>6 DEF Foreign
  <2> QED  BY <2>2, <2>3
<1>6. ASSUME NEW d \in Clients, NEW i, ServerOnScope(d, i)  PROVE GhostOf(c)'
  <2>1. Reaching(d, i, "scope") /\ Take(d, i) /\ srv' = srv  BY <1>6 DEF ServerOnScope
  <2>2. srvConn[c] # "none"
    <3>1. d = c => srvConn[c] # "none"  BY <1>2, <2>1
    <3>2. d # c => srvConn'[c] = srvConn[c]  BY <1>0, <1>6 DEF ServerOnScope
    <3> QED  BY <1>0, <3>1, <3>2
  <2> QED  BY <1>3, <2>1, <2>2
<1>7. ASSUME NEW d \in Clients, NEW i, ServerOnConstruction(d, i)  PROVE GhostOf(c)'
  <2>1. Reaching(d, i, "construction") /\ Take(d, i) /\ srvConn' = srvConn
    BY <1>7 DEF ServerOnConstruction
  <2>2. srvConn[c] # "none"  BY <1>0, <2>1
  <2>3. CASE d = c
    <3>1. GhostOf(c)  BY <1>0, <2>2 DEF GhostInv, Taken
    <3> QED  BY <1>0, <1>7, <2>2, <2>3, <3>1, ConstructionGhost
  <2>4. CASE d # c
    <3>1. toSrv'[c] = toSrv[c]  BY <1>2, <2>1, <2>4
    <3>2. CASE srvConn[d] = "none"
      <4>1. srv' = srv  BY <1>7, <3>2 DEF ServerOnConstruction
      <4> QED  BY <1>1, <2>2, <3>1, <4>1
    <3>3. CASE srvConn[d] # "none"
      <4> DEFINE m == toSrv[d][i]
      <4>1. srv' = (srv \cup Created(m)) \ Doomed(m)  BY <1>7, <3>3, ConstructionIs
      <4>2. m \in FromClient(d) /\ m.kind = "construction"  BY <1>0, <2>1, Handles
      <4> HIDE DEF m
      <4>3. \A id \in Created(m) : OwnerOf(id) = d  BY <1>0, <4>2, ConstructionHolds
      <4> QED  BY <1>1, <2>2, <2>4, <3>1, <4>1, <4>3
    <3> QED  BY <3>2, <3>3
  <2> QED  BY <2>3, <2>4
<1>8. ASSUME NEW d \in Clients, NEW i, ServerOnClosed(d, i)  PROVE GhostOf(c)'
  <2>1. d # c /\ srvConn'[c] = srvConn[c]  BY <1>0, <1>8 DEF ServerOnClosed
  <2>2. Take(d, i) /\ (Reaching(d, i, "lost") \/ Reaching(d, i, "bye"))
    BY <1>8 DEF ServerOnClosed
  <2>3. toSrv'[c] = toSrv[c]  BY <1>2, <2>1, <2>2
  <2>4. srv' \subseteq srv  BY <1>8 DEF ServerOnClosed, Dereference
  <2> QED  BY <1>0, <1>1, <2>1, <2>3, <2>4
<1> QED  BY <1>4, <1>5, <1>6, <1>7, <1>8 DEF ServerReceive

\* A client constructs no node that is gone, and is told nothing of one.
LEMMA ReceiveGhost ==
    ASSUME Known, GhostInv, NEW c \in Clients, ClientReceive(c), Taken(c)', up
    PROVE  GhostOf(c)'
<1>0. /\ Sane /\ IInv /\ ConnInv /\ [Next]_vars /\ UNCHANGED serverVars
      /\ wire'[c] /\ DOMAIN wire = Clients
  BY ReceiveElsewhere DEF Known, Sane, Taken, Next, IInv, FaultInv
<1>1. Taken(c) /\ GhostOf(c)
  <2>1. wire[c] /\ srvConn[c] # "none"
    BY <1>0, ReceiveSends DEF Taken, serverVars
  <2> QED  BY <2>1 DEF Taken, GhostInv
<1>2. PICK p : /\ p = CPacket(c) \/ p = <<Scope>>
               /\ toSrv'[c] = toSrv[c] \o p
  BY <1>0, <1>1, ReceiveSends DEF Send, Taken
<1>3. p \in Seq(FromClient(c))
  BY <1>0, <1>2, CPacketTyped, ControlFromClient DEF IInv
<1>4. ASSUME NEW n \in Nodes, own'[n] = "gone"  PROVE own[n] = "gone"
  <2>1. CASE ClientOnConstruction(c)
    BY <1>4, <2>1 DEF ClientOnConstruction
  <2>2. ~ClientOnBye(c)  BY <1>0 DEF ClientOnBye
  <2> QED  BY <1>4, <2>1, <2>2 DEF ClientReceive, ClientUpdate, ClientOnAccepted,
              ClientOnScope, ClientOnAssigned, ClientOnLost
<1>5. ASSUME NEW j \in 1..Len(p), NEW n, NEW id, Makes(p[j], n, id)
      PROVE  n \in LiveOf(c)
  <2> DEFINE new == {<<k, nid[k]>> : k \in CFlush(c)}
  <2>1. p # <<Scope>>
    <3>1. \A k \in 1..Len(<<Scope>>) : <<Scope>>[k].kind = "scope"  BY DEF Scope
    <3> QED  BY <1>5, <3>1 DEF Makes
  <2>2. p = Construct(new)  BY <1>2, <2>1 DEF CPacket
  <2>3. \A e \in new : e[1] \in CFlush(c)  OBVIOUS
  <2> HIDE DEF new
  <2>4. new # {}
    <3>1. Construct({}) = << >> /\ \A k \in 1..Len(<< >>) : FALSE  BY DEF Construct
    <3> QED  BY <2>2, <3>1
  <2>5. p = <<Construction(new, {})>>  BY <2>2, <2>4 DEF Construct
  <2>6. j = 1 /\ p[1] = Construction(new, {})  BY <2>5
  <2>7. <<n, id>> \in new  BY <1>5, <2>6 DEF Makes, Construction
  <2>8. n \in CFlush(c)  BY <2>3, <2>7
  <2> QED  BY <1>0, <2>8 DEF ConnInv, ListsOf, CFlush
<1> SUFFICES ASSUME NEW n \in NodesOf(c)  PROVE GhostAt(c, n)'
  BY DEF GhostOf, NodesOf
<1>6. n \in Nodes /\ GhostAt(c, n)  BY <1>1 DEF GhostOf, NodesOf
<1>7. own'[n] = "gone" => own[n] = "gone" /\ nid'[n] = nid[n]
  BY <1>0, <1>4, <1>6, LearnsId
<1>8. own'[n] = "gone" => \A j \in 1..Len(p) : \A id : ~Makes(p[j], n, id)
  BY <1>5, <1>7 DEF LiveOf
<1> QED  BY <1>0, <1>2, <1>3, <1>6, <1>7, <1>8, GhostKept DEF serverVars

\* Nor does any other step.
LEMMA RestGhost ==
    ASSUME Known, PromptInv, ListedInv, GhostInv, Prompt, [Next]_vars,
           NEW c \in Clients, Taken(c)',
           \/ \E n \in Nodes : AddNode(n) \/ RemoveNode(n)
           \/ \E d \in Clients : StartClient(d) \/ RemoveAllNodes(d) \/ Stop(d)
           \/ \E d \in Clients : ClientReceive(d)
           \/ \E d \in Clients : Establish(d) \/ ConnectFails(d) \/ Break(d)
           \/ ServerQuit
           \/ ServerCrash
           \/ UNCHANGED vars
    PROVE  GhostOf(c)'
<1>0. Sane /\ IInv /\ ConnInv /\ wire'[c] /\ srvConn'[c] # "none"
  BY DEF Known, Sane, Taken
<1>1. ASSUME Taken(c), toSrv'[c] = toSrv[c], srv' = srv,
             \A n \in NodesOf(c) : nid'[n] = nid[n] /\ (own'[n] = "gone" => own[n] = "gone")
      PROVE  GhostOf(c)'
  <2>1. GhostOf(c)  BY <1>1 DEF GhostInv
  <2> SUFFICES ASSUME NEW n \in NodesOf(c)  PROVE GhostAt(c, n)'
    BY DEF GhostOf, NodesOf
  <2>2. GhostAt(c, n)  BY <2>1 DEF GhostOf
  <2> QED  BY <1>1, <2>2 DEF GhostAt
<1>2. ASSUME NEW n \in Nodes, AddNode(n)  PROVE GhostOf(c)'
  <2>1. \A k \in NodesOf(c) : own'[k] = "gone" => own[k] = "gone"
    BY <1>0, <1>2 DEF AddNode, NodesOf, IInv, ClientInv
  <2> QED  BY <1>0, <1>1, <1>2, <2>1 DEF AddNode, serverVars, Taken
<1>3. ASSUME NEW d \in Clients, NEW S \in SUBSET NodesOf(d), DestroyOwn(d, S),
             \A n \in S : own[n] \in {"live", "dangling"},
             UNCHANGED <<nid, serverVars, wire>>
      PROVE  GhostOf(c)'
  <2>1. Taken(c)  BY <1>0, <1>3 DEF Taken, serverVars
  <2>2. CASE d = c
    <3>1. GhostOf(c)  BY <2>1 DEF GhostInv
    <3> QED  BY <1>3, <2>1, <2>2, <3>1, DestroyOwnGhost
  <2>3. CASE d # c
    <3>1. toSrv'[c] = toSrv[c]  BY <1>0, <1>3, <2>3 DEF DestroyOwn, IInv, ToSrvInv
    <3>2. \A n \in NodesOf(c) : own'[n] = own[n]
      BY <1>0, <1>3, <2>3 DEF DestroyOwn, NodesOf, IInv, ClientInv
    <3> QED  BY <1>1, <1>3, <2>1, <3>1, <3>2 DEF serverVars
  <2> QED  BY <2>2, <2>3
<1>4. ASSUME NEW n \in Nodes, RemoveNode(n)  PROVE GhostOf(c)'
  <2>1. Owner[n] \in Clients /\ {n} \in SUBSET NodesOf(Owner[n])
    BY OwnerAssumption DEF NodesOf
  <2> QED  BY <1>3, <1>4, <2>1 DEF RemoveNode
<1>5. ASSUME NEW d \in Clients, RemoveAllNodes(d)  PROVE GhostOf(c)'
  <2> DEFINE S == {n \in NodesOf(d) : own[n] \in {"live", "dangling"}}
  <2>1. DestroyOwn(d, S) /\ UNCHANGED <<nid, serverVars, wire>>
    BY <1>5 DEF RemoveAllNodes
  <2>2. S \in SUBSET NodesOf(d) /\ \A n \in S : own[n] \in {"live", "dangling"}
    OBVIOUS
  <2> HIDE DEF S
  <2> QED  BY <1>3, <2>1, <2>2
<1>6. ASSUME NEW d \in Clients, StartClient(d) \/ ConnectFails(d)  PROVE GhostOf(c)'
  BY <1>0, <1>1, <1>6 DEF StartClient, ConnectFails, serverVars, Taken
<1>7. ASSUME NEW d \in Clients, Stop(d) \/ Break(d)  PROVE GhostOf(c)'
  <2>1. c # d  BY <1>0, <1>7 DEF Stop, Break, IInv, FaultInv
  <2>2. /\ toSrv' = toSrv \/ \E q : toSrv' = [toSrv EXCEPT ![d] = q]
        /\ wire' = [wire EXCEPT ![d] = FALSE]
        /\ UNCHANGED <<srvConn, srv, nid>>
    <3>1. toSrv' = toSrv \/ \E q : toSrv' = [toSrv EXCEPT ![d] = q]
      BY <1>7 DEF Stop, Break
    <3> QED  BY <1>7, <3>1 DEF Stop, Break, clientVars, serverVars
  <2>3. DOMAIN toSrv = Clients /\ DOMAIN wire = Clients
    BY <1>0 DEF IInv, FaultInv, ToSrvInv
  <2>4. toSrv'[c] = toSrv[c]  BY <2>1, <2>2, <2>3
  <2>5. wire'[c] = wire[c]  BY <2>1, <2>2, <2>3
  <2>6. \A n \in NodesOf(c) : own'[n] = own[n]
    <3>1. CASE Stop(d)
      BY <1>0, <2>1, <3>1 DEF Stop, NodesOf, IInv, ClientInv
    <3>2. CASE Break(d)  BY <3>2 DEF Break, clientVars
    <3> QED  BY <1>7, <3>1, <3>2
  <2> QED  BY <1>0, <1>1, <2>2, <2>4, <2>5, <2>6 DEF Taken
<1>8. ASSUME NEW d \in Clients, Establish(d)  PROVE GhostOf(c)'
  <2>1. c # d
    <3>1. ASSUME c = d  PROVE FALSE
      <4>1. up /\ ~wire[c] /\ toSrv[c] = << >> /\ srvConn' = srvConn
        BY <1>8, <3>1 DEF Establish, serverVars
      <4>2. srvConn[c] = "none"  BY <4>1, NoneLeft
      <4> QED  BY <1>0, <4>1, <4>2
    <3> QED  BY <3>1
  <2>2. toSrv'[c] = toSrv[c] /\ wire'[c] = wire[c] /\ UNCHANGED <<srvConn, srv, nid, own>>
    BY <1>0, <1>8, <2>1 DEF Establish, clientVars, serverVars, IInv, FaultInv, ToSrvInv
  <2> QED  BY <1>0, <1>1, <2>2 DEF Taken
<1>9. CASE ServerQuit \/ ServerCrash
  BY <1>0, <1>9 DEF ServerQuit, ServerCrash
<1>10. CASE UNCHANGED vars  BY <1>0, <1>1, <1>10 DEF vars, Taken
<1>11. ASSUME NEW d \in Clients, ClientReceive(d)  PROVE GhostOf(c)'
  <2>1. UNCHANGED serverVars  BY <1>0, <1>11, ReceiveElsewhere
  <2>2. CASE d = c
    <3>1. up  BY <1>0, <2>1 DEF Known, Accounts, serverVars
    <3> QED  BY <1>11, <2>2, <3>1, ReceiveGhost
  <2>3. CASE d # c
    <3>1. /\ toSrv'[c] = toSrv[c] /\ wire'[c] = wire[c]
          /\ \A n \in NodesOf(c) : own'[n] = own[n] /\ nid'[n] = nid[n]
      BY <1>0, <1>11, <2>3, ReceiveElsewhere DEF NodesOf
    <3> QED  BY <1>0, <1>1, <2>1, <3>1 DEF Taken, serverVars
  <2> QED  BY <2>2, <2>3
<1> QED  BY <1>2, <1>4, <1>5, <1>6, <1>7, <1>8, <1>9, <1>10, <1>11

\* GhostInv over every step.
LEMMA NextGhost ==
    /\ Known /\ PromptInv /\ ListedInv /\ IssuedInv /\ GhostInv
    /\ Prompt /\ Ordered /\ [Next]_vars
    => GhostInv'
<1> SUFFICES ASSUME Known, PromptInv, ListedInv, IssuedInv, GhostInv, Prompt, Ordered,
                    [Next]_vars, NEW c \in Clients, Taken(c)'
             PROVE  GhostOf(c)'
  BY DEF GhostInv
<1>1. CASE ServerReceive  BY <1>1, ServerGhost
<1>2. CASE ~ServerReceive
  <2>1. \/ \E n \in Nodes : AddNode(n) \/ RemoveNode(n)
        \/ \E d \in Clients : StartClient(d) \/ RemoveAllNodes(d) \/ Stop(d)
        \/ \E d \in Clients : ClientReceive(d)
        \/ \E d \in Clients : Establish(d) \/ ConnectFails(d) \/ Break(d)
        \/ ServerQuit
        \/ ServerCrash
        \/ UNCHANGED vars
    BY <1>2 DEF Next
  <2> QED  BY <2>1, RestGhost
<1> QED  BY <1>1, <1>2

\* At the start there is nothing to destroy.
LEMMA InitGhost == Init => ListedInv /\ IssuedInv /\ GhostInv
<1> SUFFICES ASSUME Init  PROVE ListedInv /\ IssuedInv /\ GhostInv
  OBVIOUS
<1>1. ListedInv  BY DEF Init, ListedInv
<1>2. \A S : << >> \in Seq(S)  BY EmptySeq
<1>3. IssuedInv  BY <1>2 DEF Init, IssuedInv
<1>4. GhostInv  BY DEF Init, GhostInv, Taken
<1> QED  BY <1>1, <1>3, <1>4

\* While the server's thread keeps up with the ends of connections and the client
\* library sends in order, a replica the server keeps of a node that is gone is one
\* the owner never learned the id of, so that the destruction it sent named nobody,
\* or the destruction is still on its way.  An owner that knew the id is never the
\* reason for a ghost.
THEOREM GhostsFromEarlyRemovals ==
    ASSUME Prompt, Ordered
    PROVE  Spec => []GhostsOnlyFromEarlyRemovals
<1> DEFINE All == Known /\ PromptInv /\ ListedInv /\ IssuedInv /\ GhostInv
<1>1. Init => All  BY InitKnown, InitPrompt, InitGhost
<1>2. All /\ [Next]_vars => All'
  <2>1. Known => Sane /\ IInv /\ ConnInv  BY DEF Known, Sane
  <2> QED  BY <2>1, NextKnown, NextPrompt, NextListed, NextIssued, NextGhost
<1>3. All => GhostsOnlyFromEarlyRemovals
  <2> SUFFICES ASSUME Known, GhostInv, NEW id \in srv, Settled(OwnerOf(id)),
                      own[id.node] = "gone", nid[id.node] = id
               PROVE  \E m \in Sent(OwnerOf(id)) : id \in m.del
    BY DEF GhostsOnlyFromEarlyRemovals
  <2> DEFINE c == OwnerOf(id)
             n == id.node
  <2>1. IInv /\ id \in Ids  BY DEF Known, Sane, IInv, ServerInv
  <2>2. n \in Nodes /\ id # NoId  BY <2>1 DEF Ids, NoId
  <2>3. c \in Clients /\ n \in NodesOf(c)  BY <2>2, OwnerAssumption DEF OwnerOf, NodesOf
  <2>4. Taken(c)  BY DEF Settled, Joined, Taken
  <2>5. GhostAt(c, n)  BY <2>3, <2>4 DEF GhostInv, GhostOf
  <2>6. Destroys(toSrv[c], 1, id)  BY <2>2, <2>5 DEF GhostAt
  <2>7. DOMAIN toSrv[c] = 1..Len(toSrv[c])  BY <2>1, <2>3, LenProperties DEF IInv, ToSrvInv
  <2> QED  BY <2>6, <2>7 DEF Destroys, Sent, IsData
<1> QED  BY <1>1, <1>2, <1>3, PTL DEF Spec
=============================================================================
