-------------------------- MODULE NodeData_proofs --------------------------
(***************************************************************************)
(* Proofs about NodeData, for any peers, any number of values and of       *)
(* broken connections: the types, and, for an owner that never writes a    *)
(* value twice, that NodeData implements SharedValue.                      *)
(*                                                                         *)
(* Values only move one way, from the owner through toSrv, the server's    *)
(* replica and toCli to a copy.  Along that way they never increase, with  *)
(* ordered packets: Flow says so of each two places a value can be in.     *)
(***************************************************************************)
EXTENDS NodeData, SequenceTheorems, TLAPS

---------------------------------------------------------------------------
(* Sequences of packets.                                                   *)

\* A beginning of a sequence, and a sequence without one of its elements.
LEMMA PrefixFacts ==
    ASSUME NEW S, NEW q \in Seq(S), NEW i \in 0..Len(q)
    PROVE  /\ SubSeq(q, 1, i) \in Seq(S) /\ Len(SubSeq(q, 1, i)) = i
           /\ \A k \in 1..i : SubSeq(q, 1, i)[k] = q[k]
<1>1. Len(q) \in Nat  BY LenProperties
<1>2. \A j \in 1..i : q[j] \in S  BY <1>1, ElementOfSeq
<1>3. i \in Int /\ 1 \in Int  BY <1>1
<1>4. SubSeq(q, 1, i) \in Seq(S) /\ Len(SubSeq(q, 1, i)) = i
  BY <1>1, <1>2, <1>3, SubSeqProperties
<1>5. \A k \in 1..i : SubSeq(q, 1, i)[k] = q[1 + k - 1]
  BY <1>1, <1>2, <1>3, SubSeqProperties
<1> QED  BY <1>1, <1>4, <1>5

LEMMA WithoutFacts ==
    ASSUME NEW S, NEW q \in Seq(S), NEW i \in 1..Len(q)
    PROVE  /\ Without(q, i) \in Seq(S) /\ Len(Without(q, i)) = Len(q) - 1
           /\ \A k \in 1..(Len(q) - 1) :
                 Without(q, i)[k] = IF k < i THEN q[k] ELSE q[k + 1]
<1> DEFINE a == SubSeq(q, 1, i - 1)
           b == SubSeq(q, i + 1, Len(q))
<1>1. Len(q) \in Nat /\ i \in Nat  BY LenProperties
<1>2. a \in Seq(S) /\ Len(a) = i - 1 /\ \A k \in 1..(i - 1) : a[k] = q[k]
  <2>1. i - 1 \in 0..Len(q)  BY <1>1
  <2> QED  BY <2>1, PrefixFacts
<1>3. b \in Seq(S) /\ Len(b) = Len(q) - i
      /\ \A k \in 1..(Len(q) - i) : b[k] = q[i + k]
  <2>1. \A j \in (i + 1)..Len(q) : q[j] \in S  BY <1>1, ElementOfSeq
  <2>2. i + 1 \in Int /\ Len(q) \in Int  BY <1>1
  <2>3. /\ b \in Seq(S)
        /\ Len(b) = IF i + 1 <= Len(q) THEN Len(q) - (i + 1) + 1 ELSE 0
        /\ \A k \in 1..(Len(q) - (i + 1) + 1) : b[k] = q[(i + 1) + k - 1]
    BY <2>1, <2>2, SubSeqProperties
  <2> QED  BY <1>1, <2>3
<1>4. Without(q, i) \in Seq(S) /\ Len(Without(q, i)) = Len(a) + Len(b)
      /\ \A k \in 1..(Len(a) + Len(b)) :
            Without(q, i)[k] = IF k <= Len(a) THEN a[k] ELSE b[k - Len(a)]
  BY <1>2, <1>3, ConcatProperties DEF Without
<1> HIDE DEF a, b
<1>5. Len(Without(q, i)) = Len(q) - 1  BY <1>1, <1>2, <1>3, <1>4
<1>6. ASSUME NEW k \in 1..(Len(q) - 1)
      PROVE  Without(q, i)[k] = IF k < i THEN q[k] ELSE q[k + 1]
  <2> k \in Int  OBVIOUS
  <2>1. k \in 1..(Len(a) + Len(b))  BY <1>1, <1>2, <1>3
  <2>2. CASE k < i
    BY <1>1, <1>2, <1>4, <2>1, <2>2
  <2>3. CASE ~(k < i)
    <3>1. k - Len(a) \in 1..(Len(q) - i)  BY <1>1, <1>2, <2>3
    <3>2. Without(q, i)[k] = b[k - Len(a)]  BY <1>1, <1>2, <1>4, <2>1, <2>3
    <3>3. b[k - Len(a)] = q[i + (k - Len(a))]  BY <1>3, <3>1
    <3>4. i + (k - Len(a)) = k + 1  BY <1>1, <1>2
    <3> QED  BY <2>3, <3>2, <3>3, <3>4
  <2> QED  BY <2>2, <2>3
<1> QED  BY <1>4, <1>5, <1>6

LEMMA SendTyped ==
    ASSUME NEW S, NEW q \in Seq(S), NEW r \in Seq(S), NEW on
    PROVE  Send(on, q, r) \in Seq(S)
BY ConcatProperties DEF Send

LEMMA ArrivedTyped ==
    ASSUME NEW S, NEW q \in Seq(S), NEW fifo, NEW r \in Arrived(q, fifo)
    PROVE  r \in Seq(S)
<1> DEFINE starts == {SubSeq(q, 1, i) : i \in 0..Len(q)}
<1>1. \A s \in starts : s \in Seq(S)  BY PrefixFacts
<1>2. \/ r \in starts
      \/ \E s \in starts : \E i \in DOMAIN s : r = Without(s, i)
  BY DEF Arrived
<1>3. ASSUME NEW s \in starts, NEW i \in DOMAIN s, r = Without(s, i)
      PROVE  r \in Seq(S)
  <2>1. s \in Seq(S)  BY <1>1
  <2>2. i \in 1..Len(s)  BY <2>1, LenProperties
  <2> QED  BY <2>1, <2>2, <1>3, WithoutFacts
<1> QED  BY <1>1, <1>2, <1>3

---------------------------------------------------------------------------
(* Types.                                                                  *)

\* The server's counter only grows, so what an id could be it still can.
LEMMA IdsGrow ==
    ASSUME issued \in Nat, issued' \in Nat, issued <= issued'
    PROVE  /\ Ids \subseteq Ids' /\ ToPeer \subseteq ToPeer'
           /\ ToServer \subseteq ToServer' /\ ToOwner \subseteq ToOwner'
           /\ \A q : /\ q \in Seq(ToPeer) => q \in Seq(ToPeer')
                     /\ q \in Seq(ToServer) => q \in Seq(ToServer')
                     /\ q \in Seq(ToOwner) => q \in Seq(ToOwner')
<1>1. Ids \subseteq Ids'  BY DEF Ids
<1>2. /\ ToPeer \subseteq ToPeer' /\ ToServer \subseteq ToServer'
      /\ ToOwner \subseteq ToOwner'
  BY <1>1 DEF ToPeer, ToServer, ToOwner
<1> QED  BY <1>1, <1>2, SeqMonotonic

LEMMA IdsStay ==
    ASSUME UNCHANGED issued
    PROVE  Ids' = Ids /\ ToPeer' = ToPeer /\ ToServer' = ToServer /\ ToOwner' = ToOwner
BY DEF Ids, ToPeer, ToServer, ToOwner

LEMMA OwnerPacketsTyped ==
    ASSUME TypeOK, NEW tick
    PROVE  OwnerPackets(tick) \in Seq(ToServer)
<1>1. Construct(id) \in ToServer /\ Value(id, val) \in ToServer
  BY DEF TypeOK, ToServer, Construct, Value
<1>2. << >> \in Seq(ToServer) /\ <<Construct(id)>> \in Seq(ToServer)
      /\ <<Construct(id), Value(id, val)>> \in Seq(ToServer)
      /\ <<Value(id, val)>> \in Seq(ToServer)
  BY <1>1
<1> QED  BY <1>2, ConcatProperties DEF OwnerPackets

LEMMA SrvPacketsTyped ==
    ASSUME TypeOK, NEW p \in Peers, NEW tick
    PROVE  SrvPackets(p, tick) \in Seq(ToPeer)
<1>1. Construct(held) \in ToPeer /\ Value(held, srvVal) \in ToPeer
  BY DEF TypeOK, ToPeer, Construct, Value
<1>2. << >> \in Seq(ToPeer) /\ <<Construct(held), Value(held, srvVal)>> \in Seq(ToPeer)
      /\ <<Value(held, srvVal)>> \in Seq(ToPeer)
  BY <1>1
<1> QED  BY <1>2, ConcatProperties DEF SrvPackets

LEMMA DeliverTyped ==
    ASSUME TypeOK, NEW tick, NEW extra, \A p \in Peers : extra[p] \in Seq(ToPeer),
           Deliver(tick, extra)
    PROVE  toCli' \in [Peers -> Seq(ToPeer)]
<1>1. \A p \in Peers : SrvPackets(p, tick) \o extra[p] \in Seq(ToPeer)
  BY SrvPacketsTyped, ConcatProperties
<1>2. \A p \in Peers : toCli[p] \in Seq(ToPeer)  BY DEF TypeOK
<1> QED  BY <1>1, <1>2, SendTyped DEF Deliver

LEMMA OwnerTyped ==
    ASSUME TypeOK, OwnerReceive
    PROVE  TypeOK'
<1>1. PICK tick \in BOOLEAN :
          OwnerUpdate(tick) \/ OwnerOnAccepted(tick) \/ OwnerOnLost(tick)
  BY DEF OwnerReceive
<1>2. OwnerPackets(tick) \in Seq(ToServer)  BY OwnerPacketsTyped
<1>3. LastNow(tick) \in {Nothing} \cup (1..MaxValue)  BY DEF LastNow, TypeOK
<1>4. LinkNow \in {"down", "queued", "sent", "listed"}  BY DEF LinkNow, TypeOK
<1>5. UNCHANGED issued
  BY <1>1 DEF OwnerUpdate, OwnerOnAccepted, OwnerOnLost, srvVars
<1>6. CASE OwnerUpdate(tick)
  <2>1. toSrv' \in Seq(ToServer)  BY <1>2, <1>6, SendTyped DEF OwnerUpdate, TypeOK
  <2> QED  BY <1>3, <1>4, <1>5, <1>6, <2>1, IdsStay DEF OwnerUpdate, TypeOK, srvVars
<1>7. CASE OwnerOnAccepted(tick)
  <2>1. toOwn' \in Seq(ToOwner) /\ Head(toOwn) \in ToOwner
    BY <1>7, HeadTailProperties DEF OwnerOnAccepted, TypeOK
  <2>2. id' \in Ids  BY <1>7, <2>1 DEF OwnerOnAccepted, ToOwner
  <2>3. Value(id', val) \in ToServer  BY <2>2 DEF TypeOK, ToServer, Value
  <2>4. OwnerPackets(tick) \o <<Value(id', val)>> \in Seq(ToServer)
    BY <1>2, <2>3, ConcatProperties
  <2>5. toSrv' \in Seq(ToServer)  BY <1>7, <2>4, SendTyped DEF OwnerOnAccepted, TypeOK
  <2> QED
    BY <1>3, <1>5, <1>7, <2>1, <2>2, <2>5, IdsStay DEF OwnerOnAccepted, TypeOK, srvVars
<1>8. CASE OwnerOnLost(tick)
  <2>1. toOwn' \in Seq(ToOwner)  BY <1>8, HeadTailProperties DEF OwnerOnLost, TypeOK
  <2> QED  BY <1>3, <1>5, <1>8, <2>1, IdsStay DEF OwnerOnLost, TypeOK, srvVars
<1> QED  BY <1>1, <1>6, <1>7, <1>8

\* What a Receive of the server leaves behind whatever packet it handles.
LEMMA ServerUpdateTyped ==
    ASSUME TypeOK, NEW tick
    PROVE  /\ PeerNow \in [Peers -> {"out", "in", "queued", "listed"}]
           /\ SrvLastNow(tick) \in {Nothing} \cup (0..MaxValue)
BY DEF TypeOK, PeerNow, SrvLastNow

LEMMA TakingTyped ==
    ASSUME TypeOK, NEW i, NEW kind, Taking(i, kind)
    PROVE  toSrv' \in Seq(ToServer) /\ toSrv[i] \in ToServer /\ i \in 1..Len(toSrv)
<1>1. i \in 1..Len(toSrv)  BY LenProperties DEF Taking, TypeOK
<1> QED  BY <1>1, WithoutFacts, ElementOfSeq DEF Taking, TypeOK

LEMMA NoPacketsTyped == \A p \in Peers : NoPackets[p] \in Seq(ToPeer)
BY EmptySeq DEF NoPackets

LEMMA ConstructTyped ==
    ASSUME TypeOK, NEW i, NEW tick, ServerOnConstruct(i, tick)
    PROVE  TypeOK'
<1>1. /\ toSrv' \in Seq(ToServer) /\ toSrv[i] \in ToServer
  BY TakingTyped DEF ServerOnConstruct
<1>2. toSrv[i].id \in Ids  BY <1>1 DEF ToServer
<1>3. issued' \in Nat /\ issued <= issued' /\ held' \in 0..issued'
  BY <1>2 DEF ServerOnConstruct, NowIssued, IdFor, TypeOK, Ids
<1>4. Accepted(held') \in ToOwner'  BY <1>3 DEF Accepted, ToOwner, Ids
<1>5. toOwn \in Seq(ToOwner') /\ toSrv' \in Seq(ToServer') /\ id \in Ids'
      /\ copy \in [Peers -> [id : Ids', v : 0..MaxValue]]
  BY <1>1, <1>3, IdsGrow DEF TypeOK
<1>6. toOwn' \in Seq(ToOwner')
  <2> DEFINE r == <<Accepted(held')>>
  <2>1. r \in Seq(ToOwner')  BY <1>4
  <2>2. toOwn' = Send(wire /\ toSrv[i].id = NoId, toOwn, r)  BY DEF ServerOnConstruct
  <2> HIDE DEF r
  <2> QED  BY <1>5, <2>1, <2>2, SendTyped
<1>7. toCli' \in [Peers -> Seq(ToPeer)]
  BY NoPacketsTyped, DeliverTyped DEF ServerOnConstruct
<1>8. toCli' \in [Peers -> Seq(ToPeer')]
  BY <1>3, <1>7, IdsGrow DEF TypeOK
<1>9. held' \in Ids'  BY <1>3 DEF Ids
<1>10. peer' \in [Peers -> {"out", "in", "queued", "listed"}]
  BY DEF ServerOnConstruct, TypeOK
<1>11. id' \in Ids' /\ copy' \in [Peers -> [id : Ids', v : 0..MaxValue]]
  BY <1>5 DEF ServerOnConstruct, ownVars
<1>12. UNCHANGED <<ordered, ownVars, wire, up, breaks>>  BY DEF ServerOnConstruct
<1>13. srvVal' = Unset /\ srvLast' = Nothing  BY DEF ServerOnConstruct
<1> QED
  BY <1>3, <1>5, <1>6, <1>8, <1>9, <1>10, <1>11, <1>12, <1>13, ValueAssumption
  DEF TypeOK, Unset, ownVars

LEMMA ServerTyped ==
    ASSUME TypeOK, ServerReceive
    PROVE  TypeOK'
<1>1. PICK tick \in BOOLEAN :
        \/ ServerUpdate(tick)
        \/ \E i \in DOMAIN toSrv : ServerOnConstruct(i, tick) \/ ServerOnValue(i, tick)
        \/ ServerOnLost(tick)
        \/ \E p \in Peers : ServerOnPeerLost(p, tick)
  BY DEF ServerReceive
<1>2. /\ PeerNow \in [Peers -> {"out", "in", "queued", "listed"}]
      /\ SrvLastNow(tick) \in {Nothing} \cup (0..MaxValue)
  BY ServerUpdateTyped
<1>3. Deliver(tick, NoPackets) => toCli' \in [Peers -> Seq(ToPeer)]
  BY NoPacketsTyped, DeliverTyped
<1>4. CASE ServerUpdate(tick)
  <2>1. toCli' \in [Peers -> Seq(ToPeer)]  BY <1>3, <1>4 DEF ServerUpdate
  <2> QED  BY <1>2, <1>4, <2>1, IdsStay DEF ServerUpdate, TypeOK, ownVars
<1>5. ASSUME NEW i \in DOMAIN toSrv, ServerOnConstruct(i, tick)
      PROVE  TypeOK'
  BY <1>5, ConstructTyped
<1>6. ASSUME NEW i \in DOMAIN toSrv, ServerOnValue(i, tick)
      PROVE  TypeOK'
  <2>1. toSrv' \in Seq(ToServer) /\ toSrv[i] \in ToServer /\ toSrv[i].kind = "value"
    BY <1>6, TakingTyped DEF ServerOnValue, Taking
  <2>2. toSrv[i].v \in 1..MaxValue  BY <2>1 DEF ToServer
  <2>3. srvVal' \in 0..MaxValue  BY <1>6, <2>2 DEF ServerOnValue, TypeOK
  <2>4. toCli' \in [Peers -> Seq(ToPeer)]  BY <1>3, <1>6 DEF ServerOnValue
  <2> QED  BY <1>2, <1>6, <2>1, <2>3, <2>4, IdsStay DEF ServerOnValue, TypeOK, ownVars
<1>7. CASE ServerOnLost(tick)
  <2> DEFINE farewell == [p \in Peers |-> IF p \in Listed THEN <<Destruct(held)>> ELSE << >>]
  <2>1. Destruct(held) \in ToPeer  BY DEF Destruct, ToPeer, TypeOK
  <2>2. \A p \in Peers : farewell[p] \in Seq(ToPeer)  BY <2>1
  <2>3. Deliver(tick, farewell)  BY <1>7 DEF ServerOnLost
  <2> HIDE DEF farewell
  <2>4. toCli' \in [Peers -> Seq(ToPeer)]  BY <2>2, <2>3, DeliverTyped
  <2>5. toSrv' \in Seq(ToServer)  BY <1>7, TakingTyped DEF ServerOnLost
  <2>6. NoId \in Ids  BY DEF NoId, Ids, TypeOK
  <2>7. peer' \in [Peers -> {"out", "in", "queued", "listed"}]
    BY <1>7 DEF ServerOnLost, TypeOK
  <2>8. held' = NoId /\ srvVal' = Unset /\ srvLast' = Nothing
        /\ UNCHANGED <<ordered, ownVars, wire, issued, up, copy, toOwn, breaks>>
    BY <1>7 DEF ServerOnLost
  <2> QED
    BY <2>4, <2>5, <2>6, <2>7, <2>8, IdsStay, ValueAssumption DEF TypeOK, ownVars, Unset
<1>8. ASSUME NEW p \in Peers, ServerOnPeerLost(p, tick)
      PROVE  TypeOK'
  <2>1. toCli' \in [Peers -> Seq(ToPeer)]  BY <1>3, <1>8 DEF ServerOnPeerLost
  <2> QED  BY <1>2, <1>8, <2>1, IdsStay DEF ServerOnPeerLost, TypeOK, ownVars
<1> QED  BY <1>1, <1>4, <1>5, <1>6, <1>7, <1>8

LEMMA PeerTyped ==
    ASSUME TypeOK, NEW p \in Peers, PeerReceive(p)
    PROVE  TypeOK'
<1>1. toCli[p] \in Seq(ToPeer) /\ toCli[p] # << >>  BY DEF PeerReceive, TypeOK
<1>2. Head(toCli[p]) \in ToPeer /\ Tail(toCli[p]) \in Seq(ToPeer)
  BY <1>1, HeadTailProperties
<1>3. toCli' \in [Peers -> Seq(ToPeer)]  BY <1>2 DEF PeerReceive, TypeOK
<1>4. Head(toCli[p]).id \in Ids
      /\ (Head(toCli[p]).kind = "value" => Head(toCli[p]).v \in 0..MaxValue)
  BY <1>2 DEF ToPeer
<1>5. copy[p] \in [id : Ids, v : 0..MaxValue]  BY DEF TypeOK
<1>6. NoCopy \in [id : Ids, v : 0..MaxValue]
  BY ValueAssumption DEF NoCopy, NoId, Unset, Ids, TypeOK
<1>7. copy' \in [Peers -> [id : Ids, v : 0..MaxValue]]
  BY <1>4, <1>5, <1>6, ValueAssumption DEF PeerReceive, TypeOK, Unset
<1> QED
  BY <1>3, <1>7, IdsStay DEF PeerReceive, TypeOK, ownVars, srvVars

LEMMA TransportTyped ==
    ASSUME TypeOK,
           \/ Connect \/ Break
           \/ \E p \in Peers : ConnectPeer(p) \/ BreakPeer(p)
    PROVE  TypeOK'
<1>1. CASE Connect
  BY <1>1, IdsStay DEF Connect, TypeOK, srvVars
<1>2. CASE Break
  <2>1. Lost \in ToServer /\ Lost \in ToOwner
    BY DEF Lost, ToServer, ToOwner, Ids, NoId, TypeOK
  <2>2. PICK q \in Arrived(toSrv, ordered) : toSrv' = Append(q, Lost)
    BY <1>2 DEF Break
  <2>3. PICK r \in Arrived(toOwn, TRUE) : toOwn' = Append(r, Lost)
    BY <1>2 DEF Break
  <2>4. toSrv' \in Seq(ToServer) /\ toOwn' \in Seq(ToOwner)
    BY <2>1, <2>2, <2>3, ArrivedTyped, AppendProperties DEF TypeOK
  <2>5. breaks' \in 0..MaxBreaks  BY <1>2, BreaksAssumption DEF Break, TypeOK
  <2> QED  BY <1>2, <2>4, <2>5, IdsStay DEF Break, TypeOK, ownVars, srvVars
<1>3. ASSUME NEW p \in Peers, ConnectPeer(p)
      PROVE  TypeOK'
  BY <1>3, IdsStay DEF ConnectPeer, TypeOK, ownVars
<1>4. ASSUME NEW p \in Peers, BreakPeer(p)
      PROVE  TypeOK'
  <2>1. PICK q \in Arrived(toCli[p], TRUE) : toCli' = [toCli EXCEPT ![p] = q]
    BY <1>4 DEF BreakPeer
  <2>2. q \in Seq(ToPeer)  BY ArrivedTyped DEF TypeOK
  <2>3. toCli' \in [Peers -> Seq(ToPeer)]  BY <2>1, <2>2 DEF TypeOK
  <2>4. breaks' \in 0..MaxBreaks  BY <1>4, BreaksAssumption DEF BreakPeer, TypeOK
  <2> QED  BY <1>4, <2>3, <2>4, IdsStay DEF BreakPeer, TypeOK, ownVars, srvVars
<1> QED  BY <1>1, <1>2, <1>3, <1>4

LEMMA InitTyped == Init => TypeOK
<1> SUFFICES ASSUME Init PROVE TypeOK
  OBVIOUS
<1>1. /\ toSrv \in Seq(ToServer) /\ toOwn \in Seq(ToOwner)
      /\ toCli \in [Peers -> Seq(ToPeer)]
  BY EmptySeq DEF Init
<1>2. 0 \in 0..MaxValue /\ 1 \in 1..MaxValue /\ 0 \in 0..MaxBreaks
  BY ValueAssumption, BreaksAssumption
<1>3. issued \in Nat /\ NoId \in Ids  BY DEF Init, Ids, NoId
<1>4. NoCopy \in [id : Ids, v : 0..MaxValue]  BY <1>2, <1>3 DEF NoCopy, Unset
<1>5. copy \in [Peers -> [id : Ids, v : 0..MaxValue]]  BY <1>4 DEF Init
<1> HIDE DEF NoCopy
<1> QED  BY <1>1, <1>2, <1>3, <1>5 DEF Init, TypeOK, Unset

LEMMA NextTyped == TypeOK /\ [Next]_vars => TypeOK'
<1> SUFFICES ASSUME TypeOK, [Next]_vars PROVE TypeOK'
  OBVIOUS
<1>1. ASSUME NEW v \in 1..MaxValue, UpdateNode(v)
      PROVE  TypeOK'
  BY <1>1, IdsStay DEF UpdateNode, TypeOK, srvVars
<1>2. CASE UNCHANGED vars
  BY <1>2, IdsStay DEF vars, ownVars, srvVars, TypeOK
<1>3. CASE OwnerReceive  BY <1>3, OwnerTyped
<1>4. CASE ServerReceive  BY <1>4, ServerTyped
<1>5. ASSUME NEW p \in Peers, PeerReceive(p) PROVE TypeOK'
  BY <1>5, PeerTyped
<1>6. CASE \/ Connect \/ Break
          \/ \E p \in Peers : ConnectPeer(p) \/ BreakPeer(p)
  <2> HIDE DEF TypeOK
  <2> QED  BY <1>6, TransportTyped
<1> QED  BY <1>1, <1>2, <1>3, <1>4, <1>5, <1>6 DEF Next

\* TypeOK: the values, ids and packets of a node are what the code can make
\* of them; in particular every id anywhere is one the server has given.
THEOREM DataTypeCorrect == Spec => []TypeOK
<1> QED  BY InitTyped, NextTyped, PTL DEF Spec

---------------------------------------------------------------------------
(* The way of the values.                                                  *)

\* The value a packet carries: none is 0.
Carries(m) == IF m.kind = "value" THEN m.v ELSE 0
Carried(q) == {Carries(q[i]) : i \in DOMAIN q}

\* What has left the owner and not reached the server; what has left the
\* server for p, and what of it p shows.
Sent == Carried(toSrv)
Shown(p) == {copy[p].v} \cup Carried(toCli[p])

Rising(q) ==
    \A i, j \in DOMAIN q :
        i < j => Carries(q[j]) = 0 \/ Carries(q[i]) <= Carries(q[j])

\* Nothing is ahead of the owner ...
Behind ==
    /\ srvVal <= val
    /\ \A b \in Sent : b <= val
    /\ \A p \in Peers : \A a \in Shown(p) : a <= val

\* ... and with ordered packets nothing is ahead of what is nearer to it.
ServerFlow == Rising(toSrv) /\ \A b \in Sent : b = 0 \/ srvVal <= b
PeerFlow(p) ==
    /\ Rising(toCli[p])
    /\ \A c \in Carried(toCli[p]) : c = 0 \/ copy[p].v <= c
    /\ \A a \in Shown(p) :
          (srvVal = 0 \/ a <= srvVal) /\ \A b \in Sent : b = 0 \/ a <= b

Flow == Behind /\ (ordered => ServerFlow /\ \A p \in Peers : PeerFlow(p))

---------------------------------------------------------------------------
(* Sequences of packets: what they carry, and in which order.              *)

LEMMA CarriedTyped ==
    ASSUME TypeOK
    PROVE  /\ \A q \in Seq(ToServer) : Carried(q) \subseteq Nat
           /\ \A q \in Seq(ToPeer) : Carried(q) \subseteq Nat
           /\ srvVal \in Nat /\ val \in Nat /\ val > 0
           /\ \A p \in Peers : copy[p].v \in Nat
<1>1. \A m \in ToServer \cup ToPeer : Carries(m) \in Nat
  BY ValueAssumption DEF ToServer, ToPeer, Carries
<1>2. \A S : \A q \in Seq(S) : \A i \in DOMAIN q : q[i] \in S
  BY ElementOfSeq, LenProperties
<1>3. \A q \in Seq(ToServer) : Carried(q) \subseteq Nat  BY <1>1, <1>2 DEF Carried
<1>4. \A q \in Seq(ToPeer) : Carried(q) \subseteq Nat  BY <1>1, <1>2 DEF Carried
<1>5. \A p \in Peers : copy[p].v \in 0..MaxValue  BY DEF TypeOK
<1> QED  BY <1>3, <1>4, <1>5, ValueAssumption DEF TypeOK

\* What is picked from a sequence without changing the order.
LEMMA PickedRising ==
    ASSUME NEW q, NEW r, NEW f \in [DOMAIN r -> DOMAIN q],
           DOMAIN r \subseteq Nat, DOMAIN q \subseteq Nat,
           \A i \in DOMAIN r : r[i] = q[f[i]],
           \A i, j \in DOMAIN r : i < j => f[i] < f[j]
    PROVE  Carried(r) \subseteq Carried(q) /\ (Rising(q) => Rising(r))
<1>1. Carried(r) \subseteq Carried(q)  BY DEF Carried
<1>2. ASSUME Rising(q), NEW i \in DOMAIN r, NEW j \in DOMAIN r, i < j
      PROVE  Carries(r[j]) = 0 \/ Carries(r[i]) <= Carries(r[j])
  <2>1. f[i] \in DOMAIN q /\ f[j] \in DOMAIN q /\ f[i] < f[j]  BY <1>2
  <2>2. Carries(q[f[j]]) = 0 \/ Carries(q[f[i]]) <= Carries(q[f[j]])
    BY <1>2, <2>1 DEF Rising
  <2>3. r[i] = q[f[i]] /\ r[j] = q[f[j]]  OBVIOUS
  <2> QED  BY <2>2, <2>3
<1> QED  BY <1>1, <1>2 DEF Rising

LEMMA PrefixRising ==
    ASSUME NEW S, NEW q \in Seq(S), NEW i \in 0..Len(q)
    PROVE  /\ Carried(SubSeq(q, 1, i)) \subseteq Carried(q)
           /\ Rising(q) => Rising(SubSeq(q, 1, i))
<1> DEFINE r == SubSeq(q, 1, i)
           f == [k \in DOMAIN r |-> k]
<1>1. Len(q) \in Nat /\ DOMAIN q = 1..Len(q)  BY LenProperties
<1>2. r \in Seq(S) /\ Len(r) = i /\ \A k \in 1..i : r[k] = q[k]  BY PrefixFacts
<1>3. DOMAIN r = 1..i  BY <1>2, LenProperties
<1> HIDE DEF r
<1>4. f \in [DOMAIN r -> DOMAIN q]  BY <1>1, <1>3
<1>5. \A k \in DOMAIN r : r[k] = q[f[k]]  BY <1>2, <1>3
<1>6. \A j, k \in DOMAIN r : j < k => f[j] < f[k]  OBVIOUS
<1>7. DOMAIN r \subseteq Nat /\ DOMAIN q \subseteq Nat  BY <1>1, <1>3
<1> HIDE DEF f
<1>8. Carried(r) \subseteq Carried(q) /\ (Rising(q) => Rising(r))
  BY <1>4, <1>5, <1>6, <1>7, PickedRising
<1> QED  BY <1>8 DEF r

LEMMA WithoutRising ==
    ASSUME NEW S, NEW q \in Seq(S), NEW i \in 1..Len(q)
    PROVE  /\ Carried(Without(q, i)) \subseteq Carried(q)
           /\ Rising(q) => Rising(Without(q, i))
           /\ Rising(q) /\ i = 1 => \A c \in Carried(Without(q, i)) :
                                        c = 0 \/ Carries(q[1]) <= c
<1> DEFINE r == Without(q, i)
           f == [k \in DOMAIN r |-> IF k < i THEN k ELSE k + 1]
<1>1. Len(q) \in Nat /\ DOMAIN q = 1..Len(q) /\ i \in Nat  BY LenProperties
<1>2. r \in Seq(S) /\ Len(r) = Len(q) - 1
      /\ \A k \in 1..(Len(q) - 1) : r[k] = IF k < i THEN q[k] ELSE q[k + 1]
  BY WithoutFacts
<1>3. DOMAIN r = 1..(Len(q) - 1)  BY <1>2, LenProperties
<1> HIDE DEF r
<1>4. f \in [DOMAIN r -> DOMAIN q]  BY <1>1, <1>3
<1>5. \A k \in DOMAIN r : r[k] = q[f[k]]  BY <1>2, <1>3
<1>6. \A j, k \in DOMAIN r : j < k => f[j] < f[k]  BY <1>1, <1>3
<1>7. DOMAIN r \subseteq Nat /\ DOMAIN q \subseteq Nat  BY <1>1, <1>3
<1>8. ASSUME Rising(q), i = 1, NEW k \in DOMAIN r
      PROVE  Carries(r[k]) = 0 \/ Carries(q[1]) <= Carries(r[k])
  <2>1. r[k] = q[k + 1]  BY <1>2, <1>3, <1>8
  <2>2. k + 1 \in DOMAIN q /\ 1 \in DOMAIN q /\ 1 < k + 1  BY <1>1, <1>3
  <2>3. Carries(q[k + 1]) = 0 \/ Carries(q[1]) <= Carries(q[k + 1])
    BY <1>8, <2>2 DEF Rising
  <2> QED  BY <2>1, <2>3
<1> HIDE DEF f
<1>9. Carried(r) \subseteq Carried(q) /\ (Rising(q) => Rising(r))
  BY <1>4, <1>5, <1>6, <1>7, PickedRising
<1>10. Rising(q) /\ i = 1 => \A c \in Carried(r) : c = 0 \/ Carries(q[1]) <= c
  BY <1>8 DEF Carried
<1> QED  BY <1>9, <1>10 DEF r

LEMMA TailRising ==
    ASSUME NEW S, NEW q \in Seq(S), q # << >>
    PROVE  /\ Carries(Head(q)) \in Carried(q)
           /\ Carried(Tail(q)) \subseteq Carried(q)
           /\ Rising(q) => Rising(Tail(q))
           /\ Rising(q) => \A c \in Carried(Tail(q)) : c = 0 \/ Carries(Head(q)) <= c
<1> DEFINE r == Tail(q)
           f == [k \in DOMAIN r |-> k + 1]
<1>1. Len(q) \in Nat /\ DOMAIN q = 1..Len(q) /\ 1 \in DOMAIN q /\ Head(q) = q[1]
  BY LenProperties, HeadTailProperties, EmptySeq
<1>2. r \in Seq(S) /\ Len(r) = Len(q) - 1 /\ \A k \in 1..Len(r) : r[k] = q[k + 1]
  BY HeadTailProperties
<1>3. DOMAIN r = 1..(Len(q) - 1)  BY <1>2, LenProperties
<1> HIDE DEF r
<1>4. f \in [DOMAIN r -> DOMAIN q]  BY <1>1, <1>3
<1>5. \A k \in DOMAIN r : r[k] = q[f[k]]  BY <1>2, <1>3
<1>6. \A j, k \in DOMAIN r : j < k => f[j] < f[k]  BY <1>1, <1>3
<1>7. DOMAIN r \subseteq Nat /\ DOMAIN q \subseteq Nat  BY <1>1, <1>3
<1>8. ASSUME Rising(q), NEW k \in DOMAIN r
      PROVE  Carries(r[k]) = 0 \/ Carries(q[1]) <= Carries(r[k])
  <2>1. r[k] = q[k + 1] /\ k + 1 \in DOMAIN q /\ 1 < k + 1  BY <1>1, <1>2, <1>3
  <2> QED  BY <1>1, <1>8, <2>1 DEF Rising
<1> HIDE DEF f
<1>9. Carried(r) \subseteq Carried(q) /\ (Rising(q) => Rising(r))
  BY <1>4, <1>5, <1>6, <1>7, PickedRising
<1>10. Rising(q) => \A c \in Carried(r) : c = 0 \/ Carries(q[1]) <= c
  BY <1>8 DEF Carried
<1> QED  BY <1>1, <1>9, <1>10 DEF r, Carried

LEMMA ArrivedRising ==
    ASSUME NEW S, NEW q \in Seq(S), NEW fifo, NEW r \in Arrived(q, fifo)
    PROVE  Carried(r) \subseteq Carried(q) /\ (Rising(q) => Rising(r))
<1> DEFINE starts == {SubSeq(q, 1, i) : i \in 0..Len(q)}
<1>1. \A s \in starts : s \in Seq(S) /\ Carried(s) \subseteq Carried(q)
                        /\ (Rising(q) => Rising(s))
  BY PrefixFacts, PrefixRising
<1>2. \/ r \in starts
      \/ \E s \in starts : \E i \in DOMAIN s : r = Without(s, i)
  BY DEF Arrived
<1>3. ASSUME NEW s \in starts, NEW i \in DOMAIN s, r = Without(s, i)
      PROVE  Carried(r) \subseteq Carried(q) /\ (Rising(q) => Rising(r))
  <2>1. s \in Seq(S)  BY <1>1
  <2>2. i \in 1..Len(s)  BY <2>1, LenProperties
  <2>3. Carried(r) \subseteq Carried(s) /\ (Rising(s) => Rising(r))
    BY <1>3, <2>1, <2>2, WithoutRising
  <2> QED  BY <1>1, <2>3
<1> QED  BY <1>1, <1>2, <1>3

\* Packets that carry one value, after packets that carry no later one.
LEMMA ConcatRising ==
    ASSUME NEW S, NEW q \in Seq(S), NEW r \in Seq(S), NEW w \in Nat,
           Carried(q) \subseteq Nat, Carried(r) \subseteq {0, w}
    PROVE  /\ Carried(q \o r) \subseteq Carried(q) \cup {0, w}
           /\ Rising(q) /\ (w = 0 \/ \A c \in Carried(q) : c <= w) => Rising(q \o r)
<1> DEFINE t == q \o r
<1>1. Len(q) \in Nat /\ DOMAIN q = 1..Len(q) /\ Len(r) \in Nat /\ DOMAIN r = 1..Len(r)
  BY LenProperties
<1>2. t \in Seq(S) /\ Len(t) = Len(q) + Len(r)
      /\ \A k \in 1..(Len(q) + Len(r)) :
            t[k] = IF k <= Len(q) THEN q[k] ELSE r[k - Len(q)]
  BY ConcatProperties
<1>3. DOMAIN t = 1..(Len(q) + Len(r))  BY <1>2, LenProperties
<1> HIDE DEF t
<1>4. ASSUME NEW k \in DOMAIN t
      PROVE  \/ k \in DOMAIN q /\ t[k] = q[k] /\ Carries(t[k]) \in Carried(q)
             \/ k > Len(q) /\ Carries(t[k]) \in {0, w}
  <2>1. CASE k <= Len(q)
    <3>1. k \in DOMAIN q /\ t[k] = q[k]  BY <1>1, <1>2, <1>3, <2>1
    <3> QED  BY <3>1 DEF Carried
  <2>2. CASE ~(k <= Len(q))
    <3>1. k - Len(q) \in DOMAIN r /\ t[k] = r[k - Len(q)]  BY <1>1, <1>2, <1>3, <2>2
    <3>2. Carries(t[k]) \in Carried(r)  BY <3>1 DEF Carried
    <3> QED  BY <1>1, <1>3, <2>2, <3>2
  <2> QED  BY <2>1, <2>2
<1>5. Carried(t) \subseteq Carried(q) \cup {0, w}  BY <1>4 DEF Carried
<1>6. ASSUME Rising(q), w = 0 \/ \A c \in Carried(q) : c <= w,
             NEW i \in DOMAIN t, NEW j \in DOMAIN t, i < j
      PROVE  Carries(t[j]) = 0 \/ Carries(t[i]) <= Carries(t[j])
  <2>1. CASE j \in DOMAIN q /\ t[j] = q[j]
    <3>1. i \in DOMAIN q /\ t[i] = q[i]  BY <1>1, <1>2, <1>3, <1>6, <2>1
    <3> QED  BY <1>6, <2>1, <3>1 DEF Rising
  <2>2. CASE Carries(t[j]) \in {0, w}
    BY <1>4, <1>6, <2>2
  <2> QED  BY <1>4, <2>1, <2>2
<1>7. Rising(q) /\ (w = 0 \/ \A c \in Carried(q) : c <= w) => Rising(t)
  BY <1>6 DEF Rising
<1> QED  BY <1>5, <1>7 DEF t

---------------------------------------------------------------------------
(* Every step keeps Flow.                                                  *)

LEMMA FlowTyped ==
    ASSUME TypeOK
    PROVE  /\ Sent \subseteq Nat
           /\ \A p \in Peers : Shown(p) \subseteq Nat /\ Carried(toCli[p]) \subseteq Nat
           /\ toSrv \in Seq(ToServer) /\ \A p \in Peers : toCli[p] \in Seq(ToPeer)
BY CarriedTyped DEF Sent, Shown, TypeOK

\* The owner sends its value, or none.
LEMMA OwnerSendsFlow ==
    ASSUME TypeOK, Flow, NEW on, NEW r \in Seq(ToServer), Carried(r) \subseteq {0, val},
           toSrv' = Send(on, toSrv, r), UNCHANGED <<ordered, val, srvVal, copy, toCli>>
    PROVE  Flow'
<1>1. Sent' \subseteq Sent \cup {0, val} /\ (Rising(toSrv) => Rising(toSrv'))
  BY FlowTyped, CarriedTyped, ConcatRising DEF Send, Sent, Flow, Behind
<1>2. \A p \in Peers : Shown(p)' = Shown(p) /\ Carried(toCli'[p]) = Carried(toCli[p])
  BY DEF Shown
<1>3. \A b \in Sent' : b \in Nat  BY <1>1, FlowTyped, CarriedTyped
<1>4. Behind'  BY <1>1, <1>2, CarriedTyped DEF Flow, Behind
<1>5. ASSUME ordered PROVE ServerFlow'
  BY <1>1, <1>5, CarriedTyped DEF Flow, Behind, ServerFlow
<1>6. ASSUME ordered, NEW p \in Peers PROVE PeerFlow(p)'
  BY <1>1, <1>2, <1>6, CarriedTyped DEF Flow, Behind, PeerFlow
<1> QED  BY <1>4, <1>5, <1>6 DEF Flow

\* What the server sends a peer is its replica's value, or none.
LEMMA SrvPacketsCarry ==
    ASSUME TypeOK, NEW p \in Peers, NEW tick
    PROVE  Carried(SrvPackets(p, tick)) \subseteq {0, srvVal}
<1>1. Carries(Construct(held)) = 0 /\ Carries(Value(held, srvVal)) = srvVal
  BY DEF Carries, Construct, Value
<1>2. \A a \in Seq(ToPeer), b \in Seq(ToPeer) :
          Carried(a) \subseteq {0, srvVal} /\ Carried(b) \subseteq {0, srvVal}
          => Carried(a \o b) \subseteq {0, srvVal}
  BY CarriedTyped, ConcatRising
<1>3. Construct(held) \in ToPeer /\ Value(held, srvVal) \in ToPeer
  BY DEF TypeOK, ToPeer, Construct, Value
<1>4. /\ << >> \in Seq(ToPeer) /\ Carried(<< >>) \subseteq {0, srvVal}
      /\ <<Construct(held), Value(held, srvVal)>> \in Seq(ToPeer)
      /\ Carried(<<Construct(held), Value(held, srvVal)>>) \subseteq {0, srvVal}
      /\ <<Value(held, srvVal)>> \in Seq(ToPeer)
      /\ Carried(<<Value(held, srvVal)>>) \subseteq {0, srvVal}
  BY <1>1, <1>3 DEF Carried
<1> QED  BY <1>2, <1>4 DEF SrvPackets

LEMMA DeliverFlow ==
    ASSUME TypeOK, Flow, NEW tick, NEW extra, Deliver(tick, extra),
           \A p \in Peers : extra[p] \in Seq(ToPeer) /\ Carried(extra[p]) \subseteq {0},
           NEW p \in Peers
    PROVE  /\ Carried(toCli'[p]) \subseteq Carried(toCli[p]) \cup {0, srvVal}
           /\ ordered => Rising(toCli'[p])
<1> DEFINE r == SrvPackets(p, tick) \o extra[p]
<1>1. SrvPackets(p, tick) \in Seq(ToPeer) /\ extra[p] \in Seq(ToPeer)
      /\ toCli[p] \in Seq(ToPeer)
  BY SrvPacketsTyped DEF TypeOK
<1>2. Carried(SrvPackets(p, tick)) \subseteq {0, srvVal}  BY SrvPacketsCarry
<1>3. srvVal \in Nat /\ \A q \in Seq(ToPeer) : Carried(q) \subseteq Nat  BY CarriedTyped
<1>4. Carried(r) \subseteq Carried(SrvPackets(p, tick)) \cup {0, 0}
  BY <1>1, <1>3, ConcatRising
<1>5. r \in Seq(ToPeer) /\ Carried(r) \subseteq {0, srvVal}
  BY <1>1, <1>2, <1>4, ConcatProperties
<1>6. toCli'[p] = Send(up[p], toCli[p], r)  BY DEF Deliver
<1> HIDE DEF r
<1>7. ordered => Rising(toCli[p]) /\ (srvVal = 0 \/ \A c \in Carried(toCli[p]) : c <= srvVal)
  BY DEF Flow, PeerFlow, Shown
<1>8. CASE up[p]
  <2>1. toCli'[p] = toCli[p] \o r  BY <1>6, <1>8 DEF Send
  <2>2. /\ Carried(toCli[p] \o r) \subseteq Carried(toCli[p]) \cup {0, srvVal}
        /\ Rising(toCli[p]) /\ (srvVal = 0 \/ \A c \in Carried(toCli[p]) : c <= srvVal)
              => Rising(toCli[p] \o r)
    BY <1>1, <1>3, <1>5, ConcatRising
  <2> QED  BY <1>7, <2>1, <2>2
<1>9. CASE ~up[p]
  <2>1. toCli'[p] = toCli[p]  BY <1>6, <1>9 DEF Send
  <2> QED  BY <1>7, <2>1
<1> QED  BY <1>8, <1>9

\* A step of the server: its replica's value is cleared, kept or the next to arrive.
LEMMA ServerStepFlow ==
    ASSUME TypeOK, Flow, UNCHANGED <<ordered, val, copy>>,
           \A p \in Peers : /\ Carried(toCli'[p]) \subseteq Carried(toCli[p]) \cup {0, srvVal}
                            /\ ordered => Rising(toCli'[p]),
           Sent' \subseteq Sent, Rising(toSrv) /\ ordered => Rising(toSrv'),
           \/ srvVal' \in {0, srvVal}
           \/ /\ srvVal' \in Sent \ {0}
              /\ ordered => \A b \in Sent' : b = 0 \/ srvVal' <= b
    PROVE  Flow'
<1>1. \A p \in Peers : Shown(p)' \subseteq Shown(p) \cup {0, srvVal}  BY DEF Shown
<1>2. srvVal \in Nat /\ val \in Nat /\ Sent \subseteq Nat
      /\ \A p \in Peers : Shown(p) \subseteq Nat /\ Carried(toCli[p]) \subseteq Nat
                           /\ copy[p].v \in Nat
  BY FlowTyped, CarriedTyped
<1>3. Behind'
  <2>1. srvVal' <= val
    <3>1. 0 <= val  BY <1>2
    <3>2. srvVal <= val /\ \A b \in Sent : b <= val  BY DEF Flow, Behind
    <3>3. srvVal' = 0 \/ srvVal' = srvVal \/ srvVal' \in Sent  OBVIOUS
    <3> QED  BY <3>1, <3>2, <3>3
  <2>2. \A b \in Sent' : b <= val  BY DEF Flow, Behind
  <2>3. \A p \in Peers : \A a \in Shown(p)' : a <= val
    BY <1>1, <1>2 DEF Flow, Behind
  <2> QED  BY <2>1, <2>2, <2>3 DEF Behind
<1>4. ASSUME ordered PROVE ServerFlow'
  BY <1>2, <1>4 DEF Flow, ServerFlow
<1>5. ASSUME ordered, NEW p \in Peers PROVE PeerFlow(p)'
  <2>1. ServerFlow /\ PeerFlow(p)  BY <1>5 DEF Flow
  <2>2. copy'[p].v = copy[p].v /\ copy[p].v \in Shown(p)  BY DEF Shown
  <2>3. \A c \in Carried(toCli'[p]) : c = 0 \/ copy'[p].v <= c
    BY <1>2, <2>1, <2>2 DEF PeerFlow
  <2>4. ASSUME NEW a \in Shown(p)'
        PROVE  (srvVal' = 0 \/ a <= srvVal') /\ \A b \in Sent' : b = 0 \/ a <= b
    <3>1. a \in Shown(p) \cup {0, srvVal}  BY <1>1, <2>4
    <3>2. \A b \in Sent : b = 0 \/ a <= b
      BY <1>2, <2>1, <3>1 DEF ServerFlow, PeerFlow
    <3>3. srvVal' = 0 \/ a <= srvVal'
      <4>1. srvVal = 0 \/ a <= srvVal  BY <1>2, <2>1, <3>1 DEF PeerFlow
      <4> QED  BY <3>2, <4>1
    <3> QED  BY <3>2, <3>3
  <2> QED  BY <1>5, <2>3, <2>4 DEF PeerFlow
<1> QED  BY <1>3, <1>4, <1>5 DEF Flow

LEMMA TakingFlow ==
    ASSUME TypeOK, NEW i, NEW kind, Taking(i, kind)
    PROVE  /\ Sent' \subseteq Sent /\ (Rising(toSrv) => Rising(toSrv'))
           /\ Carries(toSrv[i]) \in Sent
           /\ ordered /\ Rising(toSrv) =>
                 \A b \in Sent' : b = 0 \/ Carries(toSrv[i]) <= b
<1>1. toSrv \in Seq(ToServer) /\ i \in 1..Len(toSrv) /\ toSrv' = Without(toSrv, i)
  BY TakingTyped DEF Taking, TypeOK
<1>2. DOMAIN toSrv = 1..Len(toSrv)  BY <1>1, LenProperties
<1>3. ordered => i = 1  BY DEF Taking
<1>4. Carries(toSrv[i]) \in Sent  BY <1>1, <1>2 DEF Sent, Carried
<1>5. /\ Carried(toSrv') \subseteq Carried(toSrv)
      /\ Rising(toSrv) => Rising(toSrv')
      /\ Rising(toSrv) /\ i = 1 =>
            \A b \in Carried(toSrv') : b = 0 \/ Carries(toSrv[1]) <= b
  BY <1>1, WithoutRising
<1> QED  BY <1>3, <1>4, <1>5 DEF Sent

LEMMA OwnerFlow ==
    ASSUME TypeOK, Flow, OwnerReceive
    PROVE  Flow'
<1>1. PICK tick \in BOOLEAN :
          OwnerUpdate(tick) \/ OwnerOnAccepted(tick) \/ OwnerOnLost(tick)
  BY DEF OwnerReceive
<1> DEFINE a == IF link # "queued" THEN << >>
                ELSE IF id = NoId THEN <<Construct(id)>>
                ELSE <<Construct(id), Value(id, val)>>
           b == IF OwnerSends(tick) THEN <<Value(id, val)>> ELSE << >>
<1>2. Construct(id) \in ToServer /\ Value(id, val) \in ToServer
  BY DEF TypeOK, ToServer, Construct, Value
<1>3. Carries(Construct(id)) = 0 /\ \A k : Carries(Value(k, val)) = val
  BY DEF Carries, Construct, Value
<1>4. a \in Seq(ToServer) /\ Carried(a) \subseteq {0, val}  BY <1>2, <1>3 DEF Carried
<1>5. b \in Seq(ToServer) /\ Carried(b) \subseteq {0, val}  BY <1>2, <1>3 DEF Carried
<1>6. \A r \in Seq(ToServer), s \in Seq(ToServer) :
          Carried(r) \subseteq {0, val} /\ Carried(s) \subseteq {0, val}
          => r \o s \in Seq(ToServer) /\ Carried(r \o s) \subseteq {0, val}
  BY CarriedTyped, ConcatRising, ConcatProperties
<1>7. OwnerPackets(tick) = a \o b  BY DEF OwnerPackets
<1> HIDE DEF a, b
<1>8. OwnerPackets(tick) \in Seq(ToServer) /\ Carried(OwnerPackets(tick)) \subseteq {0, val}
  BY <1>4, <1>5, <1>6, <1>7
<1>9. CASE OwnerUpdate(tick)
  BY <1>8, <1>9, OwnerSendsFlow DEF OwnerUpdate, srvVars
<1>10. CASE OwnerOnAccepted(tick)
  <2> DEFINE c == <<Value(id', val)>>
  <2>1. Head(toOwn) \in ToOwner
    BY <1>10, HeadTailProperties DEF OwnerOnAccepted, TypeOK
  <2>2. id' \in Ids  BY <1>10, <2>1 DEF OwnerOnAccepted, ToOwner
  <2>3. Value(id', val) \in ToServer  BY <2>2 DEF TypeOK, ToServer, Value
  <2>4. c \in Seq(ToServer) /\ Carried(c) \subseteq {0, val}
    BY <1>3, <2>3 DEF Carried
  <2>5. toSrv' = Send(wire, toSrv, OwnerPackets(tick) \o c)
    BY <1>10 DEF OwnerOnAccepted
  <2> HIDE DEF c
  <2>6. OwnerPackets(tick) \o c \in Seq(ToServer)
        /\ Carried(OwnerPackets(tick) \o c) \subseteq {0, val}
    BY <1>6, <1>8, <2>4
  <2> QED  BY <1>10, <2>5, <2>6, OwnerSendsFlow DEF OwnerOnAccepted, srvVars
<1>11. CASE OwnerOnLost(tick)
  BY <1>11 DEF OwnerOnLost, srvVars, Flow, Behind, ServerFlow, PeerFlow, Sent, Shown
<1> QED  BY <1>1, <1>9, <1>10, <1>11

LEMMA ServerFlows ==
    ASSUME TypeOK, Flow, ServerReceive
    PROVE  Flow'
<1>1. PICK tick \in BOOLEAN :
        \/ ServerUpdate(tick)
        \/ \E i \in DOMAIN toSrv : ServerOnConstruct(i, tick) \/ ServerOnValue(i, tick)
        \/ ServerOnLost(tick)
        \/ \E p \in Peers : ServerOnPeerLost(p, tick)
  BY DEF ServerReceive
<1>2. Flow => (ordered => Rising(toSrv) /\ ServerFlow)  BY DEF Flow, ServerFlow
<1>3. \A p \in Peers : NoPackets[p] \in Seq(ToPeer) /\ Carried(NoPackets[p]) \subseteq {0}
  BY NoPacketsTyped DEF NoPackets, Carried
<1>4. ASSUME Deliver(tick, NoPackets), NEW p \in Peers
      PROVE  /\ Carried(toCli'[p]) \subseteq Carried(toCli[p]) \cup {0, srvVal}
             /\ ordered => Rising(toCli'[p])
  BY <1>3, <1>4, DeliverFlow
<1>5. CASE ServerUpdate(tick)
  <2>1. Sent' = Sent /\ toSrv' = toSrv  BY <1>5 DEF ServerUpdate, Sent
  <2> QED  BY <1>2, <1>4, <1>5, <2>1, ServerStepFlow DEF ServerUpdate, ownVars
<1>6. ASSUME NEW i \in DOMAIN toSrv, ServerOnConstruct(i, tick)
      PROVE  Flow'
  <2>1. Sent' \subseteq Sent /\ (Rising(toSrv) => Rising(toSrv'))
    BY <1>6, TakingFlow DEF ServerOnConstruct
  <2>2. srvVal' = 0  BY <1>6 DEF ServerOnConstruct, Unset
  <2>3. UNCHANGED <<ordered, val, copy>> /\ Deliver(tick, NoPackets)
    BY <1>6 DEF ServerOnConstruct, ownVars
  <2> QED  BY <1>4, <2>1, <2>2, <2>3, ServerStepFlow
<1>7. ASSUME NEW i \in DOMAIN toSrv, ServerOnValue(i, tick)
      PROVE  Flow'
  <2>1. Taking(i, "value")  BY <1>7 DEF ServerOnValue
  <2>2. /\ Sent' \subseteq Sent /\ (Rising(toSrv) => Rising(toSrv'))
        /\ Carries(toSrv[i]) \in Sent
        /\ ordered /\ Rising(toSrv) => \A b \in Sent' : b = 0 \/ Carries(toSrv[i]) <= b
    BY <2>1, TakingFlow
  <2>3. Carries(toSrv[i]) = toSrv[i].v  BY <2>1 DEF Taking, Carries
  <2>4. srvVal' = srvVal \/ srvVal' = Carries(toSrv[i])
    BY <1>7, <2>3 DEF ServerOnValue
  <2>5. \/ srvVal' \in {0, srvVal}
        \/ /\ srvVal' \in Sent \ {0}
           /\ ordered => \A b \in Sent' : b = 0 \/ srvVal' <= b
    BY <1>2, <2>2, <2>4
  <2>6. UNCHANGED <<ordered, val, copy>> /\ Deliver(tick, NoPackets)
    BY <1>7 DEF ServerOnValue, ownVars
  <2> QED  BY <1>4, <2>2, <2>5, <2>6, ServerStepFlow
<1>8. CASE ServerOnLost(tick)
  <2> DEFINE farewell == [p \in Peers |-> IF p \in Listed THEN <<Destruct(held)>> ELSE << >>]
  <2>1. Destruct(held) \in ToPeer /\ Carries(Destruct(held)) = 0
    BY DEF Destruct, ToPeer, TypeOK, Carries
  <2>2. \A p \in Peers : farewell[p] \in Seq(ToPeer) /\ Carried(farewell[p]) \subseteq {0}
    BY <2>1 DEF Carried
  <2>3. Deliver(tick, farewell)  BY <1>8 DEF ServerOnLost
  <2> HIDE DEF farewell
  <2>4. \A p \in Peers : /\ Carried(toCli'[p]) \subseteq Carried(toCli[p]) \cup {0, srvVal}
                         /\ ordered => Rising(toCli'[p])
    BY <2>2, <2>3, DeliverFlow
  <2>5. Sent' \subseteq Sent /\ (Rising(toSrv) => Rising(toSrv'))
    BY <1>8, TakingFlow DEF ServerOnLost
  <2>6. srvVal' = 0 /\ UNCHANGED <<ordered, val, copy>>
    BY <1>8 DEF ServerOnLost, Unset, ownVars
  <2> QED  BY <2>4, <2>5, <2>6, ServerStepFlow
<1>9. ASSUME NEW p \in Peers, ServerOnPeerLost(p, tick)
      PROVE  Flow'
  <2>1. Sent' = Sent /\ toSrv' = toSrv  BY <1>9 DEF ServerOnPeerLost, Sent
  <2>2. UNCHANGED <<ordered, val, copy, srvVal>> /\ Deliver(tick, NoPackets)
    BY <1>9 DEF ServerOnPeerLost, ownVars
  <2> QED  BY <1>4, <2>1, <2>2, ServerStepFlow
<1> QED  BY <1>1, <1>5, <1>6, <1>7, <1>8, <1>9

\* What a peer's Receive does to its copy.
LEMMA PeerShows ==
    ASSUME TypeOK, Flow, NEW p \in Peers, PeerReceive(p)
    PROVE  /\ \A o \in Peers \ {p} : copy'[o] = copy[o] /\ toCli'[o] = toCli[o]
           /\ copy'[p].v \in {0, copy[p].v} \/ copy'[p].v = Carries(Head(toCli[p]))
           /\ toCli[p] \in Seq(ToPeer) /\ toCli[p] # << >> /\ toCli'[p] = Tail(toCli[p])
<1>1. toCli[p] \in Seq(ToPeer) /\ toCli[p] # << >> /\ toCli'[p] = Tail(toCli[p])
      /\ \A o \in Peers \ {p} : copy'[o] = copy[o] /\ toCli'[o] = toCli[o]
  BY DEF PeerReceive, TypeOK
<1> DEFINE m == Head(toCli[p])
<1>2. \/ copy'[p] = copy[p] \/ copy'[p] = NoCopy
      \/ copy'[p] = [id |-> m.id, v |-> Unset]
      \/ m.kind = "value" /\ copy'[p] = [id |-> m.id, v |-> m.v]
  BY DEF PeerReceive, TypeOK
<1> QED  BY <1>1, <1>2 DEF NoCopy, Unset, Carries

LEMMA PeerFlows ==
    ASSUME TypeOK, Flow, NEW p \in Peers, PeerReceive(p)
    PROVE  Flow'
<1>1. /\ \A o \in Peers \ {p} : copy'[o] = copy[o] /\ toCli'[o] = toCli[o]
      /\ copy'[p].v \in {0, copy[p].v} \/ copy'[p].v = Carries(Head(toCli[p]))
      /\ toCli[p] \in Seq(ToPeer) /\ toCli[p] # << >> /\ toCli'[p] = Tail(toCli[p])
  BY PeerShows
<1>2. /\ Carries(Head(toCli[p])) \in Carried(toCli[p])
      /\ Carried(toCli'[p]) \subseteq Carried(toCli[p])
      /\ Rising(toCli[p]) => Rising(toCli'[p])
      /\ Rising(toCli[p]) => \A c \in Carried(toCli'[p]) :
             c = 0 \/ Carries(Head(toCli[p])) <= c
  BY <1>1, TailRising
<1>3. UNCHANGED <<ordered, val, srvVal, toSrv>> /\ Sent' = Sent
  BY DEF PeerReceive, ownVars, srvVars, Sent
<1>4. copy'[p].v \in Shown(p) \cup {0}  BY <1>1, <1>2 DEF Shown
<1>5. \A o \in Peers : Shown(o)' \subseteq Shown(o) \cup {0}
  BY <1>1, <1>2, <1>4 DEF Shown
<1>6. srvVal \in Nat /\ val \in Nat /\ Sent \subseteq Nat
      /\ \A o \in Peers : Shown(o) \subseteq Nat /\ copy[o].v \in Nat
      /\ Carried(toCli[p]) \subseteq Nat
  BY FlowTyped, CarriedTyped
<1>7. Behind'  BY <1>3, <1>5, <1>6 DEF Flow, Behind
<1>8. ASSUME ordered PROVE ServerFlow'
  BY <1>3, <1>8 DEF Flow, ServerFlow
<1>9. ASSUME ordered, NEW o \in Peers PROVE PeerFlow(o)'
  <2>1. PeerFlow(o)  BY <1>9 DEF Flow
  <2>2. \A a \in Shown(o)' :
           (srvVal' = 0 \/ a <= srvVal') /\ \A b \in Sent' : b = 0 \/ a <= b
    BY <1>3, <1>5, <1>6, <2>1 DEF PeerFlow
  <2>3. CASE o = p
    <3>1. Rising(toCli'[o])  BY <1>2, <2>1, <2>3 DEF PeerFlow
    <3>2. ASSUME NEW c \in Carried(toCli'[p])
          PROVE  c = 0 \/ copy'[p].v <= c
      <4>1. c \in Carried(toCli[p]) /\ 0 <= c  BY <1>2, <1>6
      <4>2. c = 0 \/ copy[p].v <= c  BY <2>1, <2>3, <4>1 DEF PeerFlow
      <4>3. c = 0 \/ Carries(Head(toCli[p])) <= c
        BY <1>2, <2>1, <2>3 DEF PeerFlow
      <4>4. \/ copy'[p].v = 0 \/ copy'[p].v = copy[p].v
            \/ copy'[p].v = Carries(Head(toCli[p]))
        BY <1>1
      <4>5. CASE copy'[p].v = 0  BY <4>1, <4>5
      <4>6. CASE copy'[p].v = copy[p].v  BY <4>2, <4>6
      <4>7. CASE copy'[p].v = Carries(Head(toCli[p]))  BY <4>3, <4>7
      <4> QED  BY <4>4, <4>5, <4>6, <4>7
    <3> QED  BY <2>2, <2>3, <3>1, <3>2 DEF PeerFlow
  <2>4. CASE o # p
    BY <1>1, <2>1, <2>2, <2>4 DEF PeerFlow
  <2> QED  BY <2>3, <2>4
<1> QED  BY <1>3, <1>7, <1>8, <1>9 DEF Flow

LEMMA TransportFlows ==
    ASSUME TypeOK, Flow,
           \/ Connect \/ Break
           \/ \E p \in Peers : ConnectPeer(p) \/ BreakPeer(p)
    PROVE  Flow'
<1>1. ASSUME UNCHANGED <<ordered, val, srvVal, copy, toSrv, toCli>>
      PROVE  Flow'
  BY <1>1 DEF Flow, Behind, ServerFlow, PeerFlow, Sent, Shown
<1>2. CASE Connect
  BY <1>1, <1>2 DEF Connect, srvVars
<1>3. CASE Break
  <2>1. PICK q \in Arrived(toSrv, ordered) : toSrv' = Append(q, Lost)
    BY <1>3 DEF Break
  <2>2. toSrv \in Seq(ToServer) /\ q \in Seq(ToServer) /\ Lost \in ToServer
    BY ArrivedTyped DEF TypeOK, Lost, ToServer, Ids, NoId
  <2>3. Carried(q) \subseteq Carried(toSrv) /\ (Rising(toSrv) => Rising(q))
    BY <2>2, ArrivedRising
  <2>4. toSrv' = q \o <<Lost>> /\ <<Lost>> \in Seq(ToServer)
    BY <2>1, <2>2, AppendIsConcat
  <2>5. Carried(<<Lost>>) \subseteq {0}  BY DEF Carried, Carries, Lost
  <2>6. /\ Carried(q \o <<Lost>>) \subseteq Carried(q) \cup {0, 0}
        /\ Rising(q) => Rising(q \o <<Lost>>)
    BY <2>2, <2>4, <2>5, CarriedTyped, ConcatRising
  <2>7. Sent' \subseteq Sent \cup {0} /\ (Rising(toSrv) => Rising(toSrv'))
    BY <2>3, <2>4, <2>6 DEF Sent
  <2>8. UNCHANGED <<ordered, val, srvVal, copy, toCli>>
        /\ \A p \in Peers : Shown(p)' = Shown(p)
    BY <1>3 DEF Break, ownVars, srvVars, Shown
  <2>9. Behind'  BY <2>7, <2>8, CarriedTyped DEF Flow, Behind
  <2>10. ASSUME ordered PROVE ServerFlow'
    BY <2>7, <2>8, <2>10 DEF Flow, ServerFlow
  <2>11. ASSUME ordered, NEW p \in Peers PROVE PeerFlow(p)'
    BY <2>7, <2>8, <2>11 DEF Flow, PeerFlow
  <2> QED  BY <2>8, <2>9, <2>10, <2>11 DEF Flow
<1>4. ASSUME NEW p \in Peers, ConnectPeer(p)
      PROVE  Flow'
  BY <1>1, <1>4 DEF ConnectPeer, ownVars
<1>5. ASSUME NEW p \in Peers, BreakPeer(p)
      PROVE  Flow'
  <2>1. PICK q \in Arrived(toCli[p], TRUE) : toCli' = [toCli EXCEPT ![p] = q]
    BY <1>5 DEF BreakPeer
  <2>2. toCli' \in [Peers -> Seq(ToPeer)] /\ toCli'[p] = q
        /\ \A o \in Peers \ {p} : toCli'[o] = toCli[o]
    BY <2>1, ArrivedTyped DEF TypeOK
  <2>3. Carried(q) \subseteq Carried(toCli[p]) /\ (Rising(toCli[p]) => Rising(q))
    BY ArrivedRising DEF TypeOK
  <2>4. \A o \in Peers : /\ Carried(toCli'[o]) \subseteq Carried(toCli[o])
                         /\ Rising(toCli[o]) => Rising(toCli'[o])
    BY <2>2, <2>3
  <2>5. UNCHANGED <<ordered, val, srvVal, copy, toSrv>> /\ Sent' = Sent
    BY <1>5 DEF BreakPeer, ownVars, srvVars, Sent
  <2>6. \A o \in Peers : Shown(o)' \subseteq Shown(o)  BY <2>4, <2>5 DEF Shown
  <2>7. Behind'  BY <2>5, <2>6 DEF Flow, Behind
  <2>8. ASSUME ordered PROVE ServerFlow'
    BY <2>5, <2>8 DEF Flow, ServerFlow
  <2>9. ASSUME ordered, NEW o \in Peers PROVE PeerFlow(o)'
    BY <2>4, <2>5, <2>6, <2>9 DEF Flow, PeerFlow
  <2> QED  BY <2>5, <2>7, <2>8, <2>9 DEF Flow
<1> QED  BY <1>2, <1>3, <1>4, <1>5

\* An owner that writes no value twice: the one step that needs it.
LEMMA UpdateFlows ==
    ASSUME ~Reverts, TypeOK, Flow, NEW v \in 1..MaxValue, UpdateNode(v)
    PROVE  Flow' /\ val' \in Nat /\ val' > val
<1>1. val' = v /\ v > val /\ UNCHANGED <<ordered, srvVal, copy, toSrv, toCli>>
  BY DEF UpdateNode, srvVars
<1>2. val \in Nat /\ srvVal \in Nat /\ Sent \subseteq Nat
      /\ \A p \in Peers : Shown(p) \subseteq Nat
  BY FlowTyped, CarriedTyped
<1>3. Sent' = Sent /\ \A p \in Peers : Shown(p)' = Shown(p)
  BY <1>1 DEF Sent, Shown
<1>4. Behind'  BY <1>1, <1>2, <1>3 DEF Flow, Behind
<1>5. ordered => ServerFlow' /\ \A p \in Peers : PeerFlow(p)'
  BY <1>1, <1>3 DEF Flow, ServerFlow, PeerFlow
<1> QED  BY <1>1, <1>4, <1>5 DEF Flow

LEMMA InitFlows == Init => Flow
<1> SUFFICES ASSUME Init PROVE Flow
  OBVIOUS
<1>1. Carried(<< >>) = {} /\ Rising(<< >>)  BY DEF Carried, Rising
<1>2. Sent = {} /\ Rising(toSrv) /\ srvVal = 0 /\ val = 1
      /\ \A p \in Peers : Carried(toCli[p]) = {} /\ Rising(toCli[p])
                          /\ copy[p].v = 0 /\ Shown(p) = {0}
  BY <1>1 DEF Init, Sent, Shown, NoCopy, Unset
<1> QED  BY <1>2 DEF Flow, Behind, ServerFlow, PeerFlow

LEMMA NextFlows ==
    ASSUME ~Reverts
    PROVE  TypeOK /\ Flow /\ [Next]_vars => Flow'
<1> SUFFICES ASSUME TypeOK, Flow, [Next]_vars PROVE Flow'
  OBVIOUS
<1>1. ASSUME NEW v \in 1..MaxValue, UpdateNode(v) PROVE Flow'
  BY <1>1, UpdateFlows
<1>2. CASE OwnerReceive  BY <1>2, OwnerFlow
<1>3. CASE ServerReceive  BY <1>3, ServerFlows
<1>4. ASSUME NEW p \in Peers, PeerReceive(p) PROVE Flow'
  BY <1>4, PeerFlows
<1>5. CASE \/ Connect \/ Break
           \/ \E p \in Peers : ConnectPeer(p) \/ BreakPeer(p)
  BY <1>5, TransportFlows
<1>6. CASE UNCHANGED vars
  BY <1>6 DEF vars, ownVars, srvVars, Flow, Behind, ServerFlow, PeerFlow, Sent, Shown
<1> QED  BY <1>1, <1>2, <1>3, <1>4, <1>5, <1>6 DEF Next

---------------------------------------------------------------------------
(* The refinement.                                                         *)

Seen == [p \in Peers |-> copy[p].v]

LEMMA InitShared == Init => Shared!Init
BY DEF Init, Shared!Init, NoCopy, Unset

\* Only Receive changes what a peer shows, to the next value on its way.
LEMMA ReceiveShared ==
    ASSUME TypeOK, Flow, NEW p \in Peers, PeerReceive(p)
    PROVE  UNCHANGED <<ordered, val>> /\ (Shared!See(p) \/ UNCHANGED Seen)
<1>1. /\ \A o \in Peers \ {p} : copy'[o] = copy[o]
      /\ copy'[p].v \in {0, copy[p].v} \/ copy'[p].v = Carries(Head(toCli[p]))
      /\ toCli[p] \in Seq(ToPeer) /\ toCli[p] # << >>
  BY PeerShows
<1>2. Carries(Head(toCli[p])) \in Carried(toCli[p])  BY <1>1, TailRising
<1>3. UNCHANGED <<ordered, val>>  BY DEF PeerReceive, ownVars
<1>4. val \in Nat /\ copy[p].v \in Nat /\ Carried(toCli[p]) \subseteq Nat
  BY FlowTyped, CarriedTyped
<1>5. CASE copy'[p].v = copy[p].v
  <2>1. \A o \in Peers : copy'[o].v = copy[o].v  BY <1>1, <1>5
  <2> QED  BY <1>3, <2>1 DEF Seen
<1>6. CASE copy'[p].v # copy[p].v
  <2> DEFINE w == copy'[p].v
  <2>1. w = 0 \/ w \in Carried(toCli[p])  BY <1>1, <1>2, <1>6
  <2>2. w \in 0..val
    <3>1. \A a \in Carried(toCli[p]) : a <= val  BY DEF Flow, Behind, Shown
    <3> QED  BY <1>4, <2>1, <3>1
  <2>3. ordered => w > copy[p].v \/ w = 0
    <3>1. ordered => \A c \in Carried(toCli[p]) : c = 0 \/ copy[p].v <= c
      BY DEF Flow, PeerFlow
    <3> QED  BY <1>4, <1>6, <2>1, <2>2, <3>1
  <2>4. Seen' = [Seen EXCEPT ![p] = w]  BY <1>1 DEF Seen
  <2>5. Seen[p] = copy[p].v  BY DEF Seen
  <2> HIDE DEF w
  <2>6. Shared!See(p)  BY <1>3, <2>2, <2>3, <2>4, <2>5 DEF Shared!See, Seen
  <2> QED  BY <1>3, <2>6
<1> QED  BY <1>5, <1>6

LEMMA StepShared ==
    ASSUME ~Reverts
    PROVE  TypeOK /\ Flow /\ [Next]_vars
           => [Shared!Next]_<<ordered, val, [p \in Peers |-> copy[p].v]>>
<1> SUFFICES ASSUME TypeOK, Flow, [Next]_vars
             PROVE  [Shared!Next]_<<ordered, val, Seen>>
  BY DEF Seen
<1>1. ASSUME NEW v \in 1..MaxValue, UpdateNode(v) PROVE Shared!Next
  <2>1. val' \in Nat /\ val' > val  BY <1>1, UpdateFlows
  <2>2. UNCHANGED <<ordered, copy>>  BY <1>1 DEF UpdateNode
  <2> QED  BY <2>1, <2>2 DEF Shared!Next, Shared!Write
<1>2. ASSUME UNCHANGED <<ordered, val, copy>>
      PROVE  UNCHANGED <<ordered, val, Seen>>
  BY <1>2 DEF Seen
<1>3. CASE OwnerReceive
  BY <1>2, <1>3 DEF OwnerReceive, OwnerUpdate, OwnerOnAccepted, OwnerOnLost
<1>4. CASE ServerReceive
  BY <1>2, <1>4
  DEF ServerReceive, ServerUpdate, ServerOnConstruct, ServerOnValue, ServerOnLost,
      ServerOnPeerLost, ownVars
<1>5. ASSUME NEW p \in Peers, PeerReceive(p)
      PROVE  Shared!Next \/ UNCHANGED <<ordered, val, Seen>>
  BY <1>5, ReceiveShared DEF Shared!Next
<1>6. CASE \/ Connect \/ Break
           \/ \E p \in Peers : ConnectPeer(p) \/ BreakPeer(p)
  BY <1>2, <1>6 DEF Connect, Break, ConnectPeer, BreakPeer, ownVars
<1>7. CASE UNCHANGED vars
  BY <1>2, <1>7 DEF vars, ownVars
<1> QED  BY <1>1, <1>3, <1>4, <1>5, <1>6, <1>7 DEF Next

\* ImplementsShared, for an owner that never writes a value it had before: a
\* copy only shows what its owner has written and, with ordered packets, never
\* goes back to an older value, whatever joins, leaves and breaks meanwhile.
THEOREM CopiesFollowOwner ==
    ASSUME ~Reverts
    PROVE  Spec => ImplementsShared
<1>1. Init => TypeOK /\ Flow  BY InitTyped, InitFlows
<1>2. TypeOK /\ Flow /\ [Next]_vars => (TypeOK /\ Flow)'  BY NextTyped, NextFlows
<1>3. TypeOK /\ Flow /\ [Next]_vars
      => [Shared!Next]_<<ordered, val, [p \in Peers |-> copy[p].v]>>
  BY StepShared
<1> QED  BY <1>1, <1>2, <1>3, InitShared, PTL DEF Spec, ImplementsShared, Shared!Spec
============================================================================
