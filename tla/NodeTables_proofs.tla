------------------------- MODULE NodeTables_proofs -------------------------
(***************************************************************************)
(* Proofs about NodeTables, for every number of peers, ids, types, replicas *)
(* and outages.                                                            *)
(*                                                                         *)
(* TypeCorrect holds of any application.  The others are about            *)
(* applications that use an id once: then whatever two replicas of a peer  *)
(* the viewer may hold differ in their ids (MadeInv), a destruction finds  *)
(* its own entry or none, and so every table holds replicas of the list,   *)
(* each of them once (VInv), which is what makes the next destruction   *)
(* find its own entry again.                                               *)
(***************************************************************************)
EXTENDS NodeTables, SequenceTheorems, FiniteSetTheorems, TLAPS

\* Whatever a replica can be.
MadeAll == UNION {made[p] : p \in Peers}

PacketsOf(S) == [kind : {"new", "del"}, rs : SUBSET S]

MadeInv ==
    /\ made \in [Peers -> SUBSET Replicas]
    /\ nodeMap \in [Peers -> SUBSET Replicas]
    /\ mine \in [Peers -> SUBSET Replicas]
    /\ \A p \in Peers : /\ IsFiniteSet(made[p])
                        /\ nodeMap[p] \subseteq made[p]
                        /\ mine[p] \subseteq made[p]
                        /\ \A r \in made[p] : r.peer = p

PathInv ==
    /\ inbox \in Seq(PacketsOf(MadeAll))
    /\ linked \in BOOLEAN /\ outages \in Nat
    /\ held \subseteq MadeAll

MapInv ==
    /\ table = [t \in Types |-> table[t]] /\ \A t \in Types : IsMap(table[t])
    /\ IsMap(nodes) /\ IsMap(news)

TInv == MadeInv /\ PathInv /\ MapInv

---------------------------------------------------------------------------
(* Vectors and maps.                                                       *)

LEMMA EraseAtFacts ==
    ASSUME NEW S, NEW q \in Seq(S), NEW i \in DOMAIN q
    PROVE  /\ EraseAt(q, i) \in Seq(S)
           /\ Len(EraseAt(q, i)) = Len(q) - 1
           /\ \A j \in 1..(Len(q) - 1) :
                 EraseAt(q, i)[j] = IF j < i THEN q[j] ELSE q[j + 1]
<1>1. Len(q) \in Nat /\ i \in 1..Len(q)  BY LenProperties
<1> DEFINE a == SubSeq(q, 1, i - 1)
           b == SubSeq(q, i + 1, Len(q))
<1>2. /\ a \in Seq(S) /\ Len(a) = i - 1
      /\ \A j \in 1..(i - 1) : a[j] = q[j]
  <2>1. \A j \in 1..(i - 1) : q[j] \in S  BY <1>1, ElementOfSeq
  <2>2. 1 \in Int /\ i - 1 \in Int  BY <1>1
  <2>3. a \in Seq(S)  BY <2>1, <2>2, SubSeqProperties
  <2>4. Len(a) = i - 1  BY <1>1, <2>1, <2>2, SubSeqProperties
  <2>5. \A j \in 1..(i - 1) : a[j] = q[j]  BY <1>1, <2>1, <2>2, SubSeqProperties
  <2> QED  BY <2>3, <2>4, <2>5
<1>3. /\ b \in Seq(S) /\ Len(b) = Len(q) - i
      /\ \A j \in 1..(Len(q) - i) : b[j] = q[i + j]
  <2>1. \A j \in (i + 1)..Len(q) : q[j] \in S  BY <1>1, ElementOfSeq
  <2>2. i + 1 \in Int /\ Len(q) \in Int  BY <1>1
  <2>3. b \in Seq(S)  BY <2>1, <2>2, SubSeqProperties
  <2>4. Len(b) = Len(q) - i  BY <1>1, <2>1, <2>2, SubSeqProperties
  <2>5. \A j \in 1..(Len(q) - i) : b[j] = q[i + j]  BY <1>1, <2>1, <2>2, SubSeqProperties
  <2> QED  BY <2>3, <2>4, <2>5
<1>4. /\ a \o b \in Seq(S) /\ Len(a \o b) = Len(a) + Len(b)
      /\ \A j \in 1..(Len(a) + Len(b)) :
            (a \o b)[j] = IF j <= Len(a) THEN a[j] ELSE b[j - Len(a)]
  BY <1>2, <1>3, ConcatProperties
<1>5. EraseAt(q, i) = a \o b  BY DEF EraseAt
<1> HIDE DEF a, b
<1>6. ASSUME NEW j \in 1..(Len(q) - 1)
      PROVE  (a \o b)[j] = IF j < i THEN q[j] ELSE q[j + 1]
  <2>1. j \in 1..(Len(a) + Len(b))  BY <1>1, <1>2, <1>3, <1>6
  <2>2. CASE j < i
    <3>1. j <= Len(a) /\ j \in 1..(i - 1)  BY <1>1, <1>2, <1>6, <2>2
    <3> QED  BY <3>1, <2>1, <1>2, <1>4, <2>2
  <2>3. CASE ~(j < i)
    <3>1. ~(j <= Len(a)) /\ j - Len(a) \in 1..(Len(q) - i) /\ i + (j - Len(a)) = j + 1
      BY <1>1, <1>2, <1>6, <2>3
    <3>2. (a \o b)[j] = b[j - Len(a)]  BY <3>1, <2>1, <1>4
    <3>3. b[j - Len(a)] = q[i + (j - Len(a))]  BY <3>1, <1>3
    <3> QED  BY <3>1, <3>2, <3>3, <2>3
  <2> QED  BY <2>2, <2>3
<1>7. Len(a \o b) = Len(q) - 1  BY <1>1, <1>2, <1>3, <1>4
<1> QED  BY <1>4, <1>5, <1>6, <1>7

\* What an erasure leaves is a vector of the same things.
LEMMA EraseFirstTyped ==
    ASSUME NEW q \in Seq(Replicas), NEW r, NEW suspects,
           NEW s \in EraseFirst(q, r, suspects)
    PROVE  s \in Seq(Replicas)
<1>1. s = q \/ \E i \in DOMAIN q : s = EraseAt(q, i)
  BY DEF EraseFirst
<1> QED  BY <1>1, EraseAtFacts

LEMMA AtTyped ==
    ASSUME NEW f, IsMap(f), NEW p
    PROVE  At(f, p) \in Seq(Replicas)
BY EmptySeq DEF At, IsMap

LEMMA WithTyped ==
    ASSUME NEW f, IsMap(f), NEW p \in Peers, NEW q \in Seq(Replicas)
    PROVE  IsMap(With(f, p, q))
BY DEF With, IsMap

LEMMA DroppedTyped ==
    ASSUME NEW f, IsMap(f), NEW p
    PROVE  IsMap(Dropped(f, p))
BY DEF Dropped, IsMap

LEMMA EmptyTyped == IsMap(EmptyMap)
BY DEF EmptyMap, IsMap

---------------------------------------------------------------------------
(* Packets.                                                                *)

LEMMA PostTyped ==
    ASSUME NEW S, inbox \in Seq(PacketsOf(S)), NEW kind \in {"new", "del"},
           NEW rs \in SUBSET S
    PROVE  Post(kind, rs) \in Seq(PacketsOf(S))
<1>1. Packet(kind, rs) \in PacketsOf(S)  BY DEF Packet, PacketsOf
<1> QED  BY <1>1, AppendProperties DEF Post

LEMMA PathGrows ==
    ASSUME NEW S, NEW T, S \subseteq T, NEW q \in Seq(PacketsOf(S))
    PROVE  q \in Seq(PacketsOf(T))
<1>1. PacketsOf(S) \subseteq PacketsOf(T)  BY DEF PacketsOf
<1>2. Len(q) \in Nat /\ q \in [1..Len(q) -> PacketsOf(S)]  BY SeqDef, LenProperties
<1> QED  BY <1>1, <1>2, SeqDef

LEMMA TakenTyped ==
    ASSUME NEW S, inbox \in Seq(PacketsOf(S)), NEW kind, NEW r, Arriving(kind, r)
    PROVE  Taken(r) \in Seq(PacketsOf(S)) /\ r \in S
<1>1. Head(inbox) \in PacketsOf(S) /\ Tail(inbox) \in Seq(PacketsOf(S))
  BY HeadTailProperties DEF Arriving
<1>2. [Head(inbox) EXCEPT !.rs = Head(inbox).rs \ {r}] \in PacketsOf(S)
  BY <1>1 DEF PacketsOf
<1>3. <<[Head(inbox) EXCEPT !.rs = Head(inbox).rs \ {r}]>> \in Seq(PacketsOf(S))
  BY <1>2
<1>4. <<[Head(inbox) EXCEPT !.rs = Head(inbox).rs \ {r}]>> \o Tail(inbox)
        \in Seq(PacketsOf(S))
  BY <1>1, <1>3, ConcatProperties
<1> QED  BY <1>1, <1>4 DEF Taken, Arriving, PacketsOf
---------------------------------------------------------------------------
(* Types, whatever ids the applications use.                               *)

LEMMA NewReplica ==
    ASSUME MadeInv, NEW p \in Peers, NEW id \in Ids, NEW t \in Types, AddNode(p, id, t),
           NEW r, r = [peer |-> p, type |-> t, id |-> id, k |-> NextReplica(p)]
    PROVE  /\ r \in Replicas
           /\ made' = [made EXCEPT ![p] = @ \cup {r}]
           /\ mine' = [mine EXCEPT ![p] = @ \cup {r}]
           /\ inbox' = Post("new", {r})
           /\ MadeAll' = MadeAll \cup {r}
           /\ MadeInv'
<1>1. NextReplica(p) \in Nat \ {0}
  <2>1. Cardinality(made[p]) \in Nat  BY FS_CardinalityType DEF MadeInv
  <2> QED  BY <2>1 DEF NextReplica
<1>2. r \in Replicas  BY <1>1 DEF Replicas
<1>3. /\ made' = [made EXCEPT ![p] = @ \cup {r}]
      /\ mine' = [mine EXCEPT ![p] = @ \cup {r}]
      /\ inbox' = Post("new", {r})
  BY DEF AddNode
<1>4. nodeMap' = [nodeMap EXCEPT ![p] =
                    (@ \ {x \in nodeMap[p] : x.type = t /\ x.id = id}) \cup {r}]
  BY DEF AddNode
<1>5. MadeAll' = MadeAll \cup {r}
  BY <1>3 DEF MadeAll, MadeInv
<1>6. IsFiniteSet(made[p] \cup {r})
  BY FS_AddElement DEF MadeInv
<1>7. MadeInv'
  BY <1>2, <1>3, <1>4, <1>6 DEF MadeInv
<1> QED  BY <1>2, <1>3, <1>5, <1>7

LEMMA OwnerStep ==
    ASSUME TInv, NEW p \in Peers,
           \/ \E r \in nodeMap[p] : RemoveNode(p, r)
           \/ RemoveAllNodes(p)
           \/ PeerReturns(p)
    PROVE  TInv' /\ made' = made /\ UNCHANGED viewVars
<1>1. made' = made /\ UNCHANGED viewVars /\ MadeAll' = MadeAll
  BY DEF RemoveNode, RemoveAllNodes, PeerReturns, viewVars, MadeAll
<1>2. MadeInv'
  <2>1. ASSUME NEW r \in nodeMap[p], RemoveNode(p, r)  PROVE MadeInv'
    BY <2>1 DEF RemoveNode, TInv, MadeInv
  <2>2. CASE RemoveAllNodes(p)
    BY <2>2 DEF RemoveAllNodes, TInv, MadeInv
  <2>3. CASE PeerReturns(p)
    BY <2>3 DEF PeerReturns, TInv, MadeInv
  <2> QED  BY <2>1, <2>2, <2>3
<1>3. made[p] \subseteq MadeAll /\ mine[p] \subseteq MadeAll
  BY DEF TInv, MadeInv, MadeAll
<1>4. inbox' \in Seq(PacketsOf(MadeAll)) /\ linked' \in BOOLEAN /\ outages' \in Nat
  <2>1. ASSUME NEW r \in nodeMap[p], RemoveNode(p, r)
        PROVE  inbox' \in Seq(PacketsOf(MadeAll)) /\ linked' \in BOOLEAN /\ outages' \in Nat
    <3>1. {r} \in SUBSET MadeAll  BY <1>3 DEF TInv, MadeInv
    <3> QED  BY <2>1, <3>1, PostTyped DEF RemoveNode, TInv, PathInv
  <2>2. CASE RemoveAllNodes(p)
    BY <2>2, <1>3, PostTyped DEF RemoveAllNodes, TInv, PathInv
  <2>3. CASE PeerReturns(p)
    <3>1. Packet("del", mine[p]) \in PacketsOf(MadeAll)
          /\ Packet("new", mine[p]) \in PacketsOf(MadeAll)
      BY <1>3 DEF Packet, PacketsOf
    <3>2. <<Packet("del", mine[p]), Packet("new", mine[p])>> \in Seq(PacketsOf(MadeAll))
      BY <3>1
    <3> QED  BY <2>3, <3>2, ConcatProperties DEF PeerReturns, TInv, PathInv
  <2> QED  BY <2>1, <2>2, <2>3
<1>5. PathInv'  BY <1>1, <1>4 DEF TInv, PathInv, viewVars
<1>6. MapInv'  BY <1>1 DEF TInv, MapInv, viewVars, IsMap
<1> QED  BY <1>1, <1>2, <1>5, <1>6 DEF TInv

LEMMA LinkStep ==
    ASSUME TInv, Outage \/ Return
    PROVE  TInv' /\ made' = made /\ UNCHANGED viewVars
<1>1. UNCHANGED ownerVars /\ UNCHANGED viewVars /\ MadeAll' = MadeAll
  BY DEF Outage, Return, ownerVars, MadeAll
<1>2. inbox' \in Seq(PacketsOf(MadeAll)) /\ linked' \in BOOLEAN /\ outages' \in Nat
  <2>1. CASE Outage
    <3>1. PICK i \in 0..Len(inbox) : inbox' = SubSeq(inbox, 1, i)
      BY <2>1 DEF Outage
    <3>2. Len(inbox) \in Nat  BY LenProperties DEF TInv, PathInv
    <3>3. \A j \in 1..i : inbox[j] \in PacketsOf(MadeAll)
      BY <3>2, ElementOfSeq DEF TInv, PathInv
    <3>4. i \in Int /\ 1 \in Int  BY <3>2
    <3>5. SubSeq(inbox, 1, i) \in Seq(PacketsOf(MadeAll))
      BY <3>3, <3>4, SubSeqProperties
    <3>6. outages' = outages + 1 /\ linked' = FALSE
      BY <2>1 DEF Outage
    <3>7. outages \in Nat  BY DEF TInv, PathInv
    <3>8. outages + 1 \in Nat  BY <3>7
    <3> QED  BY <3>1, <3>5, <3>6, <3>8
  <2>2. CASE Return
    <3> DEFINE all == UNION {mine[p] : p \in Peers}
    <3>1. all \subseteq MadeAll
      BY DEF TInv, MadeInv, MadeAll
    <3>2. /\ inbox' = IF all = {} THEN << >> ELSE <<Packet("new", all)>>
          /\ linked' = TRUE /\ outages' = outages
      BY <2>2 DEF Return
    <3> HIDE DEF all
    <3>3. Packet("new", all) \in PacketsOf(MadeAll)
      BY <3>1 DEF Packet, PacketsOf
    <3>4. <<Packet("new", all)>> \in Seq(PacketsOf(MadeAll))
          /\ << >> \in Seq(PacketsOf(MadeAll))
      BY <3>3
    <3>5. inbox' \in Seq(PacketsOf(MadeAll))  BY <3>2, <3>4
    <3>6. linked' \in BOOLEAN  BY <3>2
    <3>7. outages' \in Nat  BY <3>2 DEF TInv, PathInv
    <3> QED  BY <3>5, <3>6, <3>7
  <2> QED  BY <2>1, <2>2
<1>3. MadeInv'  BY <1>1 DEF TInv, MadeInv, ownerVars
<1>4. PathInv'  BY <1>1, <1>2 DEF TInv, PathInv, viewVars
<1>5. MapInv'  BY <1>1 DEF TInv, MapInv, viewVars, IsMap
<1> QED  BY <1>1, <1>3, <1>4, <1>5 DEF TInv, ownerVars

LEMMA AddNodeTyped ==
    ASSUME TInv, NEW p \in Peers, NEW id \in Ids, NEW t \in Types, AddNode(p, id, t)
    PROVE  TInv'
<1> DEFINE r == [peer |-> p, type |-> t, id |-> id, k |-> NextReplica(p)]
<1>1. /\ MadeInv' /\ MadeAll' = MadeAll \cup {r}
      /\ inbox' = Post("new", {r})
  BY NewReplica DEF TInv
<1>2. inbox \in Seq(PacketsOf(MadeAll'))
  BY <1>1, PathGrows DEF TInv, PathInv
<1>3. inbox' \in Seq(PacketsOf(MadeAll'))
  BY <1>1, <1>2, PostTyped
<1>4. linked' = linked /\ outages' = outages /\ UNCHANGED viewVars
  BY DEF AddNode
<1>5. PathInv'  BY <1>1, <1>3, <1>4 DEF TInv, PathInv, viewVars
<1>6. MapInv'  BY <1>4 DEF TInv, MapInv, viewVars, IsMap
<1> QED  BY <1>1, <1>5, <1>6 DEF TInv
\* The viewer's handlers.
LEMMA ArrivalTyped ==
    ASSUME TInv, NEW r, OnConstruction(r) \/ OnDestruction(r)
    PROVE  /\ MadeInv' /\ MadeAll' = MadeAll /\ made' = made
           /\ inbox' \in Seq(PacketsOf(MadeAll))
           /\ linked' \in BOOLEAN /\ outages' \in Nat
           /\ r \in MadeAll /\ r \in Replicas /\ r \in made[r.peer]
           /\ r.peer \in Peers /\ r.type \in Types
<1>1. UNCHANGED ownerVars /\ linked' = linked /\ outages' = outages /\ inbox' = Taken(r)
  BY DEF OnConstruction, OnDestruction
<1>2. MadeInv' /\ MadeAll' = MadeAll
  BY <1>1 DEF TInv, MadeInv, MadeAll, ownerVars
<1>3. Taken(r) \in Seq(PacketsOf(MadeAll)) /\ r \in MadeAll
  BY TakenTyped DEF OnConstruction, OnDestruction, TInv, PathInv
<1>4. r \in Replicas /\ r \in made[r.peer]
  BY <1>3 DEF TInv, MadeInv, MadeAll
<1>5. linked' \in BOOLEAN /\ outages' \in Nat
  BY <1>1 DEF TInv, PathInv
<1> QED  BY <1>1, <1>2, <1>3, <1>4, <1>5 DEF Replicas, ownerVars

LEMMA ConstructionTyped ==
    ASSUME TInv, NEW r, OnConstruction(r)
    PROVE  TInv'
<1>1. /\ MadeInv' /\ MadeAll' = MadeAll
      /\ inbox' \in Seq(PacketsOf(MadeAll))
      /\ linked' \in BOOLEAN /\ outages' \in Nat
      /\ r \in MadeAll /\ r \in Replicas
      /\ r.peer \in Peers /\ r.type \in Types
  BY ArrivalTyped
<1>2. CASE Exists(r)
  <2>1. UNCHANGED viewVars  BY <1>2 DEF OnConstruction
  <2>2. PathInv'  BY <1>1, <2>1 DEF TInv, PathInv, viewVars
  <2>3. MapInv'  BY <2>1 DEF TInv, MapInv, viewVars, IsMap
  <2> QED  BY <1>1, <2>2, <2>3 DEF TInv
<1>3. CASE ~Exists(r)
  <2>1. /\ held' = held \cup {r}
        /\ table' = [table EXCEPT ![r.type] =
                        With(@, r.peer, Append(At(@, r.peer), r))]
        /\ nodes' = With(nodes, r.peer, Append(At(nodes, r.peer), r))
        /\ news' = With(news, r.peer, Append(At(news, r.peer), r))
    BY <1>3 DEF OnConstruction
  <2>2. ASSUME NEW f, IsMap(f)
        PROVE  IsMap(With(f, r.peer, Append(At(f, r.peer), r)))
    <3>1. Append(At(f, r.peer), r) \in Seq(Replicas)
      BY <1>1, <2>2, AtTyped, AppendProperties
    <3> QED  BY <1>1, <2>2, <3>1, WithTyped
  <2>3. PathInv'  BY <1>1, <2>1 DEF TInv, PathInv
  <2>4. IsMap(nodes') /\ IsMap(news')
    BY <2>1, <2>2 DEF TInv, MapInv
  <2>5. table' = [t \in Types |-> table'[t]]
    BY <1>1, <2>1 DEF TInv, MapInv
  <2>6. ASSUME NEW t \in Types  PROVE IsMap(table'[t])
    <3>1. table'[t] = IF t = r.type
                      THEN With(table[t], r.peer, Append(At(table[t], r.peer), r))
                      ELSE table[t]
      BY <1>1, <2>1 DEF TInv, MapInv
    <3> QED  BY <3>1, <2>2 DEF TInv, MapInv
  <2>7. MapInv'  BY <2>4, <2>5, <2>6 DEF MapInv, IsMap
  <2> QED  BY <1>1, <2>3, <2>7 DEF TInv
<1> QED  BY <1>2, <1>3

\* What a destruction of a replica it holds does to the viewer's tables.
LEMMA DestructionTables ==
    ASSUME TInv, NEW r, OnDestruction(r), r \in held
    PROVE  /\ held' = held \ {r} /\ news' = Dropped(news, r.peer)
           /\ \/ /\ r.type \in PerNode
                 /\ \E q \in EraseFirst(At(table[r.type], r.peer), r,
                                        DOMAIN At(table[r.type], r.peer)) :
                       table' = [table EXCEPT ![r.type] = With(@, r.peer, q)]
                 /\ \E suspects : \E q \in EraseFirst(At(nodes, r.peer), r, suspects) :
                       nodes' = Listed(r.peer, q)
              \/ /\ table' = [table EXCEPT ![r.type] = Dropped(@, r.peer)]
                 /\ nodes' = Dropped(nodes, r.peer)
<1>1. held' = held \ {r} /\ news' = Dropped(news, r.peer)
  BY DEF OnDestruction, NewsWithout
<1>2. CASE r.type \in PerNode
  <2>1. DestroyPerNode(r)  BY <1>2 DEF OnDestruction
  <2> QED  BY <1>1, <1>2, <2>1 DEF DestroyPerNode
<1>3. CASE r.type \notin PerNode
  BY <1>1, <1>3 DEF OnDestruction, DestroyPerPeer
<1> QED  BY <1>2, <1>3

LEMMA DestructionTyped ==
    ASSUME TInv, NEW r, OnDestruction(r)
    PROVE  TInv'
<1>1. /\ MadeInv' /\ MadeAll' = MadeAll
      /\ inbox' \in Seq(PacketsOf(MadeAll))
      /\ linked' \in BOOLEAN /\ outages' \in Nat
      /\ r \in Replicas /\ r.peer \in Peers /\ r.type \in Types
  BY ArrivalTyped
<1>2. CASE r \notin held
  <2>1. UNCHANGED viewVars  BY <1>2 DEF OnDestruction
  <2>2. PathInv'  BY <1>1, <2>1 DEF TInv, PathInv, viewVars
  <2>3. MapInv'  BY <2>1 DEF TInv, MapInv, viewVars, IsMap
  <2> QED  BY <1>1, <2>2, <2>3 DEF TInv
<1>3. CASE r \in held
  <2>1. held' = held \ {r} /\ news' = Dropped(news, r.peer)
    BY <1>3, DestructionTables
  <2>2. PathInv'  BY <1>1, <2>1 DEF TInv, PathInv
  <2>3. IsMap(news')  BY <2>1, DroppedTyped DEF TInv, MapInv
  <2>4. \E f : IsMap(f) /\ table' = [table EXCEPT ![r.type] = f]
    <3>1. IsMap(table[r.type])  BY <1>1 DEF TInv, MapInv
    <3>2. ASSUME NEW q \in EraseFirst(At(table[r.type], r.peer), r,
                                      DOMAIN At(table[r.type], r.peer))
          PROVE  IsMap(With(table[r.type], r.peer, q))
      BY <1>1, <3>1, AtTyped, EraseFirstTyped, WithTyped
    <3>3. IsMap(Dropped(table[r.type], r.peer))  BY <3>1, DroppedTyped
    <3> QED  BY <1>3, <3>2, <3>3, DestructionTables
  <2>5. table' = [t \in Types |-> table'[t]] /\ \A t \in Types : IsMap(table'[t])
    BY <1>1, <2>4 DEF TInv, MapInv
  <2>6. IsMap(nodes')
    <3>1. IsMap(nodes)  BY DEF TInv, MapInv
    <3>2. ASSUME NEW suspects, NEW q \in EraseFirst(At(nodes, r.peer), r, suspects)
          PROVE  IsMap(Listed(r.peer, q))
      BY <1>1, <3>1, AtTyped, EraseFirstTyped, WithTyped, DroppedTyped DEF Listed
    <3>3. IsMap(Dropped(nodes, r.peer))  BY <3>1, DroppedTyped
    <3> QED  BY <1>3, <3>2, <3>3, DestructionTables
  <2>7. MapInv'  BY <2>3, <2>5, <2>6 DEF MapInv, IsMap
  <2> QED  BY <1>1, <2>2, <2>7 DEF TInv
<1> QED  BY <1>2, <1>3

LEMMA CallTyped ==
    ASSUME TInv, NEW p \in Peers,
           CheckStatus(p) \/ \E t \in Types : Lookup(p, t)
    PROVE  TInv' /\ made' = made /\ held' = held
<1>1. /\ UNCHANGED ownerVars /\ inbox' = inbox /\ linked' = linked
      /\ outages' = outages /\ held' = held /\ MadeAll' = MadeAll
  BY DEF CheckStatus, Lookup, ownerVars, MadeAll
<1>2. MadeInv' /\ PathInv'  BY <1>1 DEF TInv, MadeInv, PathInv, ownerVars
<1>3. MapInv'
  <2>1. CASE CheckStatus(p)
    <3>1. IsMap(Dropped(news, p))  BY DroppedTyped DEF TInv, MapInv
    <3> QED  BY <2>1, <3>1 DEF CheckStatus, NewsWithout, TInv, MapInv, IsMap
  <2>2. ASSUME NEW t \in Types, Lookup(p, t)  PROVE MapInv'
    <3>1. table' = [table EXCEPT ![t] = Dropped(table[t], p)]
      BY <2>2 DEF Lookup
    <3>2. IsMap(Dropped(table[t], p))  BY DroppedTyped DEF TInv, MapInv
    <3>3. table' = [u \in Types |-> table'[u]] /\ \A u \in Types : IsMap(table'[u])
      BY <3>1, <3>2 DEF TInv, MapInv
    <3> QED  BY <2>2, <3>3 DEF Lookup, TInv, MapInv, IsMap
  <2> QED  BY <2>1, <2>2
<1> QED  BY <1>1, <1>2, <1>3 DEF TInv, ownerVars

---------------------------------------------------------------------------
LEMMA InitTyped == Init => TInv
<1> SUFFICES ASSUME Init  PROVE TInv
  OBVIOUS
<1>1. MadeInv  BY FS_EmptySet DEF Init, MadeInv
<1>2. PathInv  BY EmptySeq DEF Init, PathInv
<1>3. MapInv  BY EmptyTyped DEF Init, MapInv
<1> QED  BY <1>1, <1>2, <1>3 DEF TInv

LEMMA NextTyped == TInv /\ [Next]_vars => TInv'
<1> SUFFICES ASSUME TInv, [Next]_vars  PROVE TInv'
  OBVIOUS
<1>1. ASSUME NEW p \in Peers, NEW id \in Ids, NEW t \in Types, AddNode(p, id, t)
      PROVE  TInv'
  BY <1>1, AddNodeTyped
<1>2. ASSUME NEW p \in Peers,
             (\E r \in nodeMap[p] : RemoveNode(p, r)) \/ RemoveAllNodes(p) \/ PeerReturns(p)
      PROVE  TInv'
  BY <1>2, OwnerStep
<1>3. ASSUME NEW p \in Peers, CheckStatus(p) \/ \E t \in Types : Lookup(p, t)
      PROVE  TInv'
  BY <1>3, CallTyped
<1>4. ASSUME NEW r, OnConstruction(r) \/ OnDestruction(r)
      PROVE  TInv'
  BY <1>4, ConstructionTyped, DestructionTyped
<1>5. CASE Outage \/ Return  BY <1>5, LinkStep
<1>6. CASE UNCHANGED vars
  BY <1>6 DEF vars, TInv, MadeInv, PathInv, MapInv, MadeAll, IsMap
<1> QED  BY <1>1, <1>2, <1>3, <1>4, <1>5, <1>6 DEF Next

LEMMA Typing == Spec => []TInv
BY InitTyped, NextTyped, PTL DEF Spec

\* Every table is a map from peers to vectors of replicas, and packets only
\* name replicas that were created.
THEOREM TablesTypeCorrect == Spec => []TypeOK
<1>1. TInv => TypeOK
  <2> SUFFICES ASSUME TInv  PROVE TypeOK
    OBVIOUS
  <2>1. MadeAll \subseteq Replicas  BY DEF TInv, MadeInv, MadeAll
  <2>2. inbox \in Seq(PacketsOf(Replicas))
    BY <2>1, PathGrows DEF TInv, PathInv
  <2> QED  BY <2>1, <2>2 DEF TInv, MadeInv, PathInv, MapInv, TypeOK, PacketsOf
<1> QED  BY <1>1, Typing, PTL
---------------------------------------------------------------------------
(* Applications that use an id once.                                       *)

Fresh == \A p \in Peers : \A x, y \in made[p] : x.id = y.id => x = y

\* A vector of things of S, none of them twice.
Injective(q) == \A i, j \in DOMAIN q : q[i] = q[j] => i = j
Once(q, S) == Entries(q) \subseteq S /\ Injective(q)

OfType(p, t) == {r \in Of(p, held) : r.type = t}

TableInv ==
    \A t \in Types, p \in Peers : Once(At(table[t], p), OfType(p, t))
NodesInv ==
    /\ NoEmptyEntry
    /\ \A p \in Peers : Once(At(nodes, p), Of(p, held))
FoundInv ==
    \A p \in Peers : \A r \in Entries(At(nodes, p)) :
        r \in Entries(At(table[r.type], p))

\* A peer of which no replica ever was of a type removed with all of them.
OneByOne(p) == \A r \in made[p] : r.type \in PerNode
ListedInv == \A p \in Peers : OneByOne(p) => Of(p, held) \subseteq Entries(At(nodes, p))

VInv == Fresh /\ TableInv /\ NodesInv /\ FoundInv /\ ListedInv /\ ReportedIsHeld

---------------------------------------------------------------------------
(* What the vector operations do to the entries.                           *)

LEMMA AppendEntries ==
    ASSUME NEW q \in Seq(Replicas), NEW r \in Replicas
    PROVE  /\ Entries(Append(q, r)) = Entries(q) \cup {r}
           /\ Append(q, r) # << >>
           /\ Injective(q) /\ r \notin Entries(q) => Injective(Append(q, r))
<1> DEFINE a == Append(q, r)
<1>1. /\ Len(q) \in Nat /\ Len(a) = Len(q) + 1 /\ a \in Seq(Replicas)
      /\ \A i \in 1..Len(q) : a[i] = q[i]
      /\ a[Len(q) + 1] = r
  BY LenProperties, AppendProperties
<1>2. DOMAIN q = 1..Len(q) /\ DOMAIN a = 1..(Len(q) + 1)
  BY <1>1, LenProperties
<1> HIDE DEF a
<1>3. Entries(a) = Entries(q) \cup {r}
  <2>1. ASSUME NEW x \in Entries(a)  PROVE x \in Entries(q) \cup {r}
    <3>1. PICK i \in 1..(Len(q) + 1) : x = a[i]  BY <1>2 DEF Entries
    <3>2. CASE i = Len(q) + 1  BY <1>1, <3>1, <3>2
    <3>3. CASE i # Len(q) + 1
      <4>1. i \in 1..Len(q)  BY <1>1, <3>3
      <4> QED  BY <1>1, <1>2, <3>1, <4>1 DEF Entries
    <3> QED  BY <3>2, <3>3
  <2>2. ASSUME NEW x \in Entries(q)  PROVE x \in Entries(a)
    <3>1. PICK i \in 1..Len(q) : x = q[i]  BY <1>2 DEF Entries
    <3>2. i \in 1..(Len(q) + 1) /\ a[i] = x  BY <1>1, <3>1
    <3> QED  BY <1>2, <3>2 DEF Entries
  <2>3. r \in Entries(a)
    <3>1. Len(q) + 1 \in 1..(Len(q) + 1)  BY <1>1
    <3> QED  BY <1>1, <1>2, <3>1 DEF Entries
  <2> QED  BY <2>1, <2>2, <2>3
<1>4. a # << >>
  <2>1. Len(a) # 0  BY <1>1
  <2> QED  BY <1>1, <2>1, EmptySeq
<1>5. ASSUME Injective(q), r \notin Entries(q)  PROVE Injective(a)
  <2>1. ASSUME NEW i \in 1..(Len(q) + 1), NEW j \in 1..(Len(q) + 1), a[i] = a[j]
        PROVE  i = j
    <3>1. ASSUME NEW k \in 1..(Len(q) + 1), k # Len(q) + 1
          PROVE  k \in 1..Len(q) /\ a[k] = q[k] /\ a[k] \in Entries(q)
      <4>1. k \in 1..Len(q)  BY <1>1, <3>1
      <4> QED  BY <1>1, <1>2, <4>1 DEF Entries
    <3>2. CASE i # Len(q) + 1 /\ j # Len(q) + 1
      BY <1>2, <1>5, <2>1, <3>1, <3>2 DEF Injective
    <3>3. CASE i = Len(q) + 1 /\ j # Len(q) + 1
      BY <1>1, <1>5, <2>1, <3>1, <3>3
    <3>4. CASE i # Len(q) + 1 /\ j = Len(q) + 1
      BY <1>1, <1>5, <2>1, <3>1, <3>4
    <3> QED  BY <3>2, <3>3, <3>4
  <2> QED  BY <1>2, <2>1 DEF Injective
<1> QED  BY <1>3, <1>4, <1>5 DEF a

LEMMA EraseAtEntries ==
    ASSUME NEW q \in Seq(Replicas), NEW i \in DOMAIN q, Injective(q)
    PROVE  /\ Entries(EraseAt(q, i)) = Entries(q) \ {q[i]}
           /\ Injective(EraseAt(q, i))
<1> DEFINE e == EraseAt(q, i)
<1>1. /\ e \in Seq(Replicas) /\ Len(e) = Len(q) - 1
      /\ \A j \in 1..(Len(q) - 1) : e[j] = IF j < i THEN q[j] ELSE q[j + 1]
  BY EraseAtFacts
<1>2. Len(q) \in Nat /\ DOMAIN q = 1..Len(q) /\ i \in 1..Len(q)
  BY LenProperties
<1>3. DOMAIN e = 1..(Len(q) - 1)
  BY <1>1, <1>2, LenProperties
<1> HIDE DEF e
<1> DEFINE f(j) == IF j < i THEN j ELSE j + 1
<1>4. ASSUME NEW j \in 1..(Len(q) - 1)
      PROVE  f(j) \in 1..Len(q) /\ f(j) # i /\ e[j] = q[f(j)]
  <2>1. CASE j < i  BY <1>1, <1>2, <1>4, <2>1
  <2>2. CASE ~(j < i)  BY <1>1, <1>2, <1>4, <2>2
  <2> QED  BY <2>1, <2>2
<1>5. ASSUME NEW k \in 1..Len(q), k # i
      PROVE  \E j \in 1..(Len(q) - 1) : f(j) = k
  <2>1. CASE k < i
    <3>1. k \in 1..(Len(q) - 1) /\ f(k) = k  BY <1>2, <1>5, <2>1
    <3> QED  BY <3>1
  <2>2. CASE ~(k < i)
    <3>1. k - 1 \in 1..(Len(q) - 1) /\ f(k - 1) = k  BY <1>2, <1>5, <2>2
    <3> QED  BY <3>1
  <2> QED  BY <2>1, <2>2
<1>6. ASSUME NEW j \in 1..(Len(q) - 1), NEW k \in 1..(Len(q) - 1), f(j) = f(k)
      PROVE  j = k
  BY <1>2, <1>6
<1> HIDE DEF f
<1>7. Entries(e) = Entries(q) \ {q[i]}
  <2>1. ASSUME NEW x \in Entries(e)  PROVE x \in Entries(q) \ {q[i]}
    <3>1. PICK j \in 1..(Len(q) - 1) : x = e[j]  BY <1>3 DEF Entries
    <3>2. f(j) \in DOMAIN q /\ f(j) # i /\ x = q[f(j)]  BY <1>2, <1>4, <3>1
    <3> QED  BY <1>2, <3>2 DEF Entries, Injective
  <2>2. ASSUME NEW x \in Entries(q) \ {q[i]}  PROVE x \in Entries(e)
    <3>1. PICK k \in 1..Len(q) : x = q[k]  BY <1>2 DEF Entries
    <3>2. k # i  BY <2>2, <3>1
    <3>3. PICK j \in 1..(Len(q) - 1) : f(j) = k  BY <1>5, <3>2
    <3>4. e[j] = x  BY <1>4, <3>1, <3>3
    <3> QED  BY <1>3, <3>4 DEF Entries
  <2> QED  BY <2>1, <2>2
<1>8. Injective(e)
  <2>1. ASSUME NEW j \in 1..(Len(q) - 1), NEW k \in 1..(Len(q) - 1), e[j] = e[k]
        PROVE  j = k
    <3>1. f(j) = f(k)  BY <1>2, <1>4, <2>1 DEF Injective
    <3> QED  BY <1>6, <3>1
  <2> QED  BY <1>3, <2>1 DEF Injective
<1> QED  BY <1>7, <1>8 DEF e

\* Among replicas that differ in their ids, a destruction takes its own entry.
LEMMA EraseFirstEntries ==
    ASSUME NEW p \in Peers, NEW q \in Seq(Replicas), Once(q, Of(p, held)),
           \A x, y \in Of(p, held) : x.id = y.id => x = y,
           NEW r \in Of(p, held), NEW suspects,
           NEW s \in EraseFirst(q, r, suspects)
    PROVE  Entries(s) = Entries(q) \ {r} /\ Injective(s)
<1>1. \A i \in DOMAIN q : q[i] \in Of(p, held) /\ q[i] \in held
  BY DEF Once, Entries, Of
<1>2. \A i \in DOMAIN q : q[i].id = r.id <=> q[i] = r
  BY <1>1
<1>3. CASE \E i \in DOMAIN q : q[i] = r
  <2>1. \E i \in DOMAIN q : s = EraseAt(q, i) /\ q[i] = r
    BY <1>1, <1>2, <1>3 DEF EraseFirst
  <2> QED  BY <2>1, EraseAtEntries DEF Once
<1>4. CASE ~ \E i \in DOMAIN q : q[i] = r
  <2>1. s = q  BY <1>1, <1>2, <1>4 DEF EraseFirst
  <2>2. r \notin Entries(q)  BY <1>4 DEF Entries
  <2> QED  BY <2>1, <2>2 DEF Once
<1> QED  BY <1>3, <1>4

\* The length of a vector without repetitions.
LEMMA LenIsCardinality ==
    ASSUME NEW q \in Seq(Replicas), Injective(q)
    PROVE  Len(q) = Cardinality(Entries(q))
<1>1. Len(q) \in Nat /\ DOMAIN q = 1..Len(q)  BY LenProperties
<1>2. q \in Bijection(1..Len(q), Entries(q))
  <2>1. q \in [1..Len(q) -> Entries(q)]
    <3>1. q \in [1..Len(q) -> Replicas]  BY LenProperties
    <3> QED  BY <1>1, <3>1 DEF Entries
  <2>2. q \in Injection(1..Len(q), Entries(q))
    BY <1>1, <2>1 DEF Injective, Injection, IsInjective
  <2>3. q \in Surjection(1..Len(q), Entries(q))
    BY <1>1, <2>1 DEF Entries, Surjection
  <2> QED  BY <2>2, <2>3 DEF Bijection
<1>3. ExistsBijection(1..Len(q), Entries(q))  BY <1>2 DEF ExistsBijection
<1> QED  BY <1>1, <1>3, FS_CountingElements

---------------------------------------------------------------------------
LEMMA NoEntries == Entries(<< >>) = {} /\ Injective(<< >>)
<1>1. DOMAIN << >> = {}  BY EmptySeq, LenProperties
<1> QED  BY <1>1 DEF Entries, Injective

---------------------------------------------------------------------------
(* The steps.                                                              *)

\* The replicas held of a peer are among those it created, and differ in
\* their ids.
LEMMA HeldFacts ==
    ASSUME TInv
    PROVE  /\ \A r \in held : /\ r \in Replicas /\ r.peer \in Peers
                              /\ r.type \in Types /\ r \in made[r.peer]
           /\ Fresh => \A p \in Peers : \A x, y \in Of(p, held) :
                            x.id = y.id => x = y
<1>1. ASSUME NEW r \in MadeAll
      PROVE  r \in Replicas /\ r.peer \in Peers /\ r.type \in Types /\ r \in made[r.peer]
  BY <1>1 DEF TInv, MadeInv, MadeAll, Replicas
<1>2. held \subseteq MadeAll  BY DEF TInv, PathInv
<1> QED  BY <1>1, <1>2 DEF Fresh, Of

\* Steps that leave the viewer's tables alone, and create no id twice.
LEMMA OwnerKeeps ==
    ASSUME TInv, VInv, UNCHANGED viewVars, Fresh',
           \A p \in Peers : made[p] \subseteq made'[p]
    PROVE  VInv'
<1>1. \A p \in Peers : OneByOne(p)' => OneByOne(p)  BY DEF OneByOne
<1>2. UNCHANGED <<held, table, nodes, news>>  BY DEF viewVars
<1>3. TableInv'  BY <1>2 DEF VInv, TableInv, OfType, Of, At
<1>4. NodesInv'  BY <1>2 DEF VInv, NodesInv, NoEmptyEntry, Of, At
<1>5. FoundInv'  BY <1>2 DEF VInv, FoundInv, At
<1>6. ListedInv'  BY <1>1, <1>2 DEF VInv, ListedInv, Of, At
<1>7. ReportedIsHeld'  BY <1>2 DEF VInv, ReportedIsHeld, Of
<1> QED  BY <1>3, <1>4, <1>5, <1>6, <1>7 DEF VInv

LEMMA AddNodeKeeps ==
    ASSUME FreshIds, TInv, VInv,
           NEW p \in Peers, NEW id \in Ids, NEW t \in Types, AddNode(p, id, t)
    PROVE  VInv'
<1> DEFINE r == [peer |-> p, type |-> t, id |-> id, k |-> NextReplica(p)]
<1>1. made' = [made EXCEPT ![p] = made[p] \cup {r}]  BY DEF AddNode
<1>2. \A x \in made[p] : x.id # id  BY DEF AddNode
<1>3. DOMAIN made = Peers  BY DEF TInv, MadeInv
<1>4. r.id = id  OBVIOUS
<1> HIDE DEF r
<1>5. Fresh'  BY <1>1, <1>2, <1>3, <1>4 DEF VInv, Fresh
<1>6. \A x \in Peers : made[x] \subseteq made'[x]  BY <1>1, <1>3
<1>7. UNCHANGED viewVars  BY DEF AddNode
<1> QED  BY <1>5, <1>6, <1>7, OwnerKeeps

LEMMA ElsewhereKeeps ==
    ASSUME TInv, VInv, UNCHANGED viewVars, UNCHANGED made
    PROVE  VInv'
<1>1. Fresh'  BY DEF VInv, Fresh
<1>2. \A p \in Peers : made[p] \subseteq made'[p]  OBVIOUS
<1> QED  BY <1>1, <1>2, OwnerKeeps

LEMMA ConstructionKeeps ==
    ASSUME TInv, VInv, NEW r, OnConstruction(r)
    PROVE  VInv'
<1>1. made' = made  BY DEF OnConstruction, ownerVars
<1>2. CASE r \in held
  BY <1>1, <1>2, ElsewhereKeeps DEF OnConstruction, Exists
<1>3. CASE r \notin held
  <2> DEFINE p == r.peer
             t == r.type
  <2>1. r \in Replicas /\ p \in Peers /\ t \in Types
    <3>1. r \in MadeAll  BY TakenTyped DEF OnConstruction, TInv, PathInv
    <3> QED  BY <3>1 DEF MadeAll, TInv, MadeInv, Replicas
  <2>2. /\ held' = held \cup {r}
        /\ table' = [table EXCEPT ![t] = With(table[t], p, Append(At(table[t], p), r))]
        /\ nodes' = With(nodes, p, Append(At(nodes, p), r))
        /\ news' = With(news, p, Append(At(news, p), r))
    BY <1>3 DEF OnConstruction, Exists
  <2>3. /\ Of(p, held') = Of(p, held) \cup {r}
        /\ \A x \in Peers \ {p} : Of(x, held') = Of(x, held)
    BY <2>2 DEF Of
  <2> HIDE DEF p, t
  <2>4. DOMAIN table = Types /\ (\A u \in Types : IsMap(table[u])) /\ IsMap(nodes)
    BY DEF TInv, MapInv
  <2>5. /\ \A x \in Peers, u \in Types :
              At(table'[u], x) = IF x = p /\ u = t THEN Append(At(table[t], p), r)
                                 ELSE At(table[u], x)
        /\ \A x \in Peers :
              At(nodes', x) = IF x = p THEN Append(At(nodes, p), r) ELSE At(nodes, x)
        /\ DOMAIN nodes' = DOMAIN nodes \cup {p}
        /\ nodes'[p] = Append(At(nodes, p), r)
        /\ \A x \in DOMAIN nodes \ {p} : nodes'[x] = nodes[x]
        /\ DOMAIN news' = DOMAIN news \cup {p}
    <3> DEFINE q == Append(At(table[t], p), r)
               n == Append(At(nodes, p), r)
               m == Append(At(news, p), r)
    <3>1. table'[t] = With(table[t], p, q) /\ \A u \in Types \ {t} : table'[u] = table[u]
      BY <2>1, <2>2, <2>4
    <3>2. nodes' = With(nodes, p, n) /\ news' = With(news, p, m)
      BY <2>2
    <3> HIDE DEF q, n, m
    <3>3. At(With(table[t], p, q), p) = q
          /\ \A x : x # p => At(With(table[t], p, q), x) = At(table[t], x)
      BY DEF With, At
    <3>4. \A x \in Peers, u \in Types :
              At(table'[u], x) = IF x = p /\ u = t THEN q ELSE At(table[u], x)
      BY <3>1, <3>3
    <3>5. \A x \in Peers : At(nodes', x) = IF x = p THEN n ELSE At(nodes, x)
      BY <3>2 DEF With, At
    <3>6. /\ DOMAIN nodes' = DOMAIN nodes \cup {p}
          /\ nodes'[p] = n
          /\ \A x \in DOMAIN nodes \ {p} : nodes'[x] = nodes[x]
          /\ DOMAIN news' = DOMAIN news \cup {p}
      BY <3>2 DEF With
    <3> QED  BY <3>4, <3>5, <3>6 DEF q, n, m
  <2>6. /\ r \notin Of(p, held) /\ r \in Of(p, held')
        /\ OfType(p, t)' = OfType(p, t) \cup {r}
        /\ \A x \in Peers, u \in Types : OfType(x, u) \subseteq OfType(x, u)'
    BY <1>3, <2>2, <2>3 DEF Of, OfType, p, t
  <2>7. LET q == At(table[t], p) IN
        /\ Entries(Append(q, r)) = Entries(q) \cup {r}
        /\ Once(Append(q, r), OfType(p, t)')
    <3>1. At(table[t], p) \in Seq(Replicas)  BY <2>1, <2>4, AtTyped
    <3>2. Once(At(table[t], p), OfType(p, t))  BY <2>1 DEF VInv, TableInv
    <3>3. r \notin Entries(At(table[t], p))  BY <2>6, <3>2 DEF Once, OfType
    <3> QED  BY <2>1, <2>6, <3>1, <3>2, <3>3, AppendEntries DEF Once
  <2>8. LET q == At(nodes, p) IN
        /\ Entries(Append(q, r)) = Entries(q) \cup {r}
        /\ Append(q, r) # << >>
        /\ Once(Append(q, r), Of(p, held'))
    <3>1. At(nodes, p) \in Seq(Replicas)  BY <2>1, <2>4, AtTyped
    <3>2. Once(At(nodes, p), Of(p, held))  BY <2>1 DEF VInv, NodesInv
    <3>3. r \notin Entries(At(nodes, p))  BY <2>6, <3>2 DEF Once
    <3> QED  BY <2>1, <2>3, <3>1, <3>2, <3>3, AppendEntries DEF Once
  <2>9. TableInv'
    <3> SUFFICES ASSUME NEW u \in Types, NEW x \in Peers
                 PROVE  Once(At(table'[u], x), OfType(x, u)')
      BY DEF TableInv, At
    <3>1. CASE x = p /\ u = t  BY <2>5, <2>7, <3>1
    <3>2. CASE ~(x = p /\ u = t)
      <4>1. Once(At(table[u], x), OfType(x, u))  BY DEF VInv, TableInv
      <4> QED  BY <2>5, <2>6, <3>2, <4>1 DEF Once
    <3> QED  BY <3>1, <3>2
  <2>10. NodesInv'
    <3>1. NoEmptyEntry'
      <4>1. \A x \in DOMAIN nodes : nodes[x] # << >>
        BY DEF VInv, NodesInv, NoEmptyEntry
      <4>2. \A x \in DOMAIN nodes' : nodes'[x] # << >>  BY <2>5, <2>8, <4>1
      <4> QED  BY <4>2 DEF NoEmptyEntry
    <3>2. ASSUME NEW x \in Peers  PROVE Once(At(nodes', x), Of(x, held'))
      <4>1. CASE x = p  BY <2>5, <2>8, <4>1
      <4>2. CASE x # p
        <5>1. Once(At(nodes, x), Of(x, held))  BY DEF VInv, NodesInv
        <5> QED  BY <2>3, <2>5, <4>2, <5>1
      <4> QED  BY <4>1, <4>2
    <3> QED  BY <3>1, <3>2 DEF NodesInv, At, Of
  <2>11. FoundInv'
    <3> SUFFICES ASSUME NEW x \in Peers, NEW y \in Entries(At(nodes', x))
                 PROVE  y \in Entries(At(table'[y.type], x))
      BY DEF FoundInv, At
    <3>1. CASE x = p /\ y = r  BY <2>1, <2>5, <2>7, <3>1 DEF t
    <3>2. CASE ~(x = p /\ y = r)
      <4>1. y \in Entries(At(nodes, x))  BY <2>5, <2>8, <3>2
      <4>2. y \in Entries(At(table[y.type], x))  BY <4>1 DEF VInv, FoundInv
      <4>3. y.type \in Types
        <5>1. y \in Of(x, held)  BY <4>1 DEF VInv, NodesInv, Once
        <5> QED  BY <5>1, HeldFacts DEF Of
      <4> QED  BY <2>5, <2>7, <4>2, <4>3
    <3> QED  BY <3>1, <3>2
  <2>12. ListedInv'
    <3> SUFFICES ASSUME NEW x \in Peers, OneByOne(x)'
                 PROVE  Of(x, held') \subseteq Entries(At(nodes', x))
      BY DEF ListedInv, At, Of
    <3>1. Of(x, held) \subseteq Entries(At(nodes, x))
      BY <1>1 DEF VInv, ListedInv, OneByOne
    <3> QED  BY <2>3, <2>5, <2>8, <3>1
  <2>13. ReportedIsHeld'
    <3>1. ASSUME NEW x \in DOMAIN news'  PROVE Of(x, held') # {}
      BY <2>2, <2>5, <2>6 DEF VInv, ReportedIsHeld, Of
    <3> QED  BY <3>1 DEF ReportedIsHeld, Of
  <2>14. Fresh'  BY <1>1 DEF VInv, Fresh
  <2> QED  BY <2>9, <2>10, <2>11, <2>12, <2>13, <2>14 DEF VInv
<1> QED  BY <1>2, <1>3

LEMMA DestructionKeeps ==
    ASSUME TInv, VInv, NEW r, OnDestruction(r)
    PROVE  VInv'
<1>1. made' = made  BY DEF OnDestruction, ownerVars
<1>2. CASE r \notin held
  BY <1>1, <1>2, ElsewhereKeeps DEF OnDestruction
<1>3. CASE r \in held
  <2> DEFINE p == r.peer
             t == r.type
  <2>1. r \in Replicas /\ p \in Peers /\ t \in Types  BY <1>3, HeldFacts
  <2>2. held' = held \ {r} /\ news' = Dropped(news, p)
    BY <1>3 DEF OnDestruction, NewsWithout
  <2>3. /\ Of(p, held') = Of(p, held) \ {r}
        /\ \A x \in Peers \ {p} : Of(x, held') = Of(x, held)
        /\ r \in Of(p, held)
    BY <1>3, <2>2 DEF Of
  <2> HIDE DEF p, t
  <2>4. DOMAIN table = Types /\ (\A u \in Types : IsMap(table[u])) /\ IsMap(nodes)
    BY DEF TInv, MapInv
  <2>5. \A x, y \in Of(p, held) : x.id = y.id => x = y
    BY <2>1, HeldFacts DEF VInv
  \* What the two vectors of this peer are afterwards.
  <2>6. PICK ours, left :
          /\ \A x \in Peers, u \in Types :
                At(table'[u], x) = IF x = p /\ u = t THEN ours ELSE At(table[u], x)
          /\ Once(ours, Entries(At(table[t], p)) \ {r})
          /\ \A x \in Peers : At(nodes', x) = IF x = p THEN left ELSE At(nodes, x)
          /\ \A x \in DOMAIN nodes' : nodes'[x] # << >>
          /\ Once(left, Entries(At(nodes, p)) \ {r})
          /\ Entries(left) \subseteq Entries(At(nodes, p)) \ {r}
          /\ t \in PerNode => /\ Entries(left) = Entries(At(nodes, p)) \ {r}
                              /\ Entries(ours) = Entries(At(table[t], p)) \ {r}
          /\ t \notin PerNode => left = << >>
    <3>1. Once(At(table[t], p), Of(p, held)) /\ Once(At(nodes, p), Of(p, held))
      <4>1. OfType(p, t) \subseteq Of(p, held)  BY DEF OfType
      <4> QED  BY <2>1, <4>1 DEF VInv, TableInv, NodesInv, Once
    <3>2. At(table[t], p) \in Seq(Replicas) /\ At(nodes, p) \in Seq(Replicas)
      BY <2>1, <2>4, AtTyped
    <3>3. \A x \in DOMAIN nodes : nodes[x] # << >>
      BY DEF VInv, NodesInv, NoEmptyEntry
    <3>4. CASE t \in PerNode
      <4>1. DestroyPerNode(r)  BY <1>3, <3>4 DEF OnDestruction, t
      <4>2. PICK ours \in EraseFirst(At(table[t], p), r, DOMAIN At(table[t], p)) :
              table' = [table EXCEPT ![t] = With(table[t], p, ours)]
        BY <4>1 DEF DestroyPerNode, p, t
      <4>3. PICK suspects, left :
              /\ left \in EraseFirst(At(nodes, p), r, suspects)
              /\ nodes' = Listed(p, left)
        BY <4>1 DEF DestroyPerNode, p
      <4>4. Entries(ours) = Entries(At(table[t], p)) \ {r} /\ Injective(ours)
        BY <2>1, <2>3, <2>5, <3>1, <3>2, <4>2, EraseFirstEntries
      <4>5. Entries(left) = Entries(At(nodes, p)) \ {r} /\ Injective(left)
        BY <2>1, <2>3, <2>5, <3>1, <3>2, <4>3, EraseFirstEntries
      <4>6. \A x \in Peers, u \in Types :
                At(table'[u], x) = IF x = p /\ u = t THEN ours ELSE At(table[u], x)
        <5>1. table'[t] = With(table[t], p, ours)
              /\ \A u \in Types \ {t} : table'[u] = table[u]
          BY <2>1, <2>4, <4>2
        <5>2. At(With(table[t], p, ours), p) = ours
              /\ \A x : x # p => At(With(table[t], p, ours), x) = At(table[t], x)
          BY DEF With, At
        <5> QED  BY <5>1, <5>2
      <4>7. /\ \A x \in Peers : At(nodes', x) = IF x = p THEN left ELSE At(nodes, x)
            /\ \A x \in DOMAIN nodes' : nodes'[x] # << >>
        <5>1. CASE left = << >>
          <6>1. nodes' = Dropped(nodes, p)  BY <4>3, <5>1 DEF Listed
          <6> QED  BY <3>3, <5>1, <6>1 DEF Dropped, At
        <5>2. CASE left # << >>
          <6>1. nodes' = With(nodes, p, left)  BY <4>3, <5>2 DEF Listed
          <6> QED  BY <3>3, <5>2, <6>1 DEF With, At
        <5> QED  BY <5>1, <5>2
      <4> QED  BY <3>4, <4>4, <4>5, <4>6, <4>7 DEF Once
    <3>5. CASE t \notin PerNode
      <4>1. /\ table' = [table EXCEPT ![t] = Dropped(table[t], p)]
            /\ nodes' = Dropped(nodes, p)
        BY <1>3, <3>5 DEF OnDestruction, DestroyPerPeer, p, t
      <4>2. \A x \in Peers, u \in Types :
                At(table'[u], x) = IF x = p /\ u = t THEN << >> ELSE At(table[u], x)
        <5>1. table'[t] = Dropped(table[t], p)
              /\ \A u \in Types \ {t} : table'[u] = table[u]
          BY <2>1, <2>4, <4>1
        <5>2. At(Dropped(table[t], p), p) = << >>
              /\ \A x : x # p => At(Dropped(table[t], p), x) = At(table[t], x)
          BY DEF Dropped, At
        <5> QED  BY <5>1, <5>2
      <4>3. /\ \A x \in Peers : At(nodes', x) = IF x = p THEN << >> ELSE At(nodes, x)
            /\ \A x \in DOMAIN nodes' : nodes'[x] # << >>
        BY <3>3, <4>1 DEF Dropped, At
      <4> QED  BY <3>5, <4>2, <4>3, NoEntries DEF Once
    <3> QED  BY <3>4, <3>5
  <2>7. TableInv'
    <3> SUFFICES ASSUME NEW u \in Types, NEW x \in Peers
                 PROVE  Once(At(table'[u], x), OfType(x, u)')
      BY DEF TableInv, At
    <3>1. Once(At(table[u], x), OfType(x, u))  BY DEF VInv, TableInv
    <3>2. CASE x = p /\ u = t
      <4>1. OfType(p, t) \ {r} \subseteq OfType(p, t)'
        BY <2>3 DEF OfType, Of
      <4> QED  BY <2>6, <3>1, <3>2, <4>1 DEF Once
    <3>3. CASE x # p
      <4>1. OfType(x, u)' = OfType(x, u)  BY <2>3, <3>3 DEF OfType, Of
      <4> QED  BY <2>6, <3>1, <3>3, <4>1
    <3>4. CASE x = p /\ u # t
      <4>1. OfType(p, u)' = OfType(p, u)  BY <2>2, <3>4 DEF OfType, Of, t
      <4> QED  BY <2>6, <3>1, <3>4, <4>1
    <3> QED  BY <3>2, <3>3, <3>4
  <2>8. NodesInv'
    <3>1. NoEmptyEntry'  BY <2>6 DEF NoEmptyEntry
    <3>2. ASSUME NEW x \in Peers  PROVE Once(At(nodes', x), Of(x, held'))
      <4>1. Once(At(nodes, x), Of(x, held))  BY DEF VInv, NodesInv
      <4>2. CASE x = p  BY <2>3, <2>6, <4>1, <4>2 DEF Once
      <4>3. CASE x # p  BY <2>3, <2>6, <4>1, <4>3
      <4> QED  BY <4>2, <4>3
    <3> QED  BY <3>1, <3>2 DEF NodesInv, At, Of
  <2>9. FoundInv'
    <3> SUFFICES ASSUME NEW x \in Peers, NEW y \in Entries(At(nodes', x))
                 PROVE  y \in Entries(At(table'[y.type], x))
      BY DEF FoundInv, At
    <3>1. y \in Entries(At(nodes, x)) /\ (x = p => y # r /\ t \in PerNode)
      <4>1. CASE x # p  BY <2>6, <4>1
      <4>2. CASE x = p  BY <2>6, <4>2, NoEntries
      <4> QED  BY <4>1, <4>2
    <3>2. y \in Entries(At(table[y.type], x))  BY <3>1 DEF VInv, FoundInv
    <3>3. y.type \in Types
      <4>1. y \in Of(x, held)  BY <3>1 DEF VInv, NodesInv, Once
      <4> QED  BY <4>1, HeldFacts DEF Of
    <3> QED  BY <2>6, <3>1, <3>2, <3>3
  <2>10. ListedInv'
    <3> SUFFICES ASSUME NEW x \in Peers, OneByOne(x)'
                 PROVE  Of(x, held') \subseteq Entries(At(nodes', x))
      BY DEF ListedInv, At, Of
    <3>1. OneByOne(x)  BY <1>1 DEF OneByOne
    <3>2. Of(x, held) \subseteq Entries(At(nodes, x))
      BY <3>1 DEF VInv, ListedInv
    <3>3. CASE x # p  BY <2>3, <2>6, <3>2, <3>3
    <3>4. CASE x = p
      <4>1. t \in PerNode
        <5>1. r \in made[p]  BY <1>3, HeldFacts DEF p
        <5> QED  BY <3>1, <3>4, <5>1 DEF OneByOne, t
      <4> QED  BY <2>3, <2>6, <3>2, <3>4, <4>1
    <3> QED  BY <3>3, <3>4
  <2>11. ReportedIsHeld'
    <3>1. \A x \in DOMAIN news' : x \in DOMAIN news \ {p}
      BY <2>2 DEF Dropped
    <3>2. DOMAIN news \subseteq Peers  BY DEF TInv, MapInv, IsMap
    <3>3. ASSUME NEW x \in DOMAIN news'  PROVE Of(x, held') # {}
      BY <2>3, <3>1, <3>2 DEF VInv, ReportedIsHeld
    <3> QED  BY <3>3 DEF ReportedIsHeld, Of
  <2>12. Fresh'  BY <1>1 DEF VInv, Fresh
  <2> QED  BY <2>7, <2>8, <2>9, <2>10, <2>11, <2>12 DEF VInv
<1> QED  BY <1>2, <1>3

LEMMA CallKeeps ==
    ASSUME TInv, VInv, NEW p \in Peers,
           CheckStatus(p) \/ \E t \in Types : Lookup(p, t)
    PROVE  VInv'
<1>1. UNCHANGED <<made, held, nodes>>  BY DEF CheckStatus, Lookup, ownerVars
<1>2. Fresh' /\ NodesInv' /\ ListedInv'
  BY <1>1 DEF VInv, Fresh, NodesInv, NoEmptyEntry, ListedInv, OneByOne, Of, At
<1>3. CASE CheckStatus(p)
  <2>1. table' = table /\ news' = Dropped(news, p)
    BY <1>3 DEF CheckStatus, NewsWithout
  <2>2. TableInv' /\ FoundInv'
    BY <1>1, <2>1 DEF VInv, TableInv, FoundInv, OfType, Of, At
  <2>3. ReportedIsHeld'
    BY <1>1, <2>1 DEF Dropped, VInv, ReportedIsHeld, Of
  <2> QED  BY <1>2, <2>2, <2>3 DEF VInv
<1>4. ASSUME NEW t \in Types, Lookup(p, t)  PROVE VInv'
  <2>1. Of(p, held) = {}  BY <1>4 DEF Lookup, Absent
  <2>2. news' = news /\ table' = [table EXCEPT ![t] = Dropped(table[t], p)]
    BY <1>4 DEF Lookup
  <2>3. \A x \in Peers, u \in Types :
            At(table'[u], x) = IF x = p /\ u = t THEN << >> ELSE At(table[u], x)
    <3>1. table'[t] = Dropped(table[t], p)
          /\ \A u \in Types \ {t} : table'[u] = table[u]
      BY <2>2 DEF TInv, MapInv
    <3>2. At(Dropped(table[t], p), p) = << >>
          /\ \A x : x # p => At(Dropped(table[t], p), x) = At(table[t], x)
      BY DEF Dropped, At
    <3> QED  BY <3>1, <3>2
  <2>4. TableInv'
    <3> SUFFICES ASSUME NEW u \in Types, NEW x \in Peers
                 PROVE  Once(At(table'[u], x), OfType(x, u))
      BY <1>1 DEF TableInv, At, OfType, Of
    <3>1. Once(At(table[u], x), OfType(x, u))  BY DEF VInv, TableInv
    <3> QED  BY <2>3, <3>1, NoEntries DEF Once
  <2>5. FoundInv'
    <3> SUFFICES ASSUME NEW x \in Peers, NEW y \in Entries(At(nodes, x))
                 PROVE  y \in Entries(At(table'[y.type], x))
      BY <1>1 DEF FoundInv, At
    <3>1. y \in Of(x, held)  BY DEF VInv, NodesInv, Once
    <3>2. x # p /\ y.type \in Types  BY <2>1, <3>1, HeldFacts DEF Of
    <3>3. y \in Entries(At(table[y.type], x))  BY DEF VInv, FoundInv
    <3> QED  BY <2>3, <3>2, <3>3
  <2>6. ReportedIsHeld'  BY <1>1, <2>2 DEF VInv, ReportedIsHeld, Of
  <2> QED  BY <1>2, <2>4, <2>5, <2>6 DEF VInv
<1> QED  BY <1>3, <1>4

LEMMA InitView == Init => VInv
<1> SUFFICES ASSUME Init  PROVE VInv
  OBVIOUS
<1>1. Fresh /\ (\A p \in Peers : Of(p, held) = {})
  BY DEF Init, Fresh, Of
<1>2. /\ \A p \in Peers : At(nodes, p) = << >>
      /\ \A p \in Peers, t \in Types : At(table[t], p) = << >>
      /\ DOMAIN nodes = {} /\ DOMAIN news = {}
  BY DEF Init, EmptyMap, At
<1>3. TableInv  BY <1>2, NoEntries DEF TableInv, Once
<1>4. NodesInv  BY <1>2, NoEntries DEF NodesInv, NoEmptyEntry, Once
<1>5. FoundInv  BY <1>2, NoEntries DEF FoundInv
<1>6. ListedInv  BY <1>1 DEF ListedInv
<1>7. ReportedIsHeld  BY <1>2 DEF ReportedIsHeld
<1> QED  BY <1>1, <1>3, <1>4, <1>5, <1>6, <1>7 DEF VInv

LEMMA NextView == FreshIds /\ TInv /\ VInv /\ [Next]_vars => VInv'
<1> SUFFICES ASSUME FreshIds, TInv, VInv, [Next]_vars  PROVE VInv'
  OBVIOUS
<1>1. ASSUME NEW p \in Peers, NEW id \in Ids, NEW t \in Types, AddNode(p, id, t)
      PROVE  VInv'
  BY <1>1, AddNodeKeeps
<1>2. ASSUME NEW p \in Peers,
             (\E r \in nodeMap[p] : RemoveNode(p, r)) \/ RemoveAllNodes(p) \/ PeerReturns(p)
      PROVE  VInv'
  BY <1>2, ElsewhereKeeps DEF RemoveNode, RemoveAllNodes, PeerReturns
<1>3. ASSUME NEW p \in Peers, CheckStatus(p) \/ \E t \in Types : Lookup(p, t)
      PROVE  VInv'
  BY <1>3, CallKeeps
<1>4. ASSUME NEW r, OnConstruction(r) \/ OnDestruction(r)
      PROVE  VInv'
  BY <1>4, ConstructionKeeps, DestructionKeeps
<1>5. CASE Outage \/ Return
  BY <1>5, ElsewhereKeeps DEF Outage, Return, ownerVars
<1>6. CASE UNCHANGED vars
  BY <1>6, ElsewhereKeeps DEF vars, viewVars
<1> QED  BY <1>1, <1>2, <1>3, <1>4, <1>5, <1>6 DEF Next

LEMMA View == ASSUME FreshIds PROVE Spec => [](TInv /\ VInv)
<1>1. Init => TInv /\ VInv  BY InitTyped, InitView
<1>2. TInv /\ VInv /\ [Next]_vars => (TInv /\ VInv)'  BY NextTyped, NextView
<1> QED  BY <1>1, <1>2, PTL DEF Spec

---------------------------------------------------------------------------
(* What applications that use an id once can rely on.                      *)

\* No lookup follows a pointer to a replica that is gone: whatever nodes and
\* outages come and go, every entry of every table is a replica of the list.
THEOREM NoDanglingEntry == ASSUME FreshIds PROVE Spec => []EntriesHeld
<1>1. TInv /\ VInv => EntriesHeld
  <2> SUFFICES ASSUME TInv, VInv  PROVE EntriesHeld
    OBVIOUS
  <2>1. \A p \in DOMAIN nodes : p \in Peers /\ nodes[p] = At(nodes, p)
    BY DEF TInv, MapInv, IsMap, At
  <2>2. \A t \in Types : \A p \in DOMAIN table[t] :
            p \in Peers /\ table[t][p] = At(table[t], p)
    BY DEF TInv, MapInv, IsMap, At
  <2> QED  BY <2>1, <2>2 DEF VInv, NodesInv, TableInv, Once, OfType, EntriesHeld
<1> QED  BY <1>1, View, PTL

\* The first entry that getPeersInfo and getIPinfo read of a listed peer is
\* there.
THEOREM ListedHasEntry == ASSUME FreshIds PROVE Spec => []NoEmptyEntry
<1>1. TInv /\ VInv => NoEmptyEntry  BY DEF VInv, NodesInv
<1> QED  BY <1>1, View, PTL

\* A peer whose nodes are removed one by one is listed with exactly the nodes
\* held of it, each once.
THEOREM ListedIsHeld == ASSUME FreshIds PROVE Spec => []ListedExactly
<1>1. TInv /\ VInv => ListedExactly
  <2> SUFFICES ASSUME TInv, VInv, NEW p \in Peers, \A r \in made[p] : r.type \in PerNode
               PROVE  /\ Entries(At(nodes, p)) = Of(p, held)
                      /\ Len(At(nodes, p)) = Cardinality(Entries(At(nodes, p)))
    BY DEF ListedExactly
  <2>1. Once(At(nodes, p), Of(p, held))  BY DEF VInv, NodesInv
  <2>2. Of(p, held) \subseteq Entries(At(nodes, p))
    BY DEF VInv, ListedInv, OneByOne
  <2>3. At(nodes, p) \in Seq(Replicas)  BY AtTyped DEF TInv, MapInv
  <2> QED  BY <2>1, <2>2, <2>3, LenIsCardinality DEF Once
<1> QED  BY <1>1, View, PTL

\* What nodes_map announces, the table of its type finds.
THEOREM AnnouncedIsFound == ASSUME FreshIds PROVE Spec => []ListedIsFound
<1>1. TInv /\ VInv => ListedIsFound
  BY DEF VInv, FoundInv, ListedIsFound, TInv, MapInv, IsMap, At
<1> QED  BY <1>1, View, PTL

\* checkStatus reports no peer that has left again.
THEOREM ReportedExists == ASSUME FreshIds PROVE Spec => []ReportedIsHeld
<1>1. TInv /\ VInv => ReportedIsHeld  BY DEF VInv
<1> QED  BY <1>1, View, PTL
=============================================================================
