---------------------------- MODULE NodeTables ----------------------------
(***************************************************************************)
(* The tables a client looks nodes up in: the <Type>NodeMaps of the nodes  *)
(* it created, and, of the nodes of its peers, X_replicas (one per type),  *)
(* nodes_map and new_clients.                                              *)
(*                                                                         *)
(* One client, the viewer, holds replicas of the nodes of other clients,   *)
(* its peers.  ReplicaManager3 keeps a list of them (held); the handlers   *)
(* DeserializeConstruction and DeserializeDestruction of each type keep    *)
(* the tables, which point to the replicas, and every lookup reads the     *)
(* tables.  How the packets travel is SceneReplication's; here the server  *)
(* is a first-in first-out line from the peers to the viewer.              *)
(***************************************************************************)
EXTENDS Naturals, FiniteSets, Sequences

CONSTANTS
    Peers,       \* the other clients
    Ids,         \* node ids their applications use
    Types,       \* node types
    PerNode,     \* the types whose destruction looks for its own entries
    FreshIds,    \* TRUE: no application uses an id twice
    MaxMade,     \* bound: replicas a peer creates
    MaxOutages   \* bound: connections lost

ASSUME TypesAssumption == PerNode \subseteq Types
ASSUME BoundAssumption == MaxMade \in Nat /\ MaxOutages \in Nat
ASSUME FreshAssumption == FreshIds \in BOOLEAN

VARIABLES
    made,        \* per peer: replicas created so far
    nodeMap,     \* per peer: replicas its <Type>NodeMaps lead to
    mine,        \* per peer: replicas referenced there, held by the server
    inbox,       \* packets on their way to the viewer
    linked,      \* the viewer is connected
    outages,     \* connections lost so far
    held,        \* the viewer's userReplicaList
    table,       \* X_replicas of each type, by peer
    nodes,       \* nodes_map: peers listed, with their entries
    news         \* new_clients: peers to report, with what they announced

ownerVars == <<made, nodeMap, mine>>
viewVars == <<held, table, nodes, news>>
vars == <<made, nodeMap, mine, inbox, linked, outages, held, table, nodes, news>>

---------------------------------------------------------------------------
\* A replica; k tells apart those created under one id.
Replicas == [peer : Peers, type : Types, id : Ids, k : Nat \ {0}]
Of(p, S) == {r \in S : r.peer = p}

\* The replicas a table points to.
Entries(q) == {q[i] : i \in DOMAIN q}

\* std::map: empty, without a key, with a value for a key; vector::erase.
EmptyMap == [x \in {} |-> << >>]
Dropped(f, p) == [x \in DOMAIN f \ {p} |-> f[x]]
With(f, p, v) == [x \in DOMAIN f \cup {p} |-> IF x = p THEN v ELSE f[x]]
EraseAt(q, i) == SubSeq(q, 1, i - 1) \o SubSeq(q, i + 1, Len(q))

\* std::map::operator[]: an absent key has an empty vector.
At(f, p) == IF p \in DOMAIN f THEN f[p] ELSE << >>

\* What erasing the first entry that names r's node can leave of q.  Names
\* are compared through the entries: that of a deleted replica is read from
\* freed memory, and may equal r's or not (of the suspects, that is).
EraseFirst(q, r, suspects) ==
    LET freed(i) == q[i] \notin held /\ i \in suspects
        equal(i) == q[i] \in held /\ q[i].id = r.id
        hits == {i \in DOMAIN q : /\ equal(i) \/ freed(i)
                                  /\ \A j \in 1..(i - 1) : ~equal(j)}
    IN  {EraseAt(q, i) : i \in hits} \cup
        (IF \E i \in DOMAIN q : equal(i) THEN {} ELSE {q})

---------------------------------------------------------------------------
(* The peers' applications.                                                *)

Packet(kind, rs) == [kind |-> kind, rs |-> rs]
Post(kind, rs) == IF linked /\ rs # {} THEN Append(inbox, Packet(kind, rs)) ELSE inbox

\* (Wrong on purpose: counts the replicas of an id from zero.)
NextFromZero(p) == Cardinality(made[p])

\* Every call of new gives another replica.
NextReplica(p) == Cardinality(made[p]) + 1

\* addNode: the id's entry in the NodeMap is overwritten; a replica that was
\* there before stays referenced.
AddNode(p, id, t) ==
    LET r == [peer |-> p, type |-> t, id |-> id, k |-> NextReplica(p)]
        former == {x \in nodeMap[p] : x.type = t /\ x.id = id}
    IN
    /\ Cardinality(made[p]) < MaxMade
    /\ FreshIds => \A x \in made[p] : x.id # id
    /\ made' = [made EXCEPT ![p] = @ \cup {r}]
    /\ nodeMap' = [nodeMap EXCEPT ![p] = (@ \ former) \cup {r}]
    /\ mine' = [mine EXCEPT ![p] = @ \cup {r}]
    /\ inbox' = Post("new", {r})
    /\ UNCHANGED <<linked, outages, viewVars>>

\* removeNode, and deleteRocketBoxAvatar for AVATAR: the replica the NodeMap
\* leads to is destroyed.
RemoveNode(p, r) ==
    /\ r \in nodeMap[p]
    /\ nodeMap' = [nodeMap EXCEPT ![p] = @ \ {r}]
    /\ mine' = [mine EXCEPT ![p] = @ \ {r}]
    /\ inbox' = Post("del", {r})
    /\ UNCHANGED <<made, linked, outages, viewVars>>

\* removeAllNodes, or the departure of the client.
RemoveAllNodes(p) ==
    /\ mine[p] # {}
    /\ nodeMap' = [nodeMap EXCEPT ![p] = {}]
    /\ mine' = [mine EXCEPT ![p] = {}]
    /\ inbox' = Post("del", mine[p])
    /\ UNCHANGED <<made, linked, outages, viewVars>>

\* A peer loses its connection and comes back: the server destroys its
\* replicas, and constructs them again.
PeerReturns(p) ==
    /\ outages < MaxOutages /\ mine[p] # {}
    /\ outages' = outages + 1
    /\ inbox' = IF linked
                THEN inbox \o <<Packet("del", mine[p]), Packet("new", mine[p])>>
                ELSE inbox
    /\ UNCHANGED <<made, nodeMap, mine, linked, viewVars>>

---------------------------------------------------------------------------
(* The viewer.  The replicas of one packet are handled one by one; nothing *)
(* but the next of them comes in between in the code.                      *)

Arriving(kind, r) ==
    inbox # << >> /\ Head(inbox).kind = kind /\ r \in Head(inbox).rs
Taken(r) ==
    LET rest == Head(inbox).rs \ {r} IN
    IF rest = {} THEN Tail(inbox)
    ELSE <<[Head(inbox) EXCEPT !.rs = rest]>> \o Tail(inbox)

\* (Wrong on purpose: constructs what it has once more.)
ExistsNever(r) == FALSE

\* OnConstruction: a replica whose id is known is not constructed again.
Exists(r) == r \in held

\* DeserializeConstruction.
OnConstruction(r) ==
    /\ Arriving("new", r)
    /\ IF Exists(r) THEN UNCHANGED viewVars           \* OnDownloadExisting
       ELSE /\ held' = held \cup {r}
            /\ table' = [table EXCEPT ![r.type] =
                            With(@, r.peer, Append(At(@, r.peer), r))]
            /\ nodes' = With(nodes, r.peer, Append(At(nodes, r.peer), r))
            /\ news' = With(news, r.peer, Append(At(news, r.peer), r))
    /\ inbox' = Taken(r)
    /\ UNCHANGED <<ownerVars, linked, outages>>

\* (Wrong on purpose: leaves a peer without entries listed.)
ListedAlways(p, q) == With(nodes, p, q)

\* What nodes_map is after an entry of peer p was looked for and q is left.
Listed(p, q) == IF q = << >> THEN Dropped(nodes, p) ELSE With(nodes, p, q)

\* DeserializeDestruction of AVATAR and GENERIC: the first entry with the
\* node's name goes from X_replicas and from nodes_map, whatever the type it
\* has there; then DeallocReplica deletes the replica.
\* An entry of nodes_map has its own copy of the node's name.
DestroyPerNode(r) ==
    LET ours == At(table[r.type], r.peer)
        listed == At(nodes, r.peer)
        named == {i \in DOMAIN listed : listed[i].id = r.id}
    IN
    /\ \E q \in EraseFirst(ours, r, DOMAIN ours) :
          table' = [table EXCEPT ![r.type] = With(@, r.peer, q)]
    /\ \E q \in EraseFirst(listed, r, named) : nodes' = Listed(r.peer, q)

\* (Wrong on purpose: forgets nodes_map.)
DestroyPerPeerUnlisted(r) ==
    /\ table' = [table EXCEPT ![r.type] = Dropped(@, r.peer)]
    /\ nodes' = nodes

\* DeserializeDestruction of every other type: all the peer has of this type
\* goes from X_replicas, and all it has from nodes_map.
DestroyPerPeer(r) ==
    /\ table' = [table EXCEPT ![r.type] = Dropped(@, r.peer)]
    /\ nodes' = Dropped(nodes, r.peer)

\* (Wrong on purpose: the peer stays to be reported.)
NewsKept(p) == news

\* new_clients without a peer.
NewsWithout(p) == Dropped(news, p)

OnDestruction(r) ==
    /\ Arriving("del", r)
    /\ IF r \notin held THEN UNCHANGED viewVars
       ELSE /\ IF r.type \in PerNode THEN DestroyPerNode(r) ELSE DestroyPerPeer(r)
            /\ news' = NewsWithout(r.peer)
            /\ held' = held \ {r}
    /\ inbox' = Taken(r)
    /\ UNCHANGED <<ownerVars, linked, outages>>

\* checkStatus: a peer is reported once.
CheckStatus(p) ==
    /\ p \in DOMAIN news
    /\ news' = NewsWithout(p)
    /\ UNCHANGED <<ownerVars, inbox, linked, outages, held, table, nodes>>

\* (Wrong on purpose: does not ask whether the peer still has replicas.)
AbsentAlways(p) == TRUE

\* GetReplicasCreatedByGuid finds nothing.
Absent(p) == Of(p, held) = {}

\* get<Type>Data and the like: the type's entries of a peer without replicas
\* are erased.
Lookup(p, t) ==
    /\ Absent(p) /\ p \in DOMAIN table[t]
    /\ table' = [table EXCEPT ![t] = Dropped(@, p)]
    /\ UNCHANGED <<ownerVars, inbox, linked, outages, held, nodes, news>>

---------------------------------------------------------------------------
(* The viewer's connection.                                                *)

\* Lost: what has not arrived never will; nothing it holds is deleted.
Outage ==
    /\ linked /\ outages < MaxOutages
    /\ outages' = outages + 1
    /\ linked' = FALSE
    /\ \E i \in 0..Len(inbox) : inbox' = SubSeq(inbox, 1, i)
    /\ UNCHANGED <<ownerVars, viewVars>>

\* Back: everything the server has is constructed on it again.
Return ==
    LET all == UNION {mine[p] : p \in Peers} IN
    /\ ~linked /\ inbox = << >>
    /\ linked' = TRUE
    /\ inbox' = IF all = {} THEN << >> ELSE <<Packet("new", all)>>
    /\ UNCHANGED <<ownerVars, outages, viewVars>>

---------------------------------------------------------------------------
Init ==
    /\ made = [p \in Peers |-> {}]
    /\ nodeMap = [p \in Peers |-> {}]
    /\ mine = [p \in Peers |-> {}]
    /\ inbox = << >>
    /\ linked = TRUE
    /\ outages = 0
    /\ held = {}
    /\ table = [t \in Types |-> EmptyMap]
    /\ nodes = EmptyMap
    /\ news = EmptyMap

Next ==
    \/ \E p \in Peers :
          \/ \E id \in Ids, t \in Types : AddNode(p, id, t)
          \/ \E r \in nodeMap[p] : RemoveNode(p, r)
          \/ RemoveAllNodes(p) \/ PeerReturns(p)
          \/ CheckStatus(p)
          \/ \E t \in Types : Lookup(p, t)
    \/ \E r \in (IF inbox = << >> THEN {} ELSE Head(inbox).rs) :
          OnConstruction(r) \/ OnDestruction(r)
    \/ Outage \/ Return

Spec == Init /\ [][Next]_vars

---------------------------------------------------------------------------
\* A std::map from peers to vectors of replicas.
IsMap(f) == DOMAIN f \subseteq Peers /\ f \in [DOMAIN f -> Seq(Replicas)]

TypeOK ==
    /\ made \in [Peers -> SUBSET Replicas]
    /\ nodeMap \in [Peers -> SUBSET Replicas]
    /\ mine \in [Peers -> SUBSET Replicas]
    /\ inbox \in Seq([kind : {"new", "del"}, rs : SUBSET Replicas])
    /\ linked \in BOOLEAN
    /\ outages \in Nat
    /\ held \subseteq Replicas
    /\ table = [t \in Types |-> table[t]] /\ \A t \in Types : IsMap(table[t])
    /\ IsMap(nodes) /\ IsMap(news)

\* Every entry leads to a replica that exists: nodes_map's and X_replicas'
\* pointers are followed by every lookup (getPeersInfo, getAvatarData).
EntriesHeld ==
    /\ \A p \in DOMAIN nodes : Entries(nodes[p]) \subseteq Of(p, held)
    /\ \A t \in Types : \A p \in DOMAIN table[t] :
          Entries(table[t][p]) \subseteq Of(p, held)

\* A peer that is listed has an entry: getPeersInfo and getIPinfo read the
\* first one of every peer without asking whether there is one.
NoEmptyEntry == \A p \in DOMAIN nodes : nodes[p] # << >>

\* A peer all of whose nodes are of types that are removed one by one is
\* listed with exactly the nodes the viewer holds of it, none of them twice.
ListedExactly ==
    \A p \in Peers : (\A r \in made[p] : r.type \in PerNode) =>
        LET q == At(nodes, p) IN
        /\ Entries(q) = Of(p, held)
        /\ Len(q) = Cardinality(Entries(q))

\* checkStatus only ever reports a peer the viewer holds a node of.
ReportedIsHeld == \A p \in DOMAIN news : Of(p, held) # {}

\* What nodes_map tells an application to ask for (getNodesInfo), the table
\* of its type has (get<Type>Data).
ListedIsFound ==
    \A p \in DOMAIN nodes : \A r \in Entries(nodes[p]) :
        r \in Entries(At(table[r.type], p))
===========================================================================
