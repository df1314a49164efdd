------------------------- MODULE SceneReplication -------------------------
(***************************************************************************)
(* The replication of a shared scene between the clients of the Beaming    *)
(* Scene Service and its server.                                           *)
(*                                                                         *)
(* A client application creates nodes (addNode) and removes them           *)
(* (removeNode, removeAllNodes).  Each node is a Replica3; ReplicaManager3 *)
(* of the owner constructs it on the server, the server gives it a         *)
(* network id, answers with the id and constructs it on every other        *)
(* client.  A removal travels the same way.  Every process is one thread   *)
(* that alternates between its own calls and RakPeer::Receive; one Receive *)
(* runs ReplicaManager3::Update and then handles at most one packet, and   *)
(* that pair is one action here.                                           *)
(*                                                                         *)
(* Values that a node carries are left to another module: a serialization  *)
(* packet neither creates nor destroys a replica.                          *)
(***************************************************************************)
EXTENDS Naturals, FiniteSets, Sequences

CONSTANTS
    Clients,     \* client processes (one RakNet GUID each)
    Nodes,       \* node instances (one C++ object each) clients may create
    Owner,       \* Owner[n]: the client whose application creates n
    Ordered,     \* TRUE: clients send RELIABLE_ORDERED; FALSE: RELIABLE
    Prompt,      \* TRUE: the server's thread handles the end of a connection
                 \* before the client is back; FALSE: it may be stalled
    MaxBreaks,   \* bound: connections the network may break
    MaxCrashes,  \* bound: crashes (and restarts) of the server process
    MaxQuits     \* bound: 1 if the operator may quit the server, else 0

ASSUME OwnerAssumption == Owner \in [Nodes -> Clients]
ASSUME ModeAssumption == Ordered \in BOOLEAN /\ Prompt \in BOOLEAN
ASSUME BoundAssumption == MaxBreaks \in Nat /\ MaxCrashes \in Nat /\ MaxQuits \in Nat

VARIABLES
    link,      \* per client: isconnected / connection_lost and what led there
    cConn,     \* per client: its Connection_RM3 to the server
    own,       \* per node: the replica in the owner's <Type>NodeMap
    nid,       \* per node: the NetworkID the owner's replica has
    cQuery,    \* per client: queryToConstructReplicaList (own nodes)
    cHas,      \* per client: constructedReplicaList (own nodes)
    copies,    \* per client: ids of the peers' replicas it holds
    up,        \* the server process is running
    srvConn,   \* per client: the server's Connection_RM3 to it
    srv,       \* the server's userReplicaList, by id
    srvQuery,  \* per client: queryToConstructReplicaList, by id
    srvHas,    \* per client: constructedReplicaList, by id
    issued,    \* per node: how many ids the authority has given it
    wire,      \* per client: the transport connection is established
    toSrv,     \* per client: packets to the server, receive queue included
    toCli,     \* per client: packets from the server
    faults     \* faults so far: breaks, crashes, quits

clientVars == <<link, cConn, own, nid, cQuery, cHas, copies>>
serverVars == <<up, srvConn, srv, srvQuery, srvHas, issued>>
vars == <<link, cConn, own, nid, cQuery, cHas, copies,
          up, srvConn, srv, srvQuery, srvHas, issued,
          wire, toSrv, toCli, faults>>

---------------------------------------------------------------------------
(* Identities and packets.                                                 *)

\* UNASSIGNED_NETWORK_ID.
NoId == [node |-> "unassigned", k |-> 0]

\* An id is the server's GUID and a counter: unique, so what the model keeps
\* of it is which node and which of the node's constructions it names.
Ids == [node : Nodes, k : Nat \ {0}]
OwnerOf(id) == Owner[id.node]
NodesOf(c) == {n \in Nodes : Owner[n] = c}

\* ID_CONNECTION_REQUEST_ACCEPTED, ID_NEW_INCOMING_CONNECTION, SCOPE_CHANGE,
\* ID_CONNECTION_LOST, ID_DISCONNECTION_NOTIFICATION.
Accepted == [kind |-> "accepted"]
Incoming == [kind |-> "incoming"]
Scope    == [kind |-> "scope"]
Lost     == [kind |-> "lost"]
Bye      == [kind |-> "bye"]

\* ID_REPLICA_MANAGER_CONSTRUCTION: replicas to create and ids to destroy.
\* A client sends <<node, id>> pairs (the id may be unassigned).
Construction(new, del) == [kind |-> "construction", new |-> new, del |-> del]

\* ID_REPLICA_MANAGER_3_LOCAL_CONSTRUCTION_ACCEPTED, one packet per id; the
\* packets of one batch are independent and are held as a set.
Assigned(ids) == [kind |-> "assigned", ids |-> ids]

\* No packet is sent for nothing (the empty destruction lists the code does
\* send have no effect on their receiver).
Construct(new) == IF new = {} THEN << >> ELSE <<Construction(new, {})>>
Destruct(del)  == IF del = {} THEN << >> ELSE <<Construction({}, del)>>
Assign(ids)    == IF ids = {} THEN << >> ELSE <<Assigned(ids)>>

\* Data sent by a client may overtake the packets before it when the client
\* library runs with its default reliability, except the end of a connection.
IsData(m) == m.kind = "construction"
CanTake(q, i) ==
    \/ i = 1
    \/ /\ ~Ordered /\ IsData(q[i])
       /\ \A j \in 1..(i - 1) : q[j].kind \in {"construction", "scope", "incoming"}
    \/ /\ ~Ordered /\ q[i].kind = "scope"
       /\ \A j \in 1..(i - 1) : IsData(q[j])
Without(q, i) == SubSeq(q, 1, i - 1) \o SubSeq(q, i + 1, Len(q))

\* Send on a connection: lost when the transport or the server is gone.
Send(c, q, packets) == IF wire[c] /\ up THEN q \o packets ELSE q

\* What a receiver still gets of the packets in flight when a connection
\* ends: those already in its receive queue.  ID_CONNECTION_REQUEST_ACCEPTED,
\* ID_NEW_INCOMING_CONNECTION and ID_CONNECTION_LOST are put there by the
\* receiving peer itself, so what precedes one of them has arrived.
IsLocal(m) == m.kind \in {"accepted", "incoming", "lost"}

\* In order, what arrived is a prefix.
Cuts(q) == {i \in 0..Len(q) : \A k \in (i + 1)..Len(q) : ~IsLocal(q[k])}
\* Out of order, packets of the prefix may be missing too; one at most here.
KeptToSrv(q) ==
    {SubSeq(q, 1, i) : i \in Cuts(q)} \cup
    IF Ordered THEN {}
    ELSE UNION {{Without(SubSeq(q, 1, i), j) :
                   j \in {k \in 1..i : IsData(q[k]) /\ k - 1 \in Cuts(q)}} :
                i \in Cuts(q)}

---------------------------------------------------------------------------
(* ReplicaManager3::Update.  Every replica queued for a validated          *)
(* connection is constructed on it, all of them in one packet.             *)

\* (Wrong on purpose: does not wait for the connection to be validated.)
CFlushUnvalidated(c) == IF cConn[c] # "none" THEN cQuery[c] ELSE {}

CFlush(c) == IF cConn[c] = "valid" THEN cQuery[c] ELSE {}
CPacket(c) == Construct({<<n, nid[n]>> : n \in CFlush(c)})

SFlush(c) == IF srvConn[c] = "valid" THEN srvQuery[c] ELSE {}
SPacket(c) == Construct(SFlush(c))

\* The connection lists an Update leaves behind.
CHasNow(c) == cHas[c] \cup CFlush(c)
CQueryNow(c) == cQuery[c] \ CFlush(c)
SHasNow(c) == srvHas[c] \cup SFlush(c)
SQueryNow(c) == srvQuery[c] \ SFlush(c)

---------------------------------------------------------------------------
(* The client application's calls.                                         *)

Active(c) == link[c] \notin {"idle", "stopped"}
LiveOf(c) == {n \in NodesOf(c) : own[n] = "live"}

\* startclient: Startup, AttachPlugin and a single Connect.
StartClient(c) ==
    /\ link[c] = "idle"
    /\ link' = [link EXCEPT ![c] = "connecting"]
    /\ UNCHANGED <<cConn, own, nid, cQuery, cHas, copies, serverVars,
                   wire, toSrv, toCli, faults>>

\* addNode: a new replica, referenced, so queued for the connection if any.
AddNode(n) ==
    LET c == Owner[n] IN
    /\ Active(c) /\ own[n] = "none"
    /\ own' = [own EXCEPT ![n] = "live"]
    /\ cQuery' = IF cConn[c] = "none" THEN cQuery
                 ELSE [cQuery EXCEPT ![c] = @ \cup {n}]
    /\ UNCHANGED <<link, cConn, nid, cHas, copies, serverVars,
                   wire, toSrv, toCli, faults>>

\* (Wrong on purpose: dereferences first, so the list names no connection.)
DestroyOwnUnsent(c, S) ==
    /\ own' = [n \in Nodes |-> IF n \in S THEN "gone" ELSE own[n]]
    /\ cQuery' = [cQuery EXCEPT ![c] = @ \ S]
    /\ cHas' = [cHas EXCEPT ![c] = @ \ S]
    /\ toSrv' = toSrv

\* BroadcastDestructionList and Dereference of some own nodes: the server is
\* told of those it was sent, by the id they have now, even an unassigned one.
DestroyOwn(c, S) ==
    /\ own' = [n \in Nodes |-> IF n \in S THEN "gone" ELSE own[n]]
    /\ cQuery' = [cQuery EXCEPT ![c] = @ \ S]
    /\ cHas' = [cHas EXCEPT ![c] = @ \ S]
    /\ toSrv' = [toSrv EXCEPT ![c] =
                    Send(c, @, Destruct({nid[n] : n \in S \cap cHas[c]}))]

\* removeNode, for every type but AVATAR; deleteRocketBoxAvatar for AVATAR.
RemoveNode(n) ==
    /\ Active(Owner[n]) /\ own[n] = "live"
    /\ DestroyOwn(Owner[n], {n})
    /\ UNCHANGED <<link, cConn, nid, copies, serverVars, wire, toCli, faults>>

\* removeAllNodes: everything created here and still referenced; the maps
\* are cleared, dangling entries included.
RemoveAllNodes(c) ==
    LET S == {n \in NodesOf(c) : own[n] \in {"live", "dangling"}} IN
    /\ Active(c) /\ LiveOf(c) # {}
    /\ DestroyOwn(c, S)
    /\ UNCHANGED <<link, cConn, nid, copies, serverVars, wire, toCli, faults>>

\* stop, or the end of the client process: the server sees the connection
\* end after whatever of the packets in flight it still received.
Stop(c) ==
    LET S == {n \in NodesOf(c) : own[n] \in {"live", "dangling"}} IN
    /\ Active(c)
    /\ link' = [link EXCEPT ![c] = "stopped"]
    /\ own' = [n \in Nodes |-> IF n \in S THEN "gone" ELSE own[n]]
    /\ cConn' = [cConn EXCEPT ![c] = "none"]
    /\ cQuery' = [cQuery EXCEPT ![c] = {}]
    /\ cHas' = [cHas EXCEPT ![c] = {}]
    /\ copies' = [copies EXCEPT ![c] = {}]
    /\ toCli' = [toCli EXCEPT ![c] = << >>]
    /\ wire' = [wire EXCEPT ![c] = FALSE]
    /\ IF wire[c] /\ up
       THEN \E q \in KeptToSrv(toSrv[c]) :
               toSrv' = [toSrv EXCEPT ![c] = Append(q, Bye)]
       ELSE toSrv' = toSrv
    /\ UNCHANGED <<nid, serverVars, faults>>

---------------------------------------------------------------------------
(* RakPeer::Receive in a client.  Update comes first, then one packet.     *)

Arriving(c, kind) ==
    Active(c) /\ toCli[c] # << >> /\ Head(toCli[c]).kind = kind

\* Update with no packet to handle.
ClientUpdate(c) ==
    /\ Active(c) /\ CFlush(c) # {}
    /\ cHas' = [cHas EXCEPT ![c] = CHasNow(c)]
    /\ cQuery' = [cQuery EXCEPT ![c] = CQueryNow(c)]
    /\ toSrv' = [toSrv EXCEPT ![c] = Send(c, @, CPacket(c))]
    /\ UNCHANGED <<link, cConn, own, nid, copies, serverVars, wire, toCli, faults>>

\* OnNewConnection, PushConnection: a SCOPE_CHANGE is sent and everything
\* referenced is queued; check() then clears connection_lost.  (Replicas of
\* peers are queued too and dropped by the next Update: NEVER_CONSTRUCT.)
ClientOnAccepted(c) ==
    /\ Arriving(c, "accepted")
    /\ link' = [link EXCEPT ![c] = "up"]
    /\ IF cConn[c] = "none"
       THEN /\ cConn' = [cConn EXCEPT ![c] = "pushed"]
            /\ cQuery' = [cQuery EXCEPT ![c] = LiveOf(c)]
            /\ toSrv' = [toSrv EXCEPT ![c] = Send(c, @, <<Scope>>)]
            /\ cHas' = cHas
       ELSE /\ cHas' = [cHas EXCEPT ![c] = CHasNow(c)]
            /\ cQuery' = [cQuery EXCEPT ![c] = CQueryNow(c)]
            /\ toSrv' = [toSrv EXCEPT ![c] = Send(c, @, CPacket(c))]
            /\ cConn' = cConn
    /\ toCli' = [toCli EXCEPT ![c] = Tail(@)]
    /\ UNCHANGED <<own, nid, copies, serverVars, wire, faults>>

\* SCOPE_CHANGE: the first one validates the connection and is answered.
ClientOnScope(c) ==
    /\ Arriving(c, "scope")
    /\ cConn' = IF cConn[c] = "pushed" THEN [cConn EXCEPT ![c] = "valid"] ELSE cConn
    /\ cHas' = [cHas EXCEPT ![c] = CHasNow(c)]
    /\ cQuery' = [cQuery EXCEPT ![c] = CQueryNow(c)]
    /\ toSrv' = [toSrv EXCEPT ![c] =
                    Send(c, @, CPacket(c) \o
                               IF cConn[c] = "pushed" THEN <<Scope>> ELSE << >>)]
    /\ toCli' = [toCli EXCEPT ![c] = Tail(@)]
    /\ UNCHANGED <<link, own, nid, copies, serverVars, wire, faults>>

\* OnLocalConstructionAccepted: the id is taken if the replica still exists
\* and was constructed on this connection, and dropped otherwise.
ClientOnAssigned(c) ==
    /\ Arriving(c, "assigned")
    /\ \E id \in Head(toCli[c]).ids :
        /\ nid' = IF cConn[c] # "none" /\ own[id.node] = "live"
                     /\ id.node \in CHasNow(c)
                  THEN [nid EXCEPT ![id.node] = id] ELSE nid
        /\ toCli' = [toCli EXCEPT ![c] =
                        Assign(Head(@).ids \ {id}) \o Tail(@)]
    /\ cHas' = [cHas EXCEPT ![c] = CHasNow(c)]
    /\ cQuery' = [cQuery EXCEPT ![c] = CQueryNow(c)]
    /\ toSrv' = [toSrv EXCEPT ![c] = Send(c, @, CPacket(c))]
    /\ UNCHANGED <<link, cConn, own, copies, serverVars, wire, faults>>

\* OnConstruction in a client: an id it has is left alone (OnDownloadExisting),
\* a new one becomes a copy; then the ids to destroy, unknown ones skipped.
\* An own replica can be named there: it is deleted under its <Type>NodeMap.
ClientOnConstruction(c) ==
    LET m == Head(toCli[c])
        mine == {n \in LiveOf(c) : nid[n] # NoId}
        hit == {n \in mine : nid[n] \in m.del}
        known == {nid[n] : n \in mine}
    IN
    /\ Arriving(c, "construction")
    /\ IF cConn[c] = "none" THEN UNCHANGED <<own, copies, cHas, cQuery>>
       ELSE /\ copies' = [copies EXCEPT ![c] = (@ \cup (m.new \ known)) \ m.del]
            /\ own' = [n \in Nodes |-> IF n \in hit THEN "dangling" ELSE own[n]]
            /\ cHas' = [cHas EXCEPT ![c] = CHasNow(c) \ hit]
            /\ cQuery' = [cQuery EXCEPT ![c] = CQueryNow(c) \ hit]
    /\ toSrv' = [toSrv EXCEPT ![c] = Send(c, @, CPacket(c))]
    /\ toCli' = [toCli EXCEPT ![c] = Tail(@)]
    /\ UNCHANGED <<link, cConn, nid, serverVars, wire, faults>>

\* OnClosedConnection, PopConnection: in a client no replica was created by
\* the server, so none is deleted.  check() then asks for a reconnection ...
ClientOnLost(c) ==
    /\ Arriving(c, "lost")
    /\ link' = [link EXCEPT ![c] = "lost"]
    /\ cConn' = [cConn EXCEPT ![c] = "none"]
    /\ cHas' = [cHas EXCEPT ![c] = {}]
    /\ cQuery' = [cQuery EXCEPT ![c] = {}]
    /\ toSrv' = [toSrv EXCEPT ![c] = Send(c, @, CPacket(c))]
    /\ toCli' = [toCli EXCEPT ![c] = Tail(@)]
    /\ UNCHANGED <<own, nid, copies, serverVars, wire, faults>>

\* ... or, told that the server disconnected, removes all of its own nodes.
ClientOnBye(c) ==
    /\ Arriving(c, "bye")
    /\ link' = [link EXCEPT ![c] = "closed"]
    /\ cConn' = [cConn EXCEPT ![c] = "none"]
    /\ cHas' = [cHas EXCEPT ![c] = {}]
    /\ cQuery' = [cQuery EXCEPT ![c] = {}]
    /\ own' = [n \in Nodes |-> IF n \in NodesOf(c) /\ own[n] # "none"
                               THEN "gone" ELSE own[n]]
    /\ toSrv' = [toSrv EXCEPT ![c] = Send(c, @, CPacket(c))]
    /\ toCli' = [toCli EXCEPT ![c] = Tail(@)]
    /\ wire' = [wire EXCEPT ![c] = FALSE]
    /\ UNCHANGED <<nid, copies, serverVars, faults>>

ClientReceive(c) ==
    \/ ClientUpdate(c)
    \/ ClientOnAccepted(c)
    \/ ClientOnScope(c)
    \/ ClientOnAssigned(c)
    \/ ClientOnConstruction(c)
    \/ ClientOnLost(c)
    \/ ClientOnBye(c)

---------------------------------------------------------------------------
(* RakPeer::Receive in the server.                                         *)

\* Connections ReplicaManager3 holds: the server's connectionList.
Pushed == {c \in Clients : srvConn[c] # "none"}

\* (Wrong on purpose: nobody's replicas, and everybody's.)
CreatedByNobody(c) == {id \in srv : OwnerOf(id) \notin Clients}
CreatedByAnyone(c) == srv

\* Replicas created by a client (GetReplicasCreatedByGuid).
CreatedBy(c) == {id \in srv : OwnerOf(id) = c}

\* (Wrong on purpose: a new connection starts with nothing queued.)
ReferencedLater == srv \ srv

\* What PushConnection queues for a connection: everything there is.
Referenced == srv

\* (Wrong on purpose: the destroyed replica stays on the list.)
DereferenceForgotten(list, ids) == list

\* Dereference: the ids are taken off a list.
Dereference(list, ids) == list \ ids

\* (Wrong on purpose: the packet of Update last, and only when the handler
\* sends nothing.)
DeliverUpdateLast(extra) ==
    toCli' = [d \in Clients |-> Send(d, toCli[d], extra[d] \o SPacket(d))]
DeliverOneOnly(extra) ==
    toCli' = [d \in Clients |->
                 Send(d, toCli[d], IF extra[d] = << >> THEN SPacket(d) ELSE extra[d])]

\* What every connection is sent by a Receive: the packet of Update, then
\* what the handler sends it.
Deliver(extra) ==
    toCli' = [d \in Clients |-> Send(d, toCli[d], SPacket(d) \o extra[d])]
Nothing == [d \in Clients |-> << >>]

Reaching(c, i, kind) ==
    /\ up /\ i \in DOMAIN toSrv[c]
    /\ toSrv[c][i].kind = kind /\ CanTake(toSrv[c], i)
Take(c, i) == toSrv' = [toSrv EXCEPT ![c] = Without(@, i)]

\* Update with no packet to handle.
ServerUpdate ==
    /\ up /\ \E d \in Clients : SFlush(d) # {}
    /\ srvHas' = [d \in Clients |-> SHasNow(d)]
    /\ srvQuery' = [d \in Clients |-> SQueryNow(d)]
    /\ Deliver(Nothing)
    /\ UNCHANGED <<clientVars, up, srvConn, srv, issued, wire, toSrv, faults>>

\* OnNewConnection, PushConnection: every replica there is gets queued for
\* the new connection.
ServerOnIncoming(c, i) ==
    LET fresh == srvConn[c] = "none" IN
    /\ Reaching(c, i, "incoming") /\ Take(c, i)
    /\ srvConn' = IF fresh THEN [srvConn EXCEPT ![c] = "pushed"] ELSE srvConn
    /\ srvQuery' = [d \in Clients |-> IF fresh /\ d = c THEN Referenced
                                        ELSE SQueryNow(d)]
    /\ srvHas' = [d \in Clients |-> IF fresh /\ d = c THEN {} ELSE SHasNow(d)]
    /\ Deliver([Nothing EXCEPT ![c] = IF fresh THEN <<Scope>> ELSE << >>])
    /\ UNCHANGED <<clientVars, up, srv, issued, wire, faults>>

ServerOnScope(c, i) ==
    LET first == srvConn[c] = "pushed" IN
    /\ Reaching(c, i, "scope") /\ Take(c, i)
    /\ srvConn' = IF first THEN [srvConn EXCEPT ![c] = "valid"] ELSE srvConn
    /\ srvHas' = [d \in Clients |-> SHasNow(d)]
    /\ srvQuery' = [d \in Clients |-> SQueryNow(d)]
    /\ Deliver([Nothing EXCEPT ![c] = IF first THEN <<Scope>> ELSE << >>])
    /\ UNCHANGED <<clientVars, up, srv, issued, wire, faults>>

\* (Wrong on purpose: the id a reconnecting owner brings is not kept, and the
\* counter is read before it is incremented.)
IdForAlwaysNew(e) == [node |-> e[1], k |-> issued[e[1]] + 1]
IdForUncounted(e) == IF e[2] # NoId THEN e[2] ELSE [node |-> e[1], k |-> issued[e[1]]]

\* The id a construction gives a node: the one it came with, or the next one
\* of the authority.
IdFor(e) == IF e[2] # NoId THEN e[2] ELSE [node |-> e[1], k |-> issued[e[1]] + 1]

\* OnConstruction in the server.  Constructions: an id in use is only marked
\* as constructed on the sender; another one is created, answered when the
\* server chose its id, marked constructed on the sender and queued for every
\* other connection.  Destructions: ids the server does not have are skipped,
\* the others forwarded to the connections that have them and dereferenced.
ServerOnConstruction(c, i) ==
    LET m == toSrv[c][i]
        existing == {e[2] : e \in m.new} \cap srv
        created == {IdFor(e) : e \in {e \in m.new : e[2] \notin srv}}
        assigned == {IdFor(e) : e \in {e \in m.new : e[2] = NoId}}
        doomed == m.del \cap (srv \cup created)
        has == [d \in Clients |->
                  IF d = c THEN SHasNow(d) \cup created \cup (existing \cap SQueryNow(d))
                  ELSE SHasNow(d)]
        query == [d \in Clients |->
                    IF d = c THEN SQueryNow(d) \ (created \cup existing)
                    ELSE IF d \in Pushed THEN SQueryNow(d) \cup created
                    ELSE SQueryNow(d)]
    IN
    /\ Reaching(c, i, "construction") /\ Take(c, i)
    /\ IF srvConn[c] = "none"
       THEN /\ srvHas' = [d \in Clients |-> SHasNow(d)]
            /\ srvQuery' = [d \in Clients |-> SQueryNow(d)]
            /\ Deliver(Nothing)
            /\ UNCHANGED <<srv, issued>>
       ELSE /\ srv' = Dereference(srv \cup created, doomed)
            /\ srvHas' = [d \in Clients |-> Dereference(has[d], doomed)]
            /\ srvQuery' = [d \in Clients |-> Dereference(query[d], doomed)]
            /\ issued' = [n \in Nodes |-> IF <<n, NoId>> \in m.new
                                          THEN issued[n] + 1 ELSE issued[n]]
            /\ Deliver([d \in Clients |->
                           IF d = c THEN Assign(assigned)
                           ELSE Destruct(doomed \cap has[d])])
    /\ UNCHANGED <<clientVars, up, srvConn, wire, faults>>

\* OnClosedConnection, PopConnection: the replicas the dropped client created
\* are destroyed on the other connections, then once more by each destructor
\* (~BeamingUser), which leaves nobody out, not even the dropped client should
\* its transport be connected again; the connection goes with its lists.
ServerOnClosed(c, i) ==
    LET dropped == IF srvConn[c] = "none" THEN {} ELSE CreatedBy(c) IN
    /\ \/ Reaching(c, i, "lost")
       \/ Reaching(c, i, "bye")
    /\ Take(c, i)
    /\ srvConn' = [srvConn EXCEPT ![c] = "none"]
    /\ srv' = Dereference(srv, dropped)
    /\ srvHas' = [d \in Clients |-> IF d = c THEN {}
                                    ELSE Dereference(SHasNow(d), dropped)]
    /\ srvQuery' = [d \in Clients |-> IF d = c THEN {}
                                      ELSE Dereference(SQueryNow(d), dropped)]
    /\ Deliver([d \in Clients |->
                   (IF d = c THEN << >> ELSE Destruct(dropped \cap SHasNow(d)))
                   \o Destruct(dropped \cap SHasNow(d))])
    /\ UNCHANGED <<clientVars, up, issued, wire, faults>>

ServerReceive ==
    \/ ServerUpdate
    \/ \E c \in Clients : \E i \in DOMAIN toSrv[c] :
          \/ ServerOnIncoming(c, i)
          \/ ServerOnScope(c, i)
          \/ ServerOnConstruction(c, i)
          \/ ServerOnClosed(c, i)

\* The operator quits: every replica is destroyed on every connection that
\* has it, its owner's included, by the list and again by each destructor;
\* Shutdown notifies the clients.  What the 100 ms it waits are too short for
\* is lost with the wire (Break).
ServerQuit ==
    /\ up /\ faults.quits < MaxQuits
    /\ faults' = [faults EXCEPT !.quits = @ + 1]
    /\ up' = FALSE
    /\ toCli' = [d \in Clients |-> Send(d, toCli[d],
                    Destruct(srvHas[d]) \o Destruct(srvHas[d]) \o <<Bye>>)]
    /\ toSrv' = [d \in Clients |-> << >>]
    /\ srvConn' = [d \in Clients |-> "none"]
    /\ srv' = {}
    /\ srvHas' = [d \in Clients |-> {}]
    /\ srvQuery' = [d \in Clients |-> {}]
    /\ UNCHANGED <<clientVars, issued, wire>>

---------------------------------------------------------------------------
(* The transport, and its faults.                                          *)

\* A connection attempt succeeds: the one of startclient or one of those
\* check() makes while connection_lost.  The server's peer admits it once it
\* has given up the client's former connection, even if ReplicaManager3 has
\* yet to be told (unless Prompt).
Establish(c) ==
    /\ up /\ link[c] \in {"connecting", "lost"}
    /\ ~wire[c] /\ toCli[c] = << >>
    /\ Prompt => toSrv[c] = << >>
    /\ wire' = [wire EXCEPT ![c] = TRUE]
    /\ toCli' = [toCli EXCEPT ![c] = <<Accepted>>]
    /\ toSrv' = [toSrv EXCEPT ![c] = Append(@, Incoming)]
    /\ UNCHANGED <<clientVars, serverVars, faults>>

\* ID_CONNECTION_ATTEMPT_FAILED: check() prints it; Connect is not called
\* again (connection_lost is not set by a first attempt).
ConnectFails(c) ==
    /\ link[c] = "connecting" /\ ~wire[c]
    /\ link' = [link EXCEPT ![c] = "failed"]
    /\ UNCHANGED <<cConn, own, nid, cQuery, cHas, copies, serverVars,
                   wire, toSrv, toCli, faults>>

\* The client's end of a connection cut after its i-th packet: it times out,
\* unless it had been notified of the disconnection.
CutOff(q, i) ==
    IF i > 0 /\ q[i].kind = "bye" THEN SubSeq(q, 1, i)
    ELSE Append(SubSeq(q, 1, i), Lost)

\* The network breaks a connection.  Both ends time out.
Break(c) ==
    /\ wire[c] /\ faults.breaks < MaxBreaks
    /\ faults' = [faults EXCEPT !.breaks = @ + 1]
    /\ wire' = [wire EXCEPT ![c] = FALSE]
    /\ \E i \in Cuts(toCli[c]) :
          toCli' = [toCli EXCEPT ![c] = CutOff(@, i)]
    /\ IF up THEN \E q \in KeptToSrv(toSrv[c]) :
                     toSrv' = [toSrv EXCEPT ![c] = Append(q, Lost)]
       ELSE toSrv' = toSrv
    /\ UNCHANGED <<clientVars, serverVars>>

\* The server process dies and a new one, with another GUID, takes its place.
\* Every connection ends; nothing of the scene survives in the server.
ServerCrash ==
    /\ up /\ faults.crashes < MaxCrashes
    /\ faults' = [faults EXCEPT !.crashes = @ + 1]
    /\ \E cut \in [Clients -> UNION {Cuts(toCli[d]) : d \in Clients}] :
          /\ \A d \in Clients : cut[d] \in Cuts(toCli[d])
          /\ toCli' = [d \in Clients |-> IF wire[d] THEN CutOff(toCli[d], cut[d])
                                         ELSE toCli[d]]
    /\ wire' = [d \in Clients |-> FALSE]
    /\ toSrv' = [d \in Clients |-> << >>]
    /\ srvConn' = [d \in Clients |-> "none"]
    /\ srv' = {}
    /\ srvHas' = [d \in Clients |-> {}]
    /\ srvQuery' = [d \in Clients |-> {}]
    /\ UNCHANGED <<clientVars, up, issued>>

---------------------------------------------------------------------------
Init ==
    /\ link = [c \in Clients |-> "idle"]
    /\ cConn = [c \in Clients |-> "none"]
    /\ own = [n \in Nodes |-> "none"]
    /\ nid = [n \in Nodes |-> NoId]
    /\ cQuery = [c \in Clients |-> {}]
    /\ cHas = [c \in Clients |-> {}]
    /\ copies = [c \in Clients |-> {}]
    /\ up = TRUE
    /\ srvConn = [c \in Clients |-> "none"]
    /\ srv = {}
    /\ srvQuery = [c \in Clients |-> {}]
    /\ srvHas = [c \in Clients |-> {}]
    /\ issued = [n \in Nodes |-> 0]
    /\ wire = [c \in Clients |-> FALSE]
    /\ toSrv = [c \in Clients |-> << >>]
    /\ toCli = [c \in Clients |-> << >>]
    /\ faults = [breaks |-> 0, crashes |-> 0, quits |-> 0]

Next ==
    \/ \E n \in Nodes : AddNode(n) \/ RemoveNode(n)
    \/ \E c \in Clients :
          \/ StartClient(c) \/ RemoveAllNodes(c) \/ Stop(c)
          \/ ClientReceive(c)
          \/ Establish(c) \/ ConnectFails(c) \/ Break(c)
    \/ ServerReceive
    \/ ServerQuit
    \/ ServerCrash

\* Both loops keep calling Receive, and while a client keeps asking for a
\* connection the network in the end grants it one.
Fairness ==
    /\ \A c \in Clients : WF_vars(ClientReceive(c)) /\ WF_vars(Establish(c))
    /\ WF_vars(ServerReceive)

Spec == Init /\ [][Next]_vars
FairSpec == Spec /\ Fairness

---------------------------------------------------------------------------
(* Types.                                                                  *)

PacketsToSrv ==
    {Incoming, Scope, Lost, Bye} \cup
    [kind : {"construction"}, new : SUBSET (Nodes \X (Ids \cup {NoId})),
     del : SUBSET (Ids \cup {NoId})]
PacketsToCli ==
    {Accepted, Scope, Lost, Bye} \cup
    [kind : {"construction"}, new : SUBSET Ids, del : SUBSET Ids] \cup
    [kind : {"assigned"}, ids : SUBSET Ids]

TypeOK ==
    /\ link \in [Clients -> {"idle", "connecting", "failed", "up", "lost",
                             "closed", "stopped"}]
    /\ cConn \in [Clients -> {"none", "pushed", "valid"}]
    /\ own \in [Nodes -> {"none", "live", "dangling", "gone"}]
    /\ nid \in [Nodes -> Ids \cup {NoId}]
    /\ cQuery \in [Clients -> SUBSET Nodes]
    /\ cHas \in [Clients -> SUBSET Nodes]
    /\ copies \in [Clients -> SUBSET Ids]
    /\ up \in BOOLEAN
    /\ srvConn \in [Clients -> {"none", "pushed", "valid"}]
    /\ srv \in SUBSET Ids
    /\ srvQuery \in [Clients -> SUBSET Ids]
    /\ srvHas \in [Clients -> SUBSET Ids]
    /\ issued \in [Nodes -> Nat]
    /\ wire \in [Clients -> BOOLEAN]
    /\ toSrv \in [Clients -> Seq(PacketsToSrv)]
    /\ toCli \in [Clients -> Seq(PacketsToCli)]
    /\ faults \in [breaks : Nat, crashes : Nat, quits : Nat]

---------------------------------------------------------------------------
(* What the server believes and what the clients have.                     *)

\* The ids client d has once it has handled what is in flight to it.
Becomes(d) ==
    LET q == toCli[d]
        adds(i) == q[i].kind = "construction"
        later(i, id) == \E j \in (i + 1)..Len(q) : adds(j) /\ id \in q[j].del
    IN  {id \in copies[d] : ~later(0, id)} \cup
        {id \in UNION {q[i].new : i \in {j \in DOMAIN q : adds(j)}} :
            \E i \in DOMAIN q : adds(i) /\ id \in q[i].new /\ ~later(i, id)}

\* The server's connection to c and the transport below it are the same one:
\* no end of a former one, and no beginning of a new one, is still to be seen.
Joined(c) ==
    /\ wire[c] /\ srvConn[c] # "none"
    /\ \A i \in DOMAIN toSrv[c] : toSrv[c][i].kind \notin {"lost", "bye", "incoming"}
\* ... and the client is in the same connection too.
Settled(c) ==
    /\ Joined(c) /\ cConn[c] # "none"
    /\ \A i \in DOMAIN toCli[c] : toCli[c][i].kind \notin {"lost", "bye", "accepted"}

\* Packets that construct or destroy in flight from client c.
Sent(c) == {toSrv[c][i] : i \in {j \in DOMAIN toSrv[c] : IsData(toSrv[c][j])}}

\* No client ever holds a copy of a node of its own: the server's test
\* "Send back to the owner client too" (QueryConstruction_ClientConstruction)
\* never does, because the owner is in the constructed list from the start
\* and its replicas are gone before a new connection of it is pushed.
NoEcho == \A d \in Clients : \A id \in copies[d] : OwnerOf(id) # d

\* The server never holds two replicas of one node, whatever connections were
\* broken while ids were being assigned.
OneReplicaPerNode == \A x, y \in srv : x.node = y.node => x = y

\* constructedReplicaList is right about a peer's replica: the client it
\* belongs to has it or is about to.  Destructions are only sent by that list.
ServerBeliefSound ==
    \A d \in Clients : Joined(d) =>
        \A id \in srvHas[d] : OwnerOf(id) # d => id \in Becomes(d)

\* While no connection has been broken, a client keeps no copy the server does
\* not account for: whatever it holds that is not in constructedReplicaList is
\* about to be destroyed.
NoStaleCopy ==
    (faults.breaks = 0 /\ faults.crashes = 0) =>
        \A d \in Clients : Joined(d) => Becomes(d) \subseteq srvHas[d]

\* "Got OnConstruction but no connection yet", the code's assertion: neither
\* side is ever to handle a construction without a Connection_RM3.
ConstructionHasConnection ==
    \A c \in Clients :
        /\ Arriving(c, "construction") => cConn[c] # "none"
        /\ \A i \in DOMAIN toSrv[c] :
              Reaching(c, i, "construction") => srvConn[c] # "none"

\* The owner's id for a node it has constructed on this connection is the one
\* the server has, unless the construction is still on its way there or the
\* answer to it on its way back.  (An answer to a construction of a former
\* connection, handled late, can reach the owner before the right one.)
AssignedIdHolds ==
    \A n \in Nodes : LET c == Owner[n] IN
        (Settled(c) /\ own[n] = "live" /\ n \in cHas[c] /\ nid[n] # NoId)
            => \/ nid[n] \in srv
               \/ \E m \in Sent(c) : \E e \in m.new : e[1] = n
               \/ \E i \in DOMAIN toCli[c] : /\ toCli[c][i].kind = "assigned"
                                             /\ \E id \in toCli[c][i].ids \cap srv :
                                                   id.node = n

\* A replica the server keeps of a node that is gone is one its owner never
\* learned the id of, so could not name, or one whose destruction is coming.
GhostsOnlyFromEarlyRemovals ==
    \A id \in srv :
        (Settled(OwnerOf(id)) /\ own[id.node] = "gone")
            => \/ nid[id.node] # id
               \/ \E m \in Sent(OwnerOf(id)) : id \in m.del

\* What removeNode and removeAllNodes are for ("Send a packet to tell other
\* systems to delete these objects"): once nothing is in flight from its
\* owner, the server keeps no replica of a node that is gone.
NoGhost ==
    \A id \in srv :
        (Settled(OwnerOf(id)) /\ toSrv[OwnerOf(id)] = << >>)
            => own[id.node] # "gone"

\* "Other clients are notified of this disconnection, and destroy any
\* locally-stored data structures pertaining to your client": a client that is
\* up to date with the server has no copy of a client the server has let go.
DepartedForgotten ==
    \A d \in Clients : \A id \in copies[d] :
        (Settled(d) /\ srvConn[d] = "valid" /\ toCli[d] = << >>)
            => ~(link[OwnerOf(id)] = "stopped" /\ toSrv[OwnerOf(id)] = << >>)

\* The ids of its own nodes a client is about to be told to destroy.
OwnDoomed(c) ==
    {id \in UNION {toCli[c][i].del : i \in {j \in DOMAIN toCli[c] : IsData(toCli[c][j])}} :
        OwnerOf(id) = c}

\* A client is told to destroy a node of its own, which would be deleted under its
\* map, for two reasons only: the server quits; or the server's thread handles the
\* end of the client's former connection with the client back already, whom the
\* second broadcast, that of ~BeamingUser, then does not leave out.
OwnNodesDoomedForCause ==
    [][\A c \in Clients :
          \/ OwnDoomed(c)' \subseteq OwnDoomed(c)
          \/ ~up'
          \/ srvConn[c] # "none" /\ srvConn'[c] = "none" /\ wire[c]]_vars

\* A replica leaves the server only because its owner removed the node, the
\* owner's connection ended, or the server itself did.
ServerDropsForCause ==
    [][\A id \in srv \ srv' :
          \/ own[id.node] # "live"
          \/ srvConn'[OwnerOf(id)] = "none"]_vars

\* A copy leaves a client only because the server no longer has the replica,
\* or constructs it anew, or because the client stops or is no longer connected.
CopyDropsForCause ==
    [][\A d \in Clients : \A id \in copies[d] \ copies'[d] :
          \/ id \notin srv
          \/ id \in srvQuery[d] \/ id \in Becomes(d)
          \/ link'[d] = "stopped" \/ ~wire[d]]_vars

\* Every node that stays, of an owner that stays connected, is in the end
\* seen for good by every client that stays connected.
Stays(c) == link[c] = "up" /\ wire[c] /\ up
Converges ==
    \A n \in Nodes : \A d \in Clients \ {Owner[n]} :
        <>[](own[n] = "live" /\ Stays(Owner[n]) /\ Stays(d))
            => <>[](\E id \in copies[d] : id.node = n)
===========================================================================
