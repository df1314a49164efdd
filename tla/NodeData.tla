------------------------------ MODULE NodeData ------------------------------
(***************************************************************************)
(* The data of one node, from the update<Type>Nodes call of its owner to   *)
(* the copies of the other clients.  ReplicaManager3 serializes a replica  *)
(* when its construction is sent or accepted, and after that at every      *)
(* autoSerializeInterval, but then only if the bytes differ from the last  *)
(* ones such a tick has sent (RM3SR_BROADCAST_IDENTICALLY).  That memory   *)
(* belongs to the replica and not to a connection, the first serialization *)
(* of a connection is not entered in it, and it outlives a connection.     *)
(*                                                                         *)
(* A value stands for all the bytes Serialize writes.  The connection      *)
(* handshake, the nodes' removal and packets of other nodes are those of   *)
(* SceneReplication; the server's thread is prompt, as there.              *)
(***************************************************************************)
EXTENDS Integers, Sequences

CONSTANTS
    Peers,       \* the other clients
    MaxValue,    \* bound: the owner's values are 1..MaxValue
    Reverts,     \* TRUE: the owner may write a value it had before
    MaxBreaks    \* bound: connections the network may break

ASSUME ValueAssumption == MaxValue \in Nat \ {0} /\ Reverts \in BOOLEAN
ASSUME BreaksAssumption == MaxBreaks \in Nat

VARIABLES
    ordered,   \* the reliability startclient was given orders packets
    val,       \* the owner's replica: its data
    last,      \* ... and its lastSentSerialization
    id,        \* ... and its network id
    link,      \* ... and where it is in the lists of the owner's connection
    wire,      \* the owner's transport connection
    held,      \* the server's replica: its id, or NoId
    srvVal,    \* ... and its data
    srvLast,   \* ... and its lastSentSerialization
    issued,    \* ids the server has given
    peer,      \* per peer: where it is in the lists of the server's connection
    up,        \* per peer: the transport connection
    copy,      \* per peer: its replica, id and data
    toSrv, toOwn, toCli,   \* packets in flight
    breaks

ownVars == <<val, last, id, link>>
srvVars == <<held, srvVal, srvLast, issued, peer>>
vars == <<ordered, ownVars, wire, srvVars, up, copy, toSrv, toOwn, toCli, breaks>>

NoId == 0
Unset == 0        \* what the constructor of a copy leaves in it
Nothing == -1     \* a lastSentSerialization without bits
NoCopy == [id |-> NoId, v |-> Unset]

Construct(k) == [kind |-> "construct", id |-> k]
Destruct(k) == [kind |-> "destruct", id |-> k]
Value(k, v) == [kind |-> "value", id |-> k, v |-> v]
Accepted(k) == [kind |-> "accepted", id |-> k]
Lost == [kind |-> "lost", id |-> NoId]

Send(connected, q, packets) == IF connected THEN q \o packets ELSE q

---------------------------------------------------------------------------
(* The owner.                                                              *)

\* update<Type>Nodes: an owner never is a viewer, and the id is in the map.
UpdateNode(v) ==
    /\ v # val /\ (Reverts \/ v > val)
    /\ val' = v
    /\ UNCHANGED <<ordered, last, id, link, wire, srvVars, up, copy,
                   toSrv, toOwn, toCli, breaks>>

\* (Wrong on purpose: a construction that has an id is not serialized at once.)
OwnerPacketsLater(tick) ==
    (IF link = "queued" THEN <<Construct(id)>> ELSE << >>)
    \o (IF tick /\ link = "listed" /\ val # last THEN <<Value(id, val)>> ELSE << >>)

\* ReplicaManager3::Update in the owner: a queued replica is constructed, and
\* serialized if it has an id already; then the tick, should it be due.
LinkNow == IF link # "queued" THEN link ELSE IF id = NoId THEN "sent" ELSE "listed"

\* (Wrong on purpose: asks whether anything was sent, not what.)
OwnerSendsOnce(tick) == tick /\ LinkNow = "listed" /\ last = Nothing

OwnerSends(tick) == tick /\ LinkNow = "listed" /\ val # last
OwnerPackets(tick) ==
    (IF link # "queued" THEN << >>
     ELSE IF id = NoId THEN <<Construct(id)>>
     ELSE <<Construct(id), Value(id, val)>>)
    \o (IF OwnerSends(tick) THEN <<Value(id, val)>> ELSE << >>)
LastNow(tick) == IF OwnerSends(tick) THEN val ELSE last

OwnerUpdate(tick) ==
    /\ link = "queued" \/ OwnerSends(tick)
    /\ link' = LinkNow
    /\ last' = LastNow(tick)
    /\ toSrv' = Send(wire, toSrv, OwnerPackets(tick))
    /\ UNCHANGED <<ordered, val, id, wire, srvVars, up, copy, toOwn, toCli, breaks>>

\* OnLocalConstructionAccepted: serialized at once, then on every tick.
OwnerOnAccepted(tick) ==
    /\ toOwn # << >> /\ Head(toOwn).kind = "accepted"
    /\ toOwn' = Tail(toOwn)
    /\ id' = Head(toOwn).id
    /\ link' = "listed"
    /\ last' = LastNow(tick)
    /\ toSrv' = Send(wire, toSrv, OwnerPackets(tick) \o <<Value(id', val)>>)
    /\ UNCHANGED <<ordered, val, wire, srvVars, up, copy, toCli, breaks>>

\* PopConnection: the lists go, the replica stays with its id and its memory.
OwnerOnLost(tick) ==
    /\ toOwn # << >> /\ Head(toOwn).kind = "lost"
    /\ toOwn' = Tail(toOwn)
    /\ link' = "down"
    /\ last' = LastNow(tick)
    /\ UNCHANGED <<ordered, val, id, wire, srvVars, up, copy, toSrv, toCli, breaks>>

OwnerReceive ==
    \E tick \in BOOLEAN :
        OwnerUpdate(tick) \/ OwnerOnAccepted(tick) \/ OwnerOnLost(tick)

---------------------------------------------------------------------------
(* The server.                                                             *)

\* ReplicaManager3::Update in the server.  Of the connections only those of
\* peers matter: QuerySerialization leaves out the creator's.
Queued == {p \in Peers : peer[p] = "queued"}
Listed == {p \in Peers : peer[p] \in {"queued", "listed"}}
PeerNow == [p \in Peers |-> IF p \in Queued THEN "listed" ELSE peer[p]]

\* The first connection on whose list the replica is compares it with the
\* memory; what that one is sent, the others are too (forceSendUntilNextUpdate).
SrvSends(tick) == tick /\ Listed # {} /\ srvVal # srvLast
SrvLastNow(tick) == IF SrvSends(tick) THEN srvVal ELSE srvLast

\* (Wrong on purpose: the new connection waits for the next change.)
SrvPacketsOnChange(p, tick) ==
    (IF p \in Queued THEN <<Construct(held)>> ELSE << >>)
    \o (IF p \in Listed /\ SrvSends(tick) THEN <<Value(held, srvVal)>> ELSE << >>)

SrvPackets(p, tick) ==
    (IF p \in Queued THEN <<Construct(held), Value(held, srvVal)>> ELSE << >>)
    \o (IF p \in Listed /\ SrvSends(tick) THEN <<Value(held, srvVal)>> ELSE << >>)
Deliver(tick, extra) ==
    toCli' = [p \in Peers |-> Send(up[p], toCli[p], SrvPackets(p, tick) \o extra[p])]
NoPackets == [p \in Peers |-> << >>]

\* Packets of the owner, in order or not; the end of the connection is last.
Without(q, i) == SubSeq(q, 1, i - 1) \o SubSeq(q, i + 1, Len(q))

\* (Wrong on purpose: in no order for any client.)
TakingAny(i, kind) ==
    /\ i \in DOMAIN toSrv /\ toSrv[i].kind = kind
    /\ i = 1 \/ kind # "lost"
    /\ toSrv' = Without(toSrv, i)

Taking(i, kind) ==
    /\ i \in DOMAIN toSrv /\ toSrv[i].kind = kind
    /\ i = 1 \/ (~ordered /\ kind # "lost")
    /\ toSrv' = Without(toSrv, i)

ServerUpdate(tick) ==
    /\ Queued # {} \/ SrvSends(tick)
    /\ peer' = PeerNow
    /\ srvLast' = SrvLastNow(tick)
    /\ Deliver(tick, NoPackets)
    /\ UNCHANGED <<ordered, ownVars, wire, held, srvVal, issued, up, copy,
                   toSrv, toOwn, breaks>>

\* (Wrong on purpose: the counter of the authority stays.)
NowIssuedStays(k) == issued

\* An unassigned replica is given the next id of the authority.
NowIssued(k) == IF k = NoId THEN issued + 1 ELSE issued
IdFor(k) == IF k = NoId THEN issued + 1 ELSE k

\* OnConstruction: a new replica, with the id it came with or a new one, told
\* to the owner; queued for the other connections.  (Not in use: the replica of
\* a former connection of the owner went with it.)
ServerOnConstruct(i, tick) ==
    /\ Taking(i, "construct")
    /\ issued' = NowIssued(toSrv[i].id)
    /\ held' = IdFor(toSrv[i].id)
    /\ toOwn' = Send(wire /\ toSrv[i].id = NoId, toOwn, <<Accepted(held')>>)
    /\ srvVal' = Unset
    /\ srvLast' = Nothing
    /\ peer' = [p \in Peers |-> IF peer[p] = "out" THEN "out" ELSE "queued"]
    /\ Deliver(tick, NoPackets)
    /\ UNCHANGED <<ordered, ownVars, wire, up, copy, breaks>>

\* OnSerialize, Deserialize: unless the id is unknown.
ServerOnValue(i, tick) ==
    /\ Taking(i, "value")
    /\ srvVal' = IF toSrv[i].id = held THEN toSrv[i].v ELSE srvVal
    /\ peer' = PeerNow
    /\ srvLast' = SrvLastNow(tick)
    /\ Deliver(tick, NoPackets)
    /\ UNCHANGED <<ordered, ownVars, wire, held, issued, up, copy, toOwn, breaks>>

\* PopConnection of the owner: its replica is destroyed wherever it is.
ServerOnLost(tick) ==
    LET farewell == [p \in Peers |-> IF p \in Listed THEN <<Destruct(held)>> ELSE << >>] IN
    /\ Taking(1, "lost")
    /\ held' = NoId
    /\ srvVal' = Unset
    /\ srvLast' = Nothing
    /\ peer' = [p \in Peers |-> IF p \in Listed THEN "in" ELSE peer[p]]
    /\ Deliver(tick, farewell)
    /\ UNCHANGED <<ordered, ownVars, wire, issued, up, copy, toOwn, breaks>>

\* PopConnection of a peer.
ServerOnPeerLost(p, tick) ==
    /\ ~up[p] /\ peer[p] # "out"
    /\ peer' = [PeerNow EXCEPT ![p] = "out"]
    /\ srvLast' = SrvLastNow(tick)
    /\ Deliver(tick, NoPackets)
    /\ UNCHANGED <<ordered, ownVars, wire, held, srvVal, issued, up, copy,
                   toSrv, toOwn, breaks>>

ServerReceive ==
    \E tick \in BOOLEAN :
        \/ ServerUpdate(tick)
        \/ \E i \in DOMAIN toSrv : ServerOnConstruct(i, tick) \/ ServerOnValue(i, tick)
        \/ ServerOnLost(tick)
        \/ \E p \in Peers : ServerOnPeerLost(p, tick)

---------------------------------------------------------------------------
(* A peer.  A construction whose id is in use leaves the copy alone        *)
(* (OnDownloadExisting); data and destruction of an unknown id are skipped. *)

PeerReceive(p) ==
    LET m == Head(toCli[p])
        known == m.id = copy[p].id
    IN
    /\ toCli[p] # << >>
    /\ toCli' = [toCli EXCEPT ![p] = Tail(@)]
    /\ copy' = [copy EXCEPT ![p] =
                   CASE m.kind = "construct" /\ ~known -> [id |-> m.id, v |-> Unset]
                     [] m.kind = "value" /\ known -> [id |-> m.id, v |-> m.v]
                     [] m.kind = "destruct" /\ known -> NoCopy
                     [] OTHER -> @]
    /\ UNCHANGED <<ordered, ownVars, wire, srvVars, up, toSrv, toOwn, breaks>>

---------------------------------------------------------------------------
(* The transport.                                                          *)

\* PushConnection on both sides: what is referenced is queued.
Connect ==
    /\ ~wire /\ link = "down" /\ toSrv = << >> /\ toOwn = << >>
    /\ wire' = TRUE
    /\ link' = "queued"
    /\ UNCHANGED <<ordered, val, last, id, srvVars, up, copy, toSrv, toOwn,
                   toCli, breaks>>

ConnectPeer(p) ==
    /\ ~up[p] /\ peer[p] = "out" /\ toCli[p] = << >>
    /\ up' = [up EXCEPT ![p] = TRUE]
    /\ peer' = [peer EXCEPT ![p] = IF held = NoId THEN "in" ELSE "queued"]
    /\ UNCHANGED <<ordered, ownVars, wire, held, srvVal, srvLast, issued, copy,
                   toSrv, toOwn, toCli, breaks>>

\* Of what was in flight a beginning arrives; out of order, one packet of it
\* may be missing.
Arrived(q, fifo) ==
    LET starts == {SubSeq(q, 1, i) : i \in 0..Len(q)} IN
    IF fifo THEN starts
    ELSE starts \cup UNION {{Without(s, i) : i \in DOMAIN s} : s \in starts}

Break ==
    /\ wire /\ breaks < MaxBreaks
    /\ breaks' = breaks + 1
    /\ wire' = FALSE
    /\ \E q \in Arrived(toSrv, ordered) : toSrv' = Append(q, Lost)
    /\ \E q \in Arrived(toOwn, TRUE) : toOwn' = Append(q, Lost)
    /\ UNCHANGED <<ordered, ownVars, srvVars, up, copy, toCli>>

BreakPeer(p) ==
    /\ up[p] /\ breaks < MaxBreaks
    /\ breaks' = breaks + 1
    /\ up' = [up EXCEPT ![p] = FALSE]
    /\ \E q \in Arrived(toCli[p], TRUE) : toCli' = [toCli EXCEPT ![p] = q]
    /\ UNCHANGED <<ordered, ownVars, wire, srvVars, copy, toSrv, toOwn>>

---------------------------------------------------------------------------
Init ==
    /\ ordered \in BOOLEAN
    /\ val = 1 /\ last = Nothing /\ id = NoId /\ link = "down" /\ wire = FALSE
    /\ held = NoId /\ srvVal = Unset /\ srvLast = Nothing /\ issued = 0
    /\ peer = [p \in Peers |-> "out"]
    /\ up = [p \in Peers |-> FALSE]
    /\ copy = [p \in Peers |-> NoCopy]
    /\ toSrv = << >> /\ toOwn = << >>
    /\ toCli = [p \in Peers |-> << >>]
    /\ breaks = 0

Next ==
    \/ \E v \in 1..MaxValue : UpdateNode(v)
    \/ OwnerReceive \/ ServerReceive
    \/ Connect \/ Break
    \/ \E p \in Peers : PeerReceive(p) \/ ConnectPeer(p) \/ BreakPeer(p)

\* Everybody keeps calling Receive, whose tick comes due again and again, and a
\* connection that is asked for is in the end granted.
Fairness ==
    /\ WF_vars(OwnerReceive) /\ WF_vars(ServerReceive) /\ WF_vars(Connect)
    /\ \A p \in Peers : WF_vars(PeerReceive(p)) /\ WF_vars(ConnectPeer(p))

Spec == Init /\ [][Next]_vars
FairSpec == Spec /\ Fairness

---------------------------------------------------------------------------
\* An id is one the server has given, or NoId.
Ids == 0..issued
ToPeer == [kind : {"construct", "destruct"}, id : Ids]
          \cup [kind : {"value"}, id : Ids, v : 0..MaxValue]
ToServer == [kind : {"construct", "lost"}, id : Ids]
            \cup [kind : {"value"}, id : Ids, v : 1..MaxValue]
ToOwner == [kind : {"accepted", "lost"}, id : Ids]

TypeOK ==
    /\ ordered \in BOOLEAN /\ wire \in BOOLEAN
    /\ val \in 1..MaxValue /\ last \in {Nothing} \cup (1..MaxValue)
    /\ issued \in Nat /\ id \in Ids /\ held \in Ids
    /\ link \in {"down", "queued", "sent", "listed"}
    /\ srvVal \in 0..MaxValue /\ srvLast \in {Nothing} \cup (0..MaxValue)
    /\ peer \in [Peers -> {"out", "in", "queued", "listed"}]
    /\ up \in [Peers -> BOOLEAN]
    /\ copy \in [Peers -> [id : Ids, v : 0..MaxValue]]
    /\ toSrv \in Seq(ToServer)
    /\ toOwn \in Seq(ToOwner)
    /\ toCli \in [Peers -> Seq(ToPeer)]
    /\ breaks \in 0..MaxBreaks

\* The value a receiver ends with once it has what is in flight to it.
Values(q) == {i \in DOMAIN q : q[i].kind = "value"}
Ends(q, now) ==
    IF Values(q) = {} THEN now
    ELSE q[CHOOSE i \in Values(q) : \A j \in Values(q) : j <= i].v

\* "We also send it to every connection (broadcast)": once the server has
\* nothing new to send, every peer it serializes to ends with what it has.
PeersUpToDate ==
    (ordered /\ held # NoId /\ srvVal = srvLast) =>
        \A p \in Peers : (up[p] /\ peer[p] = "listed") =>
            Ends(toCli[p], copy[p].v) = srvVal

\* Once the owner has nothing new to send, the server ends with what it has.
ServerUpToDate ==
    (ordered /\ wire /\ link = "listed" /\ val = last) => Ends(toSrv, srvVal) = val

\* The server only relays data nobody wrote while the owner's is on its way,
\* or the owner is gone.
UnsetIsPassing ==
    (ordered /\ held # NoId /\ srvVal = Unset) =>
        \/ Values(toSrv) # {}
        \/ \E i \in DOMAIN toSrv : toSrv[i].kind = "lost"
        \/ \E i \in DOMAIN toOwn : toOwn[i].kind = "accepted"

\* With ordered packets and no value written twice, copies follow the owner:
\* never ahead of it, never back.
Shared == INSTANCE SharedValue WITH
    inOrder <- ordered, cur <- val, seen <- [p \in Peers |-> copy[p].v]
ImplementsShared == Shared!Spec

\* The last value stays: a peer that stays, of an owner that stays, shows in
\* the end what the owner has.
Converges ==
    \A p \in Peers :
        <>[](ordered /\ wire /\ up[p]) => <>[](copy[p].v = val)
============================================================================
