---------------------- MODULE SceneReplication_proofs ----------------------
(***************************************************************************)
(* Proofs about SceneReplication, for every number of clients and nodes,   *)
(* every assignment of nodes to owners, both delivery modes and any number *)
(* of faults.                                                              *)
(*                                                                         *)
(* Neither TypeOK nor NoEcho is inductive.  What keeps a client free of    *)
(* copies of its own nodes is the chain that leads to them: what is queued *)
(* for its connection, hence what is in flight to it, never is its own;    *)
(* a new connection is queued everything the server has, so nothing there  *)
(* may then be its own, which holds because replicas never outlive the     *)
(* server's connection to their owner; and what a client sends only names  *)
(* its own nodes.  IInv states that chain.                                 *)
(***************************************************************************)
EXTENDS SceneReplication, SequenceTheorems, TLAPS

\* Ids of the nodes of other clients.
Foreign(c) == {id \in Ids : OwnerOf(id) # c}

\* What a client may ask to be constructed: its nodes, under no id or its own.
PairsOf(c) == {e \in NodesOf(c) \X (Ids \cup {NoId}) : e[2] = NoId \/ e[2].node = e[1]}

\* What is in flight from a client, and what to it.
FromClient(c) ==
    {Incoming, Scope, Lost, Bye} \cup
    [kind : {"construction"}, new : SUBSET PairsOf(c), del : SUBSET (Ids \cup {NoId})]
ToClient(c) ==
    {Accepted, Scope, Lost, Bye} \cup
    [kind : {"construction"}, new : SUBSET Foreign(c), del : SUBSET Ids] \cup
    [kind : {"assigned"}, ids : SUBSET Ids]

ClientInv ==
    /\ link \in [Clients -> {"idle", "connecting", "failed", "up", "lost",
                             "closed", "stopped"}]
    /\ cConn \in [Clients -> {"none", "pushed", "valid"}]
    /\ own \in [Nodes -> {"none", "live", "dangling", "gone"}]
    /\ nid \in [Nodes -> Ids \cup {NoId}]
    /\ \A n \in Nodes : nid[n] = NoId \/ nid[n].node = n
    /\ cQuery \in [Clients -> SUBSET Nodes]
    /\ cHas \in [Clients -> SUBSET Nodes]
    /\ copies \in [Clients -> SUBSET Ids]
    /\ \A c \in Clients : /\ cQuery[c] \subseteq NodesOf(c)
                          /\ copies[c] \subseteq Foreign(c)

ServerInv ==
    /\ up \in BOOLEAN
    /\ srvConn \in [Clients -> {"none", "pushed", "valid"}]
    /\ srv \subseteq Ids
    /\ srvQuery \in [Clients -> SUBSET Ids]
    /\ srvHas \in [Clients -> SUBSET Ids]
    /\ issued \in [Nodes -> Nat]
    /\ \A c \in Clients : srvQuery[c] \subseteq Foreign(c)
    /\ \A id \in srv : srvConn[OwnerOf(id)] # "none"

ToSrvInv ==
    /\ toSrv \in [Clients -> Seq(PacketsToSrv)]
    /\ \A c \in Clients : toSrv[c] \in Seq(FromClient(c))

ToCliInv ==
    /\ toCli \in [Clients -> Seq(PacketsToCli)]
    /\ \A c \in Clients : toCli[c] \in Seq(ToClient(c))

FaultInv ==
    /\ wire \in [Clients -> BOOLEAN]
    /\ faults \in [breaks : Nat, crashes : Nat, quits : Nat]

IInv == ClientInv /\ ServerInv /\ ToSrvInv /\ ToCliInv /\ FaultInv

---------------------------------------------------------------------------
(* Sequences of packets.                                                   *)

\* Taking packets out of a sequence leaves packets of the same kinds.
LEMMA PrefixKeeps ==
    ASSUME NEW S, NEW q \in Seq(S), NEW i \in 0..Len(q)
    PROVE  SubSeq(q, 1, i) \in Seq(S) /\ Len(SubSeq(q, 1, i)) = i
<1>1. Len(q) \in Nat  BY LenProperties
<1>2. \A j \in 1..i : q[j] \in S  BY <1>1, ElementOfSeq
<1>3. i \in Int /\ 1 \in Int  BY <1>1
<1> QED  BY <1>1, <1>2, <1>3, SubSeqProperties

LEMMA WithoutKeeps ==
    ASSUME NEW S, NEW q \in Seq(S), NEW i \in 1..Len(q)
    PROVE  Without(q, i) \in Seq(S)
<1>1. Len(q) \in Nat  BY LenProperties
<1>2. SubSeq(q, 1, i - 1) \in Seq(S)
  <2>1. i - 1 \in 0..Len(q)  BY <1>1
  <2> QED  BY <2>1, PrefixKeeps
<1>3. SubSeq(q, i + 1, Len(q)) \in Seq(S)
  <2>1. \A j \in (i + 1)..Len(q) : q[j] \in S  BY <1>1, ElementOfSeq
  <2>2. i + 1 \in Int /\ Len(q) \in Int  BY <1>1
  <2> QED  BY <2>1, <2>2, SubSeqProperties
<1> QED  BY <1>2, <1>3, ConcatProperties DEF Without

\* What a receiver still gets of a sequence cut short.
LEMMA KeptKeeps ==
    ASSUME NEW S, NEW q \in Seq(S), NEW r \in KeptToSrv(q)
    PROVE  r \in Seq(S)
<1>1. \A i \in Cuts(q) : SubSeq(q, 1, i) \in Seq(S) /\ Len(SubSeq(q, 1, i)) = i
  BY PrefixKeeps DEF Cuts
<1>2. CASE r \in {SubSeq(q, 1, i) : i \in Cuts(q)}
  BY <1>1, <1>2
<1>3. CASE r \in UNION {{Without(SubSeq(q, 1, i), j) :
                          j \in {k \in 1..i : IsData(q[k]) /\ k - 1 \in Cuts(q)}} :
                        i \in Cuts(q)}
  <2>1. PICK i \in Cuts(q) : \E j \in 1..i : r = Without(SubSeq(q, 1, i), j)
    BY <1>3
  <2>2. PICK j \in 1..i : r = Without(SubSeq(q, 1, i), j)
    BY <2>1
  <2> QED  BY <1>1, <2>1, <2>2, WithoutKeeps
<1> QED  BY <1>2, <1>3 DEF KeptToSrv

LEMMA CutOffKeeps ==
    ASSUME NEW S, NEW q \in Seq(S), NEW i \in Cuts(q), Lost \in S
    PROVE  CutOff(q, i) \in Seq(S)
<1>1. SubSeq(q, 1, i) \in Seq(S)  BY PrefixKeeps DEF Cuts
<1>2. Append(SubSeq(q, 1, i), Lost) \in Seq(S)  BY <1>1, AppendProperties
<1> QED  BY <1>1, <1>2 DEF CutOff

LEMMA SendKeeps ==
    ASSUME NEW S, NEW q \in Seq(S), NEW p \in Seq(S), NEW c
    PROVE  Send(c, q, p) \in Seq(S)
BY ConcatProperties DEF Send

---------------------------------------------------------------------------
(* Packets.                                                                *)

LEMMA FromClientTyped == \A c \in Clients : FromClient(c) \subseteq PacketsToSrv
<1> SUFFICES ASSUME NEW c \in Clients
             PROVE  FromClient(c) \subseteq PacketsToSrv
  OBVIOUS
<1>1. PairsOf(c) \subseteq Nodes \X (Ids \cup {NoId})  BY DEF PairsOf, NodesOf
<1> QED  BY <1>1 DEF FromClient, PacketsToSrv

LEMMA ToClientTyped == \A c \in Clients : ToClient(c) \subseteq PacketsToCli
BY DEF ToClient, PacketsToCli, Foreign

\* A step that leaves one or all the queues holding the right packets.
LEMMA ToSrvStep ==
    ASSUME ToSrvInv, NEW c \in Clients, NEW q \in Seq(FromClient(c)),
           toSrv' = [toSrv EXCEPT ![c] = q]
    PROVE  ToSrvInv'
<1>1. q \in Seq(PacketsToSrv)  BY FromClientTyped, SeqMonotonic
<1>2. toSrv' \in [Clients -> Seq(PacketsToSrv)]  BY <1>1 DEF ToSrvInv
<1>3. \A d \in Clients : toSrv'[d] \in Seq(FromClient(d))  BY DEF ToSrvInv
<1> QED  BY <1>2, <1>3 DEF ToSrvInv

LEMMA ToCliStep ==
    ASSUME ToCliInv, NEW c \in Clients, NEW q \in Seq(ToClient(c)),
           toCli' = [toCli EXCEPT ![c] = q]
    PROVE  ToCliInv'
<1>1. q \in Seq(PacketsToCli)  BY ToClientTyped, SeqMonotonic
<1>2. toCli' \in [Clients -> Seq(PacketsToCli)]  BY <1>1 DEF ToCliInv
<1>3. \A d \in Clients : toCli'[d] \in Seq(ToClient(d))  BY DEF ToCliInv
<1> QED  BY <1>2, <1>3 DEF ToCliInv

LEMMA ToCliSteps ==
    ASSUME NEW f, \A d \in Clients : f[d] \in Seq(ToClient(d)),
           toCli' = [d \in Clients |-> f[d]]
    PROVE  ToCliInv'
<1>1. \A d \in Clients : f[d] \in Seq(PacketsToCli)
  BY ToClientTyped, SeqMonotonic
<1> QED  BY <1>1 DEF ToCliInv

LEMMA ToSrvEmpty ==
    ASSUME toSrv' = [d \in Clients |-> << >>]
    PROVE  ToSrvInv'
<1>1. \A S : << >> \in Seq(S)  BY EmptySeq
<1> QED  BY <1>1 DEF ToSrvInv

\* What a client sends.
LEMMA CPacketTyped ==
    ASSUME ClientInv, NEW c \in Clients
    PROVE  CPacket(c) \in Seq(FromClient(c))
<1> DEFINE new == {<<n, nid[n]>> : n \in CFlush(c)}
<1>1. CFlush(c) \subseteq NodesOf(c)  BY DEF CFlush, ClientInv
<1>2. new \subseteq PairsOf(c)
  <2>1. SUFFICES ASSUME NEW n \in CFlush(c)
                 PROVE  <<n, nid[n]>> \in PairsOf(c)
    OBVIOUS
  <2>2. n \in NodesOf(c) /\ n \in Nodes  BY <1>1 DEF NodesOf
  <2>3. nid[n] \in Ids \cup {NoId} /\ (nid[n] = NoId \/ nid[n].node = n)
    BY <2>2 DEF ClientInv
  <2> QED  BY <2>2, <2>3 DEF PairsOf
<1>3. Construction(new, {}) \in FromClient(c)
  BY <1>2 DEF Construction, FromClient
<1> HIDE DEF new
<1>4. Construct(new) \in Seq(FromClient(c))  BY <1>3, EmptySeq DEF Construct
<1> QED  BY <1>4 DEF CPacket, new

LEMMA DestructFromClient ==
    ASSUME NEW c \in Clients, NEW del \in SUBSET (Ids \cup {NoId})
    PROVE  Destruct(del) \in Seq(FromClient(c))
<1>1. Construction({}, del) \in FromClient(c)  BY DEF Construction, FromClient
<1> QED  BY <1>1, EmptySeq DEF Destruct

LEMMA ControlFromClient ==
    \A c \in Clients : {Incoming, Scope, Lost, Bye} \subseteq FromClient(c)
BY DEF FromClient

LEMMA ControlToClient ==
    \A c \in Clients : {Accepted, Scope, Lost, Bye} \subseteq ToClient(c)
BY DEF ToClient

\* What the server sends.
LEMMA SPacketTyped ==
    ASSUME ServerInv, NEW d \in Clients
    PROVE  SPacket(d) \in Seq(ToClient(d))
<1>1. SFlush(d) \subseteq Foreign(d)  BY DEF SFlush, ServerInv
<1>2. Construction(SFlush(d), {}) \in ToClient(d)
  BY <1>1 DEF Construction, ToClient
<1> QED  BY <1>2, EmptySeq DEF SPacket, Construct

LEMMA DestructToClient ==
    ASSUME NEW d \in Clients, NEW del \in SUBSET Ids
    PROVE  Destruct(del) \in Seq(ToClient(d))
<1>1. Construction({}, del) \in ToClient(d)  BY DEF Construction, ToClient
<1> QED  BY <1>1, EmptySeq DEF Destruct

LEMMA AssignToClient ==
    ASSUME NEW d \in Clients, NEW ids \in SUBSET Ids
    PROVE  Assign(ids) \in Seq(ToClient(d))
<1>1. Assigned(ids) \in ToClient(d)  BY DEF Assigned, ToClient
<1> QED  BY <1>1, EmptySeq DEF Assign

\* A Receive of the server sends every client packets it may get.
LEMMA DeliverStep ==
    ASSUME ServerInv, ToCliInv, NEW extra,
           \A d \in Clients : extra[d] \in Seq(ToClient(d)),
           Deliver(extra)
    PROVE  ToCliInv'
<1> DEFINE f == [d \in Clients |-> Send(d, toCli[d], SPacket(d) \o extra[d])]
<1>1. \A d \in Clients : f[d] \in Seq(ToClient(d))
  <2> SUFFICES ASSUME NEW d \in Clients
               PROVE  Send(d, toCli[d], SPacket(d) \o extra[d]) \in Seq(ToClient(d))
    OBVIOUS
  <2>1. SPacket(d) \o extra[d] \in Seq(ToClient(d))
    BY SPacketTyped, ConcatProperties
  <2>2. toCli[d] \in Seq(ToClient(d))  BY DEF ToCliInv
  <2> QED  BY <2>1, <2>2, SendKeeps
<1>2. toCli' = [d \in Clients |-> f[d]]  BY DEF Deliver
<1> QED  BY <1>1, <1>2, ToCliSteps

---------------------------------------------------------------------------
(* The steps of the clients.                                               *)

LEMMA ClientSends ==
    ASSUME ToSrvInv, NEW c \in Clients, NEW p \in Seq(FromClient(c)),
           toSrv' = [toSrv EXCEPT ![c] = Send(c, @, p)]
    PROVE  ToSrvInv'
<1>1. Send(c, toSrv[c], p) \in Seq(FromClient(c))  BY SendKeeps DEF ToSrvInv
<1> QED  BY <1>1, ToSrvStep

\* A client handles its first packet, and that packet is one it may get.
LEMMA ClientTakes ==
    ASSUME ToCliInv, NEW c \in Clients, NEW kind, Arriving(c, kind)
    PROVE  /\ Head(toCli[c]) \in ToClient(c)
           /\ Tail(toCli[c]) \in Seq(ToClient(c))
BY HeadTailProperties DEF Arriving, ToCliInv

LEMMA StartClientStep ==
    ASSUME IInv, NEW c \in Clients, StartClient(c)
    PROVE  IInv'
<1>1. ClientInv'  BY DEF IInv, ClientInv, StartClient
<1>2. ServerInv' /\ ToSrvInv' /\ ToCliInv' /\ FaultInv'
  BY DEF IInv, ServerInv, ToSrvInv, ToCliInv, FaultInv, StartClient, serverVars
<1> QED  BY <1>1, <1>2 DEF IInv

LEMMA AddNodeStep ==
    ASSUME IInv, NEW n \in Nodes, AddNode(n)
    PROVE  IInv'
<1>1. Owner[n] \in Clients /\ n \in NodesOf(Owner[n])
  BY OwnerAssumption DEF NodesOf
<1>2. ClientInv'
  <2>1. own' \in [Nodes -> {"none", "live", "dangling", "gone"}]
    BY DEF IInv, ClientInv, AddNode
  <2>2. cQuery' \in [Clients -> SUBSET Nodes]
    BY <1>1 DEF IInv, ClientInv, AddNode
  <2>3. \A c \in Clients : cQuery'[c] \subseteq NodesOf(c)
    BY <1>1 DEF IInv, ClientInv, AddNode
  <2> QED  BY <2>1, <2>2, <2>3 DEF IInv, ClientInv, AddNode
<1>3. ServerInv' /\ ToSrvInv' /\ ToCliInv' /\ FaultInv'
  BY DEF IInv, ServerInv, ToSrvInv, ToCliInv, FaultInv, AddNode, serverVars
<1> QED  BY <1>2, <1>3 DEF IInv

\* What DestroyOwn does, whichever operation calls it.
LEMMA DestroyOwnKeeps ==
    ASSUME IInv, NEW c \in Clients, NEW S \in SUBSET Nodes, DestroyOwn(c, S),
           UNCHANGED <<link, cConn, nid, copies, serverVars, wire, toCli, faults>>
    PROVE  IInv'
<1>1. ClientInv'  BY DEF IInv, ClientInv, DestroyOwn
<1>2. ToSrvInv'
  <2>1. {nid[n] : n \in S \cap cHas[c]} \in SUBSET (Ids \cup {NoId})
    BY DEF IInv, ClientInv
  <2>2. Destruct({nid[n] : n \in S \cap cHas[c]}) \in Seq(FromClient(c))
    BY <2>1, DestructFromClient
  <2> QED  BY <2>2, ClientSends DEF DestroyOwn, IInv
<1>3. ServerInv' /\ ToCliInv' /\ FaultInv'
  BY DEF IInv, ServerInv, ToCliInv, FaultInv, serverVars
<1> QED  BY <1>1, <1>2, <1>3 DEF IInv

LEMMA RemoveNodeStep ==
    ASSUME IInv, NEW n \in Nodes, RemoveNode(n)
    PROVE  IInv'
BY DestroyOwnKeeps, OwnerAssumption DEF RemoveNode

LEMMA RemoveAllNodesStep ==
    ASSUME IInv, NEW c \in Clients, RemoveAllNodes(c)
    PROVE  IInv'
BY DestroyOwnKeeps DEF RemoveAllNodes, NodesOf

LEMMA StopStep ==
    ASSUME IInv, NEW c \in Clients, Stop(c)
    PROVE  IInv'
<1>1. ClientInv'
  <2>1. own' \in [Nodes -> {"none", "live", "dangling", "gone"}]
    BY DEF IInv, ClientInv, Stop
  <2>2. /\ link' = [link EXCEPT ![c] = "stopped"]
        /\ cConn' = [cConn EXCEPT ![c] = "none"]
        /\ cQuery' = [cQuery EXCEPT ![c] = {}]
        /\ cHas' = [cHas EXCEPT ![c] = {}]
        /\ copies' = [copies EXCEPT ![c] = {}]
        /\ nid' = nid
    BY DEF Stop
  <2> QED  BY <2>1, <2>2 DEF IInv, ClientInv
<1>2. ToSrvInv'
  <2>1. CASE wire[c] /\ up
    <3>1. PICK q \in KeptToSrv(toSrv[c]) : toSrv' = [toSrv EXCEPT ![c] = Append(q, Bye)]
      BY <2>1 DEF Stop
    <3>2. q \in Seq(FromClient(c))  BY KeptKeeps DEF IInv, ToSrvInv
    <3>3. Append(q, Bye) \in Seq(FromClient(c))
      BY <3>2, AppendProperties, ControlFromClient
    <3> QED  BY <3>1, <3>3, ToSrvStep DEF IInv
  <2>2. CASE ~(wire[c] /\ up)
    BY <2>2 DEF Stop, IInv, ToSrvInv
  <2> QED  BY <2>1, <2>2
<1>3. ToCliInv'
  <2>1. << >> \in Seq(ToClient(c))  BY EmptySeq
  <2>2. toCli' = [toCli EXCEPT ![c] = << >>]  BY DEF Stop
  <2> QED  BY <2>1, <2>2, ToCliStep DEF IInv
<1>4. ServerInv' /\ FaultInv'
  BY DEF IInv, ServerInv, FaultInv, Stop, serverVars
<1> QED  BY <1>1, <1>2, <1>3, <1>4 DEF IInv

\* Update leaves a client's lists holding its own nodes.
LEMMA ClientLists ==
    ASSUME ClientInv, NEW c \in Clients
    PROVE  /\ CHasNow(c) \in SUBSET Nodes
           /\ CQueryNow(c) \in SUBSET Nodes
           /\ CQueryNow(c) \subseteq NodesOf(c)
BY DEF ClientInv, CHasNow, CQueryNow, CFlush

LEMMA ClientUpdateStep ==
    ASSUME IInv, NEW c \in Clients, ClientUpdate(c)
    PROVE  IInv'
<1>1. ClientInv'
  BY ClientLists DEF IInv, ClientInv, ClientUpdate
<1>2. ToSrvInv'  BY CPacketTyped, ClientSends DEF IInv, ClientUpdate
<1>3. ServerInv' /\ ToCliInv' /\ FaultInv'
  BY DEF IInv, ServerInv, ToCliInv, FaultInv, ClientUpdate, serverVars
<1> QED  BY <1>1, <1>2, <1>3 DEF IInv

LEMMA ClientOnAcceptedStep ==
    ASSUME IInv, NEW c \in Clients, ClientOnAccepted(c)
    PROVE  IInv'
<1>1. ClientInv'
  <2>1. LiveOf(c) \subseteq NodesOf(c) /\ NodesOf(c) \subseteq Nodes
    BY DEF LiveOf, NodesOf
  <2> QED  BY <2>1, ClientLists DEF IInv, ClientInv, ClientOnAccepted
<1>2. ToSrvInv'
  <2>1. <<Scope>> \in Seq(FromClient(c))  BY ControlFromClient
  <2>2. CPacket(c) \in Seq(FromClient(c))  BY CPacketTyped DEF IInv
  <2> QED  BY <2>1, <2>2, ClientSends DEF IInv, ClientOnAccepted
<1>3. ToCliInv'
  BY ClientTakes, ToCliStep DEF IInv, ClientOnAccepted
<1>4. ServerInv' /\ FaultInv'
  BY DEF IInv, ServerInv, FaultInv, ClientOnAccepted, serverVars
<1> QED  BY <1>1, <1>2, <1>3, <1>4 DEF IInv

LEMMA ClientOnScopeStep ==
    ASSUME IInv, NEW c \in Clients, ClientOnScope(c)
    PROVE  IInv'
<1>1. ClientInv'
  BY ClientLists DEF IInv, ClientInv, ClientOnScope
<1>2. ToSrvInv'
  <2> DEFINE answer == IF cConn[c] = "pushed" THEN <<Scope>> ELSE << >>
  <2>1. answer \in Seq(FromClient(c))  BY ControlFromClient
  <2>2. CPacket(c) \in Seq(FromClient(c))  BY CPacketTyped DEF IInv
  <2>3. CPacket(c) \o answer \in Seq(FromClient(c))
    BY <2>1, <2>2, ConcatProperties
  <2> QED  BY <2>3, ClientSends DEF IInv, ClientOnScope
<1>3. ToCliInv'
  BY ClientTakes, ToCliStep DEF IInv, ClientOnScope
<1>4. ServerInv' /\ FaultInv'
  BY DEF IInv, ServerInv, FaultInv, ClientOnScope, serverVars
<1> QED  BY <1>1, <1>2, <1>3, <1>4 DEF IInv

LEMMA ClientOnAssignedStep ==
    ASSUME IInv, NEW c \in Clients, ClientOnAssigned(c)
    PROVE  IInv'
<1> DEFINE m == Head(toCli[c])
<1>1. /\ m \in ToClient(c) /\ m.kind = "assigned"
      /\ Tail(toCli[c]) \in Seq(ToClient(c))
  BY ClientTakes DEF IInv, ClientOnAssigned, Arriving
<1>2. m.ids \in SUBSET Ids
  BY <1>1 DEF ToClient, Accepted, Scope, Lost, Bye
<1>3. PICK id \in m.ids :
         /\ nid' = IF cConn[c] # "none" /\ own[id.node] = "live"
                      /\ id.node \in CHasNow(c)
                   THEN [nid EXCEPT ![id.node] = id] ELSE nid
         /\ toCli' = [toCli EXCEPT ![c] = Assign(Head(@).ids \ {id}) \o Tail(@)]
  BY DEF ClientOnAssigned
<1>4. id \in Ids /\ id.node \in Nodes  BY <1>2, <1>3 DEF Ids
<1>5. ClientInv'
  <2>1. nid' \in [Nodes -> Ids \cup {NoId}]  BY <1>3, <1>4 DEF IInv, ClientInv
  <2>2. \A n \in Nodes : nid'[n] = NoId \/ nid'[n].node = n
    BY <1>3, <1>4 DEF IInv, ClientInv
  <2> QED  BY <2>1, <2>2, ClientLists DEF IInv, ClientInv, ClientOnAssigned
<1>6. ToSrvInv'  BY CPacketTyped, ClientSends DEF IInv, ClientOnAssigned
<1>7. ToCliInv'
  <2>1. m.ids \ {id} \in SUBSET Ids  BY <1>2
  <2>2. Assign(m.ids \ {id}) \in Seq(ToClient(c))  BY <2>1, AssignToClient
  <2>3. Assign(m.ids \ {id}) \o Tail(toCli[c]) \in Seq(ToClient(c))
    BY <1>1, <2>2, ConcatProperties
  <2> QED  BY <1>3, <2>3, ToCliStep DEF IInv
<1>8. ServerInv' /\ FaultInv'
  BY DEF IInv, ServerInv, FaultInv, ClientOnAssigned, serverVars
<1> QED  BY <1>5, <1>6, <1>7, <1>8 DEF IInv

LEMMA ClientOnConstructionStep ==
    ASSUME IInv, NEW c \in Clients, ClientOnConstruction(c)
    PROVE  IInv'
<1> DEFINE m == Head(toCli[c])
           mine == {n \in LiveOf(c) : nid[n] # NoId}
           hit == {n \in mine : nid[n] \in m.del}
           known == {nid[n] : n \in mine}
<1>1. /\ m \in ToClient(c) /\ m.kind = "construction"
      /\ Tail(toCli[c]) \in Seq(ToClient(c))
  BY ClientTakes DEF IInv, ClientOnConstruction, Arriving
<1>2. m.new \in SUBSET Foreign(c)
  BY <1>1 DEF ToClient, Accepted, Scope, Lost, Bye
<1>3. ClientInv'
  <2>1. CASE cConn[c] = "none"
    BY <2>1 DEF IInv, ClientInv, ClientOnConstruction
  <2>2. CASE cConn[c] # "none"
    <3>1. /\ copies' = [copies EXCEPT ![c] = (@ \cup (m.new \ known)) \ m.del]
          /\ own' = [n \in Nodes |-> IF n \in hit THEN "dangling" ELSE own[n]]
          /\ cHas' = [cHas EXCEPT ![c] = CHasNow(c) \ hit]
          /\ cQuery' = [cQuery EXCEPT ![c] = CQueryNow(c) \ hit]
          /\ UNCHANGED <<link, cConn, nid>>
      BY <2>2 DEF ClientOnConstruction
    <3>2. own' \in [Nodes -> {"none", "live", "dangling", "gone"}]
      BY <3>1 DEF IInv, ClientInv
    <3>3. (copies[c] \cup (m.new \ known)) \ m.del \subseteq Foreign(c)
      BY <1>2 DEF IInv, ClientInv
    <3>4. /\ copies' \in [Clients -> SUBSET Ids]
          /\ \A d \in Clients : copies'[d] \subseteq Foreign(d)
      BY <3>1, <3>3 DEF IInv, ClientInv, Foreign
    <3>5. /\ cHas' \in [Clients -> SUBSET Nodes]
          /\ cQuery' \in [Clients -> SUBSET Nodes]
          /\ \A d \in Clients : cQuery'[d] \subseteq NodesOf(d)
      BY <3>1, ClientLists DEF IInv, ClientInv
    <3> QED  BY <3>1, <3>2, <3>4, <3>5 DEF IInv, ClientInv
  <2> QED  BY <2>1, <2>2
<1>4. ToSrvInv'  BY CPacketTyped, ClientSends DEF IInv, ClientOnConstruction
<1>5. ToCliInv'  BY <1>1, ToCliStep DEF IInv, ClientOnConstruction
<1>6. ServerInv' /\ FaultInv'
  BY DEF IInv, ServerInv, FaultInv, ClientOnConstruction, serverVars
<1> QED  BY <1>3, <1>4, <1>5, <1>6 DEF IInv

LEMMA ClientOnLostStep ==
    ASSUME IInv, NEW c \in Clients, ClientOnLost(c)
    PROVE  IInv'
<1>1. ClientInv'  BY DEF IInv, ClientInv, ClientOnLost
<1>2. ToSrvInv'  BY CPacketTyped, ClientSends DEF IInv, ClientOnLost
<1>3. ToCliInv'  BY ClientTakes, ToCliStep DEF IInv, ClientOnLost
<1>4. ServerInv' /\ FaultInv'
  BY DEF IInv, ServerInv, FaultInv, ClientOnLost, serverVars
<1> QED  BY <1>1, <1>2, <1>3, <1>4 DEF IInv

LEMMA ClientOnByeStep ==
    ASSUME IInv, NEW c \in Clients, ClientOnBye(c)
    PROVE  IInv'
<1>1. ClientInv'
  <2>1. own' \in [Nodes -> {"none", "live", "dangling", "gone"}]
    BY DEF IInv, ClientInv, ClientOnBye
  <2> QED  BY <2>1 DEF IInv, ClientInv, ClientOnBye
<1>2. ToSrvInv'  BY CPacketTyped, ClientSends DEF IInv, ClientOnBye
<1>3. ToCliInv'  BY ClientTakes, ToCliStep DEF IInv, ClientOnBye
<1>4. ServerInv' /\ FaultInv'
  BY DEF IInv, ServerInv, FaultInv, ClientOnBye, serverVars
<1> QED  BY <1>1, <1>2, <1>3, <1>4 DEF IInv

LEMMA ClientReceiveStep ==
    ASSUME IInv, NEW c \in Clients, ClientReceive(c)
    PROVE  IInv'
BY ClientUpdateStep, ClientOnAcceptedStep, ClientOnScopeStep, ClientOnAssignedStep,
   ClientOnConstructionStep, ClientOnLostStep, ClientOnByeStep DEF ClientReceive

---------------------------------------------------------------------------
(* The steps of the server.                                                *)

\* Update leaves the lists of every connection without its own client's ids.
LEMMA ServerLists ==
    ASSUME ServerInv, NEW d \in Clients
    PROVE  /\ SHasNow(d) \in SUBSET Ids
           /\ SQueryNow(d) \in SUBSET Ids
           /\ SQueryNow(d) \subseteq Foreign(d)
BY DEF ServerInv, SHasNow, SQueryNow, SFlush

\* Nothing the server has is owned by a client it is not connected to.
LEMMA NothingOfTheDisconnected ==
    ASSUME ServerInv, NEW c \in Clients, srvConn[c] = "none"
    PROVE  srv \subseteq Foreign(c)
BY DEF ServerInv, Foreign

\* The server handles one of the packets in flight, and that packet is one
\* the client may send.
LEMMA ServerTakes ==
    ASSUME ToSrvInv, NEW c \in Clients, NEW i, NEW kind, Reaching(c, i, kind), Take(c, i)
    PROVE  toSrv[c][i] \in FromClient(c) /\ ToSrvInv'
<1>1. toSrv[c] \in Seq(FromClient(c))  BY DEF ToSrvInv
<1>2. i \in 1..Len(toSrv[c])  BY <1>1, LenProperties DEF Reaching
<1>3. toSrv[c][i] \in FromClient(c)  BY <1>1, <1>2, ElementOfSeq
<1>4. Without(toSrv[c], i) \in Seq(FromClient(c))  BY <1>1, <1>2, WithoutKeeps
<1> QED  BY <1>3, <1>4, ToSrvStep DEF Take

LEMMA ServerUpdateStep ==
    ASSUME IInv, ServerUpdate
    PROVE  IInv'
<1>1. ServerInv'  BY ServerLists DEF IInv, ServerInv, ServerUpdate
<1>2. ToCliInv'
  <2>1. \A d \in Clients : Nothing[d] \in Seq(ToClient(d))
    BY EmptySeq DEF Nothing
  <2> QED  BY <2>1, DeliverStep DEF IInv, ServerUpdate
<1>3. ClientInv' /\ ToSrvInv' /\ FaultInv'
  BY DEF IInv, ClientInv, ToSrvInv, FaultInv, ServerUpdate, clientVars
<1> QED  BY <1>1, <1>2, <1>3 DEF IInv

\* An answer to one client leaves the others with what Update sends them.
LEMMA AnswerOne ==
    ASSUME NEW c \in Clients, NEW p \in Seq(ToClient(c))
    PROVE  \A d \in Clients : [Nothing EXCEPT ![c] = p][d] \in Seq(ToClient(d))
<1>1. \A d \in Clients : << >> \in Seq(ToClient(d))  BY EmptySeq
<1> QED  BY <1>1 DEF Nothing

LEMMA ServerOnIncomingStep ==
    ASSUME IInv, NEW c \in Clients, NEW i, ServerOnIncoming(c, i)
    PROVE  IInv'
<1>1. ServerInv'
  <2>1. CASE srvConn[c] = "none"
    BY <2>1, ServerLists, NothingOfTheDisconnected
       DEF IInv, ServerInv, ServerOnIncoming, Referenced
  <2>2. CASE srvConn[c] # "none"
    BY <2>2, ServerLists DEF IInv, ServerInv, ServerOnIncoming
  <2> QED  BY <2>1, <2>2
<1>2. ToCliInv'
  <2> DEFINE answer == IF srvConn[c] = "none" THEN <<Scope>> ELSE << >>
             extra == [Nothing EXCEPT ![c] = answer]
  <2>0. answer \in Seq(ToClient(c))  BY ControlToClient
  <2>1. \A d \in Clients : extra[d] \in Seq(ToClient(d))  BY <2>0, AnswerOne
  <2>2. Deliver(extra)  BY DEF ServerOnIncoming
  <2> QED  BY <2>1, <2>2, DeliverStep DEF IInv
<1>3. ToSrvInv'  BY ServerTakes DEF IInv, ServerOnIncoming
<1>4. ClientInv' /\ FaultInv'
  BY DEF IInv, ClientInv, FaultInv, ServerOnIncoming, clientVars
<1> QED  BY <1>1, <1>2, <1>3, <1>4 DEF IInv

LEMMA ServerOnScopeStep ==
    ASSUME IInv, NEW c \in Clients, NEW i, ServerOnScope(c, i)
    PROVE  IInv'
<1>1. ServerInv'  BY ServerLists DEF IInv, ServerInv, ServerOnScope
<1>2. ToCliInv'
  <2> DEFINE answer == IF srvConn[c] = "pushed" THEN <<Scope>> ELSE << >>
             extra == [Nothing EXCEPT ![c] = answer]
  <2>0. answer \in Seq(ToClient(c))  BY ControlToClient
  <2>1. \A d \in Clients : extra[d] \in Seq(ToClient(d))  BY <2>0, AnswerOne
  <2>2. Deliver(extra)  BY DEF ServerOnScope
  <2> QED  BY <2>1, <2>2, DeliverStep DEF IInv
<1>3. ToSrvInv'  BY ServerTakes DEF IInv, ServerOnScope
<1>4. ClientInv' /\ FaultInv'
  BY DEF IInv, ClientInv, FaultInv, ServerOnScope, clientVars
<1> QED  BY <1>1, <1>2, <1>3, <1>4 DEF IInv

\* The ids a construction of a client gives: of nodes of that client.
LEMMA IdsFor ==
    ASSUME ServerInv, NEW c \in Clients, NEW e \in PairsOf(c)
    PROVE  IdFor(e) \in Ids /\ OwnerOf(IdFor(e)) = c
<1>1. /\ e[1] \in Nodes /\ Owner[e[1]] = c
      /\ e[2] \in Ids \cup {NoId}
      /\ e[2] = NoId \/ e[2].node = e[1]
  BY DEF PairsOf, NodesOf
<1>2. issued[e[1]] \in Nat  BY <1>1 DEF ServerInv
<1> QED  BY <1>1, <1>2 DEF IdFor, Ids, OwnerOf

LEMMA ServerOnConstructionStep ==
    ASSUME IInv, NEW c \in Clients, NEW i, ServerOnConstruction(c, i)
    PROVE  IInv'
<1> DEFINE m == toSrv[c][i]
           existing == {e[2] : e \in m.new} \cap srv
           created == {IdFor(e) : e \in {e \in m.new : e[2] \notin srv}}
           assigned == {IdFor(e) : e \in {e \in m.new : e[2] = NoId}}
           doomed == m.del \cap (srv \cup created)
           has == [d \in Clients |->
                     IF d = c THEN SHasNow(d) \cup created \cup (existing \cap SQueryNow(d))
                     ELSE SHasNow(d)]
           query == [d \in Clients |->
                       IF d = c THEN SQueryNow(d) \ (created \cup existing)
                       ELSE IF d \in Pushed THEN SQueryNow(d) \cup created
                       ELSE SQueryNow(d)]
<1>1. ToSrvInv' /\ m \in FromClient(c) /\ m.kind = "construction"
  BY ServerTakes DEF IInv, ServerOnConstruction, Reaching
<1>2. m.new \subseteq PairsOf(c) /\ m.del \subseteq Ids \cup {NoId}
  BY <1>1 DEF FromClient, Incoming, Scope, Lost, Bye
<1>3. created \subseteq Ids /\ \A id \in created : OwnerOf(id) = c
  BY <1>2, IdsFor DEF IInv
<1>4. assigned \subseteq Ids  BY <1>2, IdsFor DEF IInv
<1>5. ServerInv /\ srv \subseteq Ids  BY DEF IInv, ServerInv
<1>6. \A d \in Clients : has[d] \subseteq Ids
  BY <1>3, <1>5, ServerLists
<1>7. \A d \in Clients : query[d] \subseteq Ids /\ query[d] \subseteq Foreign(d)
  BY <1>3, <1>5, ServerLists DEF Foreign
<1>8. CASE srvConn[c] = "none"
  <2>1. /\ srvHas' = [d \in Clients |-> SHasNow(d)]
        /\ srvQuery' = [d \in Clients |-> SQueryNow(d)]
        /\ Deliver(Nothing)
        /\ UNCHANGED <<srv, issued, up, srvConn>>
    BY <1>8 DEF ServerOnConstruction
  <2>2. ServerInv'  BY <2>1, ServerLists DEF IInv, ServerInv
  <2>3. \A d \in Clients : Nothing[d] \in Seq(ToClient(d))
    BY EmptySeq DEF Nothing
  <2>4. ToCliInv'  BY <2>1, <2>3, DeliverStep DEF IInv
  <2>5. ClientInv' /\ FaultInv'
    BY DEF IInv, ClientInv, FaultInv, ServerOnConstruction, clientVars
  <2> QED  BY <1>1, <2>2, <2>4, <2>5 DEF IInv
<1>9. CASE srvConn[c] # "none"
  <2> DEFINE extra == [d \in Clients |->
                         IF d = c THEN Assign(assigned)
                         ELSE Destruct(doomed \cap has[d])]
  <2>1. /\ srv' = Dereference(srv \cup created, doomed)
        /\ srvHas' = [d \in Clients |-> Dereference(has[d], doomed)]
        /\ srvQuery' = [d \in Clients |-> Dereference(query[d], doomed)]
        /\ issued' = [n \in Nodes |-> IF <<n, NoId>> \in m.new
                                      THEN issued[n] + 1 ELSE issued[n]]
        /\ Deliver(extra)
        /\ UNCHANGED <<up, srvConn>>
    BY <1>9 DEF ServerOnConstruction
  <2>2. ServerInv'
    <3> HIDE DEF m, existing, created, assigned, doomed, has, query
    <3>1. srv' \subseteq srv \cup created  BY <2>1 DEF Dereference
    <3>2. /\ srv' \subseteq Ids
          /\ \A id \in srv' : srvConn'[OwnerOf(id)] # "none"
      BY <1>3, <1>5, <1>9, <2>1, <3>1 DEF ServerInv
    <3>3. /\ srvHas' \in [Clients -> SUBSET Ids]
          /\ srvQuery' \in [Clients -> SUBSET Ids]
          /\ \A d \in Clients : srvQuery'[d] \subseteq Foreign(d)
      BY <1>6, <1>7, <2>1 DEF Dereference
    <3>4. issued' \in [Nodes -> Nat]  BY <1>5, <2>1 DEF ServerInv
    <3> QED  BY <1>5, <2>1, <3>2, <3>3, <3>4 DEF ServerInv
  <2>3. \A d \in Clients : extra[d] \in Seq(ToClient(d))
    <3>1. Assign(assigned) \in Seq(ToClient(c))  BY <1>4, AssignToClient
    <3>2. \A d \in Clients : Destruct(doomed \cap has[d]) \in Seq(ToClient(d))
      <4> HIDE DEF doomed, has
      <4> QED  BY <1>6, DestructToClient
    <3> HIDE DEF assigned, doomed, has
    <3> QED  BY <3>1, <3>2
  <2>4. ToCliInv'  BY <2>1, <2>3, DeliverStep DEF IInv
  <2>5. ClientInv' /\ FaultInv'
    BY DEF IInv, ClientInv, FaultInv, ServerOnConstruction, clientVars
  <2> QED  BY <1>1, <2>2, <2>4, <2>5 DEF IInv
<1> QED  BY <1>8, <1>9

LEMMA ServerOnClosedStep ==
    ASSUME IInv, NEW c \in Clients, NEW i, ServerOnClosed(c, i)
    PROVE  IInv'
<1> DEFINE dropped == IF srvConn[c] = "none" THEN {} ELSE CreatedBy(c)
           extra == [d \in Clients |->
                       (IF d = c THEN << >> ELSE Destruct(dropped \cap SHasNow(d)))
                       \o Destruct(dropped \cap SHasNow(d))]
<1>1. /\ srvConn' = [srvConn EXCEPT ![c] = "none"]
      /\ srv' = Dereference(srv, dropped)
      /\ srvHas' = [d \in Clients |-> IF d = c THEN {}
                                      ELSE Dereference(SHasNow(d), dropped)]
      /\ srvQuery' = [d \in Clients |-> IF d = c THEN {}
                                        ELSE Dereference(SQueryNow(d), dropped)]
      /\ Deliver(extra)
      /\ UNCHANGED <<clientVars, up, issued, wire, faults>>
  BY DEF ServerOnClosed
<1>2. ServerInv'
  <2>1. \A id \in srv' : id \in srv /\ OwnerOf(id) # c
    BY <1>1 DEF Dereference, CreatedBy, IInv, ServerInv
  <2>2. \A id \in srv' : OwnerOf(id) \in Clients
    BY <2>1, OwnerAssumption DEF IInv, ServerInv, OwnerOf, Ids
  <2>3. \A id \in srv' : srvConn'[OwnerOf(id)] # "none"
    BY <1>1, <2>1, <2>2 DEF IInv, ServerInv
  <2>4. /\ srvHas' \in [Clients -> SUBSET Ids]
        /\ srvQuery' \in [Clients -> SUBSET Ids]
        /\ \A d \in Clients : srvQuery'[d] \subseteq Foreign(d)
    BY <1>1, ServerLists DEF IInv, Dereference
  <2> QED  BY <1>1, <2>1, <2>3, <2>4 DEF IInv, ServerInv
<1>3. ToCliInv'
  <2>1. \A d \in Clients : extra[d] \in Seq(ToClient(d))
    <3> SUFFICES ASSUME NEW d \in Clients
                 PROVE  extra[d] \in Seq(ToClient(d))
      OBVIOUS
    <3>1. Destruct(dropped \cap SHasNow(d)) \in Seq(ToClient(d))
      <4> HIDE DEF dropped
      <4>1. dropped \cap SHasNow(d) \in SUBSET Ids  BY ServerLists DEF IInv
      <4> QED  BY <4>1, DestructToClient
    <3>2. << >> \in Seq(ToClient(d))  BY EmptySeq
    <3> HIDE DEF dropped
    <3> QED  BY <3>1, <3>2, ConcatProperties
  <2> QED  BY <1>1, <2>1, DeliverStep DEF IInv
<1>4. ToSrvInv'  BY ServerTakes DEF IInv, ServerOnClosed
<1>5. ClientInv' /\ FaultInv'
  BY <1>1 DEF IInv, ClientInv, FaultInv, clientVars
<1> QED  BY <1>2, <1>3, <1>4, <1>5 DEF IInv

LEMMA ServerReceiveStep ==
    ASSUME IInv, ServerReceive
    PROVE  IInv'
BY ServerUpdateStep, ServerOnIncomingStep, ServerOnScopeStep,
   ServerOnConstructionStep, ServerOnClosedStep DEF ServerReceive

LEMMA ServerQuitStep ==
    ASSUME IInv, ServerQuit
    PROVE  IInv'
<1> DEFINE last == [d \in Clients |-> Destruct(srvHas[d]) \o Destruct(srvHas[d]) \o <<Bye>>]
           f == [d \in Clients |-> Send(d, toCli[d], last[d])]
<1>1. ServerInv'  BY DEF IInv, ServerInv, ServerQuit
<1>2. \A d \in Clients : f[d] \in Seq(ToClient(d))
  <2> SUFFICES ASSUME NEW d \in Clients
               PROVE  f[d] \in Seq(ToClient(d))
    OBVIOUS
  <2>1. Destruct(srvHas[d]) \in Seq(ToClient(d))
    BY DestructToClient DEF IInv, ServerInv
  <2>2. <<Bye>> \in Seq(ToClient(d))  BY ControlToClient
  <2>3. last[d] \in Seq(ToClient(d))  BY <2>1, <2>2, ConcatProperties
  <2>4. toCli[d] \in Seq(ToClient(d))  BY DEF IInv, ToCliInv
  <2> HIDE DEF last
  <2> QED  BY <2>3, <2>4, SendKeeps
<1>3. ToCliInv'
  <2>1. toCli' = [d \in Clients |-> f[d]]  BY DEF ServerQuit
  <2> HIDE DEF f
  <2> QED  BY <1>2, <2>1, ToCliSteps
<1>4. ToSrvInv'  BY ToSrvEmpty DEF ServerQuit
<1>5. ClientInv' /\ FaultInv'
  BY DEF IInv, ClientInv, FaultInv, ServerQuit, clientVars
<1> QED  BY <1>1, <1>3, <1>4, <1>5 DEF IInv

---------------------------------------------------------------------------
(* The transport and its faults.                                           *)

LEMMA EstablishStep ==
    ASSUME IInv, NEW c \in Clients, Establish(c)
    PROVE  IInv'
<1>1. ToCliInv'
  <2>1. <<Accepted>> \in Seq(ToClient(c))  BY ControlToClient
  <2> QED  BY <2>1, ToCliStep DEF IInv, Establish
<1>2. ToSrvInv'
  <2>1. Append(toSrv[c], Incoming) \in Seq(FromClient(c))
    BY ControlFromClient, AppendProperties DEF IInv, ToSrvInv
  <2> QED  BY <2>1, ToSrvStep DEF IInv, Establish
<1>3. ClientInv' /\ ServerInv' /\ FaultInv'
  BY DEF IInv, ClientInv, ServerInv, FaultInv, Establish, clientVars, serverVars
<1> QED  BY <1>1, <1>2, <1>3 DEF IInv

LEMMA ConnectFailsStep ==
    ASSUME IInv, NEW c \in Clients, ConnectFails(c)
    PROVE  IInv'
<1>1. ClientInv'  BY DEF IInv, ClientInv, ConnectFails
<1>2. ServerInv' /\ ToSrvInv' /\ ToCliInv' /\ FaultInv'
  BY DEF IInv, ServerInv, ToSrvInv, ToCliInv, FaultInv, ConnectFails, serverVars
<1> QED  BY <1>1, <1>2 DEF IInv

LEMMA BreakStep ==
    ASSUME IInv, NEW c \in Clients, Break(c)
    PROVE  IInv'
<1>1. ToCliInv'
  <2>1. PICK i \in Cuts(toCli[c]) : toCli' = [toCli EXCEPT ![c] = CutOff(@, i)]
    BY DEF Break
  <2>2. CutOff(toCli[c], i) \in Seq(ToClient(c))
    BY CutOffKeeps, ControlToClient DEF IInv, ToCliInv
  <2> QED  BY <2>1, <2>2, ToCliStep DEF IInv
<1>2. ToSrvInv'
  <2>1. CASE up
    <3>1. PICK q \in KeptToSrv(toSrv[c]) : toSrv' = [toSrv EXCEPT ![c] = Append(q, Lost)]
      BY <2>1 DEF Break
    <3>2. q \in Seq(FromClient(c))  BY KeptKeeps DEF IInv, ToSrvInv
    <3>3. Append(q, Lost) \in Seq(FromClient(c))
      BY <3>2, AppendProperties, ControlFromClient
    <3> QED  BY <3>1, <3>3, ToSrvStep DEF IInv
  <2>2. CASE ~up  BY <2>2 DEF Break, IInv, ToSrvInv
  <2> QED  BY <2>1, <2>2
<1>3. ClientInv' /\ ServerInv'
  BY DEF IInv, ClientInv, ServerInv, Break, clientVars, serverVars
<1>4. FaultInv'  BY DEF IInv, FaultInv, Break
<1> QED  BY <1>1, <1>2, <1>3, <1>4 DEF IInv

LEMMA ServerCrashStep ==
    ASSUME IInv, ServerCrash
    PROVE  IInv'
<1>1. ToCliInv'
  <2>1. PICK cut : /\ \A d \in Clients : cut[d] \in Cuts(toCli[d])
                   /\ toCli' = [d \in Clients |-> IF wire[d] THEN CutOff(toCli[d], cut[d])
                                                  ELSE toCli[d]]
    BY DEF ServerCrash
  <2> DEFINE f == [d \in Clients |-> IF wire[d] THEN CutOff(toCli[d], cut[d])
                                     ELSE toCli[d]]
  <2>2. \A d \in Clients : CutOff(toCli[d], cut[d]) \in Seq(ToClient(d))
    BY <2>1, CutOffKeeps, ControlToClient DEF IInv, ToCliInv
  <2>3. \A d \in Clients : f[d] \in Seq(ToClient(d))
    BY <2>2 DEF IInv, ToCliInv
  <2> QED  BY <2>1, <2>3, ToCliSteps
<1>2. ToSrvInv'  BY ToSrvEmpty DEF ServerCrash
<1>3. ClientInv'  BY DEF IInv, ClientInv, ServerCrash, clientVars
<1>4. ServerInv'  BY DEF IInv, ServerInv, ServerCrash
<1>5. FaultInv'  BY DEF IInv, FaultInv, ServerCrash
<1> QED  BY <1>1, <1>2, <1>3, <1>4, <1>5 DEF IInv

---------------------------------------------------------------------------
(* The theorems.                                                           *)

LEMMA InitIInv == Init => IInv
<1> SUFFICES ASSUME Init  PROVE IInv
  OBVIOUS
<1>1. \A S : << >> \in Seq(S)  BY EmptySeq
<1>2. ClientInv  BY DEF Init, ClientInv
<1>3. ServerInv  BY DEF Init, ServerInv
<1>4. ToSrvInv /\ ToCliInv  BY <1>1 DEF Init, ToSrvInv, ToCliInv
<1>5. FaultInv  BY DEF Init, FaultInv
<1> QED  BY <1>2, <1>3, <1>4, <1>5 DEF IInv

LEMMA NextIInv == IInv /\ [Next]_vars => IInv'
<1> SUFFICES ASSUME IInv, [Next]_vars  PROVE IInv'
  OBVIOUS
<1>1. ASSUME NEW n \in Nodes, AddNode(n) \/ RemoveNode(n)
      PROVE  IInv'
  BY <1>1, AddNodeStep, RemoveNodeStep
<1>2. ASSUME NEW c \in Clients, StartClient(c) \/ RemoveAllNodes(c) \/ Stop(c)
      PROVE  IInv'
  BY <1>2, StartClientStep, RemoveAllNodesStep, StopStep
<1>3. ASSUME NEW c \in Clients, ClientReceive(c)
      PROVE  IInv'
  BY <1>3, ClientReceiveStep
<1>4. ASSUME NEW c \in Clients, Establish(c) \/ ConnectFails(c) \/ Break(c)
      PROVE  IInv'
  BY <1>4, EstablishStep, ConnectFailsStep, BreakStep
<1>5. CASE ServerReceive  BY <1>5, ServerReceiveStep
<1>6. CASE ServerQuit  BY <1>6, ServerQuitStep
<1>7. CASE ServerCrash  BY <1>7, ServerCrashStep
<1>8. CASE UNCHANGED vars
  BY <1>8 DEF vars, IInv, ClientInv, ServerInv, ToSrvInv, ToCliInv, FaultInv
<1> QED  BY <1>1, <1>2, <1>3, <1>4, <1>5, <1>6, <1>7, <1>8 DEF Next

\* The chain of facts above holds at every moment of every behaviour.
THEOREM Invariance == Spec => []IInv
BY InitIInv, NextIInv, PTL DEF Spec

\* Every variable keeps to its type: lists of a connection only hold ids,
\* packets in flight are packets of the protocol.
THEOREM TypeCorrect == Spec => []TypeOK
<1>1. IInv => TypeOK
  BY DEF IInv, ClientInv, ServerInv, ToSrvInv, ToCliInv, FaultInv, TypeOK
<1> QED  BY <1>1, Invariance, PTL

\* No client is ever sent, and none ever holds, a copy of its own node: what
\* QueryConstruction_ClientConstruction would allow ("Send back to the owner
\* client too") never comes about, through any breaks, crashes and returns.
THEOREM OwnersGetNoCopy == Spec => []NoEcho
<1>1. IInv => NoEcho
  BY DEF IInv, ClientInv, NoEcho, Foreign
<1> QED  BY <1>1, Invariance, PTL
=============================================================================
