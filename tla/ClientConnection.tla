-------------------------- MODULE ClientConnection --------------------------
(***************************************************************************)
(* The connection of one client to the server: startclient, check and stop *)
(* of client.cpp in the main thread, the handshake of RakPeer in the       *)
(* network threads of both sides, and what can happen to the network and   *)
(* to the server.  Nodes and replicas are the matter of other modules.     *)
(*                                                                         *)
(* Time is not counted.  A timeout of RakPeer (attempts used up, no        *)
(* acknowledgement, ten seconds in a handshake) can go off from the moment *)
(* no message can come that would stop it.                                 *)
(***************************************************************************)
EXTENDS Naturals, Sequences

CONSTANTS
    Slots,       \* connections the server takes (32 in server.cpp)
    MaxFaults    \* bound: breaks of the network, and ends of the server

ASSUME SlotsAssumption == Slots \in Nat \ {0}
ASSUME MaxFaultsAssumption == MaxFaults \in Nat

VARIABLES
    pc,               \* where the main thread is in the client library
    isconnected, connection_lost,    \* of client.cpp
    mail,             \* packets of RakPeer that Receive has not returned yet
    attempt,          \* requestedConnectionQueue has an entry
    peer,             \* connectMode of the server in the client's RakPeer
    slot,             \* connectMode of this client in the server's RakPeer
    others, knocking, \* slots of the server other clients have, and hold unverified
    request, reply,   \* datagrams under way
    net, up,          \* the network works; the server runs
    faults,           \* faults still to come at most
    doubled           \* an attempt was queued beside a connection, see Push

belief == <<isconnected, connection_lost>>
hands == <<attempt, peer, slot, request, reply>>
world == <<others, knocking, net, up, faults>>
connectionVars == <<pc, belief, mail, hands, world, doubled>>

Refusals == {"full", "already"}
Kinds == Refusals \cup {"accepted", "failed", "lost", "bye"}
Places == {"begin", "receive", "look", "push", "out", "ended"}
Reaches == net /\ up
Free == others + knocking + (IF slot = "none" THEN 0 ELSE 1) < Slots

ConnectionInit ==
    /\ pc = "begin" /\ mail = << >>
    /\ isconnected = FALSE /\ connection_lost = FALSE
    /\ attempt = FALSE /\ peer = "none" /\ slot = "none"
    /\ others \in 0..Slots /\ knocking = 0
    /\ request = FALSE /\ reply = ""
    /\ net = TRUE /\ up \in BOOLEAN /\ doubled = FALSE
    /\ faults \in 0..MaxFaults

---------------------------------------------------------------------------
(* client.cpp, in the main thread.                                         *)

\* startclient up to its check, one second later: Connect finds nothing yet.
StartClient ==
    /\ pc = "begin" /\ pc' = "receive" /\ attempt' = TRUE
    /\ UNCHANGED <<belief, mail, peer, slot, request, reply, world, doubled>>

Check ==
    /\ pc = "out" /\ pc' = "receive"
    /\ UNCHANGED <<belief, mail, hands, world, doubled>>

\* (Wrong on purpose: a goodbye of the server is passed over.)
BelievedStill(kind) == isconnected \/ kind = "accepted"

Believed(kind) == (isconnected \/ kind = "accepted") /\ kind # "bye"

\* (Wrong on purpose: a failed attempt ends the trying.)
LostUntilFailed(kind) ==
    (connection_lost /\ kind \notin {"accepted", "failed"}) \/ kind = "lost"

Lost(kind) == (connection_lost /\ kind # "accepted") \/ kind = "lost"

Receive ==
    /\ pc = "receive" /\ mail # << >>
    /\ isconnected' = Believed(Head(mail))
    /\ connection_lost' = Lost(Head(mail))
    /\ mail' = Tail(mail)
    /\ UNCHANGED <<pc, hands, world, doubled>>

\* The rest of check after its loop over the packets.
NoMore ==
    /\ pc = "receive" /\ mail = << >>
    /\ pc' = IF connection_lost THEN "look" ELSE "out"
    /\ UNCHANGED <<belief, mail, hands, world, doubled>>

\* Connect: SendConnectionRequest first looks for the server among the systems
\* it is connected to, then among the attempts; the lock covers only the latter.
Look ==
    /\ pc = "look" /\ pc' = IF peer = "none" THEN "push" ELSE "out"
    /\ UNCHANGED <<belief, mail, hands, world, doubled>>

\* The attempt may join a connection that was made since the look.
Push ==
    /\ pc = "push" /\ pc' = "out" /\ attempt' = TRUE
    /\ doubled' = (doubled \/ peer # "none")
    /\ UNCHANGED <<belief, mail, peer, slot, request, reply, world>>

\* What the end of this process leaves: the server is told, or it is not.
Gone(told) ==
    /\ pc' = "ended" /\ mail' = << >> /\ attempt' = FALSE /\ peer' = "none"
    /\ slot' = IF told THEN "none" ELSE slot
    /\ UNCHANGED <<request, reply, world, doubled>>

\* stop: Shutdown waits a tenth of a second for its notification to go out.
Stop ==
    /\ pc = "out" /\ isconnected' = FALSE /\ UNCHANGED connection_lost
    /\ \E told \in BOOLEAN : (told => Reaches /\ peer = "connected") /\ Gone(told)

\* The process returns from main without stop.
Die == pc = "out" /\ Gone(FALSE) /\ UNCHANGED belief

\* The process ends before it starts the client.
NeverStarted ==
    /\ pc = "begin" /\ pc' = "ended"
    /\ UNCHANGED <<belief, mail, hands, world, doubled>>

---------------------------------------------------------------------------
(* RakPeer of the client, in its network thread.                           *)

Post(kind) == mail' = Append(mail, kind)

\* RunUpdateCycle on requestedConnectionQueue: an open request, again and again.
SendRequest ==
    /\ attempt /\ Reaches /\ ~request /\ request' = TRUE
    /\ UNCHANGED <<pc, belief, mail, attempt, peer, slot, reply, world, doubled>>

GiveUp ==
    /\ attempt /\ ~Reaches
    /\ attempt' = FALSE /\ Post("failed")
    /\ UNCHANGED <<pc, belief, peer, slot, request, reply, world, doubled>>

\* The reply takes the attempt off the queue and asks for the connection, also
\* of a server this client is connected to; without an attempt it is dropped.
ClientOnReply ==
    /\ reply = "reply" /\ reply' = "" /\ attempt' = FALSE
    /\ peer' = IF attempt THEN "requested" ELSE peer
    /\ UNCHANGED <<pc, belief, mail, slot, request, world, doubled>>

ClientOnRefusal ==
    /\ reply \in Refusals /\ reply' = "" /\ attempt' = FALSE
    /\ IF attempt THEN Post(reply) ELSE UNCHANGED mail
    /\ UNCHANGED <<pc, belief, peer, slot, request, world, doubled>>

ClientOnAccepted ==
    /\ Reaches /\ peer = "requested" /\ slot \in {"handling", "connected"}
    /\ peer' = "connected" /\ Post("accepted")
    /\ UNCHANGED <<pc, belief, attempt, slot, request, reply, world, doubled>>

ClientDead ==
    /\ \/ peer = "requested" /\ (~Reaches \/ slot = "none") /\ Post("failed")
       \/ /\ peer = "connected" /\ (~Reaches \/ slot \in {"none", "unverified"})
          /\ Post("lost")
    /\ peer' = "none"
    /\ UNCHANGED <<pc, belief, attempt, slot, request, reply, world, doubled>>

---------------------------------------------------------------------------
(* RakPeer of the server, in its network thread.                           *)

\* ProcessOfflineNetworkPacket.  AllowIncomingConnections counts connected
\* systems only; with the rest of the list taken up, AssignSystemAddress-
\* ToRemoteSystemList finds no place and the reply is sent all the same.
ServerOnOpen ==
    /\ Reaches /\ request /\ reply = ""
    /\ request' = FALSE
    /\ reply' = CASE slot \in {"handling", "connected"} -> "already"
                  [] slot = "none" /\ others >= Slots -> "full"
                  [] OTHER -> "reply"
    /\ slot' = IF reply' = "reply" /\ Free THEN "unverified" ELSE slot
    /\ UNCHANGED <<pc, belief, mail, attempt, peer, world, doubled>>

ServerOnAsk ==
    /\ Reaches /\ peer = "requested" /\ slot = "unverified"
    /\ slot' = "handling"
    /\ UNCHANGED <<pc, belief, mail, attempt, peer, request, reply, world, doubled>>

ServerOnNewIncoming ==
    /\ Reaches /\ peer = "connected" /\ slot = "handling"
    /\ slot' = "connected"
    /\ UNCHANGED <<pc, belief, mail, attempt, peer, request, reply, world, doubled>>

ServerDead ==
    /\ \/ slot # "none" /\ up /\ ~net
       \/ slot = "unverified" /\ peer # "requested" /\ reply # "reply" /\ ~attempt
       \/ slot \in {"handling", "connected"} /\ peer = "none"
    /\ slot' = "none"
    /\ UNCHANGED <<pc, belief, mail, attempt, peer, request, reply, world, doubled>>

OthersKnock ==
    /\ up /\ others < Slots /\ Free
    /\ knocking' = knocking + 1
    /\ UNCHANGED <<pc, belief, mail, hands, others, net, up, faults, doubled>>

OthersJoin ==
    /\ up /\ knocking > 0
    /\ knocking' = knocking - 1 /\ others' = others + 1
    /\ UNCHANGED <<pc, belief, mail, hands, net, up, faults, doubled>>

OthersLeave ==
    /\ \/ knocking > 0 /\ knocking' = knocking - 1 /\ UNCHANGED others
       \/ others > 0 /\ others' = others - 1 /\ UNCHANGED knocking
    /\ UNCHANGED <<pc, belief, mail, hands, net, up, faults, doubled>>

---------------------------------------------------------------------------
(* What happens to the network and to the server.                          *)

Fault == faults > 0 /\ faults' = faults - 1

Break ==
    /\ Fault /\ net /\ net' = FALSE /\ request' = FALSE /\ reply' = ""
    /\ UNCHANGED <<pc, belief, mail, attempt, peer, slot, others, knocking, up, doubled>>

Repair ==
    /\ ~net /\ net' = TRUE
    /\ UNCHANGED <<pc, belief, mail, hands, others, knocking, up, faults, doubled>>

ServerGone ==
    /\ Fault /\ up /\ up' = FALSE /\ slot' = "none" /\ others' = 0 /\ knocking' = 0
    /\ request' = FALSE /\ reply' = ""
    /\ UNCHANGED <<pc, belief, attempt, net, doubled>>

Crash == ServerGone /\ UNCHANGED <<mail, peer, doubled>>

\* The server's Shutdown: the notification arrives within its tenth of a second.
Quit ==
    /\ ServerGone /\ net /\ peer # "none" /\ slot \in {"handling", "connected"}
    /\ peer' = "none" /\ Post("bye")

Restart ==
    /\ ~up /\ up' = TRUE
    /\ UNCHANGED <<pc, belief, mail, hands, others, knocking, net, faults, doubled>>

ClientThread == SendRequest \/ GiveUp \/ ClientOnReply \/ ClientOnRefusal
                  \/ ClientOnAccepted \/ ClientDead
ServerThread == ServerOnOpen \/ ServerOnAsk \/ ServerOnNewIncoming \/ ServerDead
Environment == OthersKnock \/ OthersJoin \/ OthersLeave \/ Break \/ Repair
                  \/ Crash \/ Quit \/ Restart
Elsewhere == ClientThread \/ ServerThread \/ Environment
MainThread == StartClient \/ Check \/ Receive \/ NoMore \/ Look \/ Push
                \/ Stop \/ Die \/ NeverStarted

\* What any program does to its connection, whenever it calls the library.
ConnectionSpec ==
    ConnectionInit /\ [][MainThread \/ Elsewhere]_connectionVars

---------------------------------------------------------------------------
BeliefTypes ==
    /\ pc \in Places /\ isconnected \in BOOLEAN /\ connection_lost \in BOOLEAN
    /\ mail \in Seq(Kinds)
HandTypes ==
    /\ attempt \in BOOLEAN /\ doubled \in BOOLEAN
    /\ request \in BOOLEAN /\ reply \in Refusals \cup {"", "reply"}
    /\ peer \in {"none", "requested", "connected"}
    /\ slot \in {"none", "unverified", "handling", "connected"}
WorldTypes ==
    /\ others \in 0..Slots /\ knocking \in 0..(Slots - others)
    /\ net \in BOOLEAN /\ up \in BOOLEAN /\ faults \in 0..MaxFaults
ConnectionTypes == BeliefTypes /\ HandTypes /\ WorldTypes

Told(kind) == \E i \in DOMAIN mail : mail[i] = kind

\* A client that believes it is connected, and does not know that the connection
\* was lost, is connected, or the news of the end waits for check: unless Connect
\* once queued an attempt beside a connection, whose end is then news of a failed
\* attempt, which check passes over.
BeliefSound ==
    isconnected /\ ~connection_lost /\ ~doubled /\ pc # "ended" =>
        peer = "connected" \/ Told("lost") \/ Told("bye")
=============================================================================
