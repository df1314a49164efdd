# Beaming Scene Service: verification project

The Beaming Scene Service (`src/netManager`) keeps one scene of *nodes*
(avatar joints, faces, objects, videos, ...) shared between client applications
through a server. Applications link the client library
(`netClient/client.cpp`), which, like the server (`netServer/server.cpp`), is a
layer over RakNet's ReplicaManager3 (`src/external_libs/raknet/Source`); what
both sides agree on is `ClientServer.h`. This directory models the program in
TLA+, checks the models with TLC on small instances, and proves with TLAPS what
can be proved of every instance. `PROJECT.json` maps every definition to the
lines it translates, and lists components, runs, mutants, findings, hazards and
theorems.

    tlc -workers 2 -config SceneBreaks.cfg MCSceneReplication.tla
    tlapm NodeTables_proofs.tla

## 1. Inventory

### The parts, their state, their operations

| Part | State | Operations | Modelled in |
|---|---|---|---|
| Scene replication (ReplicaManager3 as the service uses it, `NetworkIDObject`) | per process: `userReplicaList`; per connection: `constructedReplicaList`, `queryToConstructReplicaList`, validation | Reference, Update, OnConstruction, OnLocalConstructionAccepted, BroadcastDestruction, PushConnection, PopConnection | SceneReplication |
| Client connection (`startclient`, `check`, `stop`, the handshake of `RakPeer`) | `isconnected`, `connection_lost`; attempts, `connectMode` of either side, slots | connect, poll, reconnect, stop; request, reply, refuse, accept, time out | ClientConnection; SceneReplication (what touches the scene) |
| Node creation and removal (`addNode`, `removeNode`, `deleteRocketBoxAvatar`, `removeAllNodes`) | ten `<Type>NodeMap`s | create, remove one, remove all | SceneReplication, NodeTables |
| Node tables (`ClientServer.h` handlers, `get...` calls) | `X_replicas` per type, `nodes_map`, `new_clients` | DeserializeConstruction, DeserializeDestruction, lookups, `checkStatus` | NodeTables |
| Node data (`Serialize`, `Deserialize`, `update<Type>Nodes`, `get<Type>Data`) | the fields of a replica, its `lastSentSerialization` | write, serialize on change or after a construction, relay, apply | NodeData |
| Server console (`server.cpp`) | quit, logging, the log plugin and its audio process | packet loop, keys q and l, exit | SceneReplication (loop, exit); rest planned |
| Rocketbox avatars | names of 123 joints, parents | add, add child, parent chain, global transform | planned |
| List service (`Connections.php`, `RecordManager`, `PHPConnections`, `HTTPConnection`, `phpClient`) | the record file; runs of the script; the client's fields, `nextRepost`, `currentOperation`, `outgoingPosts` | upload, download, expire, view, repost; connect, send, lose | RecordFile, RecordManager, ListService |
| Audio tools (`portaudio_record.c`) | `frameIndex`, `maxFrameIndex`, `totalFrames`, the stream | record and play callbacks, stop, write, play | AudioRecord, Recorder |
| Sample client (`sampleClient.cpp`) | - | its loop around `check`; keys that call the library | Recorder (the loop); NodeTables, NodeData (the calls) |
| Transport (RakPeer) | connections, packets in flight, receive queue | connect, deliver, time out | ClientConnection (handshake); environment of SceneReplication |
| Room, password form, vector arithmetic | - | - | not modelled: never instantiated; one form; no state |

### How they interact

Every process of the scene service has a main thread that alternates between its own calls and
`RakPeer::Receive` (`check()` in a client, the loop of `server.cpp`). A Receive
runs `ReplicaManager3::Update`, which constructs what is queued for each
validated connection, and then handles at most one packet; its handlers call the
virtual functions of `ClientServer.h`, which keep the tables. A node created by
an application is constructed on the server under no id; the server assigns one,
answers with it, and constructs the node on every other client. The application
reads peers' nodes through the tables, never through ReplicaManager3 alone.
Beside the main thread runs the network thread of RakPeer, which makes and drops
connections and leaves packets in a queue, and, in the recorder, the thread
of the sound device. The list service is a web server's script: runs of it share
nothing but a file, and its clients speak to it over one HTTP connection per request.

### What is hard

* A connection ends on its two sides at different times, and `check()` asks for
  a new one at once: packets, answers and destructions of the former connection
  meet the new one.
* The id of a node is assigned by a round trip; the application may remove the
  node before the answer.
* The library's default guarantee (`client.h:87`, RELIABLE) does not order packets.
* A pop destroys a client's replicas twice (list and destructors).
* The tables of a client repeat what `userReplicaList` says, keyed otherwise
  (guid, name), in handlers written ten times.
* A client that was away is told what exists and never what ceased to.
* Data is sent when it differs from what was sent last, and "last" is remembered once
  per replica: not per connection, and not for what a new connection is sent first.
* `check` asks for a connection while the network thread makes, refuses and drops
  them; the two learn of each other by packets in a queue and by two looks that no lock joins.
* Runs of the list script include, empty and rewrite one file without a lock, any of
  them can be ended between two writes, and rows expire while runs carry them about.
* A client of the list repeats its last operation, whatever it was, and loses a post
  whose answer does not come.
* A callback and the main thread share two frame indices, and the main thread computes
  one of them from the clock.

### What makes each part correct

* Replication: a client never holds a copy of its own node; the server holds one
  replica of a node; it believes a client has a replica only if it has or will;
  it drops a replica, and a client a copy, only for a reason; an owner's node is
  never destroyed by another; what stays is in the end seen by all that stay.
* Tables: every pointer in a table leads to a replica that exists; a listed peer
  has an entry; a listing is exact; what is listed can be looked up; a peer that
  is reported is there.
* Data: once there is nothing new to send, everybody was sent what there is; a copy
  never goes back to an older value; the last value stays.
* Connection: a client that believes it is connected is, or the news is in its mail;
  a lost connection is made anew when it can be.
* List service: an entry that is kept alive stays; one that is not is no longer shown once the
  list has been at rest after its time; while requests do not meet in their writes, no record
  is lost before its time.
* Audio: what is kept of a recording is what was recorded.

## 2. The models

### SceneReplication

One action per call of an application (`StartClient`, `AddNode`, `RemoveNode`,
`RemoveAllNodes`, `Stop`), one per Receive of a client by the packet it handles
(`ClientUpdate` for none, `ClientOnAccepted`, `...OnScope`, `...OnAssigned`,
`...OnConstruction`, `...OnLost`, `...OnBye`), one per Receive of the server
(`ServerUpdate`, `ServerOnIncoming`, `...OnScope`, `...OnConstruction`,
`...OnClosed`), the operator's `ServerQuit`, and the environment: `Establish`,
`ConnectFails`, `Break`, `ServerCrash`. Every Receive includes the Update that
precedes its packet.

| Variable | Code |
|---|---|
| `link` | `isconnected`, `connection_lost` and what led there |
| `cConn`, `srvConn` | the `Connection_RM3` on either side: none, pushed, validated |
| `own`, `nid` | a node in its owner's NodeMap, and the id of its replica |
| `cQuery`, `cHas`; `srvQuery`, `srvHas` | `queryToConstructReplicaList`, `constructedReplicaList` |
| `copies`, `srv` | `userReplicaList` of a client (of its peers' replicas), of the server |
| `issued` | ids the authority has given for a node |
| `wire`, `toSrv`, `toCli` | the transport connection; packets in flight and in the receive queue |
| `up`, `faults` | the server process; breaks, crashes and quits so far |

Nodes are instances, each created once, by a fixed owner: an id an application
uses again is another node. Payloads are left out. An id is the pair of a node and a
counter, since what the code's GUID and 16 bit counter are for is to be
different. `Ordered` selects RELIABLE_ORDERED or RELIABLE: then constructions and
validations may overtake each other. `Prompt` says whether the server's thread
handles the end of a connection before its client can be back; FALSE is a stalled thread.

### NodeTables

One client, the viewer, and the tables it keeps of its peers. Replication is
reduced to a first-in first-out line of construction and destruction packets
(`inbox`), which is what SceneReplication delivers to one client; what the line
loses and repeats at an outage is `Outage` and `Return`. Actions: `AddNode`,
`RemoveNode`, `RemoveAllNodes`, `PeerReturns` for a peer; `OnConstruction`,
`OnDestruction` for the handlers of one replica of a packet; `CheckStatus`,
`Lookup` for the calls that change a table. `table` is `X_replicas`, `nodes` is
`nodes_map`, `news` is `new_clients`, `held` is the viewer's `userReplicaList`.
`PerNode` are the types whose handler looks for the entry (AVATAR, GENERIC);
the others erase all the peer's. A comparison that reads an entry
of a deleted replica can come out either way (`EraseFirst`).
`FreshIds` restricts applications to using an id once.

### NodeData and SharedValue

The data of one node: its owner, the server, and the other clients (`Peers`). A value
stands for all the bytes of `Serialize`; 0 is what the constructor of a replica left in
its fields. `val` and `last` are the owner's fields and its `lastSentSerialization`,
`srvVal` and `srvLast` those of the server's replica, `copy` the peers' (with the id
under which a peer holds it). `id`, `held`, `issued` are network ids; `link` and
`peer` say where the replica is in the lists of the owner's and the server's
connections (`down`/`out`: no connection; `in`: none of the lists; `queued`:
`queryToConstructReplicaList`; `sent`: constructed, waiting for an id; `listed`:
`queryToSerializeReplicaList`).

Actions: `UpdateNode` (any `update<Type>Nodes`); per Receive of the owner
`OwnerUpdate`, `OwnerOnAccepted`, `OwnerOnLost`; of the server `ServerUpdate`,
`ServerOnConstruct`, `ServerOnValue`, `ServerOnLost`, `ServerOnPeerLost`; of a peer
`PeerReceive`; and `Connect`, `ConnectPeer`, `Break`, `BreakPeer`. Each Receive
constructs what is queued and then, if `tick` (the interval has passed), serializes
what differs from the memory. Left to SceneReplication are the handshake (folded into
`Connect`), removals of the node and a stalled server; copies under ids of former
connections are not followed further. `ordered` is the choice `startclient` was
given; it governs the owner's packets, the server orders its own.

`SharedValue` is the promise: the owner writes, a copy takes on values the owner has
written, later ones only if packets are ordered, or none while the node is replicated
anew. `ImplementsShared` is the refinement, with the copies' values as what is seen.

### RecordFile, RecordManager, LeaseList and ListService

`RecordFile` is the file as its bytes lie: a head, arrays, and ends, each at its
writer's position. Lengths are counted in records, which tells apart what matters:
an end that the array of another run covers, and one that stands too far out.
`Readable` is what PHP demands of an include.

`RecordManager` is one run of `Connections.php` per worker, step by step: the constructor looks
for the file (in `Begin`) and then creates it (`Create`), which empties what another run has
created and written in between; `Expire`, `Download`, `Upload` each include the file anew;
`Check` is the rest of the loop of `expireRecords`, which asks for the time row by row; `Open`,
`WriteHead`, `WriteArray`, `WriteEnd` are the `fopen` and the `fwrite`s; `Answer` ends a run,
`ParseError` does when the include meets half a file, and `Die` anywhere. A row's key is its
port, name and address, its content its age. `alone` is a history variable: no run has yet
read while another wrote, died in its writes, or created a file that was there. Time passes
(`Tick`) between any two steps, in the file and in what runs have read; `span` counts what has
passed since there was last no run at all, and `MaxSpan` bounds it. So a run can show a row that
expired after its own expiry (the "Time Until Expiration" of `RecordManager.class.php:173` is
then negative), and a run that read before the expiry of another writes back what that one dropped.

`LeaseList` is the promise: posting renews a lease, leases that were not renewed
in time are dropped, and none is lost otherwise. `ServesLeases` says that
`RecordManager` implements it as long as `alone` holds; while a run writes, the
list is what it writes.

`ListService` adds the clients: `SetField`, `ClearFields`, `UploadTable` (and
`UploadAndDownloadTable`), `DownloadTable`, `Update` of `PHPConnections`; `Connect`,
`ConnectFails`, `Request`, `Lose` of `HTTPConnection`; and requests of others. `since` is
the time since `nextRepost` was set, `operation` what `Update` would repeat, `posts` the line.
`kept` is a history variable: the client's row was listed, it goes on posting it, and
nothing that `KeptAlive` excepts has happened. The exceptions are the code's:
a lost connection loses its post, a download overwrites the operation, a run that
dies or meets another leaves the file to chance, and a client is late that is due while
time passes, or whose post has been under way for `Grace`. What the exceptions name
does go wrong in the code, so the properties that make them are silent there: what comes of
runs that meet or die in their writes is said by `BrokenForGood` and `NoneLongExpired`, which
except nothing, and not by `FileWhole`, `ServesLeases` or `KeptAlive`.

### ClientConnection, AudioRecord and Recorder

`ClientConnection` has one client in detail. Its main thread: `StartClient`, `Check`,
`Receive` for each packet of the loop of `check` (each of the five it looks at changes one of two flags, or
none), `NoMore`, the two looks of `Connect` (`Look` among the connections, `Push` among the attempts), `Stop`, `Die`.
Its network thread: `SendRequest`, `GiveUp`, `ClientOnReply`, `ClientOnRefusal`,
`ClientOnAccepted`, `ClientDead`; the server's: `ServerOnOpen`, `ServerOnAsk`,
`ServerOnNewIncoming`, `ServerDead`. `peer` and `slot` are the `connectMode` of
each in the other's list, `request` and `reply` the datagrams before there is a
connection; what travels reliably within one arrives when both are in the modes
that it needs. `others` and `knocking` count the slots other clients hold, connected and
unverified. The environment: other clients, `Break`, `Repair`, `Crash`, `Quit`, `Restart`.
Timeouts are not timed: each can go off from the moment that no message can come to
stop it, so that a slow answer is an answer, and a lost one is noticed at some time.
`doubled` is a history variable: an attempt was queued beside a connection.

`AudioRecord` is the device's callback, with time in frames and `framesLeft` modulo
the width of an unsigned. `Recorder` composes the two into the programs: `stage` is where `main` is; `"sample"`
is `sampleClient.cpp` with its loop around `check`, the others are `portaudio_record.c` from
`Pa_OpenStream` to its end, by itself, by a key, or by an error. Only `Tick` advances the clock, while `main` sleeps or
is busy (`sleep`), and calls the device; one turn of a loop takes a buffer or
none. After the recording the clock no longer matters and stands still.

## 3. Runs

| Run | Bounds | Shows |
|---|---|---|
| SceneBreaks (pass, 436 456 states) | 2 clients, a node each, ordered, 1 break, 1 quit, server thread may stall | `NoEcho`, `OneReplicaPerNode`, `AssignedIdHolds`, `GhostsOnlyFromEarlyRemovals`, `CopyDropsForCause`, `OwnNodesDoomedForCause` |
| SceneCrash (pass, 576 526) | the same, unordered, 1 crash and restart, 1 quit | `TypeOK`, `ServerBeliefSound`, `ConstructionHasConnection`, `ServerDropsForCause` |
| SceneReturns (pass, 265 704) | both nodes of one client, ordered, 1 break, fairness | `NoStaleCopy`, `Converges` |
| SceneGhost (violation) | no fault at all | `NoGhost`: finding 1 |
| SceneOutage (violation) | 1 break | `DepartedForgotten`: finding 2 |
| TablesFresh (pass, 214 659) | 1 peer, 3 ids, 3 types, 3 nodes, 1 outage, ids used once | `TypeOK`, `EntriesHeld`, `NoEmptyEntry`, `ListedExactly`, `ReportedIsHeld`, `ListedIsFound` |
| TablesAliased (violation) | ids used again, 2 types, no outage | `EntriesHeld`: finding 3 |
| DataFollows (pass, 326 153 states) | 2 peers, values 1 and 2, 1 break of any connection, fairness | `TypeOK`, `PeersUpToDate`, `ServerUpToDate`, `UnsetIsPassing`, `ImplementsShared`, `Converges` |
| DataReverts (violation) | the same without breaks, the owner may write 1, 2, 1 | `PeersUpToDate`: finding 5 |
| ListLeases (pass, 1 029 209 states) | 1 client, 1 other poster, 2 runs at a time, 1 unit of time within runs, timeout 2, repost after more than 0, posts under way for up to 1 | `TypeOK`, `NoneLongExpired`, `FileWhole`, `KeptAlive`, `ServesLeases`, `BrokenForGood` |
| Recorder (pass, 643 845) | 1 slot, 2 faults (1 beside a recorder), seconds of 3 frames, buffers of 2, 4 seconds allocated, 3 added, startups of 4 and 6 frames, fairness | `TypeOK`, `TakeFits`, `BeliefSound`, `Reconnects` |
| RecorderGivesUp (violation) | no fault, fairness | `FailedIsRetried`: finding 4 |

What the bounds cover. Two clients are an owner and a witness, and each is
the other's; a third would be another witness with lists of its own. Two nodes
give the packets that name several, and a node that stays while another goes. One
break lets a client meet remnants of one former connection, with the server's thread
prompt or stalled (`Prompt`), and no more than that: with a stalled thread, ordered packets and two breaks
TLC violates `AssignedIdHolds` (an answer meets the connection after next),
`GhostsOnlyFromEarlyRemovals` and `CopyDropsForCause`, which SceneBreaks finds to hold with one. They
are then properties of the code with an early return of a client, and not with two in
a row. With a prompt server and two breaks all three hold (1.1 million states, run outside
the project for its length). `OwnNodesDoomedForCause` names its exceptions, and both occur in
SceneBreaks: without the last, TLC violates it, since with a stalled thread the second broadcast of
`~BeamingUser` does reach an owner who is back; the property says that nothing else does.
Unordered delivery has no breaks in SceneCrash: there a break violates
`GhostsOnlyFromEarlyRemovals` even with a prompt server (a destruction overtakes the construction
of its replica on the new connection), and with a stalled one `ConstructionHasConnection` (what the
client constructs overtakes the packet that begins its connection), so that the
code's assertion holds only where a client is not back early.
In NodeTables the peers only share `held` and `inbox`, which the
handlers read by peer, so one peer with three nodes and every type stands for
several; the proofs below are for any number.
In NodeData two peers are one that is served while the other joins, which is what the
shared memory is about; two values are a change; a break of the owner's
connection brings a new replica with a memory of its own, a break of a peer's a second
first serialization. One break with three values (2 million states) and two
breaks with one peer were run outside the project and hold as well. The three
invariants and `Converges` are stated for ordered packets: without them each of the three
fails (a value dropped because it overtook its construction stays missing, an older one
that arrives last stays), and only that copies show values of the owner holds for both.

In ListService two workers are two runs that meet, and two posters are a row that is
renewed and one that another writes back or loses; ages stop at one beyond what `NoneLongExpired`
speaks of, from where nothing tells them apart. One unit of time within runs is a
boundary of time() between any two steps of either; more than one are left to the proofs, which
hold for any `MaxSpan`. A timeout of 2 is what one unit until a repost and one under way
leave room for, as the 60 seconds leave room for 50. The workers are symmetric, and the run has no liveness
property. `MCBound` prunes: a client that lacks columns has none set; once runs have met in their
writes, a client that is still posting is not followed (from there only `NoneLongExpired` and
`BrokenForGood` say anything, which the other poster's runs exercise, and which are
proved without the bound); and a run whose client waits for it no more meets only runs of that
client. `MaxPosts` is 1: a post in the line and one on its way. Other requests both upload and
download; the client uploads.
In Recorder one slot makes any other client the one that is in the way; two faults are
a break and a server that goes, or a server that goes twice. Beside a recorder there is one, since
its clock multiplies the states. Buffers of 2 in seconds of 3 make every remainder,
4 seconds end by the allocation or by a key, and 3 seconds are those of line 265; a
startup of 4 frames is within what `TakeFits` promises to keep, one of 6 beyond. `TakeFits` and `TypeOK`
state what the code does at the boundary, up to the extra seconds past the allocation
included (see the observations), and are not a promise that it stays within what was allocated.

`CHECK_DEADLOCK FALSE` in every run: applications may stop, and the bounds on
nodes and faults end every behaviour.

Every property has a mutant, a definition of the module that a plausible error
would produce (comment "Wrong on purpose"), and TLC finds it violated.

### Fairness

`FairSpec` of SceneReplication (run SceneReturns) assumes weak fairness of each client's Receive, of
the server's Receive, and of `Establish`. The first two are the two loops: the
server's runs until it quits, and a client application has to call `check()`
every frame (client.h). The third says that
while a client keeps calling Connect (it does while `connection_lost`) a
connection is in the end granted. No fairness is assumed of
applications or faults, and `Converges` only speaks of clients that stay
connected in the end. `FairSpec` of NodeData (run DataFollows) assumes the same of the owner, the server,
each peer and the connections a peer or the owner asks for. `OwnerReceive` and
`ServerReceive` are enabled by a change not yet sent only with the tick, so fairness
covers the tick: `lastAutoSerializeOccurance` falls behind the interval again and again.
The fairness of Recorder is weak fairness of the main thread up to its keys (a loop that
calls `check` in both programs), of the clock, and of every step of the two network threads: a
request that can be sent is, what is sent arrives while the network works, a timeout that
nothing stops goes off. None is assumed of keys, errors, faults, repairs and other
clients; `Reconnects` only speaks of a network, a server and a slot that are there and stay.

### Findings

1. *A removal can miss its node* (SceneGhost, code). `removeNode` names the replica
   by the id it has, which is `UNASSIGNED_NETWORK_ID` until the server's answer has
   come back. The server skips it; the node stays everywhere but at its owner
   until the owner disconnects. `client.cpp:1940` says "Send a packet to tell
   other systems to delete these objects".
2. *A client that was away keeps what has gone* (SceneOutage, documentation).
   `BeamingSceneService.html:21` says that other clients destroy what pertains to
   a client that disconnected. A client that was not connected at that moment
   never does.
3. *The wrong entry is removed* (TablesAliased, code). `ClientServer.h:236` removes the
   first entry with the node's name and client name. With two nodes under one id
   it is the other one's; the own one stays and points to freed memory.
4. *A first attempt that fails is the last* (RecorderGivesUp, code against its text). `check` prints
   "Attempting reconnection ..." (`client.cpp:121`) when an attempt has failed, as it does when a
   connection was lost (141). Only the latter sets `connection_lost` (142), without which
   `check` never calls `Connect` again (148): a client that starts before its server goes on
   calling `check` for ever with no connection and no attempt.
5. *A change that is taken back* (DataReverts, code). What a client is sent when it
   joins is not entered in the memory the next tick compares with
   (`ReplicaManager3.cpp:1860`, 1366). If the value changes, a client joins, and the value
   changes back, all before the next tick, the client keeps the middle value until the
   owner writes another one. `ReplicaManager3.h:632`: "We also send it to every
   connection (broadcast)."

### Observations

What the models show beside the findings.

* *An attempt beside a connection.* `SendConnectionRequest` looks for the server among
  the connections (`RakPeer.cpp:3635`) before it looks among the attempts (3656). If an earlier
  attempt succeeds in between, a second one is queued; its reply sets the connected system back to
  `REQUESTED_CONNECTION` (5631), and if the connection ends before it is accepted again, the news is
  `ID_CONNECTION_ATTEMPT_FAILED`, which `check` passes over: `isconnected` stays true and nothing
  reconnects. `BeliefSound` and `Reconnects` except this race by `doubled`; without the
  exception TLC violates both. It takes a `check` with `connection_lost` whose former
  attempt succeeds at that moment.
* *Removing one node hides its peer.* For eight of ten types, the removal of one node erases
  `nodes_map[guid]`, and `getPeersID` no longer counts a peer that is connected and has other nodes.
* *Rows outlive their time while the list is busy.* Each run writes back what it read before
  another expired it, so that as long as requests overlap a row can be shown past its 60 seconds;
  `NoneLongExpired` has the exact bound.
* *The list's columns.* `PHPConnections` sends `__CLIENT_PORT` and `__CLIENT_NAME`, the script asks
  for `__GAME_PORT` and `__GAME_NAME`, and refuses the row in a comment under code 200. Rows are listed
  only for applications that set these two as fields (`Columns`: "game").
* *A file that broke.* Two runs that write at a time, or one that is ended meanwhile, can
  leave a file that no later run can include, and so none rewrites (`BrokenForGood`).
* *The end of a recording.* A recording that is stopped by a key is as long as the clock
  says plus three seconds: up to three seconds of it were never allocated (`TakeFits` has
  the exact bound), and what a startup of more than two seconds recorded is cut off.

## 4. Proofs

`SceneReplication_proofs`: `TypeCorrect` (`TypeOK`) and `OwnersGetNoCopy` (`NoEcho`)
for any clients, nodes, owners, delivery modes and bounds, under the assumptions on
constants of the module alone. Neither is inductive. `IInv` adds the chain that
leads to a copy: what is queued for a connection is never of its client; so neither
is what is in flight to it; a new connection is queued all the server has, which
is safe because no replica outlives the server's connection to its owner; and
what is in flight from a client names its own nodes under no id or their own. One lemma per action, then
`InitIInv`, `NextIInv`, and the temporal step.

`SceneReplication_safety_proofs` states every other safety and action property of
SceneReplication that a run checks. One invariant, `Known`, is built in layers, each inductive
relative to those below it: `ConnInv` (what is in flight to a client begins with its
acceptance and ends with its end; its lists hold live nodes of its own), `PacketInv` (a client
constructs a node once in a packet, and destroys only nodes that are gone), `OnceInv` (on one
connection the server hears of a node at most once, counting what is handled, in flight and
unsaid), `Accounts` (every replica of a peer's node is on a list of every connection, and the lists
hold nothing the server has not), `TidyInv` (a packet to a client constructs or destroys, not both). From it follow, in either delivery mode and whatever the faults,
`DropsForCause`, `SingleReplicas`, `BeliefHolds` and `OwnNodesForCause`, and with `QuietInv` (what a connection looks
like as long as nothing broke) `NoneStale`. `OwnNodesForCause` goes over everything that sends: a
broadcast leaves out whom it comes from, an Update sends the nodes of others, and only a quit and a pop
with the client back already send a client the destruction of its own.

`AssignedIdsHold` has two parts. With a stalled thread it assumes of the behaviour that no client
returns while the packets with which its former connection began still wait for the server (`BeginsOne`).
`BackInv` is what is in flight to and from a client that is back and not yet
seen: what is left of its former connection comes first, then one beginning, and the answers the
server gives meanwhile, on the new connection, find a client that is not validated and passes over them. On it stands
`AssignInv`: what a client asks for names live nodes by the id it
knows, what the server answers names replicas it has, and a node a client has constructed is
asked for, in use, or answered, counting only packets that lie behind the last beginning (`Right`, `Behind`).
Two beginnings in the queue break this, and then the property fails, as TLC shows. With `Prompt` the
assumption holds by itself, and the second part has none.

The other three assume `Prompt` and stand on `PromptInv`: a packet of a new connection lies
behind the end of the former one, and nothing in flight to a client destroys a node of its own
while the server runs. `ConstructionsConnected` and `CopiesDropForCause` follow at
once. `GhostsFromEarlyRemovals` (`ASSUME Prompt, Ordered`) needs
three more: `ListedInv` (a connected client has its nodes on its lists, so a removal is sent),
`IssuedInv` (the ids known and on their way were given, so a new one is none of them) and `GhostInv` (behind a replica of a node that is
gone, held or still to be constructed under the id its owner knows, there is its destruction).
Without `Prompt` the three are false: TLC violates `GhostsOnlyFromEarlyRemovals` and
`CopyDropsForCause` with two breaks, and `ConstructionHasConnection` unordered with one. So is the last
theorem without `Ordered`. Run SceneBreaks shows that with a stalled thread one break is too few
for the first two, which no theorem says.

`NodeTables_proofs`: `TablesTypeCorrect` for any application. Then, for
applications that use an id once (`ASSUME FreshIds`), `NoDanglingEntry`,
`ListedHasEntry`, `ListedIsHeld`, `AnnouncedIsFound` and `ReportedExists`: the
five invariants of TablesFresh for any number of peers, ids, types, nodes and
outages. The invariant `VInv` says that a table holds replicas of the list, each
once; since two replicas of a peer then differ in their ids, a destruction finds its own
entry or none (`EraseFirstEntries`), and what it leaves is again free of repetitions.
The lemmas about vectors (`EraseAtFacts`, `AppendEntries`, `EraseAtEntries`, `LenIsCardinality`)
come first. Finding 3 is the counterexample without the assumption.

`NodeData_proofs`: `DataTypeCorrect` (`TypeOK`), and `CopiesFollowOwner`: for an owner that
never writes a value twice (`ASSUME ~Reverts`) the specification implements
`SharedValue`, for any peers, values and breaks, ordered or not. The inductive invariant `Flow`
follows the values on their way from the owner through `toSrv`, the server's
replica and `toCli` to the copy. `Behind`: none is ahead of the owner's. With ordered packets
also `ServerFlow` and `PeerFlow`: each stretch is rising, and what is nearer to the copy
is never ahead of what is nearer to the owner, absent values aside. Sequence lemmas say
that what a break or a delivery leaves of a rising queue is rising (`PickedRising`), and
that it stays so when the current value is appended (`ConcatRising`); then one
lemma per process, `NextFlows`, and the step to `SharedValue`, where only `PeerReceive` changes
what is seen. With `Reverts` "later" has no meaning for values, and the theorem no content.

`NodeData_current_proofs` is about ordered packets. `NoLastingUnset` (`UnsetIsPassing`) holds for any
values; `ServerGetsLast` (`ServerUpToDate`) and `PeersGetLast` (`PeersUpToDate`) assume
`~Reverts`, since run DataReverts shows that they fail without (finding 5). Their invariants
say, for each stretch of the way, where the last value is: in the memory of the sender and so
last in flight, or at the receiver, or still to be told from the memory at the next tick.

`RecordManager_proofs` is about the server alone, for any posters, number of runs and timeout.
`ServerTypeCorrect`, `OnlyRecentRowsShown` (`NoneLongExpired`) and `BrokenStaysBroken`
(`BrokenForGood`) hold wherever time passes. `FreshInv` carries the second: what a
run writes, what the file holds while one writes, and what a run finds that has done with its
expiry is no older than the timeout and the time since the list was last at rest.
`FileStaysWhole` (`FileWhole`) and `ListServesLeases` (`ServesLeases`) need `WholeInv`: as long as
`alone` holds there is at most one writer, everybody else is between its steps, and the file
is what the writer's position says. Then each step is one of `LeaseList` or a stutter.

`ListService_proofs`: `ListTypeCorrect`; `ListUsesServer` (`Spec => ServerSpec`), by
which `ListKeepsPromise` carries the four theorems over to the composition; and
`RepostsKeepRows`: under `Repost + 1 + Grace <= Timeout` (`RepostBeforeTimeout`: the repost is
due when more than its period has passed, and under way for some time after) `KeptAlive` holds for any
number of clients. Its invariant `KeptInv` says of a kept client that its row is listed and not
expired; that what waits in its line, and the run that serves it, posts a row that is accepted; that
the row has age 0 once that run has uploaded it; and that it is no older than the last post while
nothing is on its way.

`Recorder_proofs`: `ProgramsUseLibrary` (`Spec => ConnectionSpec`), which separates the connection
from the programs and their clock; on it rest `BeliefIsSound` (`BeliefSound`) and
`NoSecondTry`, what run RecorderGivesUp shows in general: a client without a connection, an attempt and the news
of a lost connection has none for ever (`GivesUpForGood`), for any number of slots and faults. `ConnectionInv` says that, but
for the doubled attempt, every acceptance in the mail, and every belief, is followed by the news of an
end unless the connection is there, and that before the start nothing has happened.
`ProgramTypesCorrect` (`TypeOK`) and `TakesFit` (`TakeFits`) hold for any rate, length, startup times and
faults, as long as a buffer is no longer than a second and the startup no shorter than a buffer (the
assumptions on `Buffer` and `Startups`; the code has 1024 frames of 44 100, and `startclient` sleeps for a
second). Their invariant `StageInv` follows `main`: while the stream records, frames and clock advance
together; the loop began in some second of the clock, at least a buffer after the first frame;
so the seconds that a key counts are no more than were allocated, and together with the
extra ones they cover what was recorded, and the buffer that may still come before the stream is closed.

Only model-checked: `Converges` of SceneReplication and of NodeData, and `Reconnects` of Recorder,
which are liveness; and, of SceneReplication, what run SceneBreaks says of ghosts and of dropped copies with a stalled thread and one break
(above). Liveness and ENABLED are out of the prover's reach, as is
induction over data (what a recursive definition computes for every input) and
everything in a module that declares RECURSIVE operators; no module here does.

## 5. Plan

In this order:

1. *ServerConsole*: keys, logging on and off, the plugin and the audio process.
2. *AvatarBones*: joint names, aliases ("a" with "10", "a1" with "0"), the parent
   chain as a recursive function against a reference definition.
3. *SharedScene*: an abstract scene (who owns what, who sees what), with
   SceneReplication as its refinement where no fault occurs.
4. What a client of the list makes of its answers: the results of `HTTPConnection`,
   the ten second wait of `phpClient` and the answer that comes after it.

Runs: a small component shares a run with what it interacts with (the console with
Recorder's server, the answers with ListLeases). Proofs to come: the
refinement of `SharedScene`, and the safety of the modules above.

## 6. Not modelled

The reliability layer, sockets and threads inside RakNet; parts of ReplicaManager3
the service never reaches (rejections, peer to peer); transports that lose single packets within a
connection (a client that asks for UNRELIABLE); the 16 bit wrap of the id
counter; `stop` followed by `startclient` in one process; the
fixed size buffers into which `get...` calls print; floating point arithmetic;
the logging of the server and the joints of Rocketbox avatars (planned above);
`BeamingRoom`, which nothing creates; bans and RakPeer's rule on an address that connected
within 100 ms; the password form of the list; answers as a list client reads them; `audioReplay.c`, whose
callback is the recorder's; build files and XVR scripts. Nearly all of
`src` is vendored: RakNet with its extensions, SQLite, graphics headers, image libraries. Of it
only the parts the service runs are of interest here (ReplicaManager3, the network ids, RakPeer's
handshake, HTTPConnection).
