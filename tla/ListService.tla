----------------------------- MODULE ListService -----------------------------
(***************************************************************************)
(* The list service in use: PHPConnections over HTTPConnection in client   *)
(* processes, and other requests, against RecordManager.  A client has its *)
(* posts in a line, sends one per connection, and the connection ends with *)
(* the answer; PHPConnections::Update posts again what was posted last, if *)
(* it was asked to (autoRepost), once the connection is idle.              *)
(***************************************************************************)
EXTENDS RecordManager, Sequences

CONSTANTS
    Clients,     \* posters that use PHPConnections
    Repost,      \* a row is posted again when more than this time has passed
    Grace,       \* time that a post may be under way before its client is late
    MaxPosts,    \* bound: posts waiting in a client
    Calls,       \* bound: which of the two calls that upload a client makes
    Asked        \* bound: what other programs and browsers ask for

ASSUME ClientsAssumption == Clients \subseteq Posters
ASSUME RepostAssumption == Repost \in Nat
ASSUME GraceAssumption == Grace \in 0..Repost + 1
ASSUME MaxPostsAssumption == MaxPosts \in Nat \ {0}
ASSUME AskedAssumption == Asked \subseteq Queries /\ Calls \subseteq Uploads

VARIABLES
    fields,      \* per client: the columns set by SetField, see Columns
    since,       \* ... time since the post that set nextRepost, or Never
    operation,   \* ... currentOperation, as far as Update can still repeat it
    posts,       \* ... outgoingPosts
    http,        \* ... connectionState, and the worker that serves the request
    kept         \* ... its row was listed and nothing has come in the way since

clientVars == <<fields, operation, since, posts, http, kept>>
vars == <<serverVars, clientVars>>

Never == -1          \* nextRepost is 0
Repeated(op, t) == IF t = Never THEN "" ELSE op
Columns == {"none", "some", "game"}    \* "game": those the server asks for too
Idle == [state |-> "none", worker |-> {}]
Connecting == [state |-> "connecting", worker |-> {}]
Processing(w) == [state |-> "processing", worker |-> {w}]

\* The worker the request of c is in, if the client still waits for it.
Serves(w, c) == c \in Clients /\ w \in http[c].worker

---------------------------------------------------------------------------
(* PHPConnections.                                                         *)

\* SetField guards the names of its own two columns, not those of the server.
SetField(c, columns) ==
    /\ columns # "none" /\ columns # fields[c] /\ fields[c] # "game"
    /\ fields' = [fields EXCEPT ![c] = columns]
    /\ UNCHANGED <<serverVars, operation, since, posts, http, kept>>

ClearFields(c) ==
    /\ fields' = [fields EXCEPT ![c] = "none"]
    /\ since' = [since EXCEPT ![c] = Never]
    /\ kept' = [kept EXCEPT ![c] = FALSE]
    /\ operation' = [operation EXCEPT ![c] = ""]
    /\ UNCHANGED <<serverVars, posts, http>>

\* None of its posts is under way.
AtRest(c) == http[c] = Idle /\ posts[c] = << >>

\* SendOperation: the operation of now with the fields of now.
SendOperation(c, op) ==
    /\ Len(posts[c]) < MaxPosts
    /\ posts' = [posts EXCEPT ![c] =
                    Append(@, [query |-> op, named |-> op \in Uploads /\ fields[c] = "game"])]

\* UploadTable, and UploadAndDownloadTable with op = "upDown".
UploadTable(c, op, autoRepost) ==
    /\ SendOperation(c, op)
    /\ kept' = [kept EXCEPT ![c] = @ /\ autoRepost /\ (AtRest(c) \/ since[c] = 0)]
    /\ since' = [since EXCEPT ![c] = IF autoRepost THEN 0 ELSE Never]
    /\ operation' = [operation EXCEPT ![c] = Repeated(op, since'[c])]
    /\ UNCHANGED <<serverVars, fields, http>>

\* DownloadTable leaves nextRepost alone: from now on downloads are repeated.
DownloadTable(c) ==
    /\ operation' = [operation EXCEPT ![c] = Repeated("download", since[c])]
    /\ SendOperation(c, "download")
    /\ kept' = [kept EXCEPT ![c] = FALSE]
    /\ UNCHANGED <<serverVars, fields, since, http>>

\* (Wrong on purpose: only after the row has expired.)
DueLater(c) == since[c] > Timeout /\ fields[c] # "none"

\* time > nextRepost
Due(c) == since[c] > Repost /\ fields[c] # "none"

Update(c) ==
    /\ http[c] = Idle /\ Due(c)
    /\ since' = [since EXCEPT ![c] = 0]
    /\ SendOperation(c, operation[c])
    /\ kept' = [kept EXCEPT ![c] = @ /\ posts[c] = << >>]
    /\ UNCHANGED <<serverVars, fields, operation, http>>

---------------------------------------------------------------------------
(* HTTPConnection.                                                         *)

Connect(c) ==
    /\ http[c] = Idle /\ posts[c] # << >>
    /\ http' = [http EXCEPT ![c] = Connecting]
    /\ UNCHANGED <<serverVars, fields, operation, since, posts, kept>>

\* The post is still there, and Update connects again.
ConnectFails(c) ==
    /\ http[c] = Connecting
    /\ http' = [http EXCEPT ![c] = Idle]
    /\ UNCHANGED <<serverVars, fields, operation, since, posts, kept>>

\* Connected: the post leaves the line and the request is sent.
Request(c, w) ==
    /\ http[c] = Connecting
    /\ Begin(w, c, Head(posts[c]).query, Head(posts[c]).named)
    /\ posts' = [posts EXCEPT ![c] = Tail(@)]
    /\ http' = [http EXCEPT ![c] = Processing(w)]
    /\ UNCHANGED <<fields, operation, since, kept>>

\* The connection is lost before the answer: the post is not sent again.
Lose(c) ==
    /\ http[c].state = "processing"
    /\ http' = [http EXCEPT ![c] = Idle]
    /\ kept' = [kept EXCEPT ![c] = FALSE]
    /\ UNCHANGED <<serverVars, fields, operation, since, posts>>

---------------------------------------------------------------------------
(* The server's side.                                                      *)

OtherRequest(w, k, query) ==
    /\ k \notin Clients
    /\ Begin(w, k, query, TRUE)
    /\ UNCHANGED clientVars

\* The end of a run closes the connection, however it ends.
Closed(w) == [c \in Clients |-> IF Serves(w, c) THEN Idle ELSE http[c]]

Answered(w) ==
    /\ Answer(w)
    /\ http' = Closed(w)
    /\ UNCHANGED <<fields, operation, since, posts, kept>>

Failed(w) ==
    /\ ParseError(w) \/ Die(w)
    /\ http' = Closed(w)
    /\ kept' = [c \in Clients |-> kept[c] /\ alone' /\ ~ Serves(w, c)]
    /\ UNCHANGED <<fields, operation, since, posts>>

\* An accepted row of a client that will go on posting rows that are accepted.
KeepsPosting(c) ==
    since[c] # Never /\ operation[c] \in Uploads /\ fields[c] = "game"

UploadOf(w) ==
    /\ Upload(w)
    /\ kept' = [c \in Clients |->
                   /\ alone'
                   /\ \/ kept[c]
                      \/ /\ Serves(w, c) /\ run[w].named
                         /\ KeepsPosting(c) /\ posts[c] = << >>]
    /\ UNCHANGED <<fields, operation, since, posts, http>>

IncludeOf(w) ==
    /\ Create(w) \/ Expire(w) \/ Download(w)
    /\ kept' = [c \in Clients |-> kept[c] /\ alone']
    /\ UNCHANGED <<fields, operation, since, posts, http>>

Write(w) ==
    /\ Check(w) \/ Open(w) \/ WriteHead(w) \/ WriteArray(w) \/ WriteEnd(w)
    /\ UNCHANGED clientVars

\* A client is late if its program does not call Update in time, or if a post
\* is under way for too long.
Late(c) == IF AtRest(c) THEN Due(c) ELSE since[c] >= Grace

TimePasses ==
    /\ Tick
    /\ since' = [c \in Clients |->
                    IF since[c] \in 0..Repost THEN since[c] + 1 ELSE since[c]]
    /\ kept' = [c \in Clients |-> kept[c] /\ ~ Late(c)]
    /\ UNCHANGED <<fields, operation, posts, http>>

Init ==
    /\ ServerInit
    /\ fields = [c \in Clients |-> "none"]
    /\ operation = [c \in Clients |-> ""]
    /\ since = [c \in Clients |-> Never]
    /\ posts = [c \in Clients |-> << >>]
    /\ http = [c \in Clients |-> Idle]
    /\ kept = [c \in Clients |-> FALSE]

ClientStep(c) ==
    \/ \E columns \in Columns : SetField(c, columns)
    \/ ClearFields(c) \/ DownloadTable(c)
    \/ \E op \in Calls, autoRepost \in BOOLEAN : UploadTable(c, op, autoRepost)
    \/ Update(c) \/ Connect(c) \/ ConnectFails(c) \/ Lose(c)
    \/ \E w \in Workers : Request(c, w)

WorkerStep(w) == Answered(w) \/ Failed(w) \/ UploadOf(w) \/ IncludeOf(w) \/ Write(w)

Next ==
    \/ TimePasses
    \/ \E c \in Clients : ClientStep(c)
    \/ \E w \in Workers :
          \/ WorkerStep(w)
          \/ \E k \in Posters, query \in Asked : OtherRequest(w, k, query)

Spec == Init /\ [][Next]_vars

---------------------------------------------------------------------------
(* Properties.                                                             *)

TypeOK ==
    /\ ServerTypeOK
    /\ fields \in [Clients -> Columns]
    /\ since \in [Clients -> {Never} \cup 0..Repost + 1]
    /\ operation \in [Clients -> {"", "download"} \cup Uploads]
    /\ \A c \in Clients : Len(posts[c]) <= MaxPosts
    /\ posts \in [Clients -> Seq([query : {"download"} \cup Uploads, named : BOOLEAN])]
    /\ http \in [Clients -> {Idle, Connecting} \cup {Processing(w) : w \in Workers}]
    /\ kept \in [Clients -> BOOLEAN]

\* A row that is posted again and again stays in the list, provided nothing
\* comes in the way: no connection or run is lost, runs keep out of the way of each
\* other's writing, the client is not late, and nobody overwrites its operation.
KeptAlive ==
    \A c \in Clients : kept[c] => c \in DOMAIN Listed /\ Listed[c] <= Timeout
==============================================================================
