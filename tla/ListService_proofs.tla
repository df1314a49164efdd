-------------------------- MODULE ListService_proofs --------------------------
(***************************************************************************)
(* Proofs about ListService, for any clients, posters, times and bounds.   *)
(* What the clients do of the server is what RecordManager allows, so its  *)
(* theorems hold here; then a row that is posted again and again, with     *)
(* nothing in the way, stays listed if the time after which it is posted   *)
(* again and the time a post may be under way are, together, shorter than  *)
(* the time after which it expires.                                        *)
(***************************************************************************)
EXTENDS ListService, RecordManager_proofs

\* A post is due once more than Repost has passed.  The code's 50 and 60 seconds
\* leave 9 of them for it to get there.
RepostBeforeTimeout == Repost + 1 + Grace <= Timeout

---------------------------------------------------------------------------
(* Types, and which worker serves whom.                                    *)

Post == [query : {"download"} \cup Uploads, named : BOOLEAN]

ClientTypes ==
    /\ fields \in [Clients -> Columns]
    /\ since \in [Clients -> {Never} \cup 0..Repost + 1]
    /\ operation \in [Clients -> {"", "download"} \cup Uploads]
    /\ \A c \in Clients : Len(posts[c]) <= MaxPosts
    /\ posts \in [Clients -> Seq(Post)]
    /\ http \in [Clients -> {Idle, Connecting} \cup {Processing(w) : w \in Workers}]
    /\ kept \in [Clients -> BOOLEAN]

\* Who is connecting has something to post, and who waits for a worker is served
\* by a run of his own.
Served ==
    \A c \in Clients :
        /\ http[c] = Connecting => posts[c] # << >>
        /\ \A w \in Workers : http[c] = Processing(w) =>
               run[w].at # "idle" /\ run[w].poster = c

\* Update has an operation to repeat.
Repeats == \A c \in Clients : since[c] # Never => operation[c] # ""

ListInv == WholeInv /\ ClientTypes /\ Served /\ Repeats

LEMMA HttpFacts ==
    /\ Idle # Connecting
    /\ \A w \in Workers : Idle # Processing(w) /\ Connecting # Processing(w)
    /\ \A w \in Workers : /\ Processing(w).state = "processing"
                          /\ Processing(w).worker = {w}
    /\ Idle.state = "none" /\ Idle.worker = {}
    /\ Connecting.state = "connecting" /\ Connecting.worker = {}
  BY DEF Idle, Connecting, Processing

\* The worker that serves c is the one its connection waits for.
LEMMA ServesFacts ==
    ASSUME ClientTypes, NEW c \in Clients, NEW w \in Workers
    PROVE  Serves(w, c) <=> http[c] = Processing(w)
  <1>1. http[c] \in {Idle, Connecting} \cup {Processing(v) : v \in Workers}
    BY DEF ClientTypes
  <1>2. CASE http[c] \in {Idle, Connecting}
    <2>1. http[c].worker = {}
      BY <1>2, HttpFacts
    <2>2. http[c] # Processing(w)
      BY <1>2, HttpFacts
    <2> QED
      BY <2>1, <2>2 DEF Serves
  <1>3. CASE \E v \in Workers : http[c] = Processing(v)
    <2>1. PICK v \in Workers : http[c] = Processing(v)
      BY <1>3
    <2>2. http[c].worker = {v}
      BY <2>1, HttpFacts
    <2>3. Serves(w, c) <=> w = v
      BY <2>2 DEF Serves
    <2>4. http[c] = Processing(w) => w = v
      BY <2>2, HttpFacts
    <2> QED
      BY <2>1, <2>3, <2>4
  <1> QED
    BY <1>1, <1>2, <1>3

LEMMA InitList == Init => ListInv
  <1> SUFFICES ASSUME Init PROVE ListInv
    OBVIOUS
  <1>1. WholeInv
    BY InitWhole DEF Init
  <1>2. ClientTypes
    <2>1. << >> \in Seq(Post) /\ Len(<< >>) = 0
      OBVIOUS
    <2>2. posts \in [Clients -> Seq(Post)] /\ \A c \in Clients : Len(posts[c]) <= MaxPosts
      <3>1. \A c \in Clients : posts[c] = << >>
        BY DEF Init
      <3>2. 0 <= MaxPosts
        BY MaxPostsAssumption
      <3>3. posts \in [Clients -> Seq(Post)]
        BY <2>1 DEF Init
      <3> QED
        BY <2>1, <3>1, <3>2, <3>3
    <2>3. fields \in [Clients -> Columns] /\ kept \in [Clients -> BOOLEAN]
      BY DEF Init, Columns
    <2>4. /\ since \in [Clients -> {Never} \cup 0..Repost + 1]
          /\ operation \in [Clients -> {"", "download"} \cup Uploads]
      BY DEF Init
    <2>5. http \in [Clients -> {Idle, Connecting} \cup {Processing(w) : w \in Workers}]
      BY DEF Init
    <2> QED
      BY <2>2, <2>3, <2>4, <2>5 DEF ClientTypes
  <1>3. Served
    BY HttpFacts DEF Init, Served
  <1>4. Repeats
    BY DEF Init, Repeats
  <1> QED
    BY <1>1, <1>2, <1>3, <1>4 DEF ListInv

---------------------------------------------------------------------------
(* The calls of a client and its connection.                               *)

\* The server's part of a step of a client is none.
LEMMA QuietServer ==
    ASSUME ListInv, UNCHANGED serverVars
    PROVE  WholeInv'
  BY NextWhole DEF ListInv

LEMMA SendFacts ==
    ASSUME ClientTypes, NEW c \in Clients, NEW op \in {"download"} \cup Uploads,
           SendOperation(c, op)
    PROVE  /\ posts' \in [Clients -> Seq(Post)]
           /\ \A d \in Clients : Len(posts'[d]) <= MaxPosts
           /\ \A d \in Clients : posts[d] # << >> => posts'[d] # << >>
           /\ posts'[c] # << >>
           /\ \A d \in Clients : d # c => posts'[d] = posts[d]
  <1> DEFINE p == [query |-> op, named |-> op \in Uploads /\ fields[c] = "game"]
  <1>1. p \in Post
    <2>1. (op \in Uploads /\ fields[c] = "game") \in BOOLEAN
      OBVIOUS
    <2> QED
      BY <2>1 DEF Post
  <1>2. posts[c] \in Seq(Post) /\ Len(posts[c]) < MaxPosts
    BY DEF ClientTypes, SendOperation
  <1>3. posts' = [posts EXCEPT ![c] = Append(posts[c], p)]
    BY DEF SendOperation
  <1> HIDE DEF p
  <1>4. /\ Append(posts[c], p) \in Seq(Post)
        /\ Len(Append(posts[c], p)) = Len(posts[c]) + 1
        /\ Len(posts[c]) \in Nat
    BY <1>1, <1>2
  <1> DEFINE s == Append(posts[c], p)
  <1>5. s # << >> /\ Len(s) <= MaxPosts
    <2>1. Len(s) = Len(posts[c]) + 1 /\ Len(posts[c]) \in Nat
      BY <1>4
    <2>2. Len(<< >>) = 0
      OBVIOUS
    <2> HIDE DEF s
    <2> QED
      BY <1>2, <2>1, <2>2, MaxPostsAssumption
  <1> QED
    BY <1>3, <1>4, <1>5 DEF ClientTypes

LEMMA CallList ==
    ASSUME ListInv, NEW c \in Clients,
           \/ \E columns \in Columns : SetField(c, columns)
           \/ ClearFields(c)
           \/ \E op \in Calls, autoRepost \in BOOLEAN : UploadTable(c, op, autoRepost)
           \/ DownloadTable(c)
    PROVE  ListInv'
  <1>1. ClientTypes /\ Served /\ Repeats
    BY DEF ListInv
  <1>2. UNCHANGED serverVars /\ http' = http
    BY DEF SetField, ClearFields, UploadTable, DownloadTable
  <1>3. WholeInv'
    BY <1>2, QuietServer
  <1>4. CASE \E columns \in Columns : SetField(c, columns)
    <2>1. ClientTypes'
      BY <1>1, <1>4 DEF SetField, ClientTypes
    <2>2. Served' /\ Repeats'
      BY <1>1, <1>4 DEF SetField, Served, Repeats, serverVars
    <2> QED
      BY <1>3, <2>1, <2>2 DEF ListInv
  <1>5. CASE ClearFields(c)
    <2>1. ClientTypes'
      BY <1>1, <1>5 DEF ClearFields, ClientTypes, Columns
    <2>2. Served' /\ Repeats'
      BY <1>1, <1>5 DEF ClearFields, Served, Repeats, ClientTypes, serverVars
    <2> QED
      BY <1>3, <2>1, <2>2 DEF ListInv
  <1>6. CASE \E op \in Calls, autoRepost \in BOOLEAN : UploadTable(c, op, autoRepost)
    <2>1. PICK op \in Calls, autoRepost \in BOOLEAN : UploadTable(c, op, autoRepost)
      BY <1>6
    <2>2. op \in Uploads /\ SendOperation(c, op) /\ fields' = fields
      BY <2>1, AskedAssumption DEF UploadTable
    <2>3. since' = [since EXCEPT ![c] = IF autoRepost THEN 0 ELSE Never]
      BY <2>1 DEF UploadTable
    <2>4. operation' = [operation EXCEPT ![c] = Repeated(op, since'[c])]
      BY <2>1 DEF UploadTable
    <2>5. since' \in [Clients -> {Never} \cup 0..Repost + 1]
      <3>1. (IF autoRepost THEN 0 ELSE Never) \in {Never} \cup 0..Repost + 1
        BY RepostAssumption
      <3> QED
        BY <1>1, <2>3, <3>1 DEF ClientTypes
    <2>6. Repeated(op, since'[c]) \in {""} \cup Uploads
      BY <2>2 DEF Repeated
    <2>7. operation' \in [Clients -> {"", "download"} \cup Uploads]
      BY <1>1, <2>4, <2>6 DEF ClientTypes
    <2>8. kept' \in [Clients -> BOOLEAN]
      <3>1. (kept[c] /\ autoRepost /\ (AtRest(c) \/ since[c] = 0)) \in BOOLEAN
        OBVIOUS
      <3> QED
        BY <1>1, <2>1, <3>1 DEF UploadTable, ClientTypes
    <2>9. ClientTypes'
      BY <1>1, <1>2, <2>2, <2>5, <2>7, <2>8, SendFacts DEF ClientTypes
    <2>10. Served'
      BY <1>1, <1>2, <2>2, SendFacts DEF Served, serverVars
    <2>11. Repeats'
      BY <1>1, <2>2, <2>3, <2>4 DEF Repeats, Repeated, Uploads, ClientTypes
    <2> QED
      BY <1>3, <2>9, <2>10, <2>11 DEF ListInv
  <1>7. CASE DownloadTable(c)
    <2>1. SendOperation(c, "download") /\ fields' = fields /\ since' = since
      BY <1>7 DEF DownloadTable
    <2>2. operation' = [operation EXCEPT ![c] = Repeated("download", since[c])]
      BY <1>7 DEF DownloadTable
    <2>3. Repeated("download", since[c]) \in {"", "download"}
      BY DEF Repeated
    <2>4. kept' \in [Clients -> BOOLEAN]
      BY <1>1, <1>7 DEF DownloadTable, ClientTypes
    <2>5. ClientTypes'
      BY <1>1, <1>2, <2>1, <2>2, <2>3, <2>4, SendFacts DEF ClientTypes
    <2>6. Served'
      BY <1>1, <1>2, <2>1, SendFacts DEF Served, serverVars
    <2>7. Repeats'
      BY <1>1, <2>1, <2>2 DEF Repeats, Repeated, ClientTypes
    <2> QED
      BY <1>3, <2>5, <2>6, <2>7 DEF ListInv
  <1> QED
    BY <1>4, <1>5, <1>6, <1>7

LEMMA UpdateList ==
    ASSUME ListInv, NEW c \in Clients, Update(c)
    PROVE  ListInv'
  <1>1. ClientTypes /\ Served /\ Repeats
    BY DEF ListInv
  <1>2. /\ UNCHANGED <<serverVars, http, fields, operation>>
        /\ kept' \in [Clients -> BOOLEAN]
    <2>1. (kept[c] /\ posts[c] = << >>) \in BOOLEAN
      OBVIOUS
    <2> QED
      BY <1>1, <2>1 DEF Update, ClientTypes
  <1>3. WholeInv'
    BY <1>2, QuietServer
  <1>4. since[c] # Never
    BY RepostAssumption DEF Update, Due, Never
  <1>5. operation[c] \in {"download"} \cup Uploads
    BY <1>1, <1>4 DEF Repeats, ClientTypes
  <1>6. SendOperation(c, operation[c])
    BY DEF Update
  <1>7. since' \in [Clients -> {Never} \cup 0..Repost + 1]
    <2>1. 0 \in {Never} \cup 0..Repost + 1
      BY RepostAssumption
    <2> QED
      BY <1>1, <2>1 DEF Update, ClientTypes
  <1>8. ClientTypes'
    BY <1>1, <1>2, <1>5, <1>6, <1>7, SendFacts DEF ClientTypes
  <1>9. Served'
    BY <1>1, <1>2, <1>5, <1>6, SendFacts DEF Served, serverVars
  <1>10. Repeats'
    BY <1>1, <1>2, <1>4 DEF Update, Repeats, ClientTypes
  <1> QED
    BY <1>3, <1>8, <1>9, <1>10 DEF ListInv

LEMMA ConnectionList ==
    ASSUME ListInv, NEW c \in Clients, Connect(c) \/ ConnectFails(c) \/ Lose(c)
    PROVE  ListInv'
  <1>1. ClientTypes /\ Served /\ Repeats
    BY DEF ListInv
  <1>2. UNCHANGED <<serverVars, fields, operation, since, posts>>
    BY DEF Connect, ConnectFails, Lose
  <1>3. WholeInv'
    BY <1>2, QuietServer
  <1>4. \/ http' = [http EXCEPT ![c] = Connecting] /\ posts[c] # << >>
        \/ http' = [http EXCEPT ![c] = Idle]
    BY DEF Connect, ConnectFails, Lose
  <1>5. kept' \in [Clients -> BOOLEAN]
    BY <1>1 DEF Connect, ConnectFails, Lose, ClientTypes
  <1>6. ClientTypes'
    BY <1>1, <1>2, <1>4, <1>5 DEF ClientTypes
  <1>7. Served'
    <2> SUFFICES ASSUME NEW d \in Clients
                 PROVE  /\ http'[d] = Connecting => posts'[d] # << >>
                        /\ \A w \in Workers : http'[d] = Processing(w) =>
                              run'[w].at # "idle" /\ run'[w].poster = d
      BY DEF Served
    <2>1. run' = run /\ posts' = posts
      BY <1>2 DEF serverVars
    <2>2. http'[d] = http[d] \/ (d = c /\ posts[c] # << >> /\ http'[d] = Connecting)
             \/ http'[d] = Idle
      BY <1>1, <1>4 DEF ClientTypes
    <2> QED
      BY <1>1, <2>1, <2>2, HttpFacts DEF Served
  <1>8. Repeats'
    BY <1>1, <1>2 DEF Repeats
  <1> QED
    BY <1>3, <1>6, <1>7, <1>8 DEF ListInv

LEMMA NewRunFacts ==
    ASSUME NEW k, NEW query, NEW named
    PROVE  /\ NewRun(k, query, named).at \in {"expire", "create"}
           /\ NewRun(k, query, named).poster = k
           /\ NewRun(k, query, named).query = query
           /\ NewRun(k, query, named).named = (named /\ query \in Uploads)
  BY DEF NewRun

\* The request of a client: its first post becomes the run of a worker.
LEMMA RequestFacts ==
    ASSUME ListInv, NEW c \in Clients, NEW w \in Workers, Request(c, w)
    PROVE  /\ Head(posts[c]) \in Post /\ Tail(posts[c]) \in Seq(Post)
           /\ Len(Tail(posts[c])) <= MaxPosts
           /\ run[w] = NoRun /\ run[w].at = "idle"
           /\ run' = [run EXCEPT ![w] =
                         NewRun(c, Head(posts[c]).query, Head(posts[c]).named)]
           /\ Head(posts[c]).query \in Queries /\ Head(posts[c]).named \in BOOLEAN
           /\ c \in Posters
  <1>1. ClientTypes /\ Served
    BY DEF ListInv
  <1>2. posts[c] \in Seq(Post) /\ posts[c] # << >> /\ Len(posts[c]) <= MaxPosts
    BY <1>1 DEF Request, ClientTypes, Served
  <1>3. Head(posts[c]) \in Post /\ Tail(posts[c]) \in Seq(Post)
    BY <1>2
  <1>4. Len(Tail(posts[c])) <= MaxPosts
    <2>1. Len(Tail(posts[c])) = Len(posts[c]) - 1 /\ Len(posts[c]) \in Nat
      BY <1>2
    <2> QED
      BY <1>2, <2>1, MaxPostsAssumption
  <1>5. NoRun.at = "idle"
    BY DEF NoRun
  <1>6. /\ run[w] = NoRun
        /\ run' = [run EXCEPT ![w] =
                      NewRun(c, Head(posts[c]).query, Head(posts[c]).named)]
    BY DEF Request, Begin
  <1>7. Head(posts[c]).query \in Queries /\ Head(posts[c]).named \in BOOLEAN
    BY <1>3 DEF Post, Queries, Uploads
  <1>8. c \in Posters
    BY ClientsAssumption
  <1> QED
    BY <1>3, <1>4, <1>5, <1>6, <1>7, <1>8

LEMMA RequestList ==
    ASSUME ListInv, NEW c \in Clients, NEW w \in Workers, Request(c, w)
    PROVE  ListInv'
  <1>1. ClientTypes /\ Served /\ Repeats /\ ServerTypeOK
    BY DEF ListInv, WholeInv, FreshInv
  <1>2. /\ posts' = [posts EXCEPT ![c] = Tail(posts[c])]
        /\ http' = [http EXCEPT ![c] = Processing(w)]
        /\ UNCHANGED <<fields, operation, since, kept>>
        /\ Begin(w, c, Head(posts[c]).query, Head(posts[c]).named)
    BY DEF Request
  <1>3. ServerNext
    BY <1>2, RequestFacts DEF ServerNext
  <1>4. WholeInv'
    BY <1>3, NextWhole DEF ListInv
  <1>5. ClientTypes'
    <2>1. posts' \in [Clients -> Seq(Post)] /\ \A d \in Clients : Len(posts'[d]) <= MaxPosts
      BY <1>1, <1>2, RequestFacts DEF ClientTypes
    <2>2. http' \in [Clients -> {Idle, Connecting} \cup {Processing(v) : v \in Workers}]
      BY <1>1, <1>2 DEF ClientTypes
    <2> QED
      BY <1>1, <1>2, <2>1, <2>2 DEF ClientTypes
  <1>6. Served'
    <2> SUFFICES ASSUME NEW d \in Clients
                 PROVE  /\ http'[d] = Connecting => posts'[d] # << >>
                        /\ \A v \in Workers : http'[d] = Processing(v) =>
                              run'[v].at # "idle" /\ run'[v].poster = d
      BY DEF Served
    <2>1. CASE d = c
      <3>1. http'[d] = Processing(w)
        BY <1>1, <1>2, <2>1 DEF ClientTypes
      <3>2. run'[w] = NewRun(c, Head(posts[c]).query, Head(posts[c]).named)
        BY <1>1, RequestFacts DEF ServerTypeOK
      <3>3. run'[w].at # "idle" /\ run'[w].poster = c
        BY <3>2, NewRunFacts
      <3>4. \A v \in Workers : Processing(v) = Processing(w) => v = w
        BY HttpFacts
      <3> QED
        BY <2>1, <3>1, <3>3, <3>4, HttpFacts
    <2>2. CASE d # c
      <3>1. http'[d] = http[d] /\ posts'[d] = posts[d]
        BY <1>1, <1>2, <2>2 DEF ClientTypes
      <3>2. \A v \in Workers : v # w => run'[v] = run[v]
        BY <1>1, RequestFacts DEF ServerTypeOK
      <3> QED
        BY <1>1, <3>1, <3>2, RequestFacts DEF Served
    <2> QED
      BY <2>1, <2>2
  <1>7. Repeats'
    BY <1>1, <1>2 DEF Repeats
  <1> QED
    BY <1>4, <1>5, <1>6, <1>7 DEF ListInv

---------------------------------------------------------------------------
(* The steps of the server.                                                *)

\* A step within a run leaves it with the same poster, and the others alone.
LEMMA StepKeeps ==
    ASSUME ServerTypeOK, NEW w \in Workers,
           \/ Create(w) \/ Expire(w) \/ Check(w) \/ Download(w) \/ Upload(w)
           \/ Open(w) \/ WriteHead(w) \/ WriteArray(w) \/ WriteEnd(w)
    PROVE  /\ \A v \in Workers : v # w => run'[v] = run[v]
           /\ run[w].at # "idle" /\ run'[w].at # "idle"
           /\ run'[w].poster = run[w].poster /\ run'[w].query = run[w].query
           /\ run'[w].named = run[w].named
  <1>1. run[w].at # "idle"
    BY DEF Create, Expire, Check, Download, Upload, Open, WriteHead, WriteArray, WriteEnd
  <1>2. run[w] \in RunRecords
    BY <1>1, ActiveRun
  <1>3. FirstOf(run[w].query) \in {"download", "upload", "answer"}
    BY <1>2, FirstOfFacts DEF RunRecords
  <1>4. CASE Expire(w)
    BY <1>1, <1>2, <1>3, <1>4 DEF Expire, ServerTypeOK, RunRecords
  <1>5. CASE Download(w)
    BY <1>1, <1>2, <1>5 DEF Download, ServerTypeOK, RunRecords
  <1>6. CASE Upload(w)
    <2>1. CASE run[w].named
      <3>1. run' = [run EXCEPT ![w].at = "open", ![w].then = "answer",
                               ![w].records = Stamped(Read(file), run[w].poster)]
        BY <1>6, <2>1 DEF Upload
      <3> QED
        BY <1>1, <1>2, <3>1 DEF ServerTypeOK, RunRecords
    <2>2. CASE ~ run[w].named
      <3>1. run' = [run EXCEPT ![w].at = "answer"]
        BY <1>6, <2>2 DEF Upload
      <3> QED
        BY <1>1, <1>2, <3>1 DEF ServerTypeOK, RunRecords
    <2> QED
      BY <2>1, <2>2
  <1>7. CASE Open(w) \/ WriteHead(w)
    <2>1. CASE Open(w)
      BY <1>1, <1>2, <2>1 DEF Open, ServerTypeOK, RunRecords
    <2>2. CASE WriteHead(w)
      BY <1>1, <1>2, <2>2 DEF WriteHead, ServerTypeOK, RunRecords
    <2> QED
      BY <1>7, <2>1, <2>2
  <1>8. CASE WriteArray(w)
    BY <1>1, <1>2, <1>8 DEF WriteArray, ServerTypeOK, RunRecords
  <1>9. CASE WriteEnd(w)
    BY <1>1, <1>2, <1>9 DEF WriteEnd, ServerTypeOK, RunRecords
  <1>10. CASE Create(w)
    BY <1>1, <1>2, <1>10 DEF Create, ServerTypeOK, RunRecords
  <1>11. CASE Check(w)
    <2>1. PICK gone \in SUBSET Expired(run[w].records) :
              run' = [run EXCEPT ![w].at = "open",
                                 ![w].records = Without(run[w].records, gone)]
      BY <1>11 DEF Check
    <2> QED
      BY <1>1, <1>2, <2>1 DEF ServerTypeOK, RunRecords
  <1> QED
    BY <1>4, <1>5, <1>6, <1>7, <1>8, <1>9, <1>10, <1>11

LEMMA WithinRunList ==
    ASSUME ListInv, NEW w \in Workers, UploadOf(w) \/ IncludeOf(w) \/ Write(w)
    PROVE  ListInv'
  <1>1. ClientTypes /\ Served /\ Repeats /\ ServerTypeOK
    BY DEF ListInv, WholeInv, FreshInv
  <1>2. \/ Create(w) \/ Expire(w) \/ Check(w) \/ Download(w) \/ Upload(w)
        \/ Open(w) \/ WriteHead(w) \/ WriteArray(w) \/ WriteEnd(w)
    BY DEF UploadOf, IncludeOf, Write
  <1>3. WholeInv'
    BY <1>2, NextWhole DEF ListInv, ServerNext, Step
  <1>4. UNCHANGED <<fields, operation, since, posts, http>>
    BY DEF UploadOf, IncludeOf, Write, clientVars
  <1>5. alone' \in BOOLEAN
    BY <1>3 DEF WholeInv, FreshInv, ServerTypeOK
  <1>6. kept' \in [Clients -> BOOLEAN]
    BY <1>1, <1>5 DEF UploadOf, IncludeOf, Write, clientVars, ClientTypes
  <1>7. ClientTypes'
    BY <1>1, <1>4, <1>6 DEF ClientTypes
  <1>8. Served'
    BY <1>1, <1>2, <1>4, StepKeeps DEF Served
  <1>9. Repeats'
    BY <1>1, <1>4 DEF Repeats
  <1> QED
    BY <1>3, <1>7, <1>8, <1>9 DEF ListInv

LEMMA OtherRequestList ==
    ASSUME ListInv, NEW w \in Workers, NEW k \in Posters, NEW query \in Asked,
           OtherRequest(w, k, query)
    PROVE  ListInv'
  <1>1. ClientTypes /\ Served /\ Repeats /\ ServerTypeOK
    BY DEF ListInv, WholeInv, FreshInv
  <1>2. Begin(w, k, query, TRUE) /\ UNCHANGED clientVars
    BY DEF OtherRequest
  <1>3. query \in Queries
    BY AskedAssumption
  <1>4. WholeInv'
    BY <1>2, <1>3, NextWhole DEF ListInv, ServerNext
  <1>5. run[w].at = "idle" /\ \A v \in Workers : v # w => run'[v] = run[v]
    <2>1. NoRun.at = "idle"
      BY DEF NoRun
    <2> QED
      BY <1>1, <1>2, <2>1 DEF Begin, ServerTypeOK
  <1>6. ClientTypes' /\ Repeats'
    BY <1>1, <1>2 DEF clientVars, ClientTypes, Repeats
  <1>7. Served'
    BY <1>1, <1>2, <1>5 DEF Served, clientVars
  <1> QED
    BY <1>4, <1>6, <1>7 DEF ListInv

\* A run ends, and with it the connection of the client it served.
LEMMA EndOfRunList ==
    ASSUME ListInv, NEW w \in Workers, Answered(w) \/ Failed(w)
    PROVE  ListInv'
  <1>1. ClientTypes /\ Served /\ Repeats /\ ServerTypeOK
    BY DEF ListInv, WholeInv, FreshInv
  <1>2. Answer(w) \/ ParseError(w) \/ Die(w)
    BY DEF Answered, Failed
  <1>3. WholeInv'
    BY <1>2, NextWhole DEF ListInv, ServerNext, Step
  <1>4. /\ UNCHANGED <<fields, operation, since, posts>> /\ http' = Closed(w)
        /\ \/ kept' = kept
           \/ kept' = [c \in Clients |-> kept[c] /\ alone' /\ ~ Serves(w, c)]
    BY DEF Answered, Failed
  <1>5. \A v \in Workers : v # w => run'[v] = run[v]
    BY <1>1, <1>2 DEF Answer, ParseError, Die, Ends, ServerTypeOK
  <1>6. \A c \in Clients : http'[c] = IF Serves(w, c) THEN Idle ELSE http[c]
    BY <1>4 DEF Closed
  <1>7. ClientTypes'
    <2>1. kept' \in [Clients -> BOOLEAN]
      BY <1>1, <1>4 DEF ClientTypes
    <2>2. http' \in [Clients -> {Idle, Connecting} \cup {Processing(v) : v \in Workers}]
      BY <1>1, <1>4 DEF ClientTypes, Closed
    <2> QED
      BY <1>1, <1>4, <2>1, <2>2 DEF ClientTypes
  <1>8. Served'
    <2> SUFFICES ASSUME NEW c \in Clients
                 PROVE  /\ http'[c] = Connecting => posts'[c] # << >>
                        /\ \A v \in Workers : http'[c] = Processing(v) =>
                              run'[v].at # "idle" /\ run'[v].poster = c
      BY DEF Served
    <2>1. CASE Serves(w, c)
      BY <1>6, <2>1, HttpFacts
    <2>2. CASE ~ Serves(w, c)
      <3>1. http'[c] = http[c] /\ http[c] # Processing(w)
        BY <1>1, <1>6, <2>2, ServesFacts
      <3> QED
        BY <1>1, <1>4, <1>5, <3>1 DEF Served
    <2> QED
      BY <2>1, <2>2
  <1>9. Repeats'
    BY <1>1, <1>4 DEF Repeats
  <1> QED
    BY <1>3, <1>7, <1>8, <1>9 DEF ListInv

LEMMA TimeList ==
    ASSUME ListInv, TimePasses
    PROVE  ListInv'
  <1>1. ClientTypes /\ Served /\ Repeats /\ ServerTypeOK
    BY DEF ListInv, WholeInv, FreshInv
  <1>2. Tick /\ UNCHANGED <<fields, operation, posts, http>>
    BY DEF TimePasses
  <1>3. WholeInv'
    BY <1>2, NextWhole DEF ListInv, ServerNext
  <1>4. \A c \in Clients : since'[c] = IF since[c] \in 0..Repost THEN since[c] + 1
                                                               ELSE since[c]
    BY DEF TimePasses
  <1>5. \A c \in Clients : since'[c] \in {Never} \cup 0..Repost + 1
    <2> TAKE c \in Clients
    <2>1. since[c] \in {Never} \cup 0..Repost + 1
      BY <1>1 DEF ClientTypes
    <2>2. since[c] \in 0..Repost => since[c] + 1 \in 0..Repost + 1
      BY RepostAssumption
    <2> QED
      BY <1>4, <2>1, <2>2
  <1>6. since' \in [Clients -> {Never} \cup 0..Repost + 1] /\ kept' \in [Clients -> BOOLEAN]
    <2>1. since' = [c \in Clients |-> since'[c]] /\ kept' = [c \in Clients |-> kept'[c]]
      BY DEF TimePasses
    <2>2. \A c \in Clients : kept'[c] \in BOOLEAN
      BY <1>1 DEF TimePasses, ClientTypes
    <2> QED
      BY <1>5, <2>1, <2>2
  <1>7. ClientTypes'
    BY <1>1, <1>2, <1>6 DEF ClientTypes
  <1>8. Served'
    BY <1>1, <1>2, TickRuns DEF Served
  <1>9. Repeats'
    <2>1. Never \notin 0..Repost
      BY RepostAssumption DEF Never
    <2> QED
      BY <1>1, <1>2, <1>4, <2>1 DEF Repeats
  <1> QED
    BY <1>3, <1>7, <1>8, <1>9 DEF ListInv

LEMMA NextListInv == ListInv /\ [Next]_vars => ListInv'
  <1> SUFFICES ASSUME ListInv, [Next]_vars PROVE ListInv'
    OBVIOUS
  <1>1. CASE UNCHANGED vars
    <2>1. UNCHANGED serverVars /\ UNCHANGED clientVars
      BY <1>1 DEF vars
    <2>2. WholeInv'
      BY <2>1, QuietServer
    <2> QED
      BY <2>1, <2>2 DEF clientVars, serverVars, ListInv, ClientTypes, Served, Repeats
  <1>2. CASE TimePasses
    BY <1>2, TimeList
  <1>3. ASSUME NEW c \in Clients, ClientStep(c) PROVE ListInv'
    BY <1>3, CallList, UpdateList, ConnectionList, RequestList DEF ClientStep
  <1>4. ASSUME NEW w \in Workers, WorkerStep(w) PROVE ListInv'
    BY <1>4, WithinRunList, EndOfRunList DEF WorkerStep
  <1>5. ASSUME NEW w \in Workers, NEW k \in Posters, NEW query \in Asked,
               OtherRequest(w, k, query)
        PROVE  ListInv'
    BY <1>5, OtherRequestList
  <1> QED
    BY <1>1, <1>2, <1>3, <1>4, <1>5 DEF Next

\* TypeOK: the state keeps its type, whatever clients and workers do.
THEOREM ListTypeCorrect == Spec => []TypeOK
  <1>1. ListInv => TypeOK
    BY DEF ListInv, WholeInv, FreshInv, ClientTypes, Post, TypeOK
  <1> QED
    BY InitList, NextListInv, <1>1, PTL DEF Spec

\* A step of a client or a worker is a step of RecordManager, or none of its.
LEMMA ServerStep == ListInv /\ [Next]_vars => [ServerNext]_serverVars
  <1> SUFFICES ASSUME ListInv, [Next]_vars PROVE [ServerNext]_serverVars
    OBVIOUS
  <1>1. CASE UNCHANGED vars
    BY <1>1 DEF vars
  <1>2. CASE TimePasses
    BY <1>2 DEF TimePasses, ServerNext
  <1>3. ASSUME NEW c \in Clients, ClientStep(c) PROVE [ServerNext]_serverVars
    <2>1. ASSUME NEW w \in Workers, Request(c, w) PROVE ServerNext
      <3> DEFINE q == Head(posts[c]).query
                 n == Head(posts[c]).named
      <3>1. Begin(w, c, q, n) /\ c \in Posters /\ q \in Queries /\ n \in BOOLEAN
        BY <2>1, RequestFacts DEF Request
      <3> HIDE DEF q, n
      <3> QED
        BY <3>1 DEF ServerNext
    <2>2. CASE ~ \E w \in Workers : Request(c, w)
      BY <1>3, <2>2 DEF ClientStep, SetField, ClearFields, DownloadTable, UploadTable,
                        Update, Connect, ConnectFails, Lose, serverVars
    <2> QED
      BY <2>1, <2>2
  <1>4. ASSUME NEW w \in Workers, WorkerStep(w) PROVE ServerNext
    BY <1>4 DEF WorkerStep, Answered, Failed, UploadOf, IncludeOf, Write, ServerNext, Step
  <1>5. ASSUME NEW w \in Workers, NEW k \in Posters, NEW query \in Asked,
               OtherRequest(w, k, query)
        PROVE  ServerNext
    <2>1. query \in Queries /\ TRUE \in BOOLEAN /\ Begin(w, k, query, TRUE)
      BY <1>5, AskedAssumption DEF OtherRequest
    <2>2. \E v \in Workers, p \in Posters, q \in Queries, named \in BOOLEAN :
             Begin(v, p, q, named)
      BY <2>1, Zenon
    <2> QED
      BY <2>2 DEF ServerNext
  <1> QED
    BY <1>1, <1>2, <1>3, <1>4, <1>5 DEF Next

\* Every step of a client or a worker is a step of RecordManager or none of its:
\* what holds of the server for any requests holds for those of PHPConnections.
THEOREM ListUsesServer == Spec => ServerSpec
  <1>1. Init => ServerInit
    BY DEF Init
  <1> QED
    BY InitList, NextListInv, ServerStep, <1>1, PTL DEF Spec, ServerSpec

\* What the server promises holds in the list service as a whole, where time also
\* passes within runs: no row is shown that had expired when there was last no
\* run, the file is whole unless runs met in a write, the list implements
\* LeaseList until then, and a torn file stays torn.
THEOREM ListKeepsPromise ==
    Spec => []NoneLongExpired /\ []FileWhole /\ ServesLeases /\ BrokenForGood
  BY ListUsesServer, OnlyRecentRowsShown, FileStaysWhole, ListServesLeases,
     BrokenStaysBroken, PTL

---------------------------------------------------------------------------
(* Rows that are posted again stay listed.                                 *)

\* A run that will stamp a row is one of the two operations that upload, and
\* goes by uploadRecords before it answers.
RunsUpload ==
    \A w \in Workers : run[w].named =>
        /\ run[w].query \in Uploads
        /\ run[w].query = "upload" => run[w].at # "download" /\ run[w].then # "download"

Accepted(s) == \A i \in 1..Len(s) : s[i].named /\ s[i].query \in Uploads

\* uploadRecords is behind the run w.
Uploaded(w) == run[w].at = "answer" \/ (Busy(w) /\ run[w].then = "answer")

KeptFor(c) ==
    /\ alone /\ KeepsPosting(c)
    /\ c \in DOMAIN Listed /\ Listed[c] <= Timeout
    /\ Accepted(posts[c])
    /\ Listed[c] <= Repost + 1 + since[c]
    /\ \A w \in Workers : http[c] = Processing(w) =>
           run[w].named /\ (Uploaded(w) => Listed[c] <= since[c])
    /\ AtRest(c) => Listed[c] <= since[c]

KeptInv == ListInv /\ RunsUpload /\ \A c \in Clients : kept[c] => KeptFor(c)

LEMMA ListedType ==
    ASSUME ServerTypeOK
    PROVE  Listed \in Tables /\ \A c \in DOMAIN Listed : Listed[c] \in Nat
  <1>1. Listed \in Tables
    <2>1. CASE \E w \in Workers : Busy(w)
      <3> DEFINE v == CHOOSE w \in Workers : Busy(w)
      <3>1. v \in Workers /\ Busy(v)
        BY <2>1
      <3>2. run[v] \in RunRecords
        <4> HIDE DEF v
        <4> QED
          BY <3>1, ActiveRun DEF Busy, Writing
      <3>3. Listed = run[v].records
        BY <2>1 DEF Listed
      <3> QED
        BY <3>2, <3>3 DEF RunRecords
    <2>2. CASE ~ \E w \in Workers : Busy(w)
      BY <2>2, ReadFacts DEF Listed
    <2> QED
      BY <2>1, <2>2
  <1>2. Listed \in [DOMAIN Listed -> Ages] /\ Ages \subseteq Nat
    BY <1>1, TableFacts, OldestIsNat DEF Ages
  <1> QED
    BY <1>1, <1>2

LEMMA ListedTypeNext ==
    ServerTypeOK' => (\A c \in DOMAIN Listed : Listed[c] \in Nat)'
  BY ListedType, PTL

LEMMA QuietListed == UNCHANGED serverVars => Listed' = Listed
  BY DEF serverVars, Listed, Busy, Read

\* A step that leaves c alone and its row no older.
LEMMA FrameKept ==
    ASSUME ListInv', NEW c \in Clients, KeptFor(c), alone', KeepsPosting(c)',
           c \in DOMAIN Listed', Listed'[c] <= Listed[c],
           posts'[c] = posts[c], http'[c] = http[c], since'[c] = since[c],
           ServerTypeOK,
           \A w \in Workers : http[c] = Processing(w) =>
               /\ run'[w].named = run[w].named
               /\ Uploaded(w)' => Uploaded(w) \/ Listed'[c] = 0
    PROVE  KeptFor(c)'
  <1>1. Listed[c] \in Nat /\ Listed'[c] \in Nat
    <2>1. Listed[c] \in Nat
      BY ListedType DEF KeptFor
    <2>2. (\A d \in DOMAIN Listed : Listed[d] \in Nat)'
      BY ListedTypeNext DEF ListInv, WholeInv, FreshInv
    <2> QED
      BY <2>1, <2>2
  <1>2. Listed'[c] <= Timeout
    BY <1>1, TimeoutAssumption DEF KeptFor
  <1>3. Accepted(posts[c])'
    BY DEF KeptFor, Accepted
  <1>4. since'[c] \in 0..Repost + 1 /\ since[c] \in Nat
    <2>1. since'[c] \in {Never} \cup 0..Repost + 1 /\ since'[c] # Never
      BY DEF ListInv, ClientTypes, KeepsPosting
    <2> QED
      BY <2>1, RepostAssumption
  <1>5. \A w \in Workers : http'[c] = Processing(w) =>
            run'[w].named /\ (Uploaded(w)' => Listed'[c] <= since'[c])
    BY <1>1, <1>4 DEF KeptFor
  <1>6. AtRest(c)' => Listed'[c] <= since'[c]
    BY <1>1, <1>4 DEF KeptFor, AtRest
  <1>7. Listed'[c] <= Repost + 1 + since'[c]
    BY <1>1, <1>4, RepostAssumption DEF KeptFor
  <1> QED
    BY <1>2, <1>3, <1>5, <1>6, <1>7 DEF KeptFor

LEMMA ZeroIsATime == 0 # Never
  BY DEF Never

LEMMA AcceptedFacts ==
    /\ Accepted(<< >>)
    /\ \A s \in Seq(Post), p \in Post :
           Accepted(s) /\ p.named /\ p.query \in Uploads => Accepted(Append(s, p))
    /\ \A s \in Seq(Post) : Accepted(s) /\ s # << >> =>
           Accepted(Tail(s)) /\ Head(s).named /\ Head(s).query \in Uploads
  <1>1. Accepted(<< >>)
    BY DEF Accepted
  <1>2. ASSUME NEW s \in Seq(Post), NEW p \in Post,
               Accepted(s), p.named, p.query \in Uploads
        PROVE  Accepted(Append(s, p))
    <2> SUFFICES ASSUME NEW i \in 1..Len(Append(s, p))
                 PROVE  Append(s, p)[i].named /\ Append(s, p)[i].query \in Uploads
      BY DEF Accepted
    <2>1. Len(Append(s, p)) = Len(s) + 1 /\ Len(s) \in Nat
      OBVIOUS
    <2>2. CASE i = Len(s) + 1
      <3>1. Append(s, p)[i] = p
        BY <2>2
      <3> QED
        BY <1>2, <3>1
    <2>3. CASE i # Len(s) + 1
      <3>1. i \in 1..Len(s)
        BY <2>1, <2>3
      <3>2. Append(s, p)[i] = s[i]
        BY <3>1
      <3> QED
        BY <1>2, <3>1, <3>2 DEF Accepted
    <2> QED
      BY <2>2, <2>3
  <1>3. ASSUME NEW s \in Seq(Post), Accepted(s), s # << >>
        PROVE  Accepted(Tail(s)) /\ Head(s).named /\ Head(s).query \in Uploads
    <2>1. Len(s) \in Nat /\ Len(s) # 0
      BY <1>3
    <2>2. Head(s) = s[1] /\ 1 \in 1..Len(s)
      BY <1>3, <2>1
    <2>3. ASSUME NEW i \in 1..Len(Tail(s))
          PROVE  Tail(s)[i].named /\ Tail(s)[i].query \in Uploads
      <3>1. Len(Tail(s)) = Len(s) - 1 /\ Tail(s)[i] = s[i + 1]
        BY <1>3
      <3>2. i + 1 \in 1..Len(s)
        BY <2>1, <3>1
      <3> QED
        BY <1>3, <3>1, <3>2 DEF Accepted
    <2> QED
      BY <1>3, <2>2, <2>3 DEF Accepted
  <1> QED
    BY <1>1, <1>2, <1>3

\* A call that posts: what a kept client sends is accepted.
LEMMA SendKept ==
    ASSUME ClientTypes, NEW c \in Clients, NEW op \in Uploads, SendOperation(c, op),
           Accepted(posts[c]), fields[c] = "game"
    PROVE  Accepted(posts'[c])
  <1> DEFINE p == [query |-> op, named |-> op \in Uploads /\ fields[c] = "game"]
  <1>1. p.query = op /\ p.named
    OBVIOUS
  <1>2. p \in Post
    <2>1. (op \in Uploads /\ fields[c] = "game") \in BOOLEAN
      OBVIOUS
    <2> QED
      BY <2>1 DEF Post
  <1>3. posts[c] \in Seq(Post) /\ c \in DOMAIN posts
    BY DEF ClientTypes
  <1>4. posts' = [posts EXCEPT ![c] = Append(posts[c], p)]
    BY DEF SendOperation
  <1>5. posts'[c] = Append(posts[c], p)
    BY <1>3, <1>4
  <1> HIDE DEF p
  <1> QED
    BY <1>1, <1>2, <1>3, <1>5, AcceptedFacts

\* Every step of the server keeps RunsUpload.
LEMMA NextRunsUpload == ServerTypeOK /\ RunsUpload /\ [ServerNext]_serverVars => RunsUpload'
  <1> SUFFICES ASSUME ServerTypeOK, RunsUpload, [ServerNext]_serverVars PROVE RunsUpload'
    OBVIOUS
  <1>1. CASE Tick \/ UNCHANGED serverVars
    BY <1>1, TickRuns DEF serverVars, RunsUpload
  <1>2. ASSUME NEW w \in Workers, NEW k \in Posters, NEW query \in Queries,
               NEW named \in BOOLEAN, Begin(w, k, query, named)
        PROVE  RunsUpload'
    <2>1. run'[w] = NewRun(k, query, named) /\ \A v \in Workers : v # w => run'[v] = run[v]
      BY <1>2 DEF Begin, ServerTypeOK
    <2> DEFINE r == NewRun(k, query, named)
    <2>2. r.at \in {"expire", "create"} /\ r.query = query /\ r.then = ""
      BY DEF NewRun
    <2>3. r.named => query \in Uploads
      BY DEF NewRun
    <2> HIDE DEF r
    <2>4. run'[w] = r
      BY <2>1 DEF r
    <2>5. run'[w].named => /\ run'[w].query \in Uploads
                           /\ run'[w].at # "download" /\ run'[w].then # "download"
      BY <2>2, <2>3, <2>4
    <2> QED
      BY <2>1, <2>5 DEF RunsUpload
  <1>3. ASSUME NEW w \in Workers, Answer(w) \/ ParseError(w) \/ Die(w)
        PROVE  RunsUpload'
    <2>1. run'[w] = NoRun /\ \A v \in Workers : v # w => run'[v] = run[v]
      BY <1>3 DEF Answer, ParseError, Die, Ends, ServerTypeOK
    <2>2. ~ NoRun.named
      BY DEF NoRun
    <2> QED
      BY <2>1, <2>2 DEF RunsUpload
  <1>4. ASSUME NEW w \in Workers,
               \/ Create(w) \/ Expire(w) \/ Check(w) \/ Download(w) \/ Upload(w)
               \/ Open(w) \/ WriteHead(w) \/ WriteArray(w) \/ WriteEnd(w)
        PROVE  RunsUpload'
    <2>1. run[w] \in RunRecords
      BY <1>4, StepKeeps, ActiveRun
    <2>2. SUFFICES ASSUME run[w].query = "upload", run[w].at # "download",
                          run[w].then # "download"
                   PROVE  run'[w].at # "download" /\ run'[w].then # "download"
      BY <1>4, StepKeeps DEF RunsUpload
    <2>3. CASE Expire(w)
      <3>1. FirstOf(run[w].query) = "upload"
        BY <2>2 DEF FirstOf
      <3> QED
        BY <2>1, <2>2, <2>3, <3>1 DEF Expire, ServerTypeOK, RunRecords
    <2>4. CASE Download(w)
      BY <2>2, <2>4 DEF Download
    <2>5. CASE Upload(w)
      <3>1. \/ run' = [run EXCEPT ![w].at = "open", ![w].then = "answer",
                                  ![w].records = Stamped(Read(file), run[w].poster)]
            \/ run' = [run EXCEPT ![w].at = "answer"]
        BY <2>5 DEF Upload
      <3>2. CASE run' = [run EXCEPT ![w].at = "answer"]
        BY <2>1, <2>2, <3>2 DEF ServerTypeOK, RunRecords
      <3>3. CASE run' = [run EXCEPT ![w].at = "open", ![w].then = "answer",
                                    ![w].records = Stamped(Read(file), run[w].poster)]
        BY <2>1, <2>2, <3>3 DEF ServerTypeOK, RunRecords
      <3> QED
        BY <3>1, <3>2, <3>3
    <2>6. CASE Open(w)
      BY <2>1, <2>2, <2>6 DEF Open, ServerTypeOK, RunRecords
    <2>7. CASE WriteHead(w)
      BY <2>1, <2>2, <2>7 DEF WriteHead, ServerTypeOK, RunRecords
    <2>8. CASE WriteArray(w)
      BY <2>1, <2>2, <2>8 DEF WriteArray, ServerTypeOK, RunRecords
    <2>9. CASE WriteEnd(w)
      BY <2>1, <2>2, <2>9 DEF WriteEnd, ServerTypeOK, RunRecords
    <2>10. CASE Create(w)
      BY <2>1, <2>2, <2>10 DEF Create, ServerTypeOK, RunRecords
    <2>11. CASE Check(w)
      <3>1. PICK gone \in SUBSET Expired(run[w].records) :
                run' = [run EXCEPT ![w].at = "open",
                                   ![w].records = Without(run[w].records, gone)]
        BY <2>11 DEF Check
      <3> QED
        BY <2>1, <2>2, <3>1 DEF ServerTypeOK, RunRecords
    <2> QED
      BY <1>4, <2>3, <2>4, <2>5, <2>6, <2>7, <2>8, <2>9, <2>10, <2>11
  <1> QED
    BY <1>1, <1>2, <1>3, <1>4 DEF ServerNext, Step

\* A client is kept as before if neither the server nor its own state moves.
LEMMA StillKept ==
    ASSUME KeptInv, ListInv', UNCHANGED serverVars, NEW d \in Clients, kept[d],
           fields'[d] = fields[d], operation'[d] = operation[d], since'[d] = since[d],
           posts'[d] = posts[d], http'[d] = http[d]
    PROVE  KeptFor(d)'
  <1>1. KeptFor(d) /\ ServerTypeOK
    BY DEF KeptInv, ListInv, WholeInv, FreshInv
  <1>2. alone' /\ KeepsPosting(d)'
    BY <1>1 DEF KeptFor, KeepsPosting, serverVars
  <1>3. Listed' = Listed /\ run' = run
    BY QuietListed DEF serverVars
  <1>4. Listed[d] \in Nat
    BY <1>1, ListedType DEF KeptFor
  <1>5. d \in DOMAIN Listed' /\ Listed'[d] <= Listed[d]
    BY <1>1, <1>3, <1>4 DEF KeptFor
  <1>6. \A w \in Workers : run'[w].named = run[w].named /\ (Uploaded(w)' => Uploaded(w))
    BY <1>3 DEF Uploaded, Busy
  <1> QED
    BY <1>1, <1>2, <1>5, <1>6, FrameKept

\* Posting, now or again, an operation that uploads.
LEMMA PostKept ==
    ASSUME KeptInv, ListInv', UNCHANGED serverVars, NEW c \in Clients, kept[c],
           NEW op \in Uploads, SendOperation(c, op), fields' = fields, http' = http,
           since' = [since EXCEPT ![c] = 0],
           operation'[c] \in Uploads, AtRest(c) \/ since[c] = 0
    PROVE  KeptFor(c)'
  <1>1. KeptFor(c) /\ ServerTypeOK /\ ClientTypes
    BY DEF KeptInv, ListInv, WholeInv, FreshInv
  <1>2. Listed' = Listed /\ run' = run /\ alone' = alone
    BY QuietListed DEF serverVars
  <1>4. Accepted(posts'[c]) /\ posts'[c] # << >>
    BY <1>1, SendKept, SendFacts DEF KeptFor, KeepsPosting
  <1>5. since'[c] = 0 /\ 0 # Never
    BY <1>1, ZeroIsATime DEF ClientTypes
  <1>6. KeepsPosting(c)'
    BY <1>1, <1>5 DEF KeptFor, KeepsPosting
  <1>7. \A w \in Workers : Uploaded(w)' = Uploaded(w)
    BY <1>2 DEF Uploaded, Busy
  <1>8. Accepted(posts[c])'
    BY <1>4 DEF Accepted
  <1>9. since[c] \in 0..Repost + 1 /\ Listed[c] \in Nat
    <2>1. since[c] \in {Never} \cup 0..Repost + 1 /\ since[c] # Never
      BY <1>1 DEF ClientTypes, KeptFor, KeepsPosting
    <2> QED
      BY <1>1, <2>1, ListedType DEF KeptFor
  <1>10. Listed'[c] <= Repost + 1 + since'[c]
    BY <1>1, <1>2, <1>5, <1>9, RepostAssumption DEF KeptFor
  <1>11. ~ AtRest(c)'
    BY <1>4 DEF AtRest
  <1>12. ASSUME NEW w \in Workers, http'[c] = Processing(w)
         PROVE  run'[w].named /\ (Uploaded(w)' => Listed'[c] <= since'[c])
    <2>1. http[c] = Processing(w) /\ run'[w].named
      BY <1>1, <1>2, <1>12 DEF KeptFor
    <2>2. since[c] = 0
      BY <2>1, HttpFacts DEF AtRest
    <2> QED
      BY <1>1, <1>2, <1>5, <1>7, <2>1, <2>2 DEF KeptFor
  <1>13. c \in DOMAIN Listed' /\ Listed'[c] <= Timeout /\ alone'
    BY <1>1, <1>2 DEF KeptFor
  <1> QED
    BY <1>6, <1>8, <1>10, <1>11, <1>12, <1>13 DEF KeptFor

LEMMA ClientKept ==
    ASSUME KeptInv, ListInv', NEW c \in Clients, UNCHANGED serverVars, ClientStep(c),
           NEW d \in Clients, kept'[d]
    PROVE  KeptFor(d)'
  <1>1. ClientTypes /\ Served
    BY DEF KeptInv, ListInv
  <1>2. CASE \E columns \in Columns : SetField(c, columns)
    <2>1. kept[d]
      BY <1>2 DEF SetField
    <2>2. d # c
      BY <1>2, <2>1 DEF SetField, KeptInv, KeptFor, KeepsPosting
    <2> QED
      BY <1>1, <1>2, <2>1, <2>2, StillKept DEF SetField, ClientTypes
  <1>3. CASE ClearFields(c)
    <2>1. d # c /\ kept[d]
      BY <1>1, <1>3 DEF ClearFields, ClientTypes
    <2> QED
      BY <1>1, <1>3, <2>1, StillKept DEF ClearFields, ClientTypes
  <1>4. CASE DownloadTable(c)
    <2>1. d # c /\ kept[d]
      BY <1>1, <1>4 DEF DownloadTable, ClientTypes
    <2>2. posts'[d] = posts[d]
      BY <1>1, <1>4, <2>1, SendFacts DEF DownloadTable
    <2> QED
      BY <1>1, <1>4, <2>1, <2>2, StillKept DEF DownloadTable, ClientTypes
  <1>5. CASE \E op \in Calls, autoRepost \in BOOLEAN : UploadTable(c, op, autoRepost)
    <2>1. PICK op \in Calls, autoRepost \in BOOLEAN : UploadTable(c, op, autoRepost)
      BY <1>5
    <2>2. op \in Uploads /\ SendOperation(c, op) /\ fields' = fields /\ http' = http
      BY <2>1, AskedAssumption DEF UploadTable
    <2>3. since' = [since EXCEPT ![c] = IF autoRepost THEN 0 ELSE Never]
      BY <2>1 DEF UploadTable
    <2>4. operation' = [operation EXCEPT ![c] = Repeated(op, since'[c])]
      BY <2>1 DEF UploadTable
    <2>5. kept[d] /\ (d = c => autoRepost /\ (AtRest(c) \/ since[c] = 0))
      BY <1>1, <2>1 DEF UploadTable, ClientTypes
    <2>6. CASE d = c
      <3>1. since' = [since EXCEPT ![c] = 0]
        BY <2>3, <2>5, <2>6
      <3>2. since'[c] = 0 /\ 0 # Never
        BY <1>1, <3>1, ZeroIsATime DEF ClientTypes
      <3>3. operation'[c] = op
        BY <1>1, <2>4, <3>2 DEF ClientTypes, Repeated
      <3> QED
        BY <2>2, <2>5, <2>6, <3>1, <3>3, PostKept
    <2>7. CASE d # c
      <3>1. posts'[d] = posts[d]
        BY <1>1, <2>2, <2>7, SendFacts
      <3>2. since'[d] = since[d] /\ operation'[d] = operation[d]
        BY <1>1, <2>3, <2>4, <2>7 DEF ClientTypes
      <3> QED
        BY <2>2, <2>5, <3>1, <3>2, StillKept
    <2> QED
      BY <2>6, <2>7
  <1>6. CASE Update(c)
    <2>1. /\ SendOperation(c, operation[c]) /\ since' = [since EXCEPT ![c] = 0]
          /\ fields' = fields /\ operation' = operation /\ http' = http
          /\ kept[d] /\ (d = c => AtRest(c))
      BY <1>1, <1>6 DEF Update, AtRest, ClientTypes
    <2>2. operation[c] \in {"download"} \cup Uploads
      <3>1. since[c] # Never
        BY <1>6, RepostAssumption DEF Update, Due, Never
      <3>2. operation[c] # ""
        BY <3>1 DEF KeptInv, ListInv, Repeats
      <3> QED
        BY <1>1, <3>2 DEF ClientTypes
    <2>3. CASE d = c
      <3>1. operation[c] \in Uploads
        BY <2>1, <2>3 DEF KeptInv, KeptFor, KeepsPosting
      <3> QED
        BY <2>1, <2>3, <3>1, PostKept
    <2>4. CASE d # c
      <3>1. posts'[d] = posts[d] /\ since'[d] = since[d]
        BY <1>1, <2>1, <2>2, <2>4, SendFacts DEF ClientTypes
      <3> QED
        BY <2>1, <3>1, StillKept
    <2> QED
      BY <2>3, <2>4
  <1>7. CASE Connect(c) \/ ConnectFails(c) \/ Lose(c)
    <2>1. UNCHANGED <<fields, operation, since, posts>> /\ kept[d]
      BY <1>1, <1>7 DEF Connect, ConnectFails, Lose, ClientTypes
    <2>2. CASE d # c
      <3>1. http'[d] = http[d]
        BY <1>1, <1>7, <2>2 DEF Connect, ConnectFails, Lose, ClientTypes
      <3> QED
        BY <2>1, <3>1, StillKept
    <2>3. CASE d = c
      <3>1. posts[c] # << >> /\ http'[c] \in {Idle, Connecting}
        BY <1>1, <1>7, <2>3 DEF Connect, ConnectFails, Lose, ClientTypes, Served
      <3>2. KeptFor(c)
        BY <2>1, <2>3 DEF KeptInv
      <3>3. Listed' = Listed /\ alone' = alone
        BY QuietListed DEF serverVars
      <3>4. \A w \in Workers : http'[c] # Processing(w)
        BY <3>1, HttpFacts
      <3>5. KeepsPosting(c)' /\ Accepted(posts[c])' /\ ~ AtRest(c)'
        BY <2>1, <3>1, <3>2 DEF KeptFor, KeepsPosting, Accepted, AtRest
      <3> QED
        BY <2>1, <2>3, <3>1, <3>2, <3>3, <3>4, <3>5 DEF KeptFor
    <2> QED
      BY <2>2, <2>3
  <1>8. ASSUME NEW w \in Workers, Request(c, w) PROVE FALSE
    <2>1. run[w] = NoRun /\ run' = run /\ w \in DOMAIN run
      BY <1>8 DEF Request, Begin, serverVars, KeptInv, ListInv, WholeInv, FreshInv,
                  ServerTypeOK
    <2>2. run'[w] = NewRun(c, Head(posts[c]).query, Head(posts[c]).named)
      BY <1>8, <2>1 DEF Request, Begin
    <2>3. NoRun.at = "idle"
      BY DEF NoRun
    <2> QED
      BY <2>1, <2>2, <2>3, NewRunFacts
  <1> QED
    BY <1>2, <1>3, <1>4, <1>5, <1>6, <1>7, <1>8 DEF ClientStep

\* A request of c itself or of anybody else begins.
LEMMA BeginKept ==
    ASSUME KeptInv, ListInv', NEW w \in Workers, NEW d \in Clients, kept'[d],
           \/ \E c \in Clients : Request(c, w)
           \/ \E k \in Posters, query \in Asked : OtherRequest(w, k, query)
    PROVE  KeptFor(d)'
  <1>1. ClientTypes /\ Served /\ ServerTypeOK /\ WholeInv /\ WholeInv'
    BY DEF KeptInv, ListInv, WholeInv, FreshInv
  <1>2. kept' = kept /\ KeptFor(d)
    BY DEF Request, OtherRequest, clientVars, KeptInv
  <1>3. UNCHANGED <<fields, operation, since, file, alone>> /\ alone
    BY <1>2 DEF Request, OtherRequest, Begin, clientVars, KeptFor
  <1>4. PICK k \in Posters, query \in Queries, named \in BOOLEAN : Begin(w, k, query, named)
    <2>1. CASE \E c \in Clients : Request(c, w)
      <3>1. PICK c \in Clients : Request(c, w)
        BY <2>1
      <3> DEFINE q == Head(posts[c]).query
                 n == Head(posts[c]).named
      <3>2. Begin(w, c, q, n) /\ c \in Posters /\ q \in Queries /\ n \in BOOLEAN
        BY <3>1, RequestFacts DEF Request, KeptInv
      <3> HIDE DEF q, n
      <3> QED
        BY <3>2
    <2>2. CASE \E k \in Posters, query \in Asked : OtherRequest(w, k, query)
      <3>1. PICK k \in Posters, query \in Asked : OtherRequest(w, k, query)
        BY <2>2
      <3>2. query \in Queries /\ TRUE \in BOOLEAN /\ Begin(w, k, query, TRUE)
        BY <3>1, AskedAssumption DEF OtherRequest
      <3> QED
        BY <3>2, Zenon
    <2> QED
      BY <2>1, <2>2
  <1>5. Listed' = Listed
    BY <1>1, <1>3, <1>4, BeginList
  <1>6. run[w].at = "idle" /\ \A v \in Workers : v # w => run'[v] = run[v]
    <2>1. NoRun.at = "idle"
      BY DEF NoRun
    <2> QED
      BY <1>1, <1>4, <2>1 DEF Begin, ServerTypeOK
  <1>7. KeepsPosting(d)' /\ Listed[d] \in Nat
    BY <1>1, <1>2, <1>3, ListedType DEF KeptFor, KeepsPosting
  <1>8. CASE posts'[d] = posts[d] /\ http'[d] = http[d]
    <2>1. \A v \in Workers : http[d] = Processing(v) => v # w
      BY <1>1, <1>6 DEF Served
    <2>2. \A v \in Workers : v # w =>
              run'[v].named = run[v].named /\ (Uploaded(v)' => Uploaded(v))
      BY <1>6 DEF Uploaded, Busy
    <2>3. d \in DOMAIN Listed' /\ Listed'[d] <= Listed[d]
      BY <1>2, <1>5, <1>7 DEF KeptFor
    <2> QED
      BY <1>1, <1>2, <1>3, <1>7, <1>8, <2>1, <2>2, <2>3, FrameKept
  <1>9. CASE Request(d, w)
    <2>1. /\ http'[d] = Processing(w) /\ posts'[d] = Tail(posts[d])
          /\ run'[w] = NewRun(d, Head(posts[d]).query, Head(posts[d]).named)
      <3>1. http'[d] = Processing(w) /\ posts'[d] = Tail(posts[d])
        BY <1>1, <1>9 DEF Request, ClientTypes
      <3>2. run' = [run EXCEPT ![w] =
                       NewRun(d, Head(posts[d]).query, Head(posts[d]).named)]
        BY <1>9, RequestFacts DEF KeptInv
      <3> QED
        BY <1>1, <3>1, <3>2 DEF ServerTypeOK
    <2>2. posts[d] \in Seq(Post) /\ posts[d] # << >> /\ Accepted(posts[d])
      BY <1>1, <1>2, <1>9 DEF ClientTypes, Served, Request, KeptFor
    <2>3. Accepted(Tail(posts[d])) /\ Head(posts[d]).named /\ Head(posts[d]).query \in Uploads
      BY <2>2, AcceptedFacts
    <2>4. Accepted(posts[d])'
      BY <2>1, <2>3 DEF Accepted
    <2>5. run'[w].named /\ run'[w].at \in {"expire", "create"}
      <3> DEFINE q == Head(posts[d]).query
                 n == Head(posts[d]).named
      <3>1. run'[w] = NewRun(d, q, n) /\ n /\ q \in Uploads
        BY <2>1, <2>3
      <3> HIDE DEF q, n
      <3>2. NewRun(d, q, n).named /\ NewRun(d, q, n).at \in {"expire", "create"}
        BY <3>1 DEF NewRun
      <3> QED
        BY <3>1, <3>2
    <2>6. ~ Uploaded(w)'
      BY <2>5 DEF Uploaded, Busy, Writing
    <2>7. \A v \in Workers : http'[d] = Processing(v) => v = w
      BY <2>1, HttpFacts
    <2>8. ~ AtRest(d)'
      BY <2>1, HttpFacts DEF AtRest
    <2> QED
      BY <1>2, <1>3, <1>5, <1>7, <2>4, <2>5, <2>6, <2>7, <2>8 DEF KeptFor
  <1> QED
    <2>1. ASSUME NEW c \in Clients, Request(c, w), c # d
          PROVE  posts'[d] = posts[d] /\ http'[d] = http[d]
      BY <1>1, <2>1 DEF Request, ClientTypes
    <2>2. ASSUME NEW p \in Posters, NEW q \in Asked, OtherRequest(w, p, q)
          PROVE  posts'[d] = posts[d] /\ http'[d] = http[d]
      BY <2>2 DEF OtherRequest, clientVars
    <2> QED
      BY <1>8, <1>9, <2>1, <2>2

\* A run ends: its client, if it is kept, has got its row in.
LEMMA EndOfRunKept ==
    ASSUME KeptInv, ListInv', NEW w \in Workers, Answered(w) \/ Failed(w),
           NEW d \in Clients, kept'[d]
    PROVE  KeptFor(d)'
  <1>1. ClientTypes /\ Served /\ ServerTypeOK /\ WholeInv /\ WholeInv'
    BY DEF KeptInv, ListInv, WholeInv, FreshInv
  <1>2. kept[d] /\ alone' /\ (Serves(w, d) => Answer(w))
    <2>1. CASE Answered(w)
      <3>1. kept[d] /\ alone' = alone
        BY <2>1 DEF Answered, Answer
      <3> QED
        BY <2>1, <3>1 DEF KeptInv, KeptFor, Answered
    <2>2. CASE Failed(w)
      BY <2>2 DEF Failed
    <2> QED
      BY <2>1, <2>2
  <1>3. KeptFor(d) /\ UNCHANGED <<fields, operation, since, posts>>
    BY <1>2 DEF KeptInv, Answered, Failed
  <1>4. Answer(w) \/ ParseError(w) \/ Die(w)
    BY DEF Answered, Failed
  <1>5. Listed' = Listed /\ Listed[d] \in Nat
    BY <1>1, <1>2, <1>3, <1>4, EndList, ListedType DEF KeptFor
  <1>6. \A v \in Workers : v # w => run'[v] = run[v]
    BY <1>1, <1>4 DEF Answer, ParseError, Die, Ends, ServerTypeOK
  <1>7. KeepsPosting(d)' /\ Accepted(posts[d])'
    BY <1>3 DEF KeptFor, KeepsPosting, Accepted
  <1>8. http'[d] = IF Serves(w, d) THEN Idle ELSE http[d]
    BY DEF Answered, Failed, Closed
  <1>9. CASE Serves(w, d)
    <2>1. http[d] = Processing(w) /\ run[w].at = "answer"
      BY <1>1, <1>2, <1>9, ServesFacts DEF Answer
    <2>2. Listed[d] <= since[d]
      BY <1>3, <2>1 DEF KeptFor, Uploaded
    <2>5. \A v \in Workers : http'[d] # Processing(v)
      BY <1>8, <1>9, HttpFacts
    <2> QED
      BY <1>2, <1>3, <1>5, <1>7, <2>2, <2>5 DEF KeptFor
  <1>10. CASE ~ Serves(w, d)
    <2>1. http'[d] = http[d] /\ http[d] # Processing(w)
      BY <1>1, <1>8, <1>10, ServesFacts
    <2>2. \A v \in Workers : http[d] = Processing(v) =>
              run'[v].named = run[v].named /\ (Uploaded(v)' => Uploaded(v))
      BY <1>6, <2>1 DEF Uploaded, Busy
    <2>3. d \in DOMAIN Listed' /\ Listed'[d] <= Listed[d]
      BY <1>3, <1>5 DEF KeptFor
    <2> QED
      BY <1>1, <1>2, <1>3, <1>7, <2>1, <2>2, <2>3, FrameKept
  <1> QED
    BY <1>9, <1>10

LEMMA ExpireKept ==
    ASSUME WholeInv, WholeInv', alone', NEW w \in Workers, Expire(w) \/ Check(w),
           NEW c \in DOMAIN Listed, Listed[c] <= Timeout, Listed[c] \in Nat
    PROVE  c \in DOMAIN Listed' /\ Listed'[c] <= Listed[c]
  <1>1. CASE Leases!Drop
    <2>1. PICK gone \in SUBSET {p \in DOMAIN Listed : Listed[p] > Timeout} :
              Listed' = [p \in DOMAIN Listed \ gone |-> Listed[p]]
      BY <1>1 DEF Leases!Drop
    <2>2. c \notin gone
      BY OldestIsNat
    <2> QED
      BY <2>1, <2>2
  <1>2. CASE Listed' = Listed
    BY <1>2
  <1> QED
    BY <1>1, <1>2, ExpireList, CheckList

LEMMA UploadKept ==
    ASSUME WholeInv, WholeInv', alone', NEW w \in Workers, Upload(w)
    PROVE  /\ \A c \in DOMAIN Listed : Listed[c] \in Nat =>
                  c \in DOMAIN Listed' /\ Listed'[c] <= Listed[c]
           /\ run[w].named => /\ run[w].poster \in DOMAIN Listed'
                              /\ Listed'[run[w].poster] = 0
  <1>1. CASE run[w].named
    <2> DEFINE k == run[w].poster
    <2>1. Leases!Renew(k)
      BY <1>1, UploadList
    <2>2. Listed' = [p \in DOMAIN Listed \cup {k} |-> IF p = k THEN 0 ELSE Listed[p]]
      BY <2>1 DEF Leases!Renew
    <2> HIDE DEF k
    <2>3. k \in DOMAIN Listed' /\ Listed'[k] = 0
      BY <2>2
    <2>4. \A c \in DOMAIN Listed : Listed[c] \in Nat =>
              c \in DOMAIN Listed' /\ Listed'[c] <= Listed[c]
      BY <2>2
    <2> QED
      BY <2>3, <2>4 DEF k
  <1>2. CASE ~ run[w].named
    <2>1. Listed' = Listed
      BY <1>2, UploadList
    <2> QED
      BY <1>2, <2>1
  <1> QED
    BY <1>1, <1>2

\* Where a run stands after an include, for what Uploaded tells apart.
LEMMA IncludeAt ==
    ASSUME ServerTypeOK, RunsUpload, NEW w \in Workers,
           Create(w) \/ Expire(w) \/ Download(w), run[w].named
    PROVE  ~ Uploaded(w)'
  <1>1. run[w] \in RunRecords
    BY StepKeeps, ActiveRun
  <1>2. run[w].query \in Uploads /\ (run[w].query = "upload" => run[w].at # "download")
    BY DEF RunsUpload
  <1>3. CASE Expire(w)
    <2> DEFINE f == FirstOf(run[w].query)
    <2>1. f \in {"upload", "download"}
      BY <1>2 DEF FirstOf, Uploads
    <2> HIDE DEF f
    <2>2. CASE Read(file) = NoRecords
      <3>1. run'[w].at = f
        BY <1>1, <1>3, <2>2 DEF Expire, ServerTypeOK, RunRecords, f
      <3> QED
        BY <2>1, <3>1 DEF Uploaded, Busy, Writing
    <2>3. CASE Read(file) # NoRecords
      <3>1. run'[w].at = "check" /\ run'[w].then = f
        BY <1>1, <1>3, <2>3 DEF Expire, ServerTypeOK, RunRecords, f
      <3> QED
        BY <2>1, <3>1 DEF Uploaded
    <2> QED
      BY <2>2, <2>3
  <1>4. CASE Download(w)
    <2>1. run[w].query = "upDown"
      BY <1>2, <1>4 DEF Download, Uploads
    <2>2. run'[w].at = "upload"
      BY <1>1, <1>4, <2>1 DEF Download, ServerTypeOK, RunRecords
    <2> QED
      BY <2>2 DEF Uploaded, Busy, Writing
  <1>5. CASE Create(w)
    <2>1. run'[w].at = "expire"
      BY <1>1, <1>5 DEF Create, ServerTypeOK, RunRecords
    <2> QED
      BY <2>1 DEF Uploaded, Busy, Writing
  <1> QED
    BY <1>3, <1>4, <1>5

LEMMA WriteAt ==
    ASSUME ServerTypeOK, NEW w \in Workers,
           Check(w) \/ Open(w) \/ WriteHead(w) \/ WriteArray(w) \/ WriteEnd(w),
           Uploaded(w)'
    PROVE  Uploaded(w)
  <1>1. run[w] \in RunRecords
    BY StepKeeps, ActiveRun
  <1>2. Busy(w)
    BY DEF Check, Open, WriteHead, WriteArray, WriteEnd, Busy, Writing
  <1>3. CASE Open(w)
    <2>1. run'[w].at = "head" /\ run'[w].then = run[w].then
      BY <1>1, <1>3 DEF Open, ServerTypeOK, RunRecords
    <2> QED
      BY <1>2, <2>1 DEF Uploaded
  <1>4. CASE WriteHead(w)
    <2>1. run'[w].at = "array" /\ run'[w].then = run[w].then
      BY <1>1, <1>4 DEF WriteHead, ServerTypeOK, RunRecords
    <2> QED
      BY <1>2, <2>1 DEF Uploaded
  <1>5. CASE WriteArray(w)
    <2>1. run'[w].at = "end" /\ run'[w].then = run[w].then
      BY <1>1, <1>5 DEF WriteArray, ServerTypeOK, RunRecords
    <2> QED
      BY <1>2, <2>1 DEF Uploaded
  <1>6. CASE WriteEnd(w)
    <2>1. run'[w].at = run[w].then
      BY <1>1, <1>6 DEF WriteEnd, ServerTypeOK, RunRecords
    <2>2. ~ Busy(w)'
      BY <1>1, <2>1 DEF Busy, Writing, RunRecords
    <2> QED
      BY <1>2, <2>1, <2>2 DEF Uploaded
  <1>7. CASE Check(w)
    <2>1. PICK gone \in SUBSET Expired(run[w].records) :
              run' = [run EXCEPT ![w].at = "open",
                                 ![w].records = Without(run[w].records, gone)]
      BY <1>7 DEF Check
    <2>2. run'[w].at = "open" /\ run'[w].then = run[w].then
      BY <1>1, <2>1 DEF ServerTypeOK, RunRecords
    <2> QED
      BY <1>2, <2>2 DEF Uploaded
  <1> QED
    BY <1>3, <1>4, <1>5, <1>6, <1>7

\* A step within a run: the list keeps d, and once d's own upload is behind its
\* run, its row is as young as can be.
LEMMA WithinRunKept ==
    ASSUME KeptInv, ListInv', NEW w \in Workers, UploadOf(w) \/ IncludeOf(w) \/ Write(w),
           NEW d \in Clients, kept'[d]
    PROVE  KeptFor(d)'
  <1>1. ClientTypes /\ Served /\ ServerTypeOK /\ WholeInv /\ WholeInv' /\ RunsUpload
    BY DEF KeptInv, ListInv, WholeInv, FreshInv
  <1>2. UNCHANGED <<fields, operation, since, posts, http>>
    BY DEF UploadOf, IncludeOf, Write, clientVars
  <1>3. \/ Create(w) \/ Expire(w) \/ Check(w) \/ Download(w) \/ Upload(w)
        \/ Open(w) \/ WriteHead(w) \/ WriteArray(w) \/ WriteEnd(w)
    BY DEF UploadOf, IncludeOf, Write
  <1>4. \A v \in Workers : v # w => run'[v] = run[v]
    BY <1>1, <1>3, StepKeeps
  <1>5. run'[w].named = run[w].named
    BY <1>1, <1>3, StepKeeps
  <1>6. \A v \in Workers : v # w => (Uploaded(v)' => Uploaded(v))
    BY <1>4 DEF Uploaded, Busy
  <1>8. alone'
    <2>1. CASE Write(w)
      <3>1. kept[d] /\ alone' = alone
        BY <2>1 DEF Write, clientVars, Check, Open, WriteHead, WriteArray, WriteEnd
      <3> QED
        BY <3>1 DEF KeptInv, KeptFor
    <2>2. CASE UploadOf(w) \/ IncludeOf(w)
      BY <2>2 DEF UploadOf, IncludeOf
    <2> QED
      BY <2>1, <2>2
  <1>9. CASE kept[d]
    <2>1. KeptFor(d) /\ d \in DOMAIN Listed /\ Listed[d] <= Timeout
      BY <1>9 DEF KeptInv, KeptFor
    <2>2. KeepsPosting(d)' /\ Listed[d] \in Nat
      BY <1>1, <1>2, <2>1, ListedType DEF KeptFor, KeepsPosting
    <2>3. d \in DOMAIN Listed' /\ Listed'[d] <= Listed[d]
      <3>1. CASE Upload(w)
        BY <1>1, <1>8, <2>1, <2>2, <3>1, UploadKept
      <3>2. CASE Expire(w) \/ Check(w)
        BY <1>1, <1>8, <2>1, <2>2, <3>2, ExpireKept
      <3>3. CASE Create(w) \/ Download(w)
        <4>1. Listed' = Listed
          BY <1>1, <1>8, <3>3, CreateList, DownloadList
        <4> QED
          BY <2>1, <2>2, <4>1
      <3>4. CASE Open(w) \/ WriteHead(w) \/ WriteArray(w) \/ WriteEnd(w)
        <4>1. Listed' = Listed
          BY <1>1, <1>8, <3>4, WriteList
        <4> QED
          BY <2>1, <2>2, <4>1
      <3> QED
        BY <1>3, <3>1, <3>2, <3>3, <3>4
    <2>4. http[d] = Processing(w) => (Uploaded(w)' => Uploaded(w) \/ Listed'[d] = 0)
      <3> SUFFICES ASSUME http[d] = Processing(w), Uploaded(w)'
                   PROVE  Uploaded(w) \/ Listed'[d] = 0
        OBVIOUS
      <3>1. run[w].named /\ run[w].poster = d
        BY <1>1, <2>1 DEF KeptFor, Served
      <3>2. CASE Upload(w)
        BY <1>1, <1>8, <3>1, <3>2, UploadKept
      <3>3. CASE Create(w) \/ Expire(w) \/ Download(w)
        BY <1>1, <3>1, <3>3, IncludeAt
      <3>4. CASE Check(w) \/ Open(w) \/ WriteHead(w) \/ WriteArray(w) \/ WriteEnd(w)
        BY <1>1, <3>4, WriteAt
      <3> QED
        BY <1>3, <3>2, <3>3, <3>4
    <2>5. \A v \in Workers : http[d] = Processing(v) =>
              /\ run'[v].named = run[v].named
              /\ Uploaded(v)' => Uploaded(v) \/ Listed'[d] = 0
      BY <1>4, <1>5, <1>6, <2>4
    <2> QED
      BY <1>1, <1>2, <1>8, <2>1, <2>2, <2>3, <2>5, FrameKept
  <1>10. CASE ~ kept[d]
    <2>1. /\ Upload(w) /\ Serves(w, d) /\ run[w].named
          /\ KeepsPosting(d) /\ posts[d] = << >>
      BY <1>10 DEF UploadOf, IncludeOf, Write, clientVars
    <2>2. http[d] = Processing(w) /\ run[w].poster = d
      BY <1>1, <2>1, ServesFacts DEF Served
    <2>3. d \in DOMAIN Listed' /\ Listed'[d] = 0
      BY <1>1, <1>8, <2>1, <2>2, UploadKept
    <2>4. KeepsPosting(d)'
      BY <1>2, <2>1 DEF KeepsPosting
    <2>5. Accepted(posts[d])'
      BY <1>2, <2>1, AcceptedFacts DEF Accepted
    <2>6. \A v \in Workers : http'[d] = Processing(v) => v = w
      BY <1>2, <2>2, HttpFacts
    <2>7. ~ AtRest(d)'
      BY <1>2, <2>2, HttpFacts DEF AtRest
    <2>8. Listed'[d] <= Timeout /\ Listed'[d] <= since'[d]
              /\ Listed'[d] <= Repost + 1 + since'[d]
      <3>1. since'[d] \in {Never} \cup 0..Repost + 1 /\ since'[d] # Never
        BY <2>4 DEF ListInv, ClientTypes, KeepsPosting
      <3> QED
        BY <2>3, <3>1, TimeoutAssumption, RepostAssumption
    <2> QED
      BY <1>5, <1>8, <2>1, <2>3, <2>4, <2>5, <2>6, <2>7, <2>8 DEF KeptFor
  <1> QED
    BY <1>9, <1>10

\* Time passes: a client that is not late has a row younger than its next post.
LEMMA TimeKept ==
    ASSUME RepostBeforeTimeout, KeptInv, ListInv', TimePasses, NEW d \in Clients, kept'[d]
    PROVE  KeptFor(d)'
  <1>1. ClientTypes /\ ServerTypeOK /\ WholeInv /\ WholeInv'
    BY DEF KeptInv, ListInv, WholeInv, FreshInv
  <1>2. Tick /\ UNCHANGED <<fields, operation, posts, http>>
    BY DEF TimePasses
  <1>3. kept[d] /\ ~ Late(d)
    BY DEF TimePasses
  <1>4. KeptFor(d) /\ alone /\ alone' /\ KeepsPosting(d) /\ d \in DOMAIN Listed
    BY <1>2, <1>3 DEF KeptInv, KeptFor, Tick
  <1>5. /\ since[d] \in 0..Repost
        /\ IF AtRest(d) THEN Listed[d] <= since[d] ELSE since[d] < Grace
    <2>1. since[d] \in 0..Repost + 1
      BY <1>1, <1>4 DEF ClientTypes, KeepsPosting
    <2>2. CASE AtRest(d)
      <3>1. ~ (since[d] > Repost)
        BY <1>3, <1>4, <2>2 DEF Late, Due, KeepsPosting
      <3> QED
        BY <1>4, <2>1, <2>2, <3>1, RepostAssumption DEF KeptFor
    <2>3. CASE ~ AtRest(d)
      <3>1. ~ (since[d] >= Grace)
        BY <1>3, <2>3 DEF Late
      <3> QED
        BY <2>1, <2>3, <3>1, RepostAssumption, GraceAssumption
    <2> QED
      BY <2>2, <2>3
  <1>6. since'[d] = since[d] + 1
    BY <1>5 DEF TimePasses
  <1>7. Listed[d] \in Nat
    BY <1>1, <1>4, ListedType
  <1>8. d \in DOMAIN Listed' /\ Listed'[d] \in Nat /\ Listed'[d] <= Listed[d] + 1
    <2>1. Listed' = [p \in DOMAIN Listed |->
                        IF Listed[p] < Oldest THEN Listed[p] + 1 ELSE Oldest]
      BY <1>1, <1>2, <1>4, TickList DEF Leases!Age
    <2>2. Listed'[d] = IF Listed[d] < Oldest THEN Listed[d] + 1 ELSE Oldest
      BY <1>4, <2>1
    <2> QED
      BY <1>4, <1>7, <2>1, <2>2, OldestIsNat
  <1>9. Listed[d] <= Repost + 1 + since[d]
    BY <1>4 DEF KeptFor
  <1>10. Listed'[d] <= Repost + 1 + since'[d] /\ Listed'[d] <= Timeout
    <2>1. CASE AtRest(d)
      BY <1>5, <1>6, <1>7, <1>8, <2>1, RepostAssumption, GraceAssumption, TimeoutAssumption
         DEF RepostBeforeTimeout
    <2>2. CASE ~ AtRest(d)
      BY <1>5, <1>6, <1>7, <1>8, <1>9, <2>2, RepostAssumption, GraceAssumption,
         TimeoutAssumption DEF RepostBeforeTimeout
    <2> QED
      BY <2>1, <2>2
  <1>11. KeepsPosting(d)' /\ Accepted(posts[d])'
    <2>1. since'[d] # Never
      BY <1>5, <1>6, RepostAssumption DEF Never
    <2> QED
      BY <1>2, <1>4, <2>1 DEF KeepsPosting, KeptFor, Accepted
  <1>12. AtRest(d)' => Listed'[d] <= since'[d]
    BY <1>2, <1>5, <1>6, <1>7, <1>8 DEF AtRest
  <1>13. ASSUME NEW w \in Workers, http'[d] = Processing(w)
         PROVE  run'[w].named /\ (Uploaded(w)' => Listed'[d] <= since'[d])
    <2>1. http[d] = Processing(w)
      BY <1>2, <1>13
    <2>2. run'[w].named = run[w].named /\ Uploaded(w)' = Uploaded(w)
      BY <1>1, <1>2, TickRuns DEF Uploaded, Busy
    <2>3. run[w].named /\ (Uploaded(w) => Listed[d] <= since[d])
      BY <1>4, <2>1 DEF KeptFor
    <2> QED
      BY <1>5, <1>6, <1>7, <1>8, <2>2, <2>3
  <1> QED
    BY <1>4, <1>8, <1>10, <1>11, <1>12, <1>13 DEF KeptFor

LEMMA NextKept == RepostBeforeTimeout /\ KeptInv /\ [Next]_vars => KeptInv'
  <1> SUFFICES ASSUME RepostBeforeTimeout, KeptInv, [Next]_vars PROVE KeptInv'
    OBVIOUS
  <1>1. ListInv /\ ListInv'
    BY NextListInv DEF KeptInv
  <1>2. RunsUpload'
    BY <1>1, ServerStep, NextRunsUpload DEF KeptInv, ListInv, WholeInv, FreshInv
  <1> SUFFICES ASSUME NEW d \in Clients, kept'[d] PROVE KeptFor(d)'
    BY <1>1, <1>2 DEF KeptInv
  <1>3. CASE UNCHANGED vars
    BY <1>1, <1>3, StillKept DEF vars, clientVars
  <1>4. CASE TimePasses
    BY <1>1, <1>4, TimeKept
  <1>5. ASSUME NEW c \in Clients, ClientStep(c) PROVE KeptFor(d)'
    <2>1. CASE \E w \in Workers : Request(c, w)
      BY <1>1, <2>1, BeginKept
    <2>2. CASE ~ \E w \in Workers : Request(c, w)
      <3>1. UNCHANGED serverVars
        BY <1>5, <2>2 DEF ClientStep, SetField, ClearFields, DownloadTable, UploadTable,
                          Update, Connect, ConnectFails, Lose
      <3> QED
        BY <1>1, <1>5, <3>1, ClientKept
    <2> QED
      BY <2>1, <2>2
  <1>6. ASSUME NEW w \in Workers, WorkerStep(w) PROVE KeptFor(d)'
    BY <1>1, <1>6, EndOfRunKept, WithinRunKept DEF WorkerStep
  <1>7. ASSUME NEW w \in Workers, NEW k \in Posters, NEW query \in Asked,
               OtherRequest(w, k, query)
        PROVE  KeptFor(d)'
    BY <1>1, <1>7, BeginKept
  <1> QED
    BY <1>3, <1>4, <1>5, <1>6, <1>7 DEF Next

\* KeptAlive: a row that its client posts again whenever PHPConnections' time has
\* come stays in the list, however long that goes on, if that time and the one a
\* post may be under way are shorter than the server's timeout and nothing comes
\* in the way.
THEOREM RepostsKeepRows ==
    ASSUME RepostBeforeTimeout
    PROVE  Spec => []KeptAlive
  <1>1. Init => KeptInv
    <2>1. NoRun.named = FALSE
      BY DEF NoRun
    <2>2. Init => RunsUpload
      BY <2>1 DEF Init, ServerInit, RunsUpload
    <2>3. Init => \A c \in Clients : ~ kept[c]
      BY DEF Init
    <2> QED
      BY <2>2, <2>3, InitList DEF KeptInv
  <1>2. KeptInv => KeptAlive
    BY DEF KeptInv, KeptFor, KeptAlive
  <1>3. KeptInv /\ [Next]_vars => KeptInv'
    BY NextKept
  <1> QED
    BY <1>1, <1>2, <1>3, PTL DEF Spec
=============================================================================
