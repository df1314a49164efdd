------------------------ MODULE RecordManager_proofs ------------------------
(***************************************************************************)
(* Proofs about RecordManager, for any posters, timeout and number of runs *)
(* of the script at a time.  First what the operators on tables return;    *)
(* then what rows can be shown, however runs meet; then what holds as long *)
(* as they keep out of the way of each other's writing: the file is whole, *)
(* and the list implements LeaseList.                                      *)
(***************************************************************************)
EXTENDS RecordManager, FiniteSetTheorems, TLAPS

---------------------------------------------------------------------------
(* Tables.                                                                 *)

LEMMA OldestIsNat == Oldest \in Nat /\ Timeout \in Nat /\ MaxSpan \in Nat
  BY TimeoutAssumption, SpanAssumption DEF Oldest

\* A table is a function from some of the posters to ages.
LEMMA TableFacts ==
    ASSUME NEW t
    PROVE  t \in Tables <=> /\ DOMAIN t \subseteq Posters
                            /\ t \in [DOMAIN t -> Ages]
  <1>1. ASSUME t \in Tables
        PROVE  DOMAIN t \subseteq Posters /\ t \in [DOMAIN t -> Ages]
    <2>1. PICK D \in SUBSET Posters : t \in [D -> Ages]
      BY <1>1 DEF Tables
    <2>2. DOMAIN t = D
      BY <2>1
    <2> QED
      BY <2>1, <2>2
  <1>2. ASSUME DOMAIN t \subseteq Posters, t \in [DOMAIN t -> Ages]
        PROVE  t \in Tables
    BY <1>2 DEF Tables
  <1> QED
    BY <1>1, <1>2

LEMMA NoRecordsFacts ==
    /\ NoRecords \in Tables
    /\ DOMAIN NoRecords = {}
  <1>1. DOMAIN NoRecords = {}
    BY DEF NoRecords
  <1>2. NoRecords \in [{} -> Ages]
    BY DEF NoRecords
  <1> QED
    BY <1>1, <1>2, TableFacts

LEMMA FreshFacts ==
    ASSUME NEW t \in Tables
    PROVE  /\ Fresh(t) \in Tables
           /\ DOMAIN Fresh(t) = {p \in DOMAIN t : t[p] <= Timeout}
           /\ \A k \in DOMAIN Fresh(t) : Fresh(t)[k] = t[k] /\ t[k] <= Timeout
  <1>1. DOMAIN Fresh(t) = {p \in DOMAIN t : t[p] <= Timeout}
    BY DEF Fresh
  <1>2. \A k \in DOMAIN Fresh(t) : Fresh(t)[k] = t[k] /\ t[k] <= Timeout
    BY <1>1 DEF Fresh
  <1>3. DOMAIN t \subseteq Posters /\ t \in [DOMAIN t -> Ages]
    BY TableFacts
  <1>4. Fresh(t) \in [DOMAIN Fresh(t) -> Ages]
    BY <1>1, <1>3 DEF Fresh
  <1> QED
    BY <1>1, <1>2, <1>3, <1>4, TableFacts

LEMMA WithoutFacts ==
    ASSUME NEW t \in Tables, NEW gone
    PROVE  /\ Without(t, gone) \in Tables
           /\ DOMAIN Without(t, gone) = DOMAIN t \ gone
           /\ \A k \in DOMAIN Without(t, gone) : Without(t, gone)[k] = t[k]
  <1>1. DOMAIN Without(t, gone) = DOMAIN t \ gone
    BY DEF Without
  <1>2. \A k \in DOMAIN Without(t, gone) : Without(t, gone)[k] = t[k]
    BY <1>1 DEF Without
  <1>3. DOMAIN t \subseteq Posters /\ t \in [DOMAIN t -> Ages]
    BY TableFacts
  <1>4. Without(t, gone) \in [DOMAIN Without(t, gone) -> Ages]
    BY <1>1, <1>3 DEF Without
  <1> QED
    BY <1>1, <1>2, <1>3, <1>4, TableFacts

LEMMA StampedFacts ==
    ASSUME NEW t \in Tables, NEW k \in Posters
    PROVE  /\ Stamped(t, k) \in Tables
           /\ DOMAIN Stamped(t, k) = DOMAIN t \cup {k}
           /\ \A p \in DOMAIN t \cup {k} : Stamped(t, k)[p] = IF p = k THEN 0 ELSE t[p]
  <1>1. DOMAIN Stamped(t, k) = DOMAIN t \cup {k}
    BY DEF Stamped
  <1>2. \A p \in DOMAIN t \cup {k} : Stamped(t, k)[p] = IF p = k THEN 0 ELSE t[p]
    BY DEF Stamped
  <1>3. DOMAIN t \subseteq Posters /\ t \in [DOMAIN t -> Ages]
    BY TableFacts
  <1>4. 0 \in Ages
    BY OldestIsNat DEF Ages
  <1>5. Stamped(t, k) \in [DOMAIN t \cup {k} -> Ages]
    BY <1>3, <1>4 DEF Stamped
  <1> QED
    BY <1>1, <1>2, <1>3, <1>5, TableFacts

LEMMA OlderFacts ==
    ASSUME NEW t \in Tables
    PROVE  /\ Older(t, Oldest) \in Tables
           /\ DOMAIN Older(t, Oldest) = DOMAIN t
           /\ \A k \in DOMAIN t : /\ Older(t, Oldest)[k]
                                       = IF t[k] < Oldest THEN t[k] + 1 ELSE Oldest
                                  /\ Older(t, Oldest)[k] <= t[k] + 1
                                  /\ t[k] \in Nat
  <1>1. DOMAIN t \subseteq Posters /\ t \in [DOMAIN t -> Ages]
    BY TableFacts
  <1>2. DOMAIN Older(t, Oldest) = DOMAIN t
    BY DEF Older
  <1>3. ASSUME NEW k \in DOMAIN t
        PROVE  /\ Older(t, Oldest)[k] = IF t[k] < Oldest THEN t[k] + 1 ELSE Oldest
               /\ Older(t, Oldest)[k] \in Ages
               /\ Older(t, Oldest)[k] <= t[k] + 1
               /\ t[k] \in Nat
    <2>1. t[k] \in 0..Oldest
      BY <1>1 DEF Ages
    <2>2. Older(t, Oldest)[k] = IF t[k] < Oldest THEN t[k] + 1 ELSE Oldest
      BY DEF Older
    <2> QED
      BY <2>1, <2>2, OldestIsNat DEF Ages
  <1>4. Older(t, Oldest) \in [DOMAIN t -> Ages]
    BY <1>2, <1>3 DEF Older
  <1> QED
    BY <1>1, <1>2, <1>3, <1>4, TableFacts

LEMMA OlderNoRecords == Older(NoRecords, Oldest) = NoRecords
  <1> DEFINE u == Older(NoRecords, Oldest)
  <1>1. DOMAIN u = {} /\ u = [k \in {} |-> u[k]]
    BY NoRecordsFacts DEF Older
  <1> QED
    BY <1>1, NoRecordsFacts DEF NoRecords

\* The number of records is a number: there are finitely many posters.
LEMMA SizeIsNat ==
    ASSUME NEW t \in Tables
    PROVE  Size(t) \in Nat
  <1>1. DOMAIN t \subseteq Posters
    BY TableFacts
  <1>2. IsFiniteSet(DOMAIN t)
    BY <1>1, PostersAssumption, FS_Subset
  <1> QED
    BY <1>2, FS_CardinalityType DEF Size

\* The end of a file is right behind the array and not in it.
LEMMA EndFacts ==
    ASSUME NEW t \in Tables
    PROVE  EndOf(t) \in Nat /\ EndOf(t) \notin Body(t)
  <1> DEFINE n == Size(t)
  <1>1. n \in Nat
    BY SizeIsNat
  <1>2. EndOf(t) = n + 3 /\ Body(t) = 2..n + 2
    BY DEF EndOf, Body
  <1> HIDE DEF n
  <1> QED
    BY <1>1, <1>2

---------------------------------------------------------------------------
(* Types.                                                                  *)

FileRecords == [exists : BOOLEAN, head : BOOLEAN, written : BOOLEAN,
                array : Tables, ends : SUBSET Nat]

RunRecords ==
    [at : Writing \cup Including \cup {"create", "answer"}, poster : Posters,
     query : Queries, named : BOOLEAN, then : {"", "download", "upload", "answer"},
     records : Tables]

\* A run that is somewhere in the script has the fields of a request.
LEMMA ActiveRun ==
    ASSUME ServerTypeOK, NEW w \in Workers, run[w].at # "idle"
    PROVE  run[w] \in RunRecords
  <1>1. run[w] \in Runs
    BY DEF ServerTypeOK
  <1>2. NoRun.at = "idle"
    BY DEF NoRun
  <1> QED
    BY <1>1, <1>2 DEF Runs, RunRecords

LEMMA IdleRun ==
    ASSUME ServerTypeOK, NEW w \in Workers
    PROVE  /\ run[w] = NoRun <=> run[w].at = "idle"
           /\ run[w].at \in Writing \cup Including \cup {"create", "answer", "idle"}
  <1>1. run[w] \in Runs
    BY DEF ServerTypeOK
  <1>2. NoRun.at = "idle"
    BY DEF NoRun
  <1> QED
    BY <1>1, <1>2 DEF Runs, Writing, Including

LEMMA ReadFacts ==
    ASSUME ServerTypeOK
    PROVE  Read(file) \in Tables
  BY NoRecordsFacts DEF ServerTypeOK, Read

LEMMA FirstOfFacts ==
    ASSUME NEW query \in Queries
    PROVE  FirstOf(query) \in {"download", "upload", "answer"}
  BY DEF FirstOf, Queries

LEMMA EmptyFacts == EmptyFile \in FileRecords /\ EmptyFile.array = NoRecords
  BY NoRecordsFacts DEF EmptyFile, FileRecords

LEMMA FirstFiles ==
    \A f \in {MissingFile, ShippedFile} :
        f \in FileRecords /\ f.array = NoRecords /\ Readable(f) /\ Read(f) = NoRecords
  <1>1. EndOf(NoRecords) \in Nat /\ EndOf(NoRecords) \notin Body(NoRecords)
    BY NoRecordsFacts, EndFacts
  <1>2. /\ MissingFile \in FileRecords
        /\ MissingFile.array = NoRecords /\ ~ MissingFile.head
    BY NoRecordsFacts DEF MissingFile, EmptyFile, FileRecords
  <1>3. /\ ShippedFile \in FileRecords
        /\ ShippedFile.array = NoRecords
        /\ ShippedFile.written /\ ShippedFile.ends = {EndOf(NoRecords)}
    BY <1>1, NoRecordsFacts DEF ShippedFile, EmptyFile, FileRecords
  <1> QED
    BY <1>1, <1>2, <1>3 DEF Readable, Read

LEMMA InitTypes == ServerInit => ServerTypeOK
  <1> SUFFICES ASSUME ServerInit PROVE ServerTypeOK
    OBVIOUS
  <1>1. file \in FileRecords
    BY FirstFiles DEF ServerInit
  <1>2. run \in [Workers -> Runs]
    BY DEF ServerInit, Runs
  <1> QED
    BY <1>1, <1>2, OldestIsNat DEF ServerInit, ServerTypeOK, FileRecords

LEMMA BeginTypes ==
    ASSUME ServerTypeOK, NEW w \in Workers, NEW k \in Posters, NEW query \in Queries,
           NEW named \in BOOLEAN, Begin(w, k, query, named)
    PROVE  ServerTypeOK'
  <1>1. (named /\ query \in Uploads) \in BOOLEAN
    OBVIOUS
  <1>2. NewRun(k, query, named) \in RunRecords
    BY <1>1, NoRecordsFacts DEF NewRun, RunRecords, Including
  <1>3. run' \in [Workers -> Runs]
    BY <1>2 DEF ServerTypeOK, Begin, Runs, RunRecords
  <1> QED
    BY <1>3 DEF ServerTypeOK, Begin

LEMMA CreateTypes ==
    ASSUME ServerTypeOK, NEW w \in Workers, Create(w)
    PROVE  ServerTypeOK'
  <1>1. run[w] \in RunRecords
    BY ActiveRun DEF Create
  <1> DEFINE r == [run[w] EXCEPT !.at = "expire"]
  <1>2. r \in RunRecords
    BY <1>1 DEF RunRecords, Including
  <1>3. run' = [run EXCEPT ![w] = r]
    BY DEF Create
  <1>4. file' \in FileRecords
    BY EmptyFacts DEF Create, Truncated
  <1>5. run' \in [Workers -> Runs]
    BY <1>2, <1>3 DEF ServerTypeOK, Runs, RunRecords
  <1>6. alone' \in BOOLEAN
    BY DEF Create
  <1> QED
    BY <1>4, <1>5, <1>6 DEF ServerTypeOK, Create, FileRecords

LEMMA ExpireTypes ==
    ASSUME ServerTypeOK, NEW w \in Workers, Expire(w)
    PROVE  ServerTypeOK'
  <1>1. run[w] \in RunRecords
    BY ActiveRun DEF Expire
  <1>2. Read(file) \in Tables /\ Fresh(Read(file)) \in Tables
    BY ReadFacts, FreshFacts
  <1>3. FirstOf(run[w].query) \in {"download", "upload", "answer"}
    BY <1>1, FirstOfFacts DEF RunRecords
  <1>4. \E r \in RunRecords : run' = [run EXCEPT ![w] = r]
    <2>1. CASE Read(file) = NoRecords
      <3> DEFINE r == [run[w] EXCEPT !.at = FirstOf(run[w].query)]
      <3>1. r \in RunRecords
        BY <1>1, <1>3 DEF RunRecords, Including
      <3>2. run' = [run EXCEPT ![w] = r]
        BY <2>1 DEF Expire
      <3> QED
        BY <3>1, <3>2
    <2>2. CASE Read(file) # NoRecords
      <3> DEFINE r == [run[w] EXCEPT !.at = "check", !.then = FirstOf(run[w].query),
                                     !.records = Fresh(Read(file))]
      <3>1. r \in RunRecords
        BY <1>1, <1>2, <1>3 DEF RunRecords, Writing
      <3>2. run' = [run EXCEPT ![w] = r]
        BY <2>2 DEF Expire
      <3> QED
        BY <3>1, <3>2
    <2> QED
      BY <2>1, <2>2
  <1>5. run' \in [Workers -> Runs]
    BY <1>4 DEF ServerTypeOK, Runs, RunRecords
  <1> QED
    BY <1>5 DEF ServerTypeOK, Expire, Includes

LEMMA CheckTypes ==
    ASSUME ServerTypeOK, NEW w \in Workers, Check(w)
    PROVE  ServerTypeOK'
  <1>1. run[w] \in RunRecords
    BY ActiveRun DEF Check
  <1>2. PICK gone \in SUBSET Expired(run[w].records) :
            run' = [run EXCEPT ![w].at = "open",
                               ![w].records = Without(run[w].records, gone)]
    BY DEF Check
  <1>3. Without(run[w].records, gone) \in Tables
    BY <1>1, WithoutFacts DEF RunRecords
  <1> DEFINE r == [run[w] EXCEPT !.at = "open",
                                 !.records = Without(run[w].records, gone)]
  <1>4. r \in RunRecords
    BY <1>1, <1>3 DEF RunRecords, Writing
  <1>5. run' = [run EXCEPT ![w] = r]
    BY <1>2
  <1>6. run' \in [Workers -> Runs]
    BY <1>4, <1>5 DEF ServerTypeOK, Runs, RunRecords
  <1> QED
    BY <1>6 DEF ServerTypeOK, Check

\* The steps that only move a run on: its fields stay, or are emptied.
LEMMA OpenTypes ==
    ASSUME ServerTypeOK, NEW w \in Workers, Open(w)
    PROVE  ServerTypeOK'
  <1>1. run[w] \in RunRecords
    BY ActiveRun DEF Open
  <1> DEFINE r == [run[w] EXCEPT !.at = "head"]
  <1>2. r \in RunRecords
    BY <1>1 DEF RunRecords, Writing
  <1>3. run' = [run EXCEPT ![w] = r]
    BY DEF Open
  <1>4. file' \in FileRecords
    BY EmptyFacts DEF Open, Truncated
  <1>5. run' \in [Workers -> Runs]
    BY <1>2, <1>3 DEF ServerTypeOK, Runs, RunRecords
  <1> QED
    BY <1>4, <1>5 DEF ServerTypeOK, Open, FileRecords

LEMMA WriteHeadTypes ==
    ASSUME ServerTypeOK, NEW w \in Workers, WriteHead(w)
    PROVE  ServerTypeOK'
  <1>1. run[w] \in RunRecords
    BY ActiveRun DEF WriteHead
  <1> DEFINE r == [run[w] EXCEPT !.at = "array"]
  <1>2. r \in RunRecords
    BY <1>1 DEF RunRecords, Writing
  <1>3. run' = [run EXCEPT ![w] = r]
    BY DEF WriteHead
  <1>4. file' \in FileRecords
    BY DEF ServerTypeOK, WriteHead, WithHead, FileRecords
  <1>5. run' \in [Workers -> Runs]
    BY <1>2, <1>3 DEF ServerTypeOK, Runs, RunRecords
  <1> QED
    BY <1>4, <1>5 DEF ServerTypeOK, WriteHead, FileRecords

LEMMA WriteArrayTypes ==
    ASSUME ServerTypeOK, NEW w \in Workers, WriteArray(w)
    PROVE  ServerTypeOK'
  <1>1. run[w] \in RunRecords
    BY ActiveRun DEF WriteArray
  <1> DEFINE r == [run[w] EXCEPT !.at = "end"]
  <1>2. r \in RunRecords
    BY <1>1 DEF RunRecords, Writing
  <1>3. run' = [run EXCEPT ![w] = r]
    BY DEF WriteArray
  <1>4. file' \in FileRecords
    BY <1>1 DEF ServerTypeOK, WriteArray, WithArray, RunRecords, FileRecords
  <1>5. run' \in [Workers -> Runs]
    BY <1>2, <1>3 DEF ServerTypeOK, Runs, RunRecords
  <1> QED
    BY <1>4, <1>5 DEF ServerTypeOK, WriteArray, FileRecords

LEMMA WriteEndTypes ==
    ASSUME ServerTypeOK, NEW w \in Workers, WriteEnd(w), run[w].then # ""
    PROVE  ServerTypeOK'
  <1>1. run[w] \in RunRecords
    BY ActiveRun DEF WriteEnd
  <1> DEFINE r == [run[w] EXCEPT !.at = run[w].then, !.then = "", !.records = NoRecords]
  <1>2. r \in RunRecords
    BY <1>1, NoRecordsFacts DEF RunRecords, Including
  <1>3. run' = [run EXCEPT ![w] = r]
    BY DEF WriteEnd
  <1>5. EndOf(run[w].records) \in Nat
    BY <1>1, EndFacts DEF RunRecords
  <1>6. file' \in FileRecords
    BY <1>5 DEF ServerTypeOK, WriteEnd, WithEnd, FileRecords
  <1>7. run' \in [Workers -> Runs]
    BY <1>2, <1>3 DEF ServerTypeOK, Runs, RunRecords
  <1> QED
    BY <1>6, <1>7 DEF ServerTypeOK, WriteEnd, FileRecords

LEMMA DownloadTypes ==
    ASSUME ServerTypeOK, NEW w \in Workers, Download(w)
    PROVE  ServerTypeOK'
  <1>1. run[w] \in RunRecords
    BY ActiveRun DEF Download
  <1> DEFINE r == [run[w] EXCEPT !.at = IF run[w].query = "upDown" THEN "upload"
                                                                   ELSE "answer"]
  <1>2. r \in RunRecords
    BY <1>1 DEF RunRecords, Including
  <1>3. run' = [run EXCEPT ![w] = r]
    BY DEF Download
  <1>4. run' \in [Workers -> Runs]
    BY <1>2, <1>3 DEF ServerTypeOK, Runs, RunRecords
  <1> QED
    BY <1>4 DEF ServerTypeOK, Download, Includes

LEMMA UploadTypes ==
    ASSUME ServerTypeOK, NEW w \in Workers, Upload(w)
    PROVE  ServerTypeOK'
  <1>1. run[w] \in RunRecords
    BY ActiveRun DEF Upload
  <1>2. Stamped(Read(file), run[w].poster) \in Tables
    BY <1>1, ReadFacts, StampedFacts DEF RunRecords
  <1>3. \E r \in RunRecords : run' = [run EXCEPT ![w] = r]
    <2>1. CASE run[w].named
      <3> DEFINE r == [run[w] EXCEPT !.at = "open", !.then = "answer",
                                     !.records = Stamped(Read(file), run[w].poster)]
      <3>1. r \in RunRecords
        BY <1>1, <1>2 DEF RunRecords, Writing
      <3>2. run' = [run EXCEPT ![w] = r]
        BY <2>1 DEF Upload
      <3> QED
        BY <3>1, <3>2
    <2>2. CASE ~ run[w].named
      <3> DEFINE r == [run[w] EXCEPT !.at = "answer"]
      <3>1. r \in RunRecords
        BY <1>1 DEF RunRecords
      <3>2. run' = [run EXCEPT ![w] = r]
        BY <2>2 DEF Upload
      <3> QED
        BY <3>1, <3>2
    <2> QED
      BY <2>1, <2>2
  <1>4. run' \in [Workers -> Runs]
    BY <1>3 DEF ServerTypeOK, Runs, RunRecords
  <1> QED
    BY <1>4 DEF ServerTypeOK, Upload, Includes

LEMMA EndTypes ==
    ASSUME ServerTypeOK, NEW w \in Workers, Answer(w) \/ ParseError(w) \/ Die(w)
    PROVE  ServerTypeOK'
  <1>1. run' = [run EXCEPT ![w] = NoRun] /\ file' = file /\ span' \in {0, span}
    BY DEF Answer, ParseError, Die, Ends
  <1>2. alone' \in BOOLEAN
    BY DEF ServerTypeOK, Answer, ParseError, Die
  <1>3. run' \in [Workers -> Runs]
    BY <1>1 DEF ServerTypeOK, Runs
  <1>4. span' \in 0..MaxSpan
    BY <1>1, OldestIsNat DEF ServerTypeOK
  <1> QED
    BY <1>1, <1>2, <1>3, <1>4 DEF ServerTypeOK

\* Time changes nothing of a run but the ages of the rows it holds.
LEMMA TickRuns ==
    ASSUME ServerTypeOK, Tick, NEW w \in Workers
    PROVE  /\ run'[w] \in Runs
           /\ run'[w].at = run[w].at /\ run'[w].then = run[w].then
           /\ run'[w].poster = run[w].poster /\ run'[w].query = run[w].query
           /\ run'[w].named = run[w].named
           /\ run'[w].records = Older(run[w].records, Oldest)
           /\ run'[w] = NoRun <=> run[w] = NoRun
  <1> DEFINE t == Older(run[w].records, Oldest)
             r == [run[w] EXCEPT !.records = t]
  <1>1. run'[w] = r
    BY DEF Tick
  <1>2. CASE run[w] = NoRun
    <2>0. NoRun.records = NoRecords
      BY Zenon DEF NoRun
    <2>1. run[w].records = NoRecords
      BY <1>2, <2>0
    <2>3. t = NoRecords
      BY <2>1, OlderNoRecords
    <2>4. r = NoRun
      <3> DEFINE e == NoRun
      <3>1. e = [x \in DOMAIN e |-> e[x]]
        BY DEF NoRun
      <3>2. e.records = NoRecords
        BY <2>0
      <3> HIDE DEF e
      <3>3. [e EXCEPT !.records = NoRecords] = e
        BY <3>1, <3>2
      <3> QED
        BY <1>2, <2>3, <3>3 DEF e
    <2> QED
      BY <1>1, <1>2, <2>1, <2>3, <2>4 DEF Runs
  <1>3. CASE run[w] # NoRun
    <2>1. run[w] \in RunRecords
      BY <1>3 DEF ServerTypeOK, Runs, RunRecords
    <2>2. t \in Tables
      BY <2>1, OlderFacts DEF RunRecords
    <2>3. /\ r \in RunRecords /\ r.records = t
          /\ r.at = run[w].at /\ r.then = run[w].then
          /\ r.poster = run[w].poster /\ r.query = run[w].query
          /\ r.named = run[w].named
      <3> HIDE DEF t
      <3> QED
        BY <2>1, <2>2 DEF RunRecords
    <2>4. r # NoRun
      <3>1. r.at # "idle" /\ NoRun.at = "idle"
        BY <2>1, <2>3 DEF RunRecords, Writing, Including, NoRun
      <3> QED
        BY <3>1
    <2> HIDE DEF r
    <2> QED
      BY <1>1, <1>3, <2>3, <2>4 DEF Runs, RunRecords
  <1> QED
    BY <1>2, <1>3

\* ... and nothing of the file but the ages of the rows in it.
LEMMA TickFile ==
    ASSUME ServerTypeOK, Tick
    PROVE  /\ file' \in FileRecords
           /\ file'.exists = file.exists
           /\ file'.head = file.head /\ file'.written = file.written
           /\ file'.ends = file.ends /\ file'.array = Older(file.array, Oldest)
  <1>1. Older(file.array, Oldest) \in Tables
    BY OlderFacts DEF ServerTypeOK
  <1> QED
    BY <1>1 DEF ServerTypeOK, Tick, OlderFile, FileRecords

LEMMA TickTypes ==
    ASSUME ServerTypeOK, Tick
    PROVE  ServerTypeOK'
  <1>1. file' \in FileRecords
    BY TickFile
  <1>2. run' \in [Workers -> Runs]
    BY TickRuns DEF Tick
  <1>3. span' \in 0..MaxSpan
    BY OldestIsNat DEF ServerTypeOK, Tick
  <1> QED
    BY <1>1, <1>2, <1>3 DEF ServerTypeOK, Tick, FileRecords

---------------------------------------------------------------------------
(* What is shown.  While the list is not at rest, all that a run is about   *)
(* to write, and all that it can read after its expireRecords, was not yet *)
(* too old when the list was last at rest: some run since has found it so. *)

NextSet == \A w \in Workers : Busy(w) => run[w].then # ""

\* No row of t had expired when the list was last at rest.
InTime(t) == \A k \in DOMAIN t : t[k] <= Timeout + span

WritesFresh == \A w \in Workers : Busy(w) => InTime(run[w].records)

OpenedFresh ==
    \A w \in Workers : run[w].at \in {"head", "array", "end"} => InTime(file.array)

ReadsFresh ==
    \A w \in Workers : run[w].at \in {"download", "upload"} => InTime(Read(file))

\* Until the file is created, runs are about to create it.
NotCreated ==
    ~ file.exists =>
        /\ ~ file.head /\ file.array = NoRecords
        /\ \A w \in Workers : run[w].at \in {"idle", "create"}

FreshInv ==
    ServerTypeOK /\ NextSet /\ WritesFresh /\ OpenedFresh /\ ReadsFresh /\ NotCreated

LEMMA InitFresh == ServerInit => FreshInv
  <1> SUFFICES ASSUME ServerInit PROVE FreshInv
    OBVIOUS
  <1>1. \A w \in Workers : run[w].at = "idle"
    BY DEF ServerInit, NoRun
  <1>2. ~ file.exists => ~ file.head /\ file.array = NoRecords
    BY DEF ServerInit, MissingFile, ShippedFile, EmptyFile
  <1> QED
    BY <1>1, <1>2, InitTypes DEF FreshInv, NextSet, WritesFresh, OpenedFresh,
                           ReadsFresh, NotCreated, Busy, Writing

\* Steps of one run w that leave the time and the rows in the file alone, and
\* whose run, if it is busy afterwards, writes what it may.
LEMMA StepFresh ==
    ASSUME FreshInv, NEW w \in Workers, ServerTypeOK', span' = span,
           \A v \in Workers : v # w => run'[v] = run[v],
           Busy(w)' => run'[w].then # "" /\ InTime(run'[w].records),
           run'[w].at \in {"head", "array", "end"} => InTime(file'.array),
           run'[w].at \in {"download", "upload"} => InTime(Read(file)'),
           InTime(file.array) => InTime(file'.array),
           InTime(Read(file)) => InTime(Read(file)'),
           NotCreated'
    PROVE  FreshInv'
  <1>1. NextSet' /\ WritesFresh'
    BY DEF FreshInv, NextSet, WritesFresh, InTime, Busy
  <1>2. OpenedFresh'
    BY DEF FreshInv, OpenedFresh, InTime
  <1>3. ReadsFresh'
    BY DEF FreshInv, ReadsFresh, InTime
  <1> QED
    BY <1>1, <1>2, <1>3 DEF FreshInv

LEMMA BeginFresh ==
    ASSUME FreshInv, NEW w \in Workers, NEW k \in Posters, NEW query \in Queries,
           NEW named \in BOOLEAN, Begin(w, k, query, named)
    PROVE  FreshInv'
  <1>1. run' = [run EXCEPT ![w] = NewRun(k, query, named)] /\ file' = file /\ span' = span
    BY DEF Begin
  <1>2. NewRun(k, query, named).at = IF file.exists THEN "expire" ELSE "create"
    BY DEF NewRun
  <1>3. /\ \A v \in Workers : v # w => run'[v] = run[v]
        /\ run'[w].at = IF file.exists THEN "expire" ELSE "create"
    BY <1>1, <1>2 DEF FreshInv, ServerTypeOK
  <1>4. ServerTypeOK'
    BY BeginTypes DEF FreshInv
  <1>5. NotCreated'
    BY <1>1, <1>3 DEF FreshInv, NotCreated
  <1>6. run'[w].at \in {"expire", "create"} /\ ~ Busy(w)'
    BY <1>3 DEF Busy, Writing
  <1>7. file'.array = file.array /\ Read(file)' = Read(file) /\ span' = span
    BY <1>1 DEF Read
  <1> QED
    BY <1>3, <1>4, <1>5, <1>6, <1>7, StepFresh

LEMMA CreateFresh ==
    ASSUME FreshInv, NEW w \in Workers, Create(w)
    PROVE  FreshInv'
  <1>1. run[w] \in RunRecords
    BY ActiveRun DEF FreshInv, Create
  <1>2. /\ run'[w].at = "expire" /\ span' = span
        /\ \A v \in Workers : v # w => run'[v] = run[v]
    BY <1>1 DEF Create, FreshInv, ServerTypeOK, RunRecords
  <1>3. file'.array = NoRecords /\ file'.exists /\ Read(file)' = NoRecords
    BY DEF Create, Truncated, EmptyFile, Read
  <1>4. ServerTypeOK'
    BY CreateTypes DEF FreshInv
  <1>5. InTime(NoRecords)
    BY NoRecordsFacts DEF InTime
  <1>6. NotCreated'
    BY <1>3 DEF NotCreated
  <1> QED
    BY <1>2, <1>3, <1>4, <1>5, <1>6, StepFresh DEF Busy, Writing

\* A run that includes the file has created it, or found it.
LEMMA ExistsFresh ==
    ASSUME FreshInv, NEW w \in Workers, run[w].at \notin {"idle", "create"}
    PROVE  file.exists
  BY DEF FreshInv, NotCreated

LEMMA ExpireFresh ==
    ASSUME FreshInv, NEW w \in Workers, Expire(w)
    PROVE  FreshInv'
  <1>1. run[w] \in RunRecords
    BY ActiveRun DEF FreshInv, Expire
  <1>2. Read(file) \in Tables
    BY ReadFacts DEF FreshInv
  <1>3. FirstOf(run[w].query) \in {"download", "upload", "answer"}
    BY <1>1, FirstOfFacts DEF RunRecords
  <1>4. file' = file /\ span' = span
    BY DEF Expire, Includes
  <1>5. ServerTypeOK'
    BY ExpireTypes DEF FreshInv
  <1>6. \A v \in Workers : v # w => run'[v] = run[v]
    BY DEF Expire, FreshInv, ServerTypeOK
  <1>7. NotCreated'
    BY <1>4, ExistsFresh DEF Expire, NotCreated
  <1>8. CASE Read(file) = NoRecords
    <2>1. run'[w].at = FirstOf(run[w].query)
      BY <1>1, <1>8 DEF Expire, FreshInv, ServerTypeOK, RunRecords
    <2>2. InTime(Read(file))
      BY <1>8, NoRecordsFacts DEF InTime
    <2> QED
      BY <1>3, <1>4, <1>5, <1>6, <1>7, <2>1, <2>2, StepFresh DEF Busy, Writing, Read
  <1>9. CASE Read(file) # NoRecords
    <2>1. /\ run'[w].at = "check"
          /\ run'[w].then = FirstOf(run[w].query)
          /\ run'[w].records = Fresh(Read(file))
      BY <1>1, <1>9 DEF Expire, FreshInv, ServerTypeOK, RunRecords
    <2> DEFINE t == Read(file)
               f == Fresh(Read(file))
    <2>2. \A k \in DOMAIN f : f[k] = t[k] /\ t[k] <= Timeout /\ k \in DOMAIN t
      BY <1>2, FreshFacts
    <2>3. t \in [DOMAIN t -> Ages] /\ span \in 0..MaxSpan
      BY <1>2, TableFacts DEF FreshInv, ServerTypeOK
    <2>4. InTime(f)
      <3> HIDE DEF f, t
      <3> QED
        BY <2>2, <2>3, OldestIsNat DEF InTime, Ages
    <2> HIDE DEF f
    <2> QED
      BY <1>3, <1>4, <1>5, <1>6, <1>7, <2>1, <2>4, StepFresh DEF Busy, Writing, Read, f
  <1> QED
    BY <1>8, <1>9

LEMMA CheckFresh ==
    ASSUME FreshInv, NEW w \in Workers, Check(w)
    PROVE  FreshInv'
  <1>1. run[w] \in RunRecords
    BY ActiveRun DEF FreshInv, Check
  <1>2. PICK gone \in SUBSET Expired(run[w].records) :
            run' = [run EXCEPT ![w].at = "open",
                               ![w].records = Without(run[w].records, gone)]
    BY DEF Check
  <1> DEFINE t == run[w].records
             u == Without(t, gone)
  <1>3. /\ run'[w].at = "open" /\ run'[w].then = run[w].then /\ run'[w].records = u
        /\ \A v \in Workers : v # w => run'[v] = run[v]
    BY <1>1, <1>2 DEF FreshInv, ServerTypeOK, RunRecords
  <1>4. file' = file /\ span' = span /\ run[w].at = "check"
    BY DEF Check
  <1>5. ServerTypeOK'
    BY CheckTypes DEF FreshInv
  <1>6. InTime(t) /\ run[w].then # ""
    BY <1>4 DEF FreshInv, WritesFresh, NextSet, Busy, Writing
  <1>7. InTime(u)
    <2>1. DOMAIN u \subseteq DOMAIN t /\ \A k \in DOMAIN u : u[k] = t[k]
      <3>1. t \in Tables
        BY <1>1 DEF RunRecords
      <3> HIDE DEF t
      <3> QED
        BY <3>1, WithoutFacts
    <2> HIDE DEF t, u
    <2> QED
      BY <1>6, <2>1 DEF InTime
  <1>8. NotCreated'
    BY <1>4, ExistsFresh DEF NotCreated
  <1> HIDE DEF u
  <1> QED
    BY <1>3, <1>4, <1>5, <1>6, <1>7, <1>8, StepFresh DEF Busy, Writing, Read

LEMMA OpenFresh ==
    ASSUME FreshInv, NEW w \in Workers, Open(w)
    PROVE  FreshInv'
  <1>1. run[w] \in RunRecords
    BY ActiveRun DEF FreshInv, Open
  <1>2. /\ run'[w].at = "head" /\ run'[w].then = run[w].then
        /\ run'[w].records = run[w].records /\ span' = span
        /\ \A v \in Workers : v # w => run'[v] = run[v]
    BY <1>1 DEF Open, FreshInv, ServerTypeOK, RunRecords
  <1>3. file'.array = NoRecords /\ file'.exists /\ Read(file)' = NoRecords
    BY DEF Open, Truncated, EmptyFile, Read
  <1>4. ServerTypeOK'
    BY OpenTypes DEF FreshInv
  <1>5. InTime(NoRecords)
    BY NoRecordsFacts DEF InTime
  <1>6. InTime(run[w].records) /\ run[w].then # ""
    BY DEF Open, FreshInv, WritesFresh, NextSet, Busy, Writing
  <1>7. NotCreated'
    BY <1>3 DEF NotCreated
  <1> QED
    BY <1>2, <1>3, <1>4, <1>5, <1>6, <1>7, StepFresh

LEMMA WriteHeadFresh ==
    ASSUME FreshInv, NEW w \in Workers, WriteHead(w)
    PROVE  FreshInv'
  <1>1. run[w] \in RunRecords
    BY ActiveRun DEF FreshInv, WriteHead
  <1>2. /\ run'[w].at = "array" /\ run'[w].then = run[w].then
        /\ run'[w].records = run[w].records /\ span' = span
        /\ \A v \in Workers : v # w => run'[v] = run[v]
    BY <1>1 DEF WriteHead, FreshInv, ServerTypeOK, RunRecords
  <1>3. /\ file'.array = file.array /\ Read(file)' = file.array
        /\ file'.exists = file.exists
    BY DEF WriteHead, WithHead, Read, FreshInv, ServerTypeOK
  <1>4. InTime(file.array)
    BY DEF FreshInv, OpenedFresh, WriteHead
  <1>5. ServerTypeOK'
    BY WriteHeadTypes DEF FreshInv
  <1>6. InTime(run[w].records) /\ run[w].then # ""
    BY DEF WriteHead, FreshInv, WritesFresh, NextSet, Busy, Writing
  <1>7. NotCreated'
    BY <1>3, ExistsFresh DEF WriteHead, NotCreated
  <1> QED
    BY <1>2, <1>3, <1>4, <1>5, <1>6, <1>7, StepFresh

LEMMA WriteArrayFresh ==
    ASSUME FreshInv, NEW w \in Workers, WriteArray(w)
    PROVE  FreshInv'
  <1>1. run[w] \in RunRecords
    BY ActiveRun DEF FreshInv, WriteArray
  <1>2. /\ run'[w].at = "end" /\ run'[w].then = run[w].then
        /\ run'[w].records = run[w].records /\ span' = span
        /\ \A v \in Workers : v # w => run'[v] = run[v]
    BY <1>1 DEF WriteArray, FreshInv, ServerTypeOK, RunRecords
  <1>3. /\ file'.array = run[w].records /\ file'.head = file.head
        /\ file'.exists = file.exists
    BY DEF WriteArray, WithArray, FreshInv, ServerTypeOK
  <1>4. Read(file)' = IF file.head THEN run[w].records ELSE Read(file)
    BY <1>3 DEF Read
  <1>5. InTime(run[w].records) /\ run[w].then # ""
    BY DEF WriteArray, FreshInv, WritesFresh, NextSet, Busy, Writing
  <1>6. ServerTypeOK'
    BY WriteArrayTypes DEF FreshInv
  <1>7. NotCreated'
    BY <1>3, ExistsFresh DEF WriteArray, NotCreated
  <1> QED
    BY <1>2, <1>3, <1>4, <1>5, <1>6, <1>7, StepFresh

LEMMA WriteEndFresh ==
    ASSUME FreshInv, NEW w \in Workers, WriteEnd(w)
    PROVE  FreshInv'
  <1>1. run[w] \in RunRecords
    BY ActiveRun DEF FreshInv, WriteEnd
  <1>2. run[w].then # ""
    BY DEF FreshInv, NextSet, WriteEnd, Busy, Writing
  <1>3. /\ run'[w].at = run[w].then /\ span' = span
        /\ \A v \in Workers : v # w => run'[v] = run[v]
    BY <1>1 DEF WriteEnd, FreshInv, ServerTypeOK, RunRecords
  <1>4. run[w].then \in {"download", "upload", "answer"}
    BY <1>1, <1>2 DEF RunRecords
  <1>5. /\ file'.array = file.array /\ Read(file)' = Read(file)
        /\ file'.exists = file.exists
    BY DEF WriteEnd, WithEnd, Read, FreshInv, ServerTypeOK
  <1>6. InTime(file.array)
    BY DEF FreshInv, OpenedFresh, WriteEnd
  <1>7. InTime(Read(file))
    BY <1>6, NoRecordsFacts DEF Read, InTime
  <1>8. ServerTypeOK'
    BY <1>2, WriteEndTypes DEF FreshInv
  <1>9. NotCreated'
    BY <1>5, ExistsFresh DEF WriteEnd, NotCreated
  <1> QED
    BY <1>3, <1>4, <1>5, <1>7, <1>8, <1>9, StepFresh DEF Busy, Writing

LEMMA DownloadFresh ==
    ASSUME FreshInv, NEW w \in Workers, Download(w)
    PROVE  FreshInv'
  <1>1. run[w] \in RunRecords
    BY ActiveRun DEF FreshInv, Download
  <1>2. /\ run'[w].at \in {"upload", "answer"}
        /\ \A v \in Workers : v # w => run'[v] = run[v]
    BY <1>1 DEF Download, FreshInv, ServerTypeOK, RunRecords
  <1>3. file' = file /\ run[w].at = "download" /\ span' = span
    BY DEF Download, Includes
  <1>4. ServerTypeOK'
    BY DownloadTypes DEF FreshInv
  <1>5. InTime(Read(file))
    BY <1>3 DEF FreshInv, ReadsFresh
  <1>6. NotCreated'
    BY <1>3, ExistsFresh DEF NotCreated
  <1> QED
    BY <1>2, <1>3, <1>4, <1>5, <1>6, StepFresh DEF Busy, Writing, Read

LEMMA UploadFresh ==
    ASSUME FreshInv, NEW w \in Workers, Upload(w)
    PROVE  FreshInv'
  <1>1. run[w] \in RunRecords
    BY ActiveRun DEF FreshInv, Upload
  <1>2. file' = file /\ run[w].at = "upload" /\ span' = span
    BY DEF Upload, Includes
  <1>3. ServerTypeOK'
    BY UploadTypes DEF FreshInv
  <1>4. \A v \in Workers : v # w => run'[v] = run[v]
    BY DEF Upload, FreshInv, ServerTypeOK
  <1>5. InTime(Read(file))
    BY <1>2 DEF FreshInv, ReadsFresh
  <1>6. NotCreated'
    BY <1>2, ExistsFresh DEF NotCreated
  <1>7. CASE run[w].named
    <2> DEFINE t == Read(file)
               p == run[w].poster
               s == Stamped(Read(file), run[w].poster)
    <2>1. run'[w].at = "open" /\ run'[w].then = "answer" /\ run'[w].records = s
      BY <1>1, <1>7 DEF Upload, FreshInv, ServerTypeOK, RunRecords
    <2>2. Read(file) \in Tables /\ run[w].poster \in Posters
      BY <1>1, ReadFacts DEF FreshInv, RunRecords
    <2>3. /\ DOMAIN s = DOMAIN t \cup {p}
          /\ \A k \in DOMAIN t \cup {p} : s[k] = IF k = p THEN 0 ELSE t[k]
      BY <2>2, StampedFacts
    <2>4. InTime(t) /\ span \in Nat
      BY <1>5, OldestIsNat DEF FreshInv, ServerTypeOK
    <2>5. InTime(s)
      <3> HIDE DEF s, t, p
      <3> QED
        BY <2>3, <2>4, OldestIsNat DEF InTime
    <2> HIDE DEF s
    <2> QED
      BY <1>2, <1>3, <1>4, <1>6, <2>1, <2>5, StepFresh DEF Busy, Writing, Read
  <1>8. CASE ~ run[w].named
    <2>1. run'[w].at = "answer"
      BY <1>1, <1>8 DEF Upload, FreshInv, ServerTypeOK, RunRecords
    <2> QED
      BY <1>2, <1>3, <1>4, <1>6, <2>1, StepFresh DEF Busy, Writing, Read
  <1> QED
    BY <1>7, <1>8

\* The last run that ends takes all that is said of runs with it.
LEMMA EndFresh ==
    ASSUME FreshInv, NEW w \in Workers, Answer(w) \/ ParseError(w) \/ Die(w)
    PROVE  FreshInv'
  <1>1. run' = [run EXCEPT ![w] = NoRun] /\ file' = file
        /\ span' = IF \A v \in Workers \ {w} : run[v] = NoRun THEN 0 ELSE span
    BY DEF Answer, ParseError, Die, Ends
  <1>2. NoRun.at = "idle"
    BY DEF NoRun
  <1>3. run'[w].at = "idle" /\ \A v \in Workers : v # w => run'[v] = run[v]
    BY <1>1, <1>2 DEF FreshInv, ServerTypeOK
  <1>4. ServerTypeOK'
    BY EndTypes DEF FreshInv
  <1>5. NotCreated'
    BY <1>1, <1>3 DEF FreshInv, NotCreated
  <1>6. CASE \A v \in Workers \ {w} : run[v] = NoRun
    <2>1. \A v \in Workers : run'[v].at = "idle"
      BY <1>2, <1>3, <1>6
    <2> QED
      BY <1>4, <1>5, <2>1
         DEF FreshInv, NextSet, WritesFresh, OpenedFresh, ReadsFresh, Busy, Writing
  <1>7. CASE ~ \A v \in Workers \ {w} : run[v] = NoRun
    <2>1. span' = span
      BY <1>1, <1>7
    <2> QED
      BY <1>1, <1>3, <1>4, <1>5, <2>1, StepFresh DEF Busy, Writing, Read
  <1> QED
    BY <1>6, <1>7

\* What a second adds to the age of a row it adds to the time without rest.
LEMMA TickFresh ==
    ASSUME FreshInv, Tick
    PROVE  FreshInv'
  <1>1. ServerTypeOK /\ ServerTypeOK'
    BY TickTypes DEF FreshInv
  <1>2. \A w \in Workers : /\ run'[w].at = run[w].at /\ run'[w].then = run[w].then
                           /\ run'[w].records = Older(run[w].records, Oldest)
    BY <1>1, TickRuns
  <1>3. /\ file'.exists = file.exists /\ file'.head = file.head
        /\ file'.array = Older(file.array, Oldest)
    BY <1>1, TickFile
  <1>4. Older(NoRecords, Oldest) = NoRecords
    BY OlderNoRecords
  <1>5. NotCreated'
    BY <1>2, <1>3, <1>4 DEF FreshInv, NotCreated
  <1>6. CASE Resting
    <2>1. NoRun.at = "idle"
      BY DEF NoRun
    <2>2. \A w \in Workers : run'[w].at = "idle"
      BY <1>2, <1>6, <2>1 DEF Resting
    <2> QED
      BY <1>1, <1>5, <2>2
         DEF FreshInv, NextSet, WritesFresh, OpenedFresh, ReadsFresh, Busy, Writing
  <1>7. CASE ~ Resting
    <2>1. span' = span + 1 /\ span \in Nat
      BY <1>1, <1>7, OldestIsNat DEF Tick, ServerTypeOK
    <2>2. ASSUME NEW t \in Tables, InTime(t)
          PROVE  \A k \in DOMAIN Older(t, Oldest) :
                     Older(t, Oldest)[k] <= Timeout + span'
      <3> DEFINE u == Older(t, Oldest)
      <3>1. DOMAIN u = DOMAIN t /\ u \in [DOMAIN u -> Ages]
            /\ \A k \in DOMAIN t : u[k] <= t[k] + 1 /\ t[k] \in Nat
        BY OlderFacts, TableFacts
      <3> DEFINE x == span
                 y == span'
      <3>2. y = x + 1 /\ x \in Nat
        BY <2>1
      <3>3. \A k \in DOMAIN t : t[k] <= Timeout + x
        BY <2>2 DEF InTime
      <3>4. \A k \in DOMAIN u : u[k] <= Timeout + y
        <4> HIDE DEF u, x, y
        <4> QED
          BY <3>1, <3>2, <3>3, OldestIsNat DEF Ages
      <3> QED
        BY <3>4
    <2>3. NextSet'
      BY <1>2 DEF FreshInv, NextSet, Busy
    <2>4. WritesFresh'
      <3> SUFFICES ASSUME NEW w \in Workers, Busy(w)'
                   PROVE  InTime(run[w].records)'
        BY DEF WritesFresh
      <3>1. Busy(w) /\ InTime(run[w].records)
        BY <1>2 DEF FreshInv, WritesFresh, Busy
      <3>2. run[w].records \in Tables
        <4>1. run[w] \in RunRecords
          BY <1>1, <3>1, ActiveRun DEF Busy, Writing
        <4> QED
          BY <4>1 DEF RunRecords
      <3> QED
        BY <1>2, <2>2, <3>1, <3>2 DEF InTime
    <2>5. file.array \in Tables
      BY <1>1 DEF ServerTypeOK
    <2>6. OpenedFresh'
      <3> SUFFICES ASSUME NEW w \in Workers, run'[w].at \in {"head", "array", "end"}
                   PROVE  InTime(file.array)'
        BY DEF OpenedFresh
      <3>1. InTime(file.array)
        BY <1>2 DEF FreshInv, OpenedFresh
      <3> QED
        BY <1>3, <2>2, <2>5, <3>1 DEF InTime
    <2>7. ReadsFresh'
      <3> SUFFICES ASSUME NEW w \in Workers, run'[w].at \in {"download", "upload"}
                   PROVE  InTime(Read(file))'
        BY DEF ReadsFresh
      <3>1. InTime(Read(file))
        BY <1>2 DEF FreshInv, ReadsFresh
      <3>2. CASE file.head
        <4>1. Read(file) = file.array /\ Read(file)' = file'.array
          BY <1>3, <3>2 DEF Read
        <4> QED
          BY <1>3, <2>2, <2>5, <3>1, <4>1 DEF InTime
      <3>3. CASE ~ file.head
        <4>1. Read(file)' = NoRecords
          BY <1>3, <3>3 DEF Read
        <4> QED
          BY <4>1, NoRecordsFacts DEF InTime
      <3> QED
        BY <3>2, <3>3
    <2> QED
      BY <1>1, <1>5, <2>3, <2>4, <2>6, <2>7 DEF FreshInv
  <1> QED
    BY <1>6, <1>7

LEMMA NextFresh == FreshInv /\ [ServerNext]_serverVars => FreshInv'
  <1> SUFFICES ASSUME FreshInv, [ServerNext]_serverVars PROVE FreshInv'
    OBVIOUS
  <1>1. CASE Tick
    BY <1>1, TickFresh
  <1>2. ASSUME NEW w \in Workers, Step(w) \/ Die(w)
        PROVE  FreshInv'
    BY <1>2, CreateFresh, ExpireFresh, CheckFresh, OpenFresh, WriteHeadFresh, WriteArrayFresh, WriteEndFresh,
       DownloadFresh, UploadFresh, EndFresh DEF Step
  <1>3. ASSUME NEW w \in Workers, NEW k \in Posters, NEW query \in Queries,
               NEW named \in BOOLEAN, Begin(w, k, query, named)
        PROVE  FreshInv'
    BY <1>3, BeginFresh
  <1>4. CASE UNCHANGED serverVars
    BY <1>4 DEF serverVars, FreshInv, ServerTypeOK, NextSet, WritesFresh, OpenedFresh,
                ReadsFresh, NotCreated, InTime, Busy, Read
  <1> QED
    BY <1>1, <1>2, <1>3, <1>4 DEF ServerNext

\* ServerTypeOK is an invariant of RecordManager: the record file and the runs
\* of Connections.php are what their code can make of them.
THEOREM ServerTypeCorrect == ServerSpec => []ServerTypeOK
  <1>1. FreshInv => ServerTypeOK
    BY DEF FreshInv
  <1> QED
    BY InitFresh, NextFresh, <1>1, PTL DEF ServerSpec

\* NoneLongExpired is an invariant: whatever runs meet, however they write over
\* each other, and whenever time passes between their steps, downloadRecords and
\* viewRecords show no row that had expired when the list was last at rest.
THEOREM OnlyRecentRowsShown == ServerSpec => []NoneLongExpired
  <1>1. FreshInv => NoneLongExpired
    BY DEF FreshInv, ReadsFresh, InTime, NoneLongExpired
  <1> QED
    BY InitFresh, NextFresh, <1>1, PTL DEF ServerSpec

---------------------------------------------------------------------------
(* The file is whole, as long as runs keep out of the way of each other's  *)
(* writing.  Then at most one is busy, and the file is what it has written.*)

OneWriter == \A v, w \in Workers : Busy(v) /\ Busy(w) => v = w

WritesAsIs ==
    \A w \in Workers :
        /\ run[w].at = "head" => ~ file.head /\ ~ file.written /\ file.ends = {}
        /\ run[w].at = "array" => file.head /\ ~ file.written /\ file.ends = {}
        /\ run[w].at = "end" => /\ file.head /\ file.written /\ file.ends = {}
                                /\ file.array = run[w].records

WholeInv ==
    /\ FreshInv
    /\ alone => OneWriter /\ WritesAsIs /\ ((\A w \in Workers : ~ Busy(w)) => Readable(file))

LEMMA InitWhole == ServerInit => WholeInv
  <1> SUFFICES ASSUME ServerInit PROVE WholeInv
    OBVIOUS
  <1>1. \A w \in Workers : run[w].at = "idle"
    BY DEF ServerInit, NoRun
  <1>2. Readable(file)
    BY FirstFiles DEF ServerInit
  <1> QED
    BY <1>1, <1>2, InitFresh DEF WholeInv, OneWriter, WritesAsIs, Busy, Writing

\* A step that neither writes nor makes a run write keeps what is said of writers.
LEMMA QuietWhole ==
    ASSUME WholeInv, FreshInv', NEW w \in Workers, alone' => alone,
           file' = file, ~ Busy(w), ~ Busy(w)',
           \A v \in Workers : v # w => run'[v] = run[v]
    PROVE  WholeInv'
  <1> SUFFICES ASSUME alone'
               PROVE  OneWriter' /\ WritesAsIs'
                      /\ ((\A v \in Workers : ~ Busy(v)) => Readable(file))'
    BY DEF WholeInv
  <1>1. \A v \in Workers : Busy(v)' = Busy(v)
    BY DEF Busy
  <1>2. \A v \in Workers : run'[v].at \in Writing => run'[v] = run[v]
    BY DEF Busy
  <1>3. OneWriter'
    BY <1>1 DEF WholeInv, OneWriter
  <1>4. WritesAsIs'
    BY <1>2 DEF WholeInv, WritesAsIs, Writing
  <1>5. ((\A v \in Workers : ~ Busy(v)) => Readable(file))'
    BY <1>1 DEF WholeInv, Readable
  <1> QED
    BY <1>3, <1>4, <1>5

\* An include after which the run writes: nobody else does.
LEMMA IncludeWhole ==
    ASSUME WholeInv, FreshInv', NEW w \in Workers, Includes(w),
           run'[w].at \in {"check", "open"}, \A v \in Workers : v # w => run'[v] = run[v]
    PROVE  WholeInv'
  <1> SUFFICES ASSUME alone'
               PROVE  OneWriter' /\ WritesAsIs'
                      /\ ((\A v \in Workers : ~ Busy(v)) => Readable(file))'
    BY DEF WholeInv
  <1>1. \A v \in Workers : v # w => ~ Busy(v)'
    BY DEF Includes, Busy
  <1>2. Busy(w)'
    BY DEF Busy, Writing
  <1> QED
    BY <1>1, <1>2 DEF OneWriter, WritesAsIs, Busy, Writing

\* The file is created once, and before anybody is busy.
LEMMA CreateWhole ==
    ASSUME WholeInv, FreshInv', NEW w \in Workers, Create(w)
    PROVE  WholeInv'
  <1> SUFFICES ASSUME alone'
               PROVE  OneWriter' /\ WritesAsIs'
                      /\ ((\A v \in Workers : ~ Busy(v)) => Readable(file))'
    BY DEF WholeInv
  <1>1. ~ file.exists /\ run[w].at = "create"
    BY DEF Create
  <1>2. \A v \in Workers : run[v].at \in {"idle", "create"}
    BY <1>1 DEF WholeInv, FreshInv, NotCreated
  <1>3. run[w] \in RunRecords
    BY <1>1, ActiveRun DEF WholeInv, FreshInv
  <1>4. run'[w].at = "expire" /\ \A v \in Workers : v # w => run'[v] = run[v]
    BY <1>3 DEF Create, WholeInv, FreshInv, ServerTypeOK, RunRecords
  <1>5. \A v \in Workers : run'[v].at \in {"idle", "create", "expire"}
    BY <1>2, <1>4
  <1>6. Readable(file)'
    BY DEF Create, Truncated, EmptyFile, Readable
  <1> QED
    BY <1>5, <1>6 DEF OneWriter, WritesAsIs, Busy, Writing

LEMMA WriteWhole ==
    ASSUME WholeInv, FreshInv', NEW w \in Workers,
           Check(w) \/ Open(w) \/ WriteHead(w) \/ WriteArray(w) \/ WriteEnd(w)
    PROVE  WholeInv'
  <1> SUFFICES ASSUME alone'
               PROVE  OneWriter' /\ WritesAsIs'
                      /\ ((\A v \in Workers : ~ Busy(v)) => Readable(file))'
    BY DEF WholeInv
  <1>1. alone
    BY DEF Check, Open, WriteHead, WriteArray, WriteEnd
  <1>2. Busy(w)
    BY DEF Check, Open, WriteHead, WriteArray, WriteEnd, Busy, Writing
  <1>3. \A v \in Workers : v # w => run'[v] = run[v]
    BY DEF Check, Open, WriteHead, WriteArray, WriteEnd, WholeInv, FreshInv, ServerTypeOK
  <1>4. \A v \in Workers : v # w => ~ Busy(v) /\ ~ Busy(v)'
    BY <1>1, <1>2, <1>3 DEF WholeInv, OneWriter, Busy
  <1>5. OneWriter'
    BY <1>4 DEF OneWriter
  <1>6. run[w] \in RunRecords
    BY ActiveRun DEF WholeInv, FreshInv, Check, Open, WriteHead, WriteArray, WriteEnd
  <1>11. CASE Check(w)
    <2>1. run'[w].at = "open"
      BY <1>11, <1>6 DEF Check, WholeInv, FreshInv, ServerTypeOK, RunRecords
    <2> QED
      BY <1>4, <1>5, <2>1 DEF WritesAsIs, Busy, Writing
  <1>7. CASE Open(w)
    <2>1. run'[w].at = "head" /\ file' = EmptyFile
      BY <1>7, <1>6 DEF Open, Truncated, WholeInv, FreshInv, ServerTypeOK, RunRecords
    <2>2. ~ file'.head /\ ~ file'.written /\ file'.ends = {}
      BY <2>1 DEF EmptyFile
    <2> QED
      BY <1>4, <1>5, <2>1, <2>2 DEF WritesAsIs, Busy, Writing
  <1>8. CASE WriteHead(w)
    <2>1. run'[w].at = "array" /\ run[w].at = "head"
      BY <1>8, <1>6 DEF WriteHead, WholeInv, FreshInv, ServerTypeOK, RunRecords
    <2>2. file'.head /\ file'.written = file.written /\ file'.ends = file.ends
      BY <1>8 DEF WriteHead, WithHead, WholeInv, FreshInv, ServerTypeOK
    <2>3. ~ file.written /\ file.ends = {}
      BY <1>1, <2>1 DEF WholeInv, WritesAsIs
    <2> QED
      BY <1>4, <1>5, <2>1, <2>2, <2>3 DEF WritesAsIs, Busy, Writing
  <1>9. CASE WriteArray(w)
    <2>1. run'[w].at = "end" /\ run[w].at = "array" /\ run'[w].records = run[w].records
      BY <1>9, <1>6 DEF WriteArray, WholeInv, FreshInv, ServerTypeOK, RunRecords
    <2>2. /\ file'.head = file.head /\ file'.written
          /\ file'.array = run[w].records
          /\ file'.ends = file.ends \ Body(run[w].records)
      BY <1>9 DEF WriteArray, WithArray, WholeInv, FreshInv, ServerTypeOK
    <2>3. file.head /\ file.ends = {}
      BY <1>1, <2>1 DEF WholeInv, WritesAsIs
    <2>4. file'.ends = {}
      BY <2>2, <2>3
    <2> QED
      BY <1>4, <1>5, <2>1, <2>2, <2>3, <2>4 DEF WritesAsIs, Busy, Writing
  <1>10. CASE WriteEnd(w)
    <2> DEFINE t == run[w].records
    <2>1. run[w].at = "end"
      BY <1>10 DEF WriteEnd
    <2>2. /\ file'.written = file.written /\ file'.array = file.array
          /\ file'.ends = file.ends \cup {EndOf(t)}
      BY <1>10 DEF WriteEnd, WithEnd, WholeInv, FreshInv, ServerTypeOK
    <2>3. file.written /\ file.ends = {} /\ file.array = t
      BY <1>1, <2>1 DEF WholeInv, WritesAsIs
    <2>4. EndOf(t) \notin Body(t)
      BY <1>6, EndFacts DEF RunRecords
    <2>5. file'.written /\ file'.array = t /\ file'.ends = {EndOf(t)}
      BY <2>2, <2>3
    <2>6. Readable(file)'
      <3> HIDE DEF t
      <3> QED
        BY <2>4, <2>5 DEF Readable
    <2>7. run'[w].at = run[w].then
      BY <1>10, <1>6 DEF WriteEnd, WholeInv, FreshInv, ServerTypeOK, RunRecords
    <2>8. run'[w].at \notin {"head", "array", "end"}
      BY <1>6, <2>7 DEF RunRecords
    <2> QED
      BY <1>4, <1>5, <2>6, <2>8 DEF WritesAsIs, Busy, Writing
  <1> QED
    BY <1>7, <1>8, <1>9, <1>10, <1>11

LEMMA OlderReadable ==
    ASSUME ServerTypeOK, Tick
    PROVE  Readable(file)' = Readable(file)
  <1> DEFINE t == file.array
             u == Older(file.array, Oldest)
  <1>1. DOMAIN u = DOMAIN t
    BY OlderFacts DEF ServerTypeOK
  <1>2. EndOf(u) = EndOf(t) /\ Body(u) = Body(t)
    BY <1>1 DEF EndOf, Body, Size
  <1>3. /\ file'.head = file.head /\ file'.written = file.written
        /\ file'.ends = file.ends /\ file'.array = u
    BY TickFile
  <1> HIDE DEF u
  <1> QED
    BY <1>2, <1>3 DEF Readable

LEMMA TickWhole ==
    ASSUME WholeInv, FreshInv', Tick
    PROVE  WholeInv'
  <1>1. ServerTypeOK /\ alone' = alone
    BY DEF WholeInv, FreshInv, Tick
  <1>2. \A w \in Workers : /\ run'[w].at = run[w].at
                           /\ run'[w].records = Older(run[w].records, Oldest)
    BY <1>1, TickRuns
  <1>3. /\ file'.head = file.head /\ file'.written = file.written
        /\ file'.ends = file.ends /\ file'.array = Older(file.array, Oldest)
    BY <1>1, TickFile
  <1>4. Readable(file)' = Readable(file)
    BY <1>1, OlderReadable
  <1>5. OneWriter' = OneWriter
    BY <1>2 DEF OneWriter, Busy
  <1>6. WritesAsIs => WritesAsIs'
    BY <1>2, <1>3 DEF WritesAsIs
  <1> QED
    BY <1>1, <1>2, <1>4, <1>5, <1>6 DEF WholeInv, Busy

LEMMA NextWhole == WholeInv /\ [ServerNext]_serverVars => WholeInv'
  <1> SUFFICES ASSUME WholeInv, [ServerNext]_serverVars PROVE WholeInv'
    OBVIOUS
  <1>1. FreshInv' /\ FreshInv /\ ServerTypeOK
    BY NextFresh DEF WholeInv, FreshInv
  <1>2. CASE Tick
    BY <1>1, <1>2, TickWhole
  <1>3. ASSUME NEW w \in Workers, NEW k \in Posters, NEW query \in Queries,
               NEW named \in BOOLEAN, Begin(w, k, query, named)
        PROVE  WholeInv'
    <2>1. run[w] = NoRun /\ run' = [run EXCEPT ![w] = NewRun(k, query, named)]
          /\ file' = file /\ alone' = alone
      BY <1>3 DEF Begin
    <2>2. NoRun.at = "idle" /\ NewRun(k, query, named).at \in {"expire", "create"}
      BY DEF NoRun, NewRun
    <2>3. /\ ~ Busy(w) /\ ~ Busy(w)'
          /\ \A v \in Workers : v # w => run'[v] = run[v]
      BY <1>1, <2>1, <2>2 DEF Busy, Writing, ServerTypeOK
    <2> QED
      BY <1>1, <2>1, <2>3, QuietWhole
  <1>4. ASSUME NEW w \in Workers,
               Check(w) \/ Open(w) \/ WriteHead(w) \/ WriteArray(w) \/ WriteEnd(w)
        PROVE  WholeInv'
    BY <1>1, <1>4, WriteWhole
  <1>5. ASSUME NEW w \in Workers, Expire(w) \/ Upload(w) \/ Download(w)
        PROVE  WholeInv'
    <2>1. Includes(w) /\ run[w].at \in Including
      BY <1>5 DEF Expire, Upload, Download, Including
    <2>2. ~ Busy(w)
      BY <2>1 DEF Busy, Writing, Including
    <2>3. \A v \in Workers : v # w => run'[v] = run[v]
      BY <1>1, <1>5 DEF Expire, Upload, Download, ServerTypeOK
    <2>4. run[w] \in RunRecords
      BY <1>1, <2>1, ActiveRun DEF Including
    <2>5. FirstOf(run[w].query) \in {"download", "upload", "answer"}
      BY <2>4, FirstOfFacts DEF RunRecords
    <2>6. run'[w].at \in {"check", "open", "download", "upload", "answer"}
      <3>1. CASE Expire(w)
        <4>1. CASE Read(file) = NoRecords
          BY <1>1, <2>4, <2>5, <3>1, <4>1 DEF Expire, ServerTypeOK, RunRecords
        <4>2. CASE Read(file) # NoRecords
          BY <1>1, <2>4, <3>1, <4>2 DEF Expire, ServerTypeOK, RunRecords
        <4> QED
          BY <4>1, <4>2
      <3>2. CASE Upload(w)
        <4>1. CASE run[w].named
          BY <1>1, <2>4, <3>2, <4>1 DEF Upload, ServerTypeOK, RunRecords
        <4>2. CASE ~ run[w].named
          BY <1>1, <2>4, <3>2, <4>2 DEF Upload, ServerTypeOK, RunRecords
        <4> QED
          BY <4>1, <4>2
      <3>3. CASE Download(w)
        BY <1>1, <2>4, <3>3 DEF Download, ServerTypeOK, RunRecords
      <3> QED
        BY <1>5, <3>1, <3>2, <3>3
    <2>7. file' = file /\ (alone' => alone)
      BY <2>1 DEF Includes
    <2>8. CASE run'[w].at \in {"check", "open"}
      BY <1>1, <2>1, <2>3, <2>8, IncludeWhole
    <2>9. CASE run'[w].at \notin {"check", "open"}
      <3>1. ~ Busy(w)'
        BY <2>6, <2>9 DEF Busy, Writing
      <3> QED
        BY <1>1, <2>2, <2>3, <2>7, <3>1, QuietWhole
    <2> QED
      BY <2>8, <2>9
  <1>6. ASSUME NEW w \in Workers, Answer(w) \/ ParseError(w) \/ Die(w)
        PROVE  WholeInv'
    <2>1. run' = [run EXCEPT ![w] = NoRun] /\ file' = file
      BY <1>6 DEF Answer, ParseError, Die, Ends
    <2>2. NoRun.at = "idle"
      BY DEF NoRun
    <2>3. ~ Busy(w)' /\ \A v \in Workers : v # w => run'[v] = run[v]
      BY <1>1, <2>1, <2>2 DEF Busy, Writing, ServerTypeOK
    <2>4. alone' => alone /\ ~ Busy(w)
      BY <1>6 DEF Answer, ParseError, Die, Busy, Writing, Including
    <2>5. CASE alone'
      BY <1>1, <2>1, <2>3, <2>4, <2>5, QuietWhole
    <2>6. CASE ~ alone'
      BY <1>1, <2>6 DEF WholeInv
    <2> QED
      BY <2>5, <2>6
  <1>8. ASSUME NEW w \in Workers, Create(w)
        PROVE  WholeInv'
    BY <1>1, <1>8, CreateWhole
  <1>7. CASE UNCHANGED serverVars
    BY <1>1, <1>7 DEF serverVars, WholeInv, OneWriter, WritesAsIs, Busy, Readable
  <1> QED
    BY <1>2, <1>3, <1>4, <1>5, <1>6, <1>7, <1>8 DEF ServerNext, Step

\* FileWhole is an invariant: a file that nobody is busy writing can be included,
\* unless runs got in the way of each other's writing, or died in theirs.
THEOREM FileStaysWhole == ServerSpec => []FileWhole
  <1>1. WholeInv => FileWhole
    BY DEF WholeInv, FileWhole
  <1> QED
    BY InitWhole, NextWhole, <1>1, PTL DEF ServerSpec

\* BrokenForGood: no step of RecordManager mends a file that cannot be included
\* and that nobody is writing, because every run ends at its first include.
THEOREM BrokenStaysBroken == ServerSpec => BrokenForGood
  <1>1. FreshInv /\ [ServerNext]_serverVars => [Broken => Broken']_serverVars
    <2> SUFFICES ASSUME FreshInv, ServerNext, Broken PROVE Broken'
      OBVIOUS
    <2>1. /\ ServerTypeOK /\ ~ Readable(file)
          /\ \A w \in Workers : ~ Busy(w) /\ run[w].at # "create"
      BY DEF FreshInv, Broken
    <2>2. CASE Tick
      <3>1. ~ Readable(file)'
        BY <2>1, <2>2, OlderReadable
      <3>2. \A w \in Workers : run'[w].at = run[w].at
        BY <2>1, <2>2, TickRuns
      <3> QED
        BY <2>1, <3>1, <3>2 DEF Broken, Busy
    <2>3. ASSUME NEW w \in Workers, NEW k \in Posters, NEW query \in Queries,
                 NEW named \in BOOLEAN, Begin(w, k, query, named)
          PROVE  Broken'
      <3>1. file.exists
        BY <2>1 DEF FreshInv, NotCreated, Readable
      <3>2. NewRun(k, query, named).at = "expire"
        BY <3>1 DEF NewRun
      <3> QED
        BY <2>1, <2>3, <3>2 DEF Begin, Broken, Busy, Writing, ServerTypeOK, Readable
    <2>4. ASSUME NEW w \in Workers, Answer(w) \/ ParseError(w) \/ Die(w)
          PROVE  Broken'
      <3>1. NoRun.at = "idle"
        BY DEF NoRun
      <3> QED
        BY <2>1, <2>4, <3>1 DEF Answer, ParseError, Die, Ends, Broken, Busy, Writing,
                                ServerTypeOK, Readable
    <2>5. ASSUME NEW w \in Workers,
                 \/ Create(w) \/ Expire(w) \/ Check(w) \/ Download(w) \/ Upload(w)
                 \/ Open(w) \/ WriteHead(w) \/ WriteArray(w) \/ WriteEnd(w)
          PROVE  FALSE
      BY <2>1, <2>5 DEF Create, Expire, Check, Download, Upload, Includes, Open,
                        WriteHead, WriteArray, WriteEnd, Busy, Writing
    <2> QED
      BY <2>2, <2>3, <2>4, <2>5 DEF ServerNext, Step
  <1> QED
    BY InitFresh, NextFresh, <1>1, PTL DEF ServerSpec, BrokenForGood

---------------------------------------------------------------------------
(* ... and then the list keeps the promise of LeaseList.                   *)

ListedIs ==
    /\ \A w \in Workers : Busy(w) => Listed = run[w].records
    /\ (\A w \in Workers : ~ Busy(w)) => Listed = Read(file)

LEMMA ListedFacts == OneWriter => ListedIs
  <1> SUFFICES ASSUME OneWriter PROVE ListedIs
    OBVIOUS
  <1>1. ASSUME NEW w \in Workers, Busy(w)
        PROVE  Listed = run[w].records
    <2>1. (CHOOSE v \in Workers : Busy(v)) \in Workers
          /\ Busy(CHOOSE v \in Workers : Busy(v))
      BY <1>1
    <2>2. (CHOOSE v \in Workers : Busy(v)) = w
      BY <1>1, <2>1 DEF OneWriter
    <2> QED
      BY <1>1, <2>2 DEF Listed
  <1>2. (\A w \in Workers : ~ Busy(w)) => Listed = Read(file)
    BY DEF Listed
  <1> QED
    BY <1>1, <1>2 DEF ListedIs

LEMMA ListedFactsNext == OneWriter' => ListedIs'
  BY ListedFacts, PTL

\* A step that neither writes nor makes a run write leaves the list alone.
LEMMA QuietList ==
    ASSUME OneWriter, OneWriter', NEW w \in Workers, file' = file, ~ Busy(w), ~ Busy(w)',
           \A v \in Workers : v # w => run'[v] = run[v]
    PROVE  Listed' = Listed
  <1>1. \A v \in Workers : Busy(v)' = Busy(v)
    BY DEF Busy
  <1>2. CASE \E v \in Workers : Busy(v)
    <2>1. PICK v \in Workers : Busy(v)
      BY <1>2
    <2>2. Listed = run[v].records
      BY <2>1, ListedFacts DEF ListedIs
    <2>3. v # w /\ run'[v] = run[v] /\ Busy(v)'
      BY <1>1, <2>1
    <2>4. Listed' = run'[v].records
      <3>1. (\A u \in Workers : Busy(u) => Listed = run[u].records)'
        BY ListedFactsNext DEF ListedIs
      <3> QED
        BY <2>3, <3>1
    <2> QED
      BY <2>2, <2>3, <2>4
  <1>3. CASE \A v \in Workers : ~ Busy(v)
    <2>1. (\A v \in Workers : ~ Busy(v)) => Listed = Read(file)
      BY ListedFacts DEF ListedIs
    <2>2. (\A v \in Workers : ~ Busy(v))' => Listed' = Read(file)'
      BY ListedFactsNext DEF ListedIs
    <2> QED
      BY <1>1, <1>3, <2>1, <2>2 DEF Read
  <1> QED
    BY <1>2, <1>3

\* After an include, a run that writes determines the list.
LEMMA IncludeList ==
    ASSUME WholeInv, WholeInv', alone', NEW w \in Workers, Includes(w),
           run'[w].at \in {"check", "open"}
    PROVE  Listed = Read(file) /\ Listed' = run'[w].records
  <1>1. alone /\ \A v \in Workers : ~ Busy(v)
    BY DEF Includes
  <1>2. Listed = Read(file)
    BY <1>1, ListedFacts DEF WholeInv, ListedIs
  <1>3. Busy(w)' /\ OneWriter'
    BY DEF WholeInv, Busy, Writing
  <1>4. (\A v \in Workers : Busy(v) => Listed = run[v].records)'
    BY <1>3, ListedFactsNext DEF ListedIs
  <1> QED
    BY <1>2, <1>3, <1>4

LEMMA ExpireList ==
    ASSUME WholeInv, WholeInv', alone', NEW w \in Workers, Expire(w)
    PROVE  Leases!Drop \/ Listed' = Listed
  <1>1. Includes(w) /\ run[w].at = "expire" /\ file' = file /\ alone
    BY DEF Expire, Includes
  <1>2. run[w] \in RunRecords /\ ServerTypeOK
    BY ActiveRun, <1>1 DEF WholeInv, FreshInv
  <1>3. OneWriter /\ OneWriter'
    BY <1>1 DEF WholeInv
  <1>4. CASE Read(file) = NoRecords
    <2>1. FirstOf(run[w].query) \in {"download", "upload", "answer"}
      BY <1>2, FirstOfFacts DEF RunRecords
    <2>2. run'[w].at = FirstOf(run[w].query)
          /\ \A v \in Workers : v # w => run'[v] = run[v]
      BY <1>2, <1>4 DEF Expire, ServerTypeOK, RunRecords
    <2>3. ~ Busy(w) /\ ~ Busy(w)'
      BY <1>1, <2>1, <2>2 DEF Busy, Writing
    <2> QED
      BY <1>1, <1>3, <2>2, <2>3, QuietList
  <1>5. CASE Read(file) # NoRecords
    <2> DEFINE t == Read(file)
    <2>1. run'[w].at = "check" /\ run'[w].records = Fresh(t)
      BY <1>2, <1>5 DEF Expire, ServerTypeOK, RunRecords
    <2>2. Listed = t /\ Listed' = Fresh(t)
      BY <1>1, <2>1, IncludeList
    <2>3. t \in [DOMAIN t -> Ages]
      BY <1>2, ReadFacts, TableFacts
    <2> DEFINE gone == {p \in DOMAIN t : t[p] > Timeout}
    <2>4. Fresh(t) = [p \in DOMAIN t \ gone |-> t[p]]
      <3> HIDE DEF t
      <3>1. DOMAIN t \ gone = {p \in DOMAIN t : t[p] <= Timeout}
        BY <2>3, OldestIsNat DEF Ages
      <3> HIDE DEF gone
      <3> QED
        BY <3>1 DEF Fresh
    <2>5. Leases!Drop
      <3> HIDE DEF t
      <3> QED
        BY <2>2, <2>4 DEF Leases!Drop
    <2> QED
      BY <2>5
  <1> QED
    BY <1>4, <1>5

LEMMA CheckList ==
    ASSUME WholeInv, WholeInv', alone', NEW w \in Workers, Check(w)
    PROVE  Leases!Drop
  <1>1. Busy(w) /\ alone
    BY DEF Check, Busy, Writing
  <1>2. OneWriter /\ OneWriter' /\ ServerTypeOK
    BY <1>1 DEF WholeInv, FreshInv
  <1>3. run[w] \in RunRecords
    BY <1>2, ActiveRun DEF Check
  <1> DEFINE t == run[w].records
  <1>4. PICK gone \in SUBSET Expired(t) :
            run' = [run EXCEPT ![w].at = "open", ![w].records = Without(t, gone)]
    BY DEF Check
  <1>5. run'[w].at = "open" /\ run'[w].records = Without(t, gone)
    BY <1>2, <1>3, <1>4 DEF ServerTypeOK, RunRecords
  <1>6. Listed = t
    BY <1>1, <1>2, ListedFacts DEF ListedIs
  <1>7. (\A v \in Workers : Busy(v) => Listed = run[v].records)'
    BY <1>2, ListedFactsNext DEF ListedIs
  <1>8. Listed' = Without(t, gone)
    BY <1>5, <1>7 DEF Busy, Writing
  <1> HIDE DEF t
  <1> QED
    BY <1>4, <1>6, <1>8 DEF Leases!Drop, Without, Expired

\* Creating the file changes an empty list into an empty list.
LEMMA CreateList ==
    ASSUME WholeInv, WholeInv', alone', NEW w \in Workers, Create(w)
    PROVE  Listed' = Listed
  <1>1. ~ file.exists /\ alone /\ run[w].at = "create"
    BY DEF Create
  <1>2. /\ ~ file.head /\ \A v \in Workers : run[v].at \in {"idle", "create"}
        /\ OneWriter /\ OneWriter' /\ ServerTypeOK
    BY <1>1 DEF WholeInv, FreshInv, NotCreated
  <1>3. run[w] \in RunRecords
    BY <1>1, <1>2, ActiveRun
  <1>4. run'[w].at = "expire" /\ \A v \in Workers : v # w => run'[v] = run[v]
    BY <1>2, <1>3 DEF Create, ServerTypeOK, RunRecords
  <1>5. \A v \in Workers : ~ Busy(v) /\ ~ Busy(v)'
    BY <1>2, <1>4 DEF Busy, Writing
  <1>6. Listed = Read(file)
    BY <1>2, <1>5, ListedFacts DEF ListedIs
  <1>7. (\A v \in Workers : ~ Busy(v))' => Listed' = Read(file)'
    BY <1>2, ListedFactsNext DEF ListedIs
  <1>8. Read(file) = NoRecords /\ Read(file)' = NoRecords
    BY <1>2 DEF Read, Create, Truncated, EmptyFile
  <1> QED
    BY <1>5, <1>6, <1>7, <1>8

LEMMA UploadList ==
    ASSUME WholeInv, WholeInv', alone', NEW w \in Workers, Upload(w)
    PROVE  IF run[w].named THEN Leases!Renew(run[w].poster) ELSE Listed' = Listed
  <1>1. Includes(w) /\ run[w].at = "upload" /\ file' = file /\ alone
    BY DEF Upload, Includes
  <1>2. run[w] \in RunRecords /\ ServerTypeOK
    BY ActiveRun, <1>1 DEF WholeInv, FreshInv
  <1>3. OneWriter /\ OneWriter'
    BY <1>1 DEF WholeInv
  <1>4. CASE run[w].named
    <2> DEFINE k == run[w].poster
               t == Read(file)
    <2>1. run'[w].at = "open" /\ run'[w].records = Stamped(t, k)
      BY <1>2, <1>4 DEF Upload, ServerTypeOK, RunRecords
    <2>2. Listed = t /\ Listed' = Stamped(t, k)
      BY <1>1, <2>1, IncludeList
    <2>3. Leases!Renew(k)
      <3> HIDE DEF k, t
      <3> QED
        BY <2>2 DEF Leases!Renew, Stamped
    <2> QED
      BY <1>4, <2>3
  <1>5. CASE ~ run[w].named
    <2>1. run'[w].at = "answer" /\ \A v \in Workers : v # w => run'[v] = run[v]
      BY <1>2, <1>5 DEF Upload, ServerTypeOK, RunRecords
    <2>2. ~ Busy(w) /\ ~ Busy(w)'
      BY <1>1, <2>1 DEF Busy, Writing
    <2> QED
      BY <1>1, <1>3, <1>5, <2>1, <2>2, QuietList
  <1> QED
    BY <1>4, <1>5

LEMMA WriteList ==
    ASSUME WholeInv, WholeInv', alone', NEW w \in Workers,
           Open(w) \/ WriteHead(w) \/ WriteArray(w) \/ WriteEnd(w)
    PROVE  Listed' = Listed
  <1>1. Busy(w) /\ alone
    BY DEF Open, WriteHead, WriteArray, WriteEnd, Busy, Writing
  <1>2. OneWriter /\ OneWriter' /\ ServerTypeOK /\ WritesAsIs
    BY <1>1 DEF WholeInv, FreshInv
  <1>3. run[w] \in RunRecords
    BY <1>2, ActiveRun DEF Open, WriteHead, WriteArray, WriteEnd
  <1>4. Listed = run[w].records
    BY <1>1, <1>2, ListedFacts DEF ListedIs
  <1>5. CASE Open(w) \/ WriteHead(w) \/ WriteArray(w)
    <2>1. run'[w].at \in Writing /\ run'[w].records = run[w].records
      <3>1. CASE Open(w)
        BY <1>2, <1>3, <3>1 DEF Open, Writing, ServerTypeOK, RunRecords
      <3>2. CASE WriteHead(w)
        BY <1>2, <1>3, <3>2 DEF WriteHead, Writing, ServerTypeOK, RunRecords
      <3>3. CASE WriteArray(w)
        BY <1>2, <1>3, <3>3 DEF WriteArray, Writing, ServerTypeOK, RunRecords
      <3> QED
        BY <1>5, <3>1, <3>2, <3>3
    <2>2. (\A v \in Workers : Busy(v) => Listed = run[v].records)'
      BY <1>2, ListedFactsNext DEF ListedIs
    <2>3. Busy(w)'
      BY <2>1 DEF Busy
    <2> QED
      BY <1>4, <2>1, <2>2, <2>3
  <1>6. CASE WriteEnd(w)
    <2>1. run[w].at = "end" /\ run'[w].at = run[w].then
      BY <1>2, <1>3, <1>6 DEF WriteEnd, ServerTypeOK, RunRecords
    <2>2. \A v \in Workers : v # w => run'[v] = run[v]
      BY <1>6, <1>2 DEF WriteEnd, ServerTypeOK
    <2>3. \A v \in Workers : ~ Busy(v)'
      <3>1. ~ Busy(w)'
        BY <1>3, <2>1 DEF Busy, Writing, RunRecords
      <3>2. \A v \in Workers : v # w => ~ Busy(v)'
        BY <1>1, <1>2, <2>2 DEF Busy, OneWriter
      <3> QED
        BY <3>1, <3>2
    <2>4. (\A v \in Workers : ~ Busy(v))' => Listed' = Read(file)'
      BY <1>2, ListedFactsNext DEF ListedIs
    <2>5. file'.head = file.head /\ file'.array = file.array
      BY <1>6, <1>2 DEF WriteEnd, WithEnd, ServerTypeOK
    <2>6. file.head /\ file.array = run[w].records
      BY <1>2, <2>1 DEF WritesAsIs
    <2>7. Read(file)' = run[w].records
      BY <2>5, <2>6 DEF Read
    <2> QED
      BY <1>4, <2>3, <2>4, <2>7
  <1> QED
    BY <1>5, <1>6

LEMMA OlderAge ==
    ASSUME Listed' = Older(Listed, Oldest)
    PROVE  Leases!Age
  BY DEF Older, Leases!Age

LEMMA TickList ==
    ASSUME WholeInv, WholeInv', alone', Tick
    PROVE  Leases!Age
  <1>1. alone /\ ServerTypeOK /\ OneWriter /\ OneWriter'
    BY DEF WholeInv, FreshInv, Tick
  <1>2. \A w \in Workers : /\ run'[w].at = run[w].at
                           /\ run'[w].records = Older(run[w].records, Oldest)
    BY <1>1, TickRuns
  <1>3. \A w \in Workers : Busy(w)' = Busy(w)
    BY <1>2 DEF Busy
  <1>4. CASE \E w \in Workers : Busy(w)
    <2>1. PICK w \in Workers : Busy(w)
      BY <1>4
    <2>2. Listed = run[w].records
      BY <1>1, <2>1, ListedFacts DEF ListedIs
    <2>3. (\A v \in Workers : Busy(v) => Listed = run[v].records)'
      BY <1>1, ListedFactsNext DEF ListedIs
    <2>4. Listed' = Older(Listed, Oldest)
      BY <1>2, <1>3, <2>1, <2>2, <2>3
    <2> QED
      BY <2>4, OlderAge
  <1>5. CASE \A w \in Workers : ~ Busy(w)
    <2>1. Listed = Read(file)
      BY <1>1, <1>5, ListedFacts DEF ListedIs
    <2>2. (\A w \in Workers : ~ Busy(w))' => Listed' = Read(file)'
      BY <1>1, ListedFactsNext DEF ListedIs
    <2>3. Listed' = Read(file)'
      BY <1>3, <1>5, <2>2
    <2>4. file'.head = file.head /\ file'.array = Older(file.array, Oldest)
      BY <1>1, TickFile
    <2>5. Read(file)' = Older(Read(file), Oldest)
      BY <2>4, OlderNoRecords DEF Read
    <2> QED
      BY <2>1, <2>3, <2>5, OlderAge
  <1> QED
    BY <1>4, <1>5

LEMMA BeginList ==
    ASSUME WholeInv, WholeInv', alone', NEW w \in Workers, NEW k \in Posters,
           NEW query \in Queries, NEW named \in BOOLEAN, Begin(w, k, query, named)
    PROVE  Listed' = Listed
  <1>1. ServerTypeOK
    BY DEF WholeInv, FreshInv
  <1>2. NoRun.at = "idle" /\ NewRun(k, query, named).at \in {"expire", "create"}
    BY DEF NoRun, NewRun
  <1>3. /\ ~ Busy(w) /\ ~ Busy(w)' /\ alone /\ file' = file
        /\ \A v \in Workers : v # w => run'[v] = run[v]
    BY <1>1, <1>2 DEF Begin, Busy, Writing, ServerTypeOK
  <1> QED
    BY <1>3, QuietList DEF WholeInv

LEMMA EndList ==
    ASSUME WholeInv, WholeInv', alone', NEW w \in Workers,
           Answer(w) \/ ParseError(w) \/ Die(w)
    PROVE  Listed' = Listed
  <1>1. NoRun.at = "idle" /\ ServerTypeOK
    BY DEF NoRun, WholeInv, FreshInv
  <1>2. run' = [run EXCEPT ![w] = NoRun] /\ file' = file
    BY DEF Answer, ParseError, Die, Ends
  <1>3. ~ Busy(w) /\ alone
    BY DEF Answer, ParseError, Die, Busy, Writing, Including
  <1>4. /\ ~ Busy(w)'
        /\ \A v \in Workers : v # w => run'[v] = run[v]
    BY <1>1, <1>2 DEF Busy, Writing, ServerTypeOK
  <1> QED
    BY <1>2, <1>3, <1>4, QuietList DEF WholeInv

LEMMA DownloadList ==
    ASSUME WholeInv, WholeInv', alone', NEW w \in Workers, Download(w)
    PROVE  Listed' = Listed
  <1>1. ServerTypeOK
    BY DEF WholeInv, FreshInv
  <1>2. run[w] \in RunRecords
    BY <1>1, ActiveRun DEF Download
  <1>3. /\ ~ Busy(w) /\ ~ Busy(w)' /\ alone /\ file' = file
        /\ \A v \in Workers : v # w => run'[v] = run[v]
    BY <1>1, <1>2 DEF Download, Includes, Busy, Writing, ServerTypeOK, RunRecords
  <1> QED
    BY <1>3, QuietList DEF WholeInv

LEMMA NextList ==
    ASSUME WholeInv, WholeInv', alone', ServerNext
    PROVE  [Leases!Next]_Listed
  <1>1. ServerTypeOK
    BY DEF WholeInv, FreshInv
  <1>2. ASSUME NEW w \in Workers, Upload(w)
        PROVE  [Leases!Next]_Listed
    <2>1. run[w] \in RunRecords
      BY <1>1, <1>2, ActiveRun DEF Upload
    <2>2. run[w].poster \in Posters
      BY <2>1 DEF RunRecords
    <2> QED
      BY <1>2, <2>2, UploadList DEF Leases!Next
  <1> QED
    BY <1>2, BeginList, EndList, CreateList, DownloadList, TickList, ExpireList,
       CheckList, WriteList
       DEF ServerNext, Step, Leases!Next

\* ServesLeases: as long as runs keep out of the way of each other's writing,
\* RecordManager implements LeaseList, with what a busy run writes as the list, and
\* whenever time passes between the steps of a run.
THEOREM ListServesLeases == ServerSpec => ServesLeases
  <1>1. ServerInit => Leases!Init
    <2> SUFFICES ASSUME ServerInit PROVE Leases!Init
      OBVIOUS
    <2>1. \A w \in Workers : run[w].at = "idle"
      BY DEF ServerInit, NoRun
    <2>2. \A w \in Workers : ~ Busy(w)
      BY <2>1 DEF Busy, Writing
    <2>3. Listed = Read(file)
      BY <2>2 DEF Listed
    <2>4. Read(file) = << >>
      BY FirstFiles DEF ServerInit, NoRecords
    <2> QED
      BY <2>3, <2>4 DEF Leases!Init
  <1>2. WholeInv /\ WholeInv' /\ [ServerNext]_serverVars
          => [alone' /\ Listed' # Listed => Leases!Next]_serverVars
    BY NextList
  <1> QED
    BY InitWhole, NextWhole, <1>1, <1>2, PTL DEF ServerSpec, ServesLeases
=============================================================================
