--------------------------- MODULE RecordManager ---------------------------
(***************************************************************************)
(* Connections.php and RecordManager, the list service on the web server:  *)
(* one run of the script per request, several at a time, and the record    *)
(* file between them, which no run locks.  A run creates the file if it is *)
(* missing and expires what is too old; then it downloads, uploads, or     *)
(* both in this order; each of the three includes the file anew, and       *)
(* expiry and upload write it back.                                        *)
(*                                                                         *)
(* time() can change between any two steps of a run.                       *)
(***************************************************************************)
EXTENDS RecordFile

CONSTANTS
    Posters,   \* who sends requests: name, port and address of a row
    Workers,   \* bound: runs of the script at a time
    Timeout,   \* TIMEOUT of Connections.php
    MaxSpan    \* bound: time that passes while one run or another is there

ASSUME TimeoutAssumption == Timeout \in Nat
ASSUME SpanAssumption == MaxSpan \in Nat
ASSUME PostersAssumption == IsFiniteSet(Posters)

VARIABLES
    file,      \* RecordFile.data.php
    run,       \* per worker: the run of the script it is in, or NoRun
    alone,     \* so far no run got in the way of another's writing, see below
    span       \* time that has passed since there was last no run at all

serverVars == <<file, run, alone, span>>

\* query=... of the URL; "denied" stands for one whose password does not match.
Queries == {"upload", "download", "upDown", "view", "denied"}
Uploads == {"upload", "upDown"}

NoRun == [at |-> "idle", poster |-> "", query |-> "", named |-> FALSE,
          then |-> "", records |-> NoRecords]
NewRun(k, query, named) ==
    [at |-> IF file.exists THEN "expire" ELSE "create", poster |-> k, query |-> query,
     named |-> named /\ query \in Uploads, then |-> "", records |-> NoRecords]

\* A run is busy writing from its include to its fclose.
Writing == {"check", "open", "head", "array", "end"}
Including == {"expire", "download", "upload"}

\* (Wrong on purpose: a row may be one unit too old.)
FreshLonger(recs) == [k \in {p \in DOMAIN recs : recs[p] <= Timeout + 1} |-> recs[k]]

Fresh(recs) == [k \in {p \in DOMAIN recs : recs[p] <= Timeout} |-> recs[k]]

\* (Wrong on purpose: the rows of others are not written back.)
StampedAlone(recs, k) == [p \in {k} |-> 0]

Without(recs, gone) == [k \in DOMAIN recs \ gone |-> recs[k]]

Expired(recs) == {k \in DOMAIN recs : recs[k] > Timeout}

Stamped(recs, k) ==
    [p \in DOMAIN recs \cup {k} |-> IF p = k THEN 0 ELSE recs[p]]

\* What the controller of Connections.php does first after expireRecords.
FirstOf(query) ==
    CASE query = "upload" -> "upload"
      [] query = "denied" -> "answer"
      [] OTHER -> "download"

---------------------------------------------------------------------------

Busy(w) == run[w].at \in Writing

\* (Wrong on purpose: half a file is taken for an empty one.)
IncludesAny(w) ==
    /\ alone' = (alone /\ \A v \in Workers : ~ Busy(v))
    /\ UNCHANGED <<file, span>>

\* The run w includes the file here.  Runs do not keep out of each other's way if
\* one reads while another is busy writing, creates the file when another has, or
\* dies while busy.
Includes(w) ==
    /\ Readable(file)
    /\ alone' = (alone /\ \A v \in Workers : ~ Busy(v))
    /\ UNCHANGED <<file, span>>

\* The run w is over; with the last one the list is at rest.
Ends(w) ==
    /\ run' = [run EXCEPT ![w] = NoRun]
    /\ span' = IF \A v \in Workers \ {w} : run[v] = NoRun THEN 0 ELSE span

\* A request whose row has the columns __GAME_PORT and __GAME_NAME is named.
\* The constructor asks first whether the file exists.
Begin(w, k, query, named) ==
    /\ run[w] = NoRun
    /\ run' = [run EXCEPT ![w] = NewRun(k, query, named)]
    /\ UNCHANGED <<file, alone, span>>

\* ... and creates it, though another run may have created and written it by now.
Create(w) ==
    /\ run[w].at = "create"
    /\ file' = Truncated(file)
    /\ run' = [run EXCEPT ![w].at = "expire"]
    /\ alone' = (alone /\ ~ file.exists)
    /\ UNCHANGED span

\* expireRecords: writes the file whenever there was a record in it.  A row that
\* is too old when the loop begins goes.
Expire(w) ==
    /\ run[w].at = "expire" /\ Includes(w)
    /\ run' = IF Read(file) = NoRecords
                THEN [run EXCEPT ![w].at = FirstOf(run[w].query)]
                ELSE [run EXCEPT ![w].at = "check",
                                 ![w].then = FirstOf(run[w].query),
                                 ![w].records = Fresh(Read(file))]

\* The loop asks for the time row by row: one that has become too old since it
\* began goes or stays, as the loop came to it.
Check(w) ==
    /\ run[w].at = "check"
    /\ \E gone \in SUBSET Expired(run[w].records) :
          run' = [run EXCEPT ![w].at = "open", ![w].records = Without(@, gone)]
    /\ UNCHANGED <<file, alone, span>>

\* The write that ends expireRecords and uploadRecords.
Open(w) ==
    /\ run[w].at = "open"
    /\ file' = Truncated(file)
    /\ run' = [run EXCEPT ![w].at = "head"]
    /\ UNCHANGED <<alone, span>>

WriteHead(w) ==
    /\ run[w].at = "head"
    /\ file' = WithHead(file)
    /\ run' = [run EXCEPT ![w].at = "array"]
    /\ UNCHANGED <<alone, span>>

WriteArray(w) ==
    /\ run[w].at = "array"
    /\ file' = WithArray(file, run[w].records)
    /\ run' = [run EXCEPT ![w].at = "end"]
    /\ UNCHANGED <<alone, span>>

WriteEnd(w) ==
    /\ run[w].at = "end"
    /\ file' = WithEnd(file, run[w].records)
    /\ run' = [run EXCEPT ![w].at = run[w].then, ![w].then = "",
                          ![w].records = NoRecords]
    /\ UNCHANGED <<alone, span>>

\* downloadRecords and viewRecords: the rows of Read(file) are the output.
Download(w) ==
    /\ run[w].at = "download" /\ Includes(w)
    /\ run' = [run EXCEPT ![w].at = IF run[w].query = "upDown" THEN "upload"
                                                                ELSE "answer"]

\* uploadRecords: a row that is not named is refused in a comment.
Upload(w) ==
    /\ run[w].at = "upload" /\ Includes(w)
    /\ run' = IF run[w].named
                THEN [run EXCEPT ![w].at = "open", ![w].then = "answer",
                                 ![w].records = Stamped(Read(file), run[w].poster)]
                ELSE [run EXCEPT ![w].at = "answer"]

Answer(w) ==
    /\ run[w].at = "answer" /\ Ends(w)
    /\ UNCHANGED <<file, alone>>

\* The include meets half a file: a parse error ends the run.
ParseError(w) ==
    /\ run[w].at \in Including /\ ~ Readable(file) /\ Ends(w)
    /\ UNCHANGED <<file, alone>>

\* The web server ends a run before its time.
Die(w) ==
    /\ run[w] # NoRun /\ Ends(w)
    /\ alone' = (alone /\ ~ Busy(w))
    /\ UNCHANGED file

\* Rows age in the file and in the variables of the runs that have read it.
Oldest == Timeout + MaxSpan + 1
Resting == \A w \in Workers : run[w] = NoRun
Tick ==
    /\ Resting \/ span < MaxSpan
    /\ span' = IF Resting THEN 0 ELSE span + 1
    /\ file' = OlderFile(file, Oldest)
    /\ run' = [w \in Workers |->
                  [run[w] EXCEPT !.records = Older(@, Oldest)]]
    /\ UNCHANGED alone

Step(w) ==
    \/ Create(w) \/ Expire(w) \/ Check(w) \/ Download(w) \/ Upload(w)
    \/ Answer(w) \/ ParseError(w)
    \/ Open(w) \/ WriteHead(w) \/ WriteArray(w) \/ WriteEnd(w)

ServerInit ==
    /\ file \in {MissingFile, ShippedFile}
    /\ run = [w \in Workers |-> NoRun]
    /\ alone = TRUE
    /\ span = 0

ServerNext ==
    \/ Tick
    \/ \E w \in Workers :
          \/ Step(w) \/ Die(w)
          \/ \E k \in Posters, query \in Queries, named \in BOOLEAN :
                Begin(w, k, query, named)

ServerSpec == ServerInit /\ [][ServerNext]_serverVars

---------------------------------------------------------------------------
(* Properties.                                                             *)

Ages == 0..Oldest
Tables == UNION {[D -> Ages] : D \in SUBSET Posters}

Runs == {NoRun} \cup
    [at : Writing \cup Including \cup {"create", "answer"}, poster : Posters,
     query : Queries, named : BOOLEAN, then : {"", "download", "upload", "answer"},
     records : Tables]

ServerTypeOK ==
    /\ file \in [exists : BOOLEAN, head : BOOLEAN, written : BOOLEAN,
                array : Tables, ends : SUBSET Nat]
    /\ run \in [Workers -> Runs]
    /\ alone \in BOOLEAN
    /\ span \in 0..MaxSpan

\* However runs meet, a run shows no row that had expired when there was last no
\* run at all: not one that found the file empty because another was about to
\* write it, nor one that is given back, by a chain of runs each of which read
\* before the next expired, what all of them had found too old by then.  A run
\* that meets no other shows what was fresh when it began.
NoneLongExpired ==
    \A w \in Workers : run[w].at = "download" /\ Readable(file) =>
        \A k \in DOMAIN Read(file) : Read(file)[k] <= Timeout + span

\* As long as runs kept out of the way of each other's writing, the file can be
\* read whenever nobody is busy writing it.
FileWhole == alone /\ (\A w \in Workers : ~ Busy(w)) => Readable(file)

\* ... and the list keeps its promise (LeaseList): no row is lost but expired
\* ones.  While a run is busy writing, the list is what it writes.
Listed == IF \E w \in Workers : Busy(w)
            THEN run[CHOOSE w \in Workers : Busy(w)].records
            ELSE Read(file)

Leases == INSTANCE LeaseList WITH leases <- Listed, Oldest <- Oldest

ServesLeases ==
    Leases!Init /\ [][alone' /\ Listed' # Listed => Leases!Next]_serverVars

\* Two runs that write at a time, or one that dies meanwhile, can leave a file
\* no run can include.  Unless one is still about to create it, none ever writes it
\* again: the list is down until somebody removes the file by hand.
Broken == ~ Readable(file) /\ \A w \in Workers : ~ Busy(w) /\ run[w].at # "create"
BrokenForGood == [][Broken => Broken']_serverVars
=============================================================================
