----------------------------- MODULE RecordFile -----------------------------
(***************************************************************************)
(* RecordFile.data.php, in which the list service keeps its table: a PHP   *)
(* script that assigns the records, and that a reader includes.  It is     *)
(* written by fopen("w"), which empties it, and three fwrites, each at the *)
(* writer's own position, so that two writers lay their bytes over each    *)
(* other.                                                                  *)
(*                                                                         *)
(* Lengths are counted in records: "<?php $records = " takes place 1, the  *)
(* array of n records places 2 to n + 2, and "; ?>" what follows.          *)
(* Records are a function from the posters that are listed to the age of   *)
(* their row, which is time() less the stamp of its last upload.           *)
(***************************************************************************)
EXTENDS Integers, FiniteSets

NoRecords == << >>     \* the function without arguments: an empty array

\* written: some array is in the file; array: the one written last.
EmptyFile == [exists |-> TRUE, head |-> FALSE, written |-> FALSE,
              array |-> NoRecords, ends |-> {}]
MissingFile == [EmptyFile EXCEPT !.exists = FALSE]

\* fopen("w")
Truncated(f) == EmptyFile

Size(recs) == Cardinality(DOMAIN recs)
Body(recs) == 2..Size(recs) + 2
EndOf(recs) == Size(recs) + 3

\* (Wrong on purpose: the last fwrite is forgotten.)
WithoutEnd(f, recs) == f

\* The three fwrites.  An array covers what was written in its places.
WithHead(f) == [f EXCEPT !.head = TRUE]
WithArray(f, recs) == [f EXCEPT !.written = TRUE, !.array = recs,
                                !.ends = @ \ Body(recs)]
WithEnd(f, recs) == [f EXCEPT !.ends = @ \cup {EndOf(recs)}]

\* The file as it comes with the sources.
ShippedFile == [EmptyFile EXCEPT !.head = TRUE, !.written = TRUE,
                                 !.ends = {EndOf(NoRecords)}]

\* include: without its head the file is text that assigns nothing; with it,
\* PHP has to find one whole array and the end right after it.
Readable(f) ==
    f.head => /\ f.written
              /\ EndOf(f.array) \in f.ends
              /\ f.ends \cap Body(f.array) = {}

Read(f) == IF f.head THEN f.array ELSE NoRecords

\* (Wrong on purpose: ages go on for ever.)
OlderForEver(recs, limit) == [k \in DOMAIN recs |-> recs[k] + 1]

\* A time() later: every row is older, up to an age that is told apart from
\* no other.  So are the rows in a file that cannot be read just now.
Older(recs, limit) ==
    [k \in DOMAIN recs |-> IF recs[k] < limit THEN recs[k] + 1 ELSE limit]
OlderFile(f, limit) == [f EXCEPT !.array = Older(@, limit)]
=============================================================================
