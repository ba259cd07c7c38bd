-------------------------------- MODULE Uploads --------------------------------
(***************************************************************************)
(* The documents of the API: an upload as the three writes it is, the file *)
(* on disk, the row and the record that asks for its ingestion, the reader *)
(* of the file in the ingestion worker, and a client that pages through    *)
(* the listing meanwhile.                                                  *)
(*                                                                         *)
(* A document's id is given when its request arrives and orders the        *)
(* listing; its row is written only once its file is, so rows appear out   *)
(* of the order of their ids.  Ids are the numbers in which they are       *)
(* given.  A file is its size.                                             *)
(*                                                                         *)
(* "failures" counts crashes, statements, file operations and produces     *)
(* that fail.                                                              *)
(***************************************************************************)
EXTENDS Naturals, Sequences, FiniteSets, FiniteSetsExt, SequencesExt

CONSTANTS None,         \* no size, no limit
          Types,        \* what a document_type may be
          Stored,       \* the types of the documents stored before, in order
          MaxUploads,   \* bound on the requests that arrive
          MaxBytes,     \* DOCUMENT_MAX_UPLOAD_BYTES
          Sizes,        \* the sizes files are sent in
          DefaultLimit, \* store.DefaultPageLimit
          MaxLimit,     \* store.MaxPageLimit
          MaxFailures   \* bound on failures

ASSUME UploadsAssumption ==
  /\ Stored \in Seq(Types) /\ None \notin Nat
  /\ {MaxUploads, MaxBytes, MaxFailures} \subseteq Nat /\ Sizes \subseteq Nat
  /\ MaxLimit \in Nat \ {0} /\ DefaultLimit \in 1..MaxLimit

VARIABLES
  issued,  \* ids given
  up,      \* by id: the request that uploads it, and what it knows
  disk,    \* by id: its directory under the storage root
  row,     \* by id: its row, or NoRow
  queue,   \* ids produced to documents.ingest.v1
  misread, \* history: ids whose file the worker did not find whole
  lost,    \* history: ids whose insert was applied and reported failed
  kept,    \* history: ids whose directory could not be removed
  listing, \* a client's walk through the pages
  failures

uploads == <<issued, up, disk, row, queue, lost, kept>>
vars    == <<uploads, misread, listing, failures>>

Ids    == 1..(Len(Stored) + MaxUploads)
Old    == 1..Len(Stored)
Bytes  == 0..(MaxBytes + 1)
NoRow  == [size |-> None, type |-> "none"]
NoDir  == [at |-> "none", bytes |-> 0, of |-> 0]
NoPart == [at |-> "idle", saved |-> None, type |-> "none", wrong |-> FALSE,
           answer |-> "none"]

Min2(a, b) == IF a < b THEN a ELSE b

Init ==
  /\ issued = Len(Stored)
  /\ up = [d \in Ids |-> IF d \in Old
                         THEN [NoPart EXCEPT !.at = "answered", !.answer = "201"]
                         ELSE NoPart]
  /\ disk = [d \in Ids |-> IF d \in Old
                           THEN [at |-> "file", bytes |-> MaxBytes, of |-> MaxBytes]
                           ELSE NoDir]
  /\ row = [d \in Ids |-> IF d \in Old
                          THEN [size |-> MaxBytes, type |-> Stored[d]] ELSE NoRow]
  /\ queue = Old
  /\ misread = {} /\ lost = {} /\ kept = {}
  /\ listing = [at |-> "idle", filter |-> "none", limit |-> DefaultLimit,
                cursor |-> 0, seen |-> <<>>, existed |-> {}, hollow |-> FALSE]
  /\ failures = 0

Failure == /\ failures < MaxFailures
           /\ failures' = failures + 1

-----------------------------------------------------------------------------
(* An upload                                                               *)

At(d, at) == d \in Ids /\ up[d].at = at

(* The request arrives and is given its id.                                *)
Arrive ==
  /\ issued < Cardinality(Ids)
  /\ issued' = issued + 1
  /\ up' = [up EXCEPT ![issued + 1].at = "reading"]
  /\ UNCHANGED <<disk, row, queue, lost, kept, misread, listing, failures>>

(* The next part is a form field: taken, or refused for the time when the  *)
(* body has been read.  One that is not known is ignored.                  *)
FieldPart(d) ==
  /\ At(d, "reading")
  /\ \/ \E t \in Types :
          up' = [up EXCEPT ![d].type = t]
     \/ up' = [up EXCEPT ![d].wrong = TRUE]
  /\ UNCHANGED <<issued, disk, row, queue, lost, kept, misread, listing, failures>>

(* A second file, or one whose name is refused: the part is skipped.       *)
FileRefused(d) ==
  /\ At(d, "reading")
  /\ up' = [up EXCEPT ![d].wrong = TRUE]
  /\ UNCHANGED <<issued, disk, row, queue, lost, kept, misread, listing, failures>>

(* Save makes the directory and opens the file in it.                      *)
OpenFile(d) ==
  /\ At(d, "reading") /\ up[d].saved = None
  /\ up' = [up EXCEPT ![d].at = "copying"]
  /\ disk' = [disk EXCEPT ![d] = [at |-> "file", bytes |-> 0, of |-> 0]]
  /\ UNCHANGED <<issued, row, queue, lost, kept, misread, listing, failures>>

(* Either fails: Save leaves what there is, and so does its caller.        *)
OpenFileFails(d) ==
  /\ At(d, "reading") /\ up[d].saved = None
  /\ Failure
  /\ up' = [up EXCEPT ![d].at = "answered", ![d].answer = "500"]
  /\ \/ UNCHANGED disk
     \/ disk' = [disk EXCEPT ![d].at = "dir"]
  /\ UNCHANGED <<issued, row, queue, lost, kept, misread, listing>>

(* A mistaken limit that stops at the cap, and not one byte past it.       *)
CopiedAtTheCap(size) == Min2(size, MaxBytes)

(* What io.Copy brings through the limit of Save.                          *)
Copied(size) == Min2(size, MaxBytes + 1)

(* The file is copied to its end, or to one byte past the limit.           *)
CopyFile(d) ==
  /\ At(d, "copying")
  /\ \E size \in Sizes :
       LET n == Copied(size) IN
       /\ disk' = [disk EXCEPT ![d].bytes = n, ![d].of = size]
       /\ up' = IF n > MaxBytes
                THEN [up EXCEPT ![d].at = "removing", ![d].answer = "4xx"]
                ELSE [up EXCEPT ![d].at = "reading", ![d].saved = n]
  /\ UNCHANGED <<issued, row, queue, lost, kept, misread, listing, failures>>

(* The body is cut short, or goes past the envelope, or the disk is full.  *)
CopyFails(d) ==
  /\ At(d, "copying")
  /\ Failure
  /\ \E a \in {"4xx", "500"} :
       up' = [up EXCEPT ![d].at = "removing", ![d].answer = a]
  /\ UNCHANGED <<issued, disk, row, queue, lost, kept, misread, listing>>

(* The body breaks off between parts, in a field, or at the envelope.      *)
BodyBreaks(d) ==
  /\ At(d, "reading")
  /\ Failure
  /\ up' = [up EXCEPT ![d].at = "removing", ![d].answer = "4xx"]
  /\ UNCHANGED <<issued, disk, row, queue, lost, kept, misread, listing>>

(* A mistaken end of the body whose refusal leaves the file behind.        *)
BodyEndsLeavingFile(d) ==
  /\ At(d, "reading")
  /\ up' = IF up[d].saved = None \/ up[d].type = "none" \/ up[d].wrong
           THEN [up EXCEPT ![d].at = "answered", ![d].answer = "4xx"]
           ELSE [up EXCEPT ![d].at = "inserting"]
  /\ UNCHANGED <<issued, disk, row, queue, lost, kept, misread, listing, failures>>

(* The body ends, and with it the collecting of reasons to refuse it.      *)
BodyEnds(d) ==
  /\ At(d, "reading")
  /\ up' = IF up[d].saved = None \/ up[d].type = "none" \/ up[d].wrong
           THEN [up EXCEPT ![d].at = "removing", ![d].answer = "4xx"]
           ELSE [up EXCEPT ![d].at = "inserting"]
  /\ UNCHANGED <<issued, disk, row, queue, lost, kept, misread, listing, failures>>

(* removeUpload and the Removes of Save and readUpload.                    *)
RemoveUpload(d) ==
  /\ At(d, "removing")
  /\ disk' = [disk EXCEPT ![d] = NoDir]
  /\ up' = [up EXCEPT ![d].at = "answered"]
  /\ UNCHANGED <<issued, row, queue, lost, kept, misread, listing, failures>>

RemoveFails(d) ==
  /\ At(d, "removing")
  /\ Failure
  /\ kept' = kept \cup {d}
  /\ up' = [up EXCEPT ![d].at = "answered"]
  /\ UNCHANGED <<issued, disk, row, queue, lost, misread, listing>>

RowOf(d) == [size |-> up[d].saved, type |-> up[d].type]

(* The row, in PENDING.                                                    *)
CreateDocument(d) ==
  /\ At(d, "inserting")
  /\ row' = [row EXCEPT ![d] = RowOf(d)]
  /\ up' = [up EXCEPT ![d].at = "enqueueing"]
  /\ UNCHANGED <<issued, disk, queue, lost, kept, misread, listing, failures>>

(* The insert fails, or is applied and its answer lost: MySQL gone away in *)
(* between, or the client, with whom the request's context ends.           *)
CreateFails(d) ==
  /\ At(d, "inserting")
  /\ Failure
  /\ up' = [up EXCEPT ![d].at = "removing", ![d].answer = "500"]
  /\ \/ UNCHANGED <<row, lost>>
     \/ row' = [row EXCEPT ![d] = RowOf(d)] /\ lost' = lost \cup {d}
  /\ UNCHANGED <<issued, disk, queue, kept, misread, listing>>

(* The produce, whose failure the answer does not tell.                    *)
Enqueue(d) ==
  /\ At(d, "enqueueing")
  /\ queue' = queue \cup {d}
  /\ up' = [up EXCEPT ![d].at = "answered", ![d].answer = "201"]
  /\ UNCHANGED <<issued, disk, row, lost, kept, misread, listing, failures>>

EnqueueFails(d) ==
  /\ At(d, "enqueueing")
  /\ Failure
  /\ up' = [up EXCEPT ![d].at = "answered", ![d].answer = "201"]
  /\ UNCHANGED <<issued, disk, row, queue, lost, kept, misread, listing>>

(* The API dies with every request it has in hand.                         *)
Crash ==
  /\ Failure
  /\ up' = [d \in Ids |-> IF up[d].at \in {"idle", "answered"} THEN up[d]
                          ELSE [up[d] EXCEPT !.at = "gone", !.answer = "none"]]
  /\ UNCHANGED <<issued, disk, row, queue, lost, kept, misread, listing>>

-----------------------------------------------------------------------------
(* The ingestion worker reads the file of a row, from its record or on the *)
(* sweep's account, up to one byte past the limit.                         *)
ReadFile(d) ==
  /\ row[d] # NoRow
  /\ misread' = IF /\ disk[d].at = "file"
                   /\ Min2(disk[d].bytes, MaxBytes + 1) <= MaxBytes
                   /\ disk[d].bytes = disk[d].of
                THEN misread ELSE misread \cup {d}
  /\ UNCHANGED <<uploads, listing, failures>>

-----------------------------------------------------------------------------
(* The listing                                                             *)

(* A listing is asked for.  A limit outside its bounds is refused, and     *)
(* changes nothing; no limit is the default.                               *)
OpenList ==
  /\ listing.at = "idle"
  /\ \E f \in Types \cup {"none"}, l \in 1..MaxLimit \cup {None} :
       listing' = [listing EXCEPT
         !.at = "paging", !.filter = f,
         !.limit = IF l = None THEN DefaultLimit ELSE l,
         !.existed = {d \in Ids : row[d] # NoRow}]
  /\ UNCHANGED <<uploads, misread, failures>>

Matches(d) == /\ row[d] # NoRow
              /\ listing.filter \in {"none", row[d].type}

(* Ids in descending order: the i-th is the one with i that are as new.    *)
NewestFirst(S) ==
  [i \in 1..Cardinality(S) |-> CHOOSE d \in S : Cardinality({e \in S : e >= d}) = i]

(* What the query selects from: the rows before the cursor.                *)
Before == {d \in Ids : Matches(d) /\ (listing.cursor # 0 => d < listing.cursor)}

(* The query: newest first, and one more than the page holds.              *)
Fetched == LET sorted == NewestFirst(Before)
           IN SubSeq(sorted, 1, Min2(Len(sorted), listing.limit + 1))

(* A mistaken cursor, taken from the row that only shows there is more.    *)
PaginateSkipping(rows, limit) ==
  IF Len(rows) <= limit THEN [items |-> rows, next |-> 0]
  ELSE [items |-> SubSeq(rows, 1, limit), next |-> Last(rows)]

(* The page and the cursor of the next one, 0 when there is none.          *)
Paginate(rows, limit) ==
  IF Len(rows) <= limit THEN [items |-> rows, next |-> 0]
  ELSE [items |-> SubSeq(rows, 1, limit), next |-> rows[limit]]

(* The client asks for a page, and for the next for as long as there is a  *)
(* cursor.                                                                 *)
ListDocuments ==
  /\ listing.at = "paging"
  /\ LET page == Paginate(Fetched, listing.limit) IN
     listing' = [listing EXCEPT
       !.seen = @ \o page.items,
       !.cursor = page.next,
       !.at = IF page.next = 0 THEN "done" ELSE "paging",
       !.hollow = @ \/ (listing.cursor # 0 /\ page.items = <<>>)]
  /\ UNCHANGED <<uploads, misread, failures>>

-----------------------------------------------------------------------------
Next ==
  \/ Arrive \/ Crash \/ OpenList \/ ListDocuments
  \/ \E d \in Ids :
       \/ FieldPart(d) \/ FileRefused(d) \/ OpenFile(d) \/ OpenFileFails(d)
       \/ CopyFile(d) \/ CopyFails(d) \/ BodyBreaks(d) \/ BodyEnds(d)
       \/ RemoveUpload(d) \/ RemoveFails(d) \/ CreateDocument(d) \/ CreateFails(d)
       \/ Enqueue(d) \/ EnqueueFails(d) \/ ReadFile(d)

Spec == Init /\ [][Next]_vars

-----------------------------------------------------------------------------
(* A document's row has its file: whole, as it was sent, within the limit, *)
(* and so found by whoever reads it, in whatever order requests, crashes   *)
(* and failures come.  The exception is the row of an insert that was      *)
(* reported failed (uploadDocument removes the file of a row that exists). *)
RowHasFile ==
  \A d \in Ids : row[d] # NoRow /\ d \notin lost =>
    /\ disk[d] = [at |-> "file", bytes |-> row[d].size, of |-> row[d].size]
    /\ row[d].size <= MaxBytes
    /\ d \notin misread

(* What a client is answered is what was done: 201 for a document that is  *)
(* there, and after an error neither a row nor a file, except where an     *)
(* insert's answer was lost or a removal failed (or the directory of a     *)
(* file that could not be opened).                                         *)
AnswersAreTrue ==
  \A d \in Ids : up[d].at = "answered" =>
    IF up[d].answer = "201" THEN row[d] # NoRow /\ d \notin lost
    ELSE /\ row[d] # NoRow => d \in lost
         /\ disk[d].at = "file" => d \in kept

(* Who follows the cursors sees the listing newest first, nothing twice,   *)
(* every document that was there when it began, and no empty page after    *)
(* the first, whatever is uploaded meanwhile and in whatever order the     *)
(* rows appear (PageParams, paginate).                                     *)
PagesPartition ==
  /\ \A i, j \in 1..Len(listing.seen) : i < j => listing.seen[i] > listing.seen[j]
  /\ listing.at = "done" =>
       {d \in listing.existed : Matches(d)} \subseteq ToSet(listing.seen)
  /\ ~listing.hollow

=============================================================================
