----------------------------- MODULE UploadsProofs -----------------------------
(***************************************************************************)
(* Theorems about Uploads, for any number of documents and requests, any   *)
(* sizes, limits and failures: a row has its file, the answers are true,   *)
(* and the pages of a listing partition it.                                *)
(***************************************************************************)
EXTENDS Uploads, FiniteSetTheorems, TLAPS

Stages  == {"idle", "reading", "copying", "removing", "inserting", "enqueueing",
            "answered", "gone"}
Answers == {"none", "201", "4xx", "500"}
Uptype  == [at : Stages, saved : Bytes \cup {None}, type : Types \cup {"none"},
            wrong : BOOLEAN, answer : Answers]
Dir     == [at : {"none", "dir", "file"}, bytes : Nat, of : Nat]
Row     == [size : Bytes \cup {None}, type : Types \cup {"none"}]

UploadsTyped ==
  /\ issued \in Len(Stored)..Cardinality(Ids)
  /\ up \in [Ids -> Uptype]
  /\ disk \in [Ids -> Dir]
  /\ row \in [Ids -> Row]
  /\ {misread, lost, kept} \subseteq SUBSET Ids

-----------------------------------------------------------------------------
(* One document: u its request, f its directory, r its row, and whether it *)
(* is misread, lost and kept.                                              *)

Whole(f, size) == f = [at |-> "file", bytes |-> size, of |-> size] /\ size <= MaxBytes

(* Before its insert a document has no row, and its file is there from the *)
(* moment its size is known.                                               *)
Arriving(u, f, r, l) ==
  /\ u.at \in {"idle", "reading", "copying", "inserting"} => r = NoRow /\ ~l
  /\ u.at = "idle" => u.saved = None
  /\ u.at \in {"idle", "reading"} /\ u.saved = None => f.at # "file"
  /\ u.at = "copying" => f.at = "file"
  /\ u.at \in {"reading", "inserting"} /\ u.saved # None => Whole(f, u.saved)
  /\ u.at = "inserting" => u.saved # None

(* After it the row is there; what is being removed has none the insert    *)
(* reported.                                                               *)
Leaving(u, r, l) ==
  /\ u.at = "enqueueing" => r # NoRow /\ ~l
  /\ u.at = "removing" => u.answer # "201" /\ (r # NoRow => l)

HasFile(f, r, m, l) ==
  /\ r = NoRow => ~m
  /\ r # NoRow /\ ~l => Whole(f, r.size) /\ ~m

AnswerTrue(u, f, r, l, k) ==
  u.at = "answered" => IF u.answer = "201" THEN r # NoRow /\ ~l
                       ELSE (r # NoRow => l) /\ (f.at = "file" => k)

Document(u, f, r, m, l, k) ==
  /\ Arriving(u, f, r, l) /\ Leaving(u, r, l)
  /\ HasFile(f, r, m, l) /\ AnswerTrue(u, f, r, l, k)

DocumentsKept ==
  /\ \A d \in Ids : Document(up[d], disk[d], row[d], d \in misread, d \in lost, d \in kept)
  /\ \A d \in Ids : d > issued => up[d].at = "idle"

(* The inductive invariant of the uploads. *)
UploadInv == UploadsTyped /\ DocumentsKept

-----------------------------------------------------------------------------
(* What a copy brings is the whole file or goes past the limit (Save).     *)
LEMMA CopiedWhole ==
  ASSUME NEW size \in Sizes
  PROVE  /\ Copied(size) \in Bytes
         /\ Copied(size) <= MaxBytes => Copied(size) = size
         /\ size \in Nat /\ Copied(size) \in Nat /\ Copied(size) # None
BY UploadsAssumption DEF Copied, Min2, Bytes

(* The constants that the strings of the records are kept away from.       *)
LEMMA Constants ==
  /\ MaxBytes \in Nat /\ None \notin Nat /\ MaxBytes \in Bytes /\ Bytes \subseteq Nat
  /\ Len(Stored) \in Nat /\ MaxUploads \in Nat /\ Ids \subseteq Nat \ {0} /\ Old \subseteq Ids
  /\ IsFiniteSet(Ids) /\ Cardinality(Ids) = Len(Stored) + MaxUploads
<1>1. Len(Stored) \in Nat /\ MaxUploads \in Nat /\ MaxBytes \in Nat /\ None \notin Nat
  BY UploadsAssumption
<1>2. IsFiniteSet(Ids) /\ Cardinality(Ids) = Len(Stored) + MaxUploads
  <2> DEFINE n == Len(Stored) + MaxUploads
  <2>1. n \in Nat  BY <1>1
  <2> HIDE DEF n
  <2>2. IsFiniteSet(1..n) /\ Cardinality(1..n) = IF 1 > n THEN 0 ELSE n - 1 + 1
    BY <2>1, FS_Interval
  <2>3. (IF 1 > n THEN 0 ELSE n - 1 + 1) = n  BY <2>1
  <2>4. Ids = 1..n  BY DEF Ids, n
  <2> QED BY <2>2, <2>3, <2>4 DEF n
<1> QED BY <1>1, <1>2 DEF Ids, Old, Bytes

(* What was stored before has a type there is.                             *)
LEMMA StoredTypes == ASSUME NEW d \in Old PROVE Stored[d] \in Types
BY UploadsAssumption DEF Old

(* Everything about every document but one stays as it is.                 *)
OnlyUp(d)   == up' \in [Ids -> Uptype] /\ \A e \in Ids \ {d} : up'[e] = up[e]
OnlyDisk(d) == disk' \in [Ids -> Dir] /\ \A e \in Ids \ {d} : disk'[e] = disk[e]
OnlyRow(d)  == row' \in [Ids -> Row] /\ \A e \in Ids \ {d} : row'[e] = row[e]
OnlySets(d) ==
  /\ misread' \in {misread, misread \cup {d}}
  /\ lost' \in {lost, lost \cup {d}}
  /\ kept' \in {kept, kept \cup {d}}

DocumentAfter(d) ==
  Document(up'[d], disk'[d], row'[d], d \in misread', d \in lost', d \in kept')

(* A step of one document that keeps what must hold of it keeps the        *)
(* invariant.                                                              *)
LEMMA StepOfOne ==
  ASSUME UploadInv, NEW d \in Ids, OnlyUp(d), OnlyDisk(d), OnlyRow(d), OnlySets(d),
         UNCHANGED issued, up[d].at # "idle" \/ up'[d] = up[d], DocumentAfter(d)
  PROVE  UploadInv'
<1>1. UploadsTyped'
  BY DEF UploadInv, UploadsTyped, OnlyUp, OnlyDisk, OnlyRow, OnlySets
<1>2. ASSUME NEW e \in Ids
      PROVE  Document(up'[e], disk'[e], row'[e], e \in misread', e \in lost', e \in kept')
  <2>1. CASE e = d  BY <2>1 DEF DocumentAfter
  <2>2. CASE e # d
    <3>1. /\ up'[e] = up[e] /\ disk'[e] = disk[e] /\ row'[e] = row[e]
          /\ (e \in misread') = (e \in misread)
          /\ (e \in lost') = (e \in lost) /\ (e \in kept') = (e \in kept)
      BY <2>2 DEF OnlyUp, OnlyDisk, OnlyRow, OnlySets
    <3> QED BY <3>1 DEF UploadInv, DocumentsKept
  <2> QED BY <2>1, <2>2
<1>3. ASSUME NEW e \in Ids, e > issued' PROVE up'[e].at = "idle"
  BY <1>3 DEF UploadInv, DocumentsKept, OnlyUp
<1> QED BY <1>1, <1>2, <1>3 DEF UploadInv, DocumentsKept

(* What is known of a document.                                            *)
LEMMA Known ==
  ASSUME UploadInv, NEW d \in Ids
  PROVE  /\ up[d] \in Uptype /\ disk[d] \in Dir /\ row[d] \in Row
         /\ Document(up[d], disk[d], row[d], d \in misread, d \in lost, d \in kept)
BY DEF UploadInv, UploadsTyped, DocumentsKept

(* What is left alone is only of d, whichever d is.                        *)
LEMMA LeftAlone ==
  ASSUME UploadInv, NEW d \in Ids
  PROVE  /\ UNCHANGED up => OnlyUp(d)
         /\ UNCHANGED disk => OnlyDisk(d)
         /\ UNCHANGED row => OnlyRow(d)
         /\ UNCHANGED <<misread, lost, kept>> => OnlySets(d)
BY DEF UploadInv, UploadsTyped, OnlyUp, OnlyDisk, OnlyRow, OnlySets

(* The updates of a request's record.                                      *)
LEMMA MovesOn ==
  ASSUME UploadInv, NEW d \in Ids, NEW a \in Stages, up' = [up EXCEPT ![d].at = a]
  PROVE  OnlyUp(d) /\ up'[d].at = a /\ up'[d].saved = up[d].saved /\ up'[d].answer = up[d].answer
BY DEF UploadInv, UploadsTyped, OnlyUp, Uptype

(* ... with the answer it will be given.                                   *)
LEMMA MovesAnswering ==
  ASSUME UploadInv, NEW d \in Ids, NEW a \in Stages, NEW b \in Answers,
         up' = [up EXCEPT ![d].at = a, ![d].answer = b]
  PROVE  OnlyUp(d) /\ up'[d].at = a /\ up'[d].saved = up[d].saved /\ up'[d].answer = b
BY DEF UploadInv, UploadsTyped, OnlyUp, Uptype

(* ... with the size of the file that was saved.                           *)
LEMMA MovesSaving ==
  ASSUME UploadInv, NEW d \in Ids, NEW a \in Stages, NEW n \in Bytes,
         up' = [up EXCEPT ![d].at = a, ![d].saved = n]
  PROVE  OnlyUp(d) /\ up'[d].at = a /\ up'[d].saved = n /\ up'[d].answer = up[d].answer
BY DEF UploadInv, UploadsTyped, OnlyUp, Uptype

(* A directory is replaced by another.                                     *)
LEMMA Directory ==
  ASSUME UploadInv, NEW d \in Ids, NEW f \in Dir, disk' = [disk EXCEPT ![d] = f]
  PROVE  OnlyDisk(d) /\ disk'[d] = f
BY DEF UploadInv, UploadsTyped, OnlyDisk

-----------------------------------------------------------------------------
(* Steps of one upload                                                     *)

(* Fields and parts that are refused keep it.                              *)
LEMMA PartSteps ==
  ASSUME UploadInv, NEW d \in Ids, FieldPart(d) \/ FileRefused(d)
  PROVE  UploadInv'
<1>1. up[d].at = "reading" /\ UNCHANGED <<issued, disk, row, misread, lost, kept>>
  BY DEF FieldPart, FileRefused, At
<1>2. /\ OnlyUp(d) /\ up'[d].at = up[d].at
      /\ up'[d].saved = up[d].saved /\ up'[d].answer = up[d].answer
  <2>1. CASE \E t \in Types : up' = [up EXCEPT ![d].type = t]
    BY <2>1 DEF UploadInv, UploadsTyped, OnlyUp, Uptype
  <2>2. CASE up' = [up EXCEPT ![d].wrong = TRUE]
    BY <2>2 DEF UploadInv, UploadsTyped, OnlyUp, Uptype
  <2> QED BY <2>1, <2>2 DEF FieldPart, FileRefused
<1>3. DocumentAfter(d)
  BY <1>1, <1>2, Known DEF DocumentAfter, Document, Arriving, Leaving, HasFile, AnswerTrue
<1> QED BY <1>1, <1>2, <1>3, StepOfOne, LeftAlone

(* The end of the body, or the place where it breaks, and the failure of a *)
(* copy keep it.                                                           *)
LEMMA BodySteps ==
  ASSUME UploadInv, NEW d \in Ids, BodyBreaks(d) \/ BodyEnds(d) \/ CopyFails(d)
  PROVE  UploadInv'
<1>1. /\ up[d].at \in {"reading", "copying"}
      /\ UNCHANGED <<issued, disk, row, misread, lost, kept>>
  BY DEF BodyBreaks, BodyEnds, CopyFails, At
<1>2. CASE \E b \in {"4xx", "500"} : up' = [up EXCEPT ![d].at = "removing", ![d].answer = b]
  <2>1. OnlyUp(d) /\ up'[d].at = "removing" /\ up'[d].answer \in {"4xx", "500"}
    BY <1>2, MovesAnswering DEF Stages, Answers
  <2>2. DocumentAfter(d)
    BY <1>1, <2>1, Known DEF DocumentAfter, Document, Arriving, Leaving, HasFile, AnswerTrue
  <2> QED BY <1>1, <2>1, <2>2, StepOfOne, LeftAlone
<1>3. CASE /\ up[d].at = "reading" /\ up[d].saved # None
           /\ up' = [up EXCEPT ![d].at = "inserting"]
  <2>1. OnlyUp(d) /\ up'[d].at = "inserting" /\ up'[d].saved = up[d].saved
    BY <1>3, MovesOn DEF Stages
  <2>2. DocumentAfter(d)
    BY <1>1, <1>3, <2>1, Known
    DEF DocumentAfter, Document, Arriving, Leaving, HasFile, AnswerTrue
  <2> QED BY <1>1, <2>1, <2>2, StepOfOne, LeftAlone
<1> QED BY <1>2, <1>3 DEF BodyBreaks, BodyEnds, CopyFails, At

(* The file is opened, or could not be (Save).                             *)
LEMMA OpenSteps ==
  ASSUME UploadInv, NEW d \in Ids, OpenFile(d) \/ OpenFileFails(d)
  PROVE  UploadInv'
<1>1. /\ up[d].at = "reading" /\ up[d].saved = None
      /\ UNCHANGED <<issued, row, misread, lost, kept>>
  BY DEF OpenFile, OpenFileFails, At
<1>2. CASE OpenFile(d)
  <2> DEFINE f == [at |-> "file", bytes |-> 0, of |-> 0]
  <2>1. f \in Dir /\ f.at = "file"  BY DEF Dir
  <2>2. OnlyDisk(d) /\ disk'[d].at = "file"
    <3>1. disk' = [disk EXCEPT ![d] = f]  BY <1>2 DEF OpenFile
    <3> HIDE DEF f
    <3> QED BY <2>1, <3>1, Directory
  <2>3. OnlyUp(d) /\ up'[d].at = "copying"
    BY <1>2, MovesOn DEF OpenFile, Stages
  <2>4. DocumentAfter(d)
    BY <1>1, <2>2, <2>3, Known
    DEF DocumentAfter, Document, Arriving, Leaving, HasFile, AnswerTrue
  <2> QED BY <1>1, <2>2, <2>3, <2>4, StepOfOne, LeftAlone
<1>3. CASE OpenFileFails(d)
  <2>1. OnlyUp(d) /\ up'[d].at = "answered" /\ up'[d].answer = "500"
    BY <1>3, MovesAnswering DEF OpenFileFails, Stages, Answers
  <2>2. OnlyDisk(d) /\ disk'[d].at # "file"
    <3>1. CASE UNCHANGED disk
      BY <3>1, <1>1, LeftAlone, Known DEF Document, Arriving
    <3>2. CASE disk' = [disk EXCEPT ![d].at = "dir"]
      BY <3>2 DEF OnlyDisk, UploadInv, UploadsTyped, Dir
    <3> QED BY <1>3, <3>1, <3>2 DEF OpenFileFails
  <2>3. DocumentAfter(d)
    BY <1>1, <2>1, <2>2, Known DEF DocumentAfter, Document, Arriving, Leaving, HasFile, AnswerTrue
  <2> QED BY <1>1, <2>1, <2>2, <2>3, StepOfOne, LeftAlone
<1> QED BY <1>2, <1>3

(* The copy comes to its end, or to the limit (Save).                      *)
LEMMA CopyStep ==
  ASSUME UploadInv, NEW d \in Ids, CopyFile(d)
  PROVE  UploadInv'
<1>1. up[d].at = "copying" /\ UNCHANGED <<issued, row, misread, lost, kept>>
  BY DEF CopyFile, At
<1>2. PICK size \in Sizes :
        /\ disk' = [disk EXCEPT ![d].bytes = Copied(size), ![d].of = size]
        /\ up' = IF Copied(size) > MaxBytes
                 THEN [up EXCEPT ![d].at = "removing", ![d].answer = "4xx"]
                 ELSE [up EXCEPT ![d].at = "reading", ![d].saved = Copied(size)]
  BY DEF CopyFile
<1> DEFINE n == Copied(size)
<1>3. /\ n \in Bytes /\ n \in Nat /\ n # None /\ size \in Nat
      /\ n > MaxBytes \/ (n <= MaxBytes /\ n = size)
  BY CopiedWhole, Constants
<1> HIDE DEF n
<1>4. disk' = [disk EXCEPT ![d].bytes = n, ![d].of = size]
  BY <1>2 DEF n
<1>5. OnlyDisk(d) /\ disk'[d].bytes = n /\ disk'[d].of = size
  BY <1>3, <1>4 DEF OnlyDisk, UploadInv, UploadsTyped, Dir
<1>6. CASE n > MaxBytes
  <2>1. up' = [up EXCEPT ![d].at = "removing", ![d].answer = "4xx"]
    BY <1>2, <1>6 DEF n
  <2>2. OnlyUp(d) /\ up'[d].at = "removing" /\ up'[d].answer = "4xx"
    BY <2>1, MovesAnswering DEF Stages, Answers
  <2>3. DocumentAfter(d)
    BY <1>1, <2>2, Known DEF DocumentAfter, Document, Arriving, Leaving, HasFile, AnswerTrue
  <2> QED BY <1>1, <1>5, <2>2, <2>3, StepOfOne, LeftAlone
<1>7. CASE ~(n > MaxBytes)
  <2>1. up' = [up EXCEPT ![d].at = "reading", ![d].saved = n]
    BY <1>2, <1>7 DEF n
  <2>2. OnlyUp(d) /\ up'[d].at = "reading" /\ up'[d].saved = n
    BY <2>1, <1>3, MovesSaving DEF Stages
  <2>3. Whole(disk'[d], n)
    <3>1. disk'[d].at = "file"
      <4>1. disk[d].at = "file"
        BY <1>1, Known DEF Document, Arriving
      <4> QED BY <1>4, <4>1 DEF UploadInv, UploadsTyped, Dir
    <3>2. disk'[d] \in Dir /\ n = size /\ n <= MaxBytes
      BY <1>3, <1>5, <1>7 DEF OnlyDisk
    <3> QED BY <3>1, <3>2, <1>5 DEF Whole, Dir
  <2>4. DocumentAfter(d)
    BY <1>1, <1>3, <2>2, <2>3, Known
    DEF DocumentAfter, Document, Arriving, Leaving, HasFile, AnswerTrue
  <2> QED BY <1>1, <1>5, <2>2, <2>4, StepOfOne, LeftAlone
<1> QED BY <1>6, <1>7

(* What is removed, or could not be (removeUpload).                        *)
LEMMA RemoveSteps ==
  ASSUME UploadInv, NEW d \in Ids, RemoveUpload(d) \/ RemoveFails(d)
  PROVE  UploadInv'
<1>1. up[d].at = "removing" /\ UNCHANGED <<issued, row, misread, lost>>
  BY DEF RemoveUpload, RemoveFails, At
<1>2. OnlyUp(d) /\ up'[d].at = "answered" /\ up'[d].answer = up[d].answer
  BY MovesOn DEF RemoveUpload, RemoveFails, Stages
<1>3. OnlyDisk(d) /\ (disk'[d].at = "file" => d \in kept')
  <2>1. CASE RemoveUpload(d)
    <3>1. NoDir \in Dir /\ NoDir.at = "none"  BY DEF NoDir, Dir
    <3>2. disk' = [disk EXCEPT ![d] = NoDir]  BY <2>1 DEF RemoveUpload
    <3> QED BY <3>1, <3>2, Directory
  <2>2. CASE RemoveFails(d)
    BY <2>2, LeftAlone DEF RemoveFails
  <2> QED BY <2>1, <2>2
<1>4. OnlySets(d)
  BY DEF RemoveUpload, RemoveFails, OnlySets
<1>5. DocumentAfter(d)
  BY <1>1, <1>2, <1>3, Known DEF DocumentAfter, Document, Arriving, Leaving, HasFile, AnswerTrue
<1> QED BY <1>1, <1>2, <1>3, <1>4, <1>5, StepOfOne, LeftAlone

(* The row of what is inserted.                                            *)
LEMMA Inserted ==
  ASSUME UploadInv, NEW d \in Ids, up[d].at = "inserting", row' = [row EXCEPT ![d] = RowOf(d)]
  PROVE  OnlyRow(d) /\ row'[d] # NoRow /\ row'[d].size = up[d].saved
<1>1. up[d].saved # None
  BY Known DEF Document, Arriving
<1>2. RowOf(d) \in Row /\ RowOf(d).size = up[d].saved
  BY Known DEF RowOf, Uptype, Row
<1>3. RowOf(d) # NoRow
  BY <1>1, <1>2 DEF NoRow
<1> QED BY <1>2, <1>3 DEF OnlyRow, UploadInv, UploadsTyped

(* The insert, whether it is applied and whether its answer comes.         *)
LEMMA CreateSteps ==
  ASSUME UploadInv, NEW d \in Ids, CreateDocument(d) \/ CreateFails(d)
  PROVE  UploadInv'
<1>1. up[d].at = "inserting" /\ UNCHANGED <<issued, disk, misread, kept>>
  BY DEF CreateDocument, CreateFails, At
<1>2. up[d].saved # None /\ Whole(disk[d], up[d].saved) /\ row[d] = NoRow /\ d \notin lost
      /\ d \notin misread
  BY <1>1, Known DEF Document, Arriving, HasFile
<1>3. CASE CreateDocument(d)
  <2>1. OnlyUp(d) /\ up'[d].at = "enqueueing"
    BY <1>3, MovesOn DEF CreateDocument, Stages
  <2>2. OnlyRow(d) /\ row'[d] # NoRow /\ row'[d].size = up[d].saved /\ UNCHANGED lost
    BY <1>1, <1>3, Inserted DEF CreateDocument
  <2>3. DocumentAfter(d)
    BY <1>1, <1>2, <2>1, <2>2
    DEF DocumentAfter, Document, Arriving, Leaving, HasFile, AnswerTrue
  <2> QED BY <1>1, <2>1, <2>2, <2>3, StepOfOne, LeftAlone
<1>4. CASE CreateFails(d)
  <2>1. OnlyUp(d) /\ up'[d].at = "removing" /\ up'[d].answer = "500"
    BY <1>4, MovesAnswering DEF CreateFails, Stages, Answers
  <2>2. /\ OnlyRow(d) /\ OnlySets(d)
        /\ \/ row'[d] = NoRow /\ UNCHANGED lost
           \/ row'[d] # NoRow /\ d \in lost'
    <3>1. CASE UNCHANGED <<row, lost>>
      BY <3>1, <1>1, <1>2, LeftAlone
    <3>2. CASE row' = [row EXCEPT ![d] = RowOf(d)] /\ lost' = lost \cup {d}
      BY <3>2, <1>1, Inserted DEF OnlySets
    <3> QED BY <3>1, <3>2, <1>4 DEF CreateFails
  <2>3. DocumentAfter(d)
    BY <1>1, <1>2, <2>1, <2>2
    DEF DocumentAfter, Document, Arriving, Leaving, HasFile, AnswerTrue
  <2> QED BY <1>1, <2>1, <2>2, <2>3, StepOfOne, LeftAlone
<1> QED BY <1>3, <1>4

(* The record, produced or not.                                            *)
LEMMA EnqueueSteps ==
  ASSUME UploadInv, NEW d \in Ids, Enqueue(d) \/ EnqueueFails(d)
  PROVE  UploadInv'
<1>1. up[d].at = "enqueueing" /\ UNCHANGED <<issued, disk, row, misread, lost, kept>>
  BY DEF Enqueue, EnqueueFails, At
<1>2. OnlyUp(d) /\ up'[d].at = "answered" /\ up'[d].answer = "201"
  BY MovesAnswering DEF Enqueue, EnqueueFails, Stages, Answers
<1>3. DocumentAfter(d)
  BY <1>1, <1>2, Known DEF DocumentAfter, Document, Arriving, Leaving, HasFile, AnswerTrue
<1> QED BY <1>1, <1>2, <1>3, StepOfOne, LeftAlone

(* The worker finds the file of a row that was not lost (files.Open).      *)
LEMMA ReadStep ==
  ASSUME UploadInv, NEW d \in Ids, ReadFile(d)
  PROVE  UploadInv'
<1>1. row[d] # NoRow /\ UNCHANGED <<issued, up, disk, row, lost, kept>>
  BY DEF ReadFile, uploads
<1>2. OnlySets(d)
  BY <1>1 DEF ReadFile, OnlySets
<1>3. ASSUME d \notin lost PROVE misread' = misread
  <2>1. Whole(disk[d], row[d].size)
    BY <1>1, <1>3, Known DEF Document, HasFile
  <2>2. /\ disk[d].at = "file" /\ disk[d].bytes = disk[d].of
        /\ disk[d].bytes <= MaxBytes
    BY <2>1 DEF Whole
  <2>3. Min2(disk[d].bytes, MaxBytes + 1) <= MaxBytes
    <3>1. disk[d].bytes \in Nat  BY Known DEF Dir
    <3> QED BY <2>2, <3>1, Constants DEF Min2
  <2> QED BY <2>2, <2>3 DEF ReadFile
<1>4. DocumentAfter(d)
  BY <1>1, <1>3, Known DEF DocumentAfter, Document, Arriving, Leaving, HasFile, AnswerTrue
<1> QED BY <1>1, <1>2, <1>4, StepOfOne, LeftAlone

-----------------------------------------------------------------------------
(* The steps of the process, and the invariant                             *)

(* A request that arrives is given an id nothing is known of yet.          *)
LEMMA ArriveStep == ASSUME UploadInv, Arrive PROVE UploadInv'
<1> DEFINE d == issued + 1
<1>1. /\ issued \in Nat /\ issued' = issued + 1 /\ issued' \in Len(Stored)..Cardinality(Ids)
      /\ d \in Ids /\ d > issued
  BY Constants DEF Arrive, UploadInv, UploadsTyped, Ids
<1>2. /\ up' = [up EXCEPT ![d].at = "reading"]
      /\ UNCHANGED <<disk, row, misread, lost, kept>>
  BY DEF Arrive
<1> HIDE DEF d
<1>3. up[d].at = "idle"
  BY <1>1 DEF UploadInv, DocumentsKept
<1>4. OnlyUp(d) /\ up'[d].at = "reading" /\ up'[d].saved = up[d].saved
  BY <1>1, <1>2, MovesOn DEF Stages
<1>5. DocumentAfter(d)
  BY <1>1, <1>2, <1>3, <1>4, Known
  DEF DocumentAfter, Document, Arriving, Leaving, HasFile, AnswerTrue
<1>6. UploadsTyped'
  BY <1>1, <1>2, <1>4 DEF UploadInv, UploadsTyped, OnlyUp
<1>7. ASSUME NEW e \in Ids
      PROVE  Document(up'[e], disk'[e], row'[e], e \in misread', e \in lost', e \in kept')
  BY <1>2, <1>4, <1>5 DEF UploadInv, DocumentsKept, DocumentAfter, OnlyUp
<1>8. ASSUME NEW e \in Ids, e > issued' PROVE up'[e].at = "idle"
  <2>1. e # d /\ e > issued
    BY <1>1, <1>8, Constants DEF d
  <2> QED BY <2>1, <1>4 DEF UploadInv, DocumentsKept, OnlyUp
<1> QED BY <1>6, <1>7, <1>8 DEF UploadInv, DocumentsKept

(* A crash takes the requests and leaves files and rows as they are.       *)
LEMMA CrashStep == ASSUME UploadInv, Crash PROVE UploadInv'
<1>1. /\ UNCHANGED <<issued, disk, row, misread, lost, kept>>
      /\ up' = [d \in Ids |-> IF up[d].at \in {"idle", "answered"} THEN up[d]
                              ELSE [up[d] EXCEPT !.at = "gone", !.answer = "none"]]
  BY DEF Crash
<1>2. ASSUME NEW d \in Ids
      PROVE  /\ up'[d] \in Uptype
             /\ \/ up'[d] = up[d]
                \/ up'[d].at = "gone" /\ up[d].at # "idle"
  BY <1>1, Known DEF Uptype, Stages, Answers
<1>3. UploadsTyped'
  BY <1>1, <1>2 DEF UploadInv, UploadsTyped
<1>4. ASSUME NEW d \in Ids
      PROVE  Document(up'[d], disk'[d], row'[d], d \in misread', d \in lost', d \in kept')
  BY <1>1, <1>2, Known DEF Document, Arriving, Leaving, HasFile, AnswerTrue
<1>5. ASSUME NEW d \in Ids, d > issued' PROVE up'[d].at = "idle"
  BY <1>1, <1>2, <1>5 DEF UploadInv, DocumentsKept
<1> QED BY <1>3, <1>4, <1>5 DEF UploadInv, DocumentsKept

(* The documents stored before have their files and rows.                  *)
LEMMA UploadInit == Init => UploadInv
<1> SUFFICES ASSUME Init PROVE UploadInv  OBVIOUS
<1> USE Constants
<1>1. ASSUME NEW d \in Ids
      PROVE  /\ up[d] \in Uptype /\ disk[d] \in Dir /\ row[d] \in Row
             /\ Document(up[d], disk[d], row[d], d \in misread, d \in lost, d \in kept)
             /\ d > issued => up[d].at = "idle"
  <2>1. CASE d \in Old
    <3>1. /\ up[d] = [NoPart EXCEPT !.at = "answered", !.answer = "201"]
          /\ disk[d] = [at |-> "file", bytes |-> MaxBytes, of |-> MaxBytes]
          /\ row[d] = [size |-> MaxBytes, type |-> Stored[d]]
          /\ issued = Len(Stored) /\ misread = {} /\ lost = {}
      BY <2>1 DEF Init
    <3>2. /\ up[d] \in Uptype /\ up[d].at = "answered" /\ up[d].answer = "201"
      BY <3>1 DEF NoPart, Uptype, Stages, Answers
    <3>3. row[d] \in Row /\ row[d] # NoRow /\ disk[d] \in Dir /\ Whole(disk[d], row[d].size)
      BY <2>1, <3>1, StoredTypes DEF Row, NoRow, Dir, Whole
    <3>4. ~(d > issued)
      BY <2>1, <3>1 DEF Old
    <3> QED
      BY <3>1, <3>2, <3>3, <3>4 DEF Document, Arriving, Leaving, HasFile, AnswerTrue
  <2>2. CASE d \notin Old
    <3>1. /\ up[d] = NoPart /\ disk[d] = NoDir /\ row[d] = NoRow
          /\ misread = {} /\ lost = {}
      BY <2>2 DEF Init
    <3> QED
      BY <3>1 DEF Document, Arriving, Leaving, HasFile, AnswerTrue, NoPart, NoDir, NoRow,
                  Uptype, Stages, Answers, Dir, Row
  <2> QED BY <2>1, <2>2
<1>2. UploadsTyped
  <2>1. issued \in Len(Stored)..Cardinality(Ids)
    BY DEF Init
  <2> QED BY <2>1, <1>1 DEF UploadsTyped, Init
<1> QED BY <1>1, <1>2 DEF UploadInv, DocumentsKept

(* Every step keeps the invariant of the uploads.                          *)
LEMMA UploadStep == UploadInv /\ [Next]_vars => UploadInv'
<1> SUFFICES ASSUME UploadInv, [Next]_vars PROVE UploadInv'  OBVIOUS
<1>1. CASE \E d \in Ids :
             \/ FieldPart(d) \/ FileRefused(d) \/ OpenFile(d) \/ OpenFileFails(d)
             \/ CopyFile(d) \/ CopyFails(d) \/ BodyBreaks(d) \/ BodyEnds(d)
             \/ RemoveUpload(d) \/ RemoveFails(d) \/ CreateDocument(d) \/ CreateFails(d)
             \/ Enqueue(d) \/ EnqueueFails(d) \/ ReadFile(d)
  BY <1>1, PartSteps, BodySteps, OpenSteps, CopyStep, RemoveSteps, CreateSteps,
     EnqueueSteps, ReadStep
<1>2. CASE UNCHANGED <<uploads, misread>>
  BY <1>2 DEF uploads, UploadInv, UploadsTyped, DocumentsKept
<1>3. ASSUME OpenList \/ ListDocuments \/ UNCHANGED vars PROVE UNCHANGED <<uploads, misread>>
  BY <1>3 DEF OpenList, ListDocuments, vars
<1> QED BY <1>1, <1>2, <1>3, ArriveStep, CrashStep DEF Next

(* The inductive invariant of the uploads holds in every reachable state.  *)
THEOREM UploadInvHolds == Spec => []UploadInv
BY UploadInit, UploadStep, PTL DEF Spec

(* A row that the insert reported has its file, whole and within the       *)
(* limit, whatever fails and in whatever order requests come.              *)
THEOREM RowsHaveFiles == Spec => []RowHasFile
<1>1. UploadInv => RowHasFile
  BY DEF UploadInv, DocumentsKept, Document, HasFile, Whole, RowHasFile
<1> QED BY <1>1, UploadInvHolds, PTL

(* A client that is answered 201 has its document, and one that is         *)
(* answered an error has left neither row nor file, but for what was lost  *)
(* or kept.                                                                *)
THEOREM AnswersHold == Spec => []AnswersAreTrue
<1>1. UploadInv => AnswersAreTrue
  BY DEF UploadInv, DocumentsKept, Document, AnswerTrue, AnswersAreTrue
<1> QED BY <1>1, UploadInvHolds, PTL

-----------------------------------------------------------------------------
(* The listing                                                             *)

Rank(S, d) == Cardinality({e \in S : e >= d})

(* Newer ids have the smaller rank, and every rank is taken.               *)
LEMMA Ranked ==
  ASSUME NEW S \in SUBSET Ids
  PROVE  /\ IsFiniteSet(S) /\ Cardinality(S) \in Nat
         /\ \A d \in S : Rank(S, d) \in 1..Cardinality(S)
         /\ \A d, e \in S : d > e => Rank(S, d) < Rank(S, e)
         /\ \A i \in 1..Cardinality(S) : \E d \in S : Rank(S, d) = i
<1>1. IsFiniteSet(S) /\ Cardinality(S) \in Nat /\ S \subseteq Nat
  BY Constants, FS_Subset, FS_CardinalityType
<1>2. ASSUME NEW T \in SUBSET S
      PROVE  IsFiniteSet(T) /\ Cardinality(T) \in Nat /\ Cardinality(T) <= Cardinality(S)
             /\ (T # {} => Cardinality(T) # 0)
  BY <1>1, FS_Subset, FS_CardinalityType, FS_EmptySet
<1>3. ASSUME NEW d \in S PROVE Rank(S, d) \in 1..Cardinality(S)
  <2>1. d \in {e \in S : e >= d}  BY <1>1
  <2>2. {e \in S : e >= d} \in SUBSET S  OBVIOUS
  <2> QED BY <1>1, <1>2, <2>1, <2>2 DEF Rank
<1>4. ASSUME NEW d \in S, NEW e \in S, d > e PROVE Rank(S, d) < Rank(S, e)
  <2> DEFINE A == {x \in S : x >= d}
             B == {x \in S : x >= e}
  <2>1. A \in SUBSET B /\ e \in B /\ e \notin A
    <3>1. d \in Nat /\ e \in Nat /\ e >= e /\ ~(e >= d)  BY <1>1, <1>4
    <3>2. ASSUME NEW x \in S, x >= d PROVE x >= e
      <4>1. x \in Nat  BY <1>1
      <4> QED BY <3>1, <3>2, <4>1, <1>4
    <3> QED BY <3>1, <3>2
  <2>2. B \in SUBSET S /\ A \in SUBSET S  OBVIOUS
  <2> HIDE DEF A, B
  <2>3. Cardinality(A) <= Cardinality(B) /\ Cardinality(A) # Cardinality(B)
    BY <1>2, <2>1, <2>2, FS_Subset
  <2>4. Cardinality(A) \in Nat /\ Cardinality(B) \in Nat
    BY <1>2, <2>2
  <2>5. Cardinality(A) < Cardinality(B)
    BY <2>3, <2>4
  <2> QED BY <2>5 DEF Rank, A, B
<1>5. ASSUME NEW i \in 1..Cardinality(S) PROVE \E d \in S : Rank(S, d) = i
  <2> DEFINE T == 1..Cardinality(S)
             f == [d \in S |-> Rank(S, d)]
  <2>1. IsFiniteSet(T) /\ Cardinality(T) = Cardinality(S)
    BY <1>1, FS_Interval
  <2>2. f \in Injection(S, T)
    <3>1. f \in [S -> T]  BY <1>3
    <3>2. ASSUME NEW d \in S, NEW e \in S, f[d] = f[e] PROVE d = e
      <4>1. Rank(S, d) = Rank(S, e) /\ Rank(S, d) \in Nat
        BY <1>1, <1>3, <3>2
      <4>2. d > e \/ e > d \/ d = e  BY <1>1
      <4> QED BY <1>4, <4>1, <4>2
    <3> QED BY <3>1, <3>2 DEF Injection, IsInjective
  <2>3. f \in Surjection(S, T)
    BY <2>1, <2>2, FS_Injection
  <2> QED BY <2>3 DEF Surjection
<1> QED BY <1>1, <1>3, <1>4, <1>5

(* The listing of a set: each of its ids once, newest first.               *)
LEMMA Newest ==
  ASSUME NEW S \in SUBSET Ids, NEW s, s = NewestFirst(S)
  PROVE  /\ s \in Seq(Ids) /\ Len(s) = Cardinality(S) /\ Len(s) \in Nat
         /\ \A i \in 1..Len(s) : s[i] \in S
         /\ \A i, j \in 1..Len(s) : i < j => s[i] > s[j]
         /\ \A d \in S : \E i \in 1..Len(s) : s[i] = d
         /\ S # {} => Len(s) # 0
<1> DEFINE n == Cardinality(S)
<1>1. s = [i \in 1..n |-> CHOOSE d \in S : Rank(S, d) = i]
  BY DEF NewestFirst, Rank
<1>2. n \in Nat /\ IsFiniteSet(S) /\ S \subseteq Nat
  BY Ranked, Constants
<1>3. ASSUME NEW i \in 1..n PROVE s[i] \in S /\ Rank(S, s[i]) = i
  <2>1. \E d \in S : Rank(S, d) = i  BY Ranked
  <2>2. s[i] = CHOOSE d \in S : Rank(S, d) = i  BY <1>1
  <2> QED BY <2>1, <2>2
<1>4. s \in Seq(Ids) /\ Len(s) = n
  <2>1. s \in [1..n -> Ids]  BY <1>1, <1>3
  <2> QED BY <1>2, <2>1
<1>5. ASSUME NEW i \in 1..n, NEW j \in 1..n, i < j PROVE s[i] > s[j]
  <2>1. s[i] > s[j] \/ s[j] > s[i] \/ s[i] = s[j]
    <3>1. s[i] \in Nat /\ s[j] \in Nat  BY <1>2, <1>3
    <3> QED BY <3>1
  <2>2. ~(Rank(S, s[j]) < Rank(S, s[i])) /\ Rank(S, s[i]) # Rank(S, s[j])
    BY <1>3, <1>5, <1>2
  <2> QED BY <2>1, <2>2, <1>3, Ranked
<1>6. ASSUME NEW d \in S PROVE \E i \in 1..n : s[i] = d
  <2> DEFINE i == Rank(S, d)
  <2>1. i \in 1..n  BY Ranked
  <2>2. s[i] \in S /\ Rank(S, s[i]) = Rank(S, d)  BY <1>3, <2>1
  <2>3. s[i] > d \/ d > s[i] \/ s[i] = d
    <3>1. s[i] \in Nat /\ d \in Nat  BY <1>2, <2>2
    <3> QED BY <3>1
  <2>4. i \in Nat  BY <1>2, <2>1
  <2>5. ~(i < i)  BY <2>4
  <2>6. s[i] = d  BY <2>2, <2>3, <2>5, Ranked
  <2> QED BY <2>1, <2>6
<1>7. S # {} => n # 0  BY <1>2, FS_EmptySet
<1> HIDE DEF n
<1>8. Len(s) \in Nat  BY <1>2, <1>4
<1> QED BY <1>3, <1>4, <1>5, <1>6, <1>7, <1>8 DEF n

(* What a client was shown, and what is ahead of it: before its cursor.    *)
Seen == {listing.seen[i] : i \in 1..Len(listing.seen)}
Ahead(d) == listing.at = "paging" /\ (listing.cursor # 0 => d < listing.cursor)

ListTyped ==
  /\ listing.seen \in Seq(Ids) /\ listing.existed \subseteq Ids
  /\ listing.limit \in Nat \ {0} /\ listing.cursor \in Nat
  /\ listing \in [at : {"idle", "paging", "done"}, filter : Types \cup {"none"},
                  limit : Nat, cursor : Nat, seen : Seq(Ids), existed : SUBSET Ids,
                  hollow : BOOLEAN]

Descending(s) == \A i, j \in 1..Len(s) : i < j => s[i] > s[j]

(* The inductive invariant of a listing: what was there when it began was  *)
(* seen or is ahead, and a cursor is given only when something is.         *)
ListKept ==
  /\ ListTyped
  /\ listing.at = "idle" \/ (listing.at = "paging" /\ listing.cursor = 0) => listing.seen = <<>>
  /\ listing.at = "idle" => listing.cursor = 0
  /\ Descending(listing.seen)
  /\ listing.cursor # 0 => \A d \in Seen : d >= listing.cursor
  /\ listing.at = "paging" /\ listing.cursor # 0 => Before # {}
  /\ listing.at # "idle" => \A d \in listing.existed :
       row[d] # NoRow /\ (Matches(d) => d \in Seen \/ Ahead(d))
  /\ ~listing.hollow

(* A page is the first n of s and the cursor after it the last of them, or *)
(* 0 when there are no more.                                               *)
PageRight(s, page, n) ==
  /\ n \in 0..Len(s) /\ page.items = SubSeq(s, 1, n)
  /\ \/ n = Len(s) /\ page.next = 0
     \/ n \in 1..Len(s) - 1 /\ page.next = s[n]

(* paginate, given one row more than the page holds.                       *)
LEMMA PageOf ==
  ASSUME NEW s \in Seq(Ids), NEW limit \in Nat \ {0}
  PROVE  \E n : PageRight(s, Paginate(SubSeq(s, 1, Min2(Len(s), limit + 1)), limit), n)
<1> DEFINE r == SubSeq(s, 1, Min2(Len(s), limit + 1))
<1>1. CASE Len(s) <= limit
  <2>1. r = s  BY <1>1 DEF Min2
  <2>2. Len(r) <= limit BY <2>1, <1>1
  <2>3. s = SubSeq(s, 1, Len(s)) /\ Len(s) \in 0..Len(s)  OBVIOUS
  <2>4. PageRight(s, Paginate(r, limit), Len(s))
    BY <2>1, <2>2, <2>3 DEF Paginate, PageRight
  <2> QED BY <2>4
<1>2. CASE ~(Len(s) <= limit)
  <2>1. /\ Min2(Len(s), limit + 1) = limit + 1 /\ limit + 1 <= Len(s)
        /\ limit \in 1..Len(s) - 1 /\ limit \in 0..Len(s)
    BY <1>2 DEF Min2
  <2>2. r = SubSeq(s, 1, limit + 1)  BY <2>1
  <2>3. r \in Seq(Ids) /\ Len(r) = limit + 1 /\ \A i \in 1..limit + 1 : r[i] = s[i]
    BY <2>2, <2>1
  <2> HIDE DEF r
  <2>4. SubSeq(r, 1, limit) = SubSeq(s, 1, limit)
    BY <2>1, <2>3
  <2>5. r[limit] = s[limit] /\ ~(Len(r) <= limit)
    BY <2>1, <2>3
  <2>6. PageRight(s, Paginate(r, limit), limit)
    BY <2>1, <2>4, <2>5 DEF Paginate, PageRight
  <2> QED BY <2>6 DEF r
<1> QED BY <1>1, <1>2

(* A row that is written stays as it is. *)
RowsStay == \A d \in Ids : row[d] # NoRow => row'[d] = row[d]

(* No step of the API changes or deletes a row (store/documents.go).       *)
LEMMA RowsAreStable == ASSUME UploadInv, [Next]_vars PROVE RowsStay
<1>1. ASSUME NEW d \in Ids, CreateDocument(d) \/ CreateFails(d) PROVE RowsStay
  <2>1. row[d] = NoRow
    BY <1>1, Known DEF CreateDocument, CreateFails, At, Document, Arriving
  <2>2. UNCHANGED row \/ row' = [row EXCEPT ![d] = RowOf(d)]
    BY <1>1 DEF CreateDocument, CreateFails
  <2> QED BY <2>1, <2>2 DEF RowsStay, UploadInv, UploadsTyped
<1>2. CASE UNCHANGED row  BY <1>2 DEF RowsStay
<1>3. (\E d \in Ids : CreateDocument(d) \/ CreateFails(d)) \/ UNCHANGED row
  BY DEF Next, vars, uploads, Arrive, Crash, OpenList, ListDocuments, FieldPart, FileRefused,
         OpenFile, OpenFileFails, CopyFile, CopyFails, BodyBreaks, BodyEnds, RemoveUpload,
         RemoveFails, Enqueue, EnqueueFails, ReadFile
<1> QED BY <1>1, <1>2, <1>3

(* Rows that appear while a client pages keep the invariant.               *)
LEMMA ListUnmoved == ASSUME ListKept, RowsStay, UNCHANGED listing PROVE ListKept'
<1>1. \A d \in Ids : row[d] # NoRow => row'[d] = row[d] /\ Matches(d)' = Matches(d)
  BY DEF RowsStay, Matches
<1>2. Before \subseteq Before'
  BY <1>1 DEF Before, Matches
<1>3. Seen' = Seen /\ \A d : Ahead(d)' = Ahead(d)
  BY DEF Seen, Ahead
<1>4. ListTyped'
  BY DEF ListKept, ListTyped
<1>5. listing'.at = "paging" /\ listing'.cursor # 0 => Before' # {}
  BY <1>2 DEF ListKept
<1>6. listing'.at # "idle" => \A d \in listing'.existed :
        row'[d] # NoRow /\ (Matches(d)' => d \in Seen' \/ Ahead(d)')
  BY <1>1, <1>3 DEF ListKept, ListTyped
<1> QED BY <1>3, <1>4, <1>5, <1>6 DEF ListKept, Descending

(* A listing begins with nothing seen and everything ahead.                *)
LEMMA ListOpened == ASSUME UploadInv, ListKept, OpenList PROVE ListKept'
<1>1. PICK f \in Types \cup {"none"}, l \in 1..MaxLimit \cup {None} :
        listing' = [listing EXCEPT
          !.at = "paging", !.filter = f,
          !.limit = IF l = None THEN DefaultLimit ELSE l,
          !.existed = {d \in Ids : row[d] # NoRow}]
  BY DEF OpenList
<1> DEFINE k == IF l = None THEN DefaultLimit ELSE l
           all == {d \in Ids : row[d] # NoRow}
<1>2. k \in Nat \ {0}
  BY UploadsAssumption
<1>3. listing' = [listing EXCEPT !.at = "paging", !.filter = f, !.limit = k, !.existed = all]
  BY <1>1
<1>4. all \subseteq Ids /\ UNCHANGED row  BY DEF OpenList, uploads
<1>5. listing.at = "idle" /\ listing.seen = <<>> /\ listing.cursor = 0 /\ ~listing.hollow
  BY DEF OpenList, ListKept
<1>6. \A d \in all : row'[d] # NoRow  BY <1>4
<1> HIDE DEF k, all
<1>7. /\ listing'.at = "paging" /\ listing'.filter = f /\ listing'.limit = k
      /\ listing'.existed = all /\ listing'.seen = <<>> /\ listing'.cursor = 0
      /\ ~listing'.hollow
  BY <1>3, <1>5 DEF ListKept, ListTyped
<1>8. ListTyped'
  BY <1>2, <1>3, <1>4, <1>7 DEF ListKept, ListTyped
<1>9. Descending(listing'.seen)
  BY <1>7 DEF Descending
<1> QED BY <1>6, <1>7, <1>8, <1>9 DEF ListKept, Ahead

(* What a page, the first n of s, adds to the t that was seen before it.   *)
Precedes(t, s) == \A i \in 1..Len(t), j \in 1..Len(s) : t[i] > s[j]

Extended(u, t, s, n) ==
  /\ u \in Seq(Ids) /\ Descending(u)
  /\ \A i \in 1..Len(u) : (i <= Len(t) /\ u[i] = t[i]) \/ (\E j \in 1..n : u[i] = s[j])
  /\ \A i \in 1..Len(t) : u[i] = t[i] /\ i \in 1..Len(u)
  /\ \A j \in 1..n : \E i \in 1..Len(u) : u[i] = s[j]

(* The pages joined: still newest first, with everything of both.          *)
LEMMA PageAdded ==
  ASSUME NEW t \in Seq(Ids), NEW s \in Seq(Ids), Descending(t), Descending(s),
         Precedes(t, s), NEW n \in 0..Len(s), NEW u, u = t \o SubSeq(s, 1, n)
  PROVE  Extended(u, t, s, n)
<1> DEFINE p == SubSeq(s, 1, n)
<1>1. p \in Seq(Ids) /\ Len(p) = n /\ \A j \in 1..n : p[j] = s[j]
  OBVIOUS
<1>2. u = t \o p  OBVIOUS
<1> HIDE DEF p
<1>3. /\ u \in Seq(Ids) /\ Len(u) = Len(t) + n /\ Len(t) \in Nat /\ n \in Nat /\ Len(s) \in Nat
      /\ \A i \in 1..Len(t) : u[i] = t[i]
      /\ \A i \in 1..Len(u) : i > Len(t) => u[i] = p[i - Len(t)]
  <2>1. Len(t) \in Nat /\ n \in Nat /\ Len(s) \in Nat  OBVIOUS
  <2>2. u \in Seq(Ids) /\ Len(u) = Len(t) + n  BY <1>1, <1>2
  <2>3. \A i \in 1..Len(t) : u[i] = t[i]  BY <1>1, <1>2, <2>1
  <2>4. ASSUME NEW i \in 1..Len(u), i > Len(t) PROVE u[i] = p[i - Len(t)]
    BY <1>1, <1>2, <2>1, <2>2, <2>4
  <2> QED BY <2>1, <2>2, <2>3, <2>4
<1>4. ASSUME NEW i \in 1..Len(u), i > Len(t)
      PROVE  i - Len(t) \in 1..n /\ i - Len(t) \in 1..Len(s) /\ u[i] = s[i - Len(t)]
  BY <1>1, <1>3, <1>4
<1>5. Descending(u)
  <2> SUFFICES ASSUME NEW i \in 1..Len(u), NEW j \in 1..Len(u), i < j PROVE u[i] > u[j]
    BY DEF Descending
  <2>1. CASE j <= Len(t)
    BY <2>1, <1>3 DEF Descending
  <2>2. CASE i <= Len(t) /\ j > Len(t)
    <3>1. i \in 1..Len(t) /\ u[i] = t[i]  BY <2>2, <1>3
    <3>2. j - Len(t) \in 1..Len(s) /\ u[j] = s[j - Len(t)]  BY <2>2, <1>4
    <3> QED BY <3>1, <3>2 DEF Precedes
  <2>3. CASE i > Len(t)
    <3>1. i - Len(t) \in 1..Len(s) /\ u[i] = s[i - Len(t)]  BY <2>3, <1>4
    <3>2. j > Len(t)  BY <2>3, <1>3
    <3>3. j - Len(t) \in 1..Len(s) /\ u[j] = s[j - Len(t)]  BY <3>2, <1>4
    <3>4. i - Len(t) < j - Len(t)  BY <1>3
    <3> QED BY <3>1, <3>3, <3>4 DEF Descending
  <2> QED BY <2>1, <2>2, <2>3, <1>3
<1>6. \A j \in 1..n : \E i \in 1..Len(u) : u[i] = s[j]
  <2> SUFFICES ASSUME NEW j \in 1..n PROVE \E i \in 1..Len(u) : u[i] = s[j]  OBVIOUS
  <2>1. Len(t) + j \in 1..Len(u) /\ Len(t) + j > Len(t) /\ Len(t) + j - Len(t) = j
    BY <1>3
  <2>2. u[Len(t) + j] = s[j]  BY <2>1, <1>4
  <2> QED BY <2>1, <2>2
<1>7. \A i \in 1..Len(u) : (i <= Len(t) /\ u[i] = t[i]) \/ \E j \in 1..n : u[i] = s[j]
  <2> SUFFICES ASSUME NEW i \in 1..Len(u)
               PROVE  (i <= Len(t) /\ u[i] = t[i]) \/ \E j \in 1..n : u[i] = s[j]
    OBVIOUS
  <2>1. CASE i <= Len(t)  BY <2>1, <1>3
  <2>2. CASE i > Len(t)  BY <2>2, <1>4
  <2> QED BY <2>1, <2>2, <1>3
<1>8. \A i \in 1..Len(t) : u[i] = t[i] /\ i \in 1..Len(u)
  BY <1>3
<1> QED BY <1>3, <1>5, <1>6, <1>7, <1>8 DEF Extended

(* A page shows the next of what was ahead and leaves the rest before the  *)
(* cursor (ListDocuments, paginate).                                       *)
LEMMA PageShown == ASSUME ListKept, UNCHANGED row, ListDocuments PROVE ListKept'
<1> DEFINE s == NewestFirst(Before)
           t == listing.seen
           page == Paginate(Fetched, listing.limit)
<1>1. Before \in SUBSET Ids  BY DEF Before
<1>2. /\ t \in Seq(Ids) /\ listing.limit \in Nat \ {0} /\ listing.cursor \in Nat
      /\ listing.at = "paging" /\ Descending(t) /\ ~listing.hollow
  BY DEF ListKept, ListTyped, ListDocuments
<1>3. /\ s \in Seq(Ids) /\ Len(s) = Cardinality(Before) /\ Len(s) \in Nat
      /\ \A i \in 1..Len(s) : s[i] \in Before
      /\ Descending(s)
      /\ \A d \in Before : \E i \in 1..Len(s) : s[i] = d
      /\ Before # {} => Len(s) # 0
  BY <1>1, Newest DEF Descending
<1>4. /\ \A i \in 1..Len(t) : t[i] \in Nat
      /\ \A j \in 1..Len(s) : s[j] \in Nat \ {0}
  <2>1. \A i \in 1..Len(t) : t[i] \in Ids  BY <1>2
  <2>2. \A j \in 1..Len(s) : s[j] \in Ids  BY <1>1, <1>3
  <2> QED BY <2>1, <2>2, Constants
<1>5. PICK n : PageRight(s, page, n)
  BY <1>2, <1>3, PageOf DEF Fetched
<1>6. listing' = [listing EXCEPT
        !.seen = t \o page.items, !.cursor = page.next,
        !.at = IF page.next = 0 THEN "done" ELSE "paging",
        !.hollow = listing.hollow \/ (listing.cursor # 0 /\ page.items = <<>>)]
  BY DEF ListDocuments
<1> HIDE DEF s, page, t
<1> DEFINE u == t \o SubSeq(s, 1, n)
<1>7. /\ n \in 0..Len(s) /\ page.items = SubSeq(s, 1, n)
      /\ \/ n = Len(s) /\ page.next = 0
         \/ n \in 1..Len(s) - 1 /\ page.next = s[n]
  BY <1>5 DEF PageRight
<1>8. page.next \in Nat /\ (n \in 1..Len(s) - 1 => page.next # 0)
  BY <1>3, <1>7, <1>4
<1>9. ~(listing.cursor # 0 /\ page.items = <<>>)
  <2>1. ASSUME listing.cursor # 0 PROVE n # 0
    BY <2>1, <1>2, <1>3, <1>7 DEF ListKept
  <2>2. Len(page.items) = n
    BY <1>3, <1>7
  <2> QED BY <2>1, <2>2
<1>10. /\ listing'.seen = u /\ listing'.cursor = page.next
       /\ listing'.at = IF page.next = 0 THEN "done" ELSE "paging"
       /\ ~listing'.hollow /\ listing'.filter = listing.filter
       /\ listing'.existed = listing.existed /\ listing'.limit = listing.limit
  BY <1>2, <1>6, <1>7, <1>9 DEF ListKept, ListTyped, u
<1>11. Precedes(t, s)
  <2> SUFFICES ASSUME NEW i \in 1..Len(t), NEW j \in 1..Len(s) PROVE t[i] > s[j]
    BY DEF Precedes
  <2>1. t # <<>> /\ listing.cursor # 0
    BY <1>2 DEF ListKept, t
  <2>2. t[i] >= listing.cursor
    BY <2>1 DEF ListKept, Seen, t
  <2>3. s[j] < listing.cursor /\ s[j] \in Nat /\ t[i] \in Nat
    BY <2>1, <1>3, <1>4 DEF Before
  <2> QED BY <1>2, <2>2, <2>3
<1>12. Extended(u, t, s, n)
  <2>1. u = t \o SubSeq(s, 1, n)  OBVIOUS
  <2>2. n \in 0..Len(s)  BY <1>7
  <2> HIDE DEF u
  <2> QED BY <2>1, <2>2, <1>2, <1>3, <1>11, PageAdded
<1> HIDE DEF u
<1>13. ListTyped'
  <2>1. page.next \in Nat /\ u \in Seq(Ids) /\ t \o page.items = u
    BY <1>7, <1>8, <1>12 DEF u, Extended
  <2>2. listing' \in [at : {"idle", "paging", "done"}, filter : Types \cup {"none"},
                      limit : Nat, cursor : Nat, seen : Seq(Ids), existed : SUBSET Ids,
                      hollow : BOOLEAN]
    BY <2>1, <1>6 DEF ListKept, ListTyped
  <2> QED BY <2>1, <2>2, <1>10 DEF ListKept, ListTyped
<1>14. \A d \in Ids : Matches(d)' = Matches(d)
  BY <1>10 DEF Matches
<1>15. ASSUME listing'.cursor # 0
       PROVE  /\ \A d \in Seen' : d >= listing'.cursor
              /\ Before' # {}
  <2>1. n \in 1..Len(s) - 1 /\ listing'.cursor = s[n] /\ n \in Nat
    BY <1>7, <1>10, <1>15, <1>3
  <2>2. n \in 1..Len(s) /\ n + 1 \in 1..Len(s) /\ n < n + 1
    BY <2>1, <1>3
  <2>3. \A j \in 1..Len(s) : s[j] \in Nat
    BY <1>4
  <2>4. ASSUME NEW i \in 1..Len(u) PROVE u[i] >= s[n]
    <3>1. CASE i <= Len(t) /\ u[i] = t[i]
      <4>1. i \in 1..Len(t)  BY <3>1
      <4>2. u[i] > s[n] /\ u[i] \in Nat  BY <3>1, <4>1, <2>2, <1>11, <1>4 DEF Precedes
      <4> QED BY <4>2, <2>2, <2>3
    <3>2. ASSUME NEW j \in 1..n, u[i] = s[j] PROVE u[i] >= s[n]
      <4>1. j \in 1..Len(s) /\ (j < n \/ j = n)  BY <2>1, <2>2
      <4>2. s[j] > s[n] \/ s[j] = s[n]  BY <4>1, <2>2, <1>3 DEF Descending
      <4> QED BY <4>1, <4>2, <3>2, <2>2, <2>3
    <3> QED BY <3>1, <3>2, <1>12 DEF Extended
  <2>5. s[n] > s[n + 1] /\ s[n + 1] \in Before
    BY <2>2, <1>3 DEF Descending
  <2>6. s[n + 1] \in Before'
    <3>1. s[n + 1] \in Ids /\ s[n + 1] < listing'.cursor
      BY <2>1, <2>2, <2>3, <2>5, <1>1
    <3> QED BY <3>1, <2>5, <1>14 DEF Before
  <2> QED BY <2>1, <2>4, <2>6, <1>10 DEF Seen
<1>16. ASSUME NEW d \in listing'.existed
       PROVE  row'[d] # NoRow /\ (Matches(d)' => d \in Seen' \/ Ahead(d)')
  <2>1. /\ d \in Ids /\ row[d] # NoRow
        /\ Matches(d) => d \in Seen \/ Ahead(d)
    BY <1>2, <1>10, <1>16 DEF ListKept, ListTyped
  <2>2. ASSUME d \in Seen PROVE d \in Seen'
    BY <2>2, <1>10, <1>12 DEF Seen, t, Extended
  <2>3. ASSUME Matches(d), Ahead(d) PROVE d \in Seen' \/ Ahead(d)'
    <3>1. d \in Before  BY <2>1, <2>3 DEF Before, Ahead
    <3>2. PICK i \in 1..Len(s) : s[i] = d  BY <3>1, <1>3
    <3>3. CASE i \in 1..n
      BY <3>2, <3>3, <1>10, <1>12 DEF Seen, Extended
    <3>4. CASE i \notin 1..n
      <4>1. n \in 1..Len(s) - 1 /\ page.next = s[n] /\ n < i /\ n \in 1..Len(s)
        BY <3>2, <3>4, <1>3, <1>7
      <4>2. s[n] > d  BY <4>1, <3>2, <1>3 DEF Descending
      <4>3. s[n] \in Nat /\ d \in Nat  BY <4>1, <3>2, <1>4
      <4>4. listing'.at = "paging" /\ listing'.cursor = s[n]  BY <4>1, <1>8, <1>10
      <4> QED BY <4>2, <4>3, <4>4 DEF Ahead
    <3> QED BY <3>3, <3>4
  <2> QED BY <2>1, <2>2, <2>3, <1>14
<1>17. listing'.at # "idle" /\ ~(listing'.at = "paging" /\ listing'.cursor = 0)
  BY <1>10
<1> QED BY <1>10, <1>12, <1>13, <1>15, <1>16, <1>17 DEF ListKept, Extended

(* No listing has begun.                                                   *)
LEMMA ListInit == Init => ListKept
<1> SUFFICES ASSUME Init PROVE ListKept  OBVIOUS
<1>1. DefaultLimit \in Nat \ {0}
  BY UploadsAssumption
<1>2. listing = [at |-> "idle", filter |-> "none", limit |-> DefaultLimit,
                 cursor |-> 0, seen |-> <<>>, existed |-> {}, hollow |-> FALSE]
  BY DEF Init
<1>3. ListTyped  BY <1>1, <1>2 DEF ListTyped
<1>4. Descending(listing.seen)  BY <1>2 DEF Descending
<1> QED BY <1>2, <1>3, <1>4 DEF ListKept

(* Every step keeps the invariant of the listing.                          *)
LEMMA ListStep == UploadInv /\ ListKept /\ [Next]_vars => ListKept'
<1> SUFFICES ASSUME UploadInv, ListKept, [Next]_vars PROVE ListKept'  OBVIOUS
<1>1. RowsStay  BY RowsAreStable
<1>2. OpenList \/ (ListDocuments /\ UNCHANGED row) \/ UNCHANGED listing
  BY DEF Next, vars, uploads, Arrive, Crash, ListDocuments, FieldPart, FileRefused,
         OpenFile, OpenFileFails, CopyFile, CopyFails, BodyBreaks, BodyEnds, RemoveUpload,
         RemoveFails, CreateDocument, CreateFails, Enqueue, EnqueueFails, ReadFile
<1> QED BY <1>1, <1>2, ListOpened, PageShown, ListUnmoved

(* Who follows the cursors sees the listing newest first, nothing twice,   *)
(* and all that was there when it began, whatever is uploaded meanwhile.   *)
THEOREM PagesArePartition == Spec => []PagesPartition
<1>1. ListKept => PagesPartition
  <2> SUFFICES ASSUME ListKept PROVE PagesPartition  OBVIOUS
  <2>1. Seen = ToSet(listing.seen)
    BY DEF Seen, ToSet, ListKept, ListTyped
  <2>2. listing.at = "done" =>
          {d \in listing.existed : Matches(d)} \subseteq Seen
    BY DEF ListKept, Ahead
  <2> QED BY <2>1, <2>2 DEF ListKept, Descending, PagesPartition
<1>2. Spec => []ListKept
  BY ListInit, ListStep, UploadInvHolds, PTL DEF Spec
<1> QED BY <1>1, <1>2, PTL
=============================================================================
