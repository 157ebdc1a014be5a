---------------------------- MODULE UploadQueue ----------------------------
(***************************************************************************)
(* The upload queue of the documents list: a module-level list of rows,    *)
(* and one worker per running file, each an async function that takes one  *)
(* step per awaited call.  Imports (the Miro import) put a row in the list *)
(* and drive it themselves; the queue counts their rows but never runs     *)
(* them.                                                                   *)
(*                                                                         *)
(* The backend is modelled by what a request leaves behind: the documents  *)
(* and blobs made for each row, and which documents hold their content.    *)
(***************************************************************************)
EXTENDS Naturals, Sequences, FiniteSets, Lists

CONSTANTS
    Files,           \* files the user may drop
    Blobs,           \* of those, stored as they are (pdf, image, file)
    Imports,         \* externally driven imports the user may start
    MaxConcurrency,  \* MAX_CONCURRENCY, 2 in the code
    MaxRateRetries,  \* MAX_RATE_RETRIES, 6 in the code
    MaxRetries,      \* bound: times the user retries one row
    Faults           \* "reply": a served request may still fail at the client;
                     \* "delete": the request that deletes a document may fail

ASSUME BlobsAssumption == Blobs \subseteq Files
ASSUME ImportsAssumption == Imports \cap Files = {}
ASSUME FilesAssumption == IsFiniteSet(Files \cup Imports)
ASSUME CapAssumption == MaxConcurrency \in Nat \ {0}
ASSUME RetriesAssumption == MaxRateRetries \in Nat /\ MaxRetries \in Nat
ASSUME FaultsAssumption == Faults \subseteq {"reply", "delete"}

Rows == Files \cup Imports
Statuses == {"new", "pending", "parsing", "uploading", "done", "error", "gone"}
Steps == {"none", "import", "upload", "create", "apply", "sleep", "cleanup"}

VARIABLES
    items,    \* the rows of the panel, in the order they were enqueued
    row,      \* UploadItem of each row, with its worker's step and attempt
    made,     \* number of documents the backend created for a row
    live,     \* of those, the ones not deleted
    saved,    \* of those, the ones holding the imported content
    blobs     \* number of blobs the backend stored for a row

vars == <<items, row, made, live, saved, blobs>>
backend == <<made, live, saved, blobs>>

RowType ==
    [status : Statuses, step : Steps, attempt : 0 .. MaxRateRetries,
     retries : 0 .. MaxRetries, file : BOOLEAN, docId : Nat, fileId : Nat]

Init ==
    /\ items = <<>>
    /\ row = [i \in Rows |->
                [status |-> "new", step |-> "none", attempt |-> 0, retries |-> 0,
                 file |-> FALSE, docId |-> 0, fileId |-> 0]]
    /\ made = [i \in Rows |-> 0] /\ blobs = [i \in Rows |-> 0]
    /\ live = [i \in Rows |-> {}] /\ saved = [i \in Rows |-> {}]

-----------------------------------------------------------------------------
(* Mutant: only rows that say "uploading" take a slot. *)
ActiveWhenUploading(r) == {i \in DOMAIN r : r[i].status = "uploading"}
\* activeCount: rows of the list that hold a slot, imports included.
Active(r) == {i \in DOMAIN r : r[i].status \in {"parsing", "uploading"}}

\* The top of runItem's loop, up to its first await.
Enter(i, it) ==
    IF i \in Blobs
    THEN [it EXCEPT !.status = "uploading",
                    !.step = IF it.fileId = 0 THEN "upload" ELSE "create"]
    ELSE [it EXCEPT !.status = "parsing", !.step = "import"]

\* pump: claim the first pending rows of the list while slots are free.
Pump(list, r) ==
    LET pending(n) == r[list[n]].status = "pending"
        upTo(n) == Cardinality({m \in 1 .. n : pending(m)})
        claimed == {list[n] : n \in {m \in DOMAIN list : pending(m) /\
                       Cardinality(Active(r)) + upTo(m) <= MaxConcurrency}}
    IN  [i \in DOMAIN r |->
            IF i \in claimed THEN Enter(i, [r[i] EXCEPT !.attempt = 0]) ELSE r[i]]

(* Mutant: a worker that ends does not look for the next pending row. *)
SettledWithoutPump(i, it) == [row EXCEPT ![i] = it]
\* A worker's last step, and the pump of its finally block.
Settled(i, it) == Pump(items, [row EXCEPT ![i] = it])

\* finish, and the outer catch of runItem.
Finished(it) == [it EXCEPT !.status = "done", !.step = "none", !.file = FALSE]
Failed(it) == [it EXCEPT !.status = "error", !.step = "none"]

\* How a request to the backend ends: served, refused, rate limited (429), or
\* served with the reply lost on the way back.
Replies ==
    {"ok", "refused", "limited"} \cup IF "reply" \in Faults THEN {"lost"} ELSE {}
Served(reply) == reply \in {"ok", "lost"}

(* Mutant: one backoff too many. *)
RejectedOnceMore(i, reply) ==
    row' = IF reply = "limited" /\ row[i].attempt <= MaxRateRetries
           THEN [row EXCEPT ![i].step = "sleep", ![i].attempt = @ + 1]
           ELSE Settled(i, Failed(row[i]))
\* The inner catch: a 429 backs off a limited number of times.
Rejected(i, reply) ==
    row' = IF reply = "limited" /\ row[i].attempt < MaxRateRetries
           THEN [row EXCEPT ![i].step = "sleep", ![i].attempt = @ + 1]
           ELSE Settled(i, Failed(row[i]))

-----------------------------------------------------------------------------
(* The user's operations.                                                  *)

\* enqueue and startUploads, one file of a batch at a time; a file over its
\* size limit becomes an error row that keeps no File.
Enqueue(i, fits) ==
    /\ row[i].status = "new"
    /\ items' = Append(items, i)
    /\ row' = Pump(items',
                [row EXCEPT ![i].status = IF fits THEN "pending" ELSE "error",
                            ![i].file = fits])
    /\ UNCHANGED backend

\* The documents list mounts again: startUploads registers and pumps.
Mount ==
    /\ row' = Pump(items, row)
    /\ row' # row
    /\ UNCHANGED <<items, backend>>

(* Mutant: a retried row takes its slot at once. *)
RetriedAtOnce(it) == [it EXCEPT !.status = "parsing", !.retries = @ + 1]
Retried(it) == [it EXCEPT !.status = "pending", !.retries = @ + 1]

\* The panel shows the control on error rows that kept their File.
Retry(i) ==
    /\ row[i].status = "error" /\ row[i].file
    /\ row[i].retries < MaxRetries
    /\ row' = Settled(i, Retried(row[i]))
    /\ UNCHANGED <<items, backend>>

(* Mutant: dismissing only drops the row. *)
NothingToClean(it) == FALSE
MustClean(it) == it.status = "error" /\ it.docId # 0

\* dismissItem: best-effort delete of the document an errored row created.
Dismiss(i, deleted) ==
    /\ row[i].status \in {"done", "error"}
    /\ deleted => MustClean(row[i])
    /\ MustClean(row[i]) /\ ~deleted => "delete" \in Faults
    /\ items' = Omitting(items, {i})
    /\ row' = [row EXCEPT ![i].status = "gone"]
    /\ live' = IF deleted THEN [live EXCEPT ![i] = @ \ {row[i].docId}] ELSE live
    /\ UNCHANGED <<made, saved, blobs>>

ClearFinished ==
    LET done == {i \in Rows : row[i].status = "done"}
    IN  /\ done # {}
        /\ items' = Omitting(items, done)
        /\ row' = [i \in Rows |->
                     IF i \in done THEN [row[i] EXCEPT !.status = "gone"] ELSE row[i]]
        /\ UNCHANGED backend

-----------------------------------------------------------------------------
(* A worker's steps: what happens when the call it awaits settles.         *)

\* importSheetFile, importDocx, importPptxFile: parse, uploading images.
Import(i, reply) ==
    /\ row[i].step = "import"
    /\ IF reply = "ok"
       THEN row' = IF row[i].docId = 0
                   THEN [row EXCEPT ![i].step = "create"]
                   ELSE [row EXCEPT ![i].step = "apply", ![i].status = "uploading"]
       ELSE Rejected(i, reply)
    /\ UNCHANGED <<items, backend>>

(* Mutant: the id of the uploaded blob is not kept for the next attempt. *)
UploadForgotten(it, id) == [it EXCEPT !.step = "create"]
Uploaded(it, id) == [it EXCEPT !.fileId = id, !.step = "create"]

Upload(i, reply) ==
    /\ row[i].step = "upload"
    /\ blobs' = [blobs EXCEPT ![i] = IF Served(reply) THEN @ + 1 ELSE @]
    /\ IF reply = "ok"
       THEN row' = [row EXCEPT ![i] = Uploaded(row[i], blobs[i] + 1)]
       ELSE Rejected(i, reply)
    /\ UNCHANGED <<items, made, live, saved>>

(* Mutant: a parsed document is done as soon as its document exists. *)
CreatedIsDone(i, it, id) == Settled(i, Finished([it EXCEPT !.docId = id]))
\* getOrCreateDoc keeps the id before anything else is tried.
Created(i, it, id) ==
    IF i \in Blobs
    THEN Settled(i, Finished([it EXCEPT !.docId = id]))
    ELSE [row EXCEPT ![i] = [it EXCEPT !.docId = id, !.step = "apply",
                                       !.status = "uploading"]]

\* createDoc; the backend files the document before it answers.
Store(i, reply) ==
    /\ made' = [made EXCEPT ![i] = IF Served(reply) THEN @ + 1 ELSE @]
    /\ live' = [live EXCEPT ![i] = IF Served(reply) THEN @ \cup {made'[i]} ELSE @]

Create(i, reply) ==
    /\ i \in Files /\ row[i].step = "create"
    /\ Store(i, reply)
    /\ IF reply = "ok"
       THEN row' = Created(i, row[i], made'[i])
       ELSE Rejected(i, reply)
    /\ UNCHANGED <<items, saved, blobs>>

\* applyImportedContent: a failure may come after the write was flushed.
Save(i, written) ==
    saved' = [saved EXCEPT ![i] = IF written THEN @ \cup {row[i].docId} ELSE @]

Apply(i, ok, written) ==
    /\ i \in Files /\ row[i].step = "apply"
    /\ ok => written
    /\ Save(i, written)
    /\ row' = Settled(i, IF ok THEN Finished(row[i]) ELSE Failed(row[i]))
    /\ UNCHANGED <<items, made, live, blobs>>

\* The backoff is over: the row is read again and the attempt starts afresh.
Wake(i) ==
    /\ row[i].step = "sleep"
    /\ row' = [row EXCEPT ![i] = Enter(i, row[i])]
    /\ UNCHANGED <<items, backend>>

-----------------------------------------------------------------------------
(* An externally driven import: no step of it pumps the queue.             *)

StartImport(i) ==
    /\ i \in Imports /\ row[i].status = "new"
    /\ items' = Append(items, i)
    /\ row' = [row EXCEPT ![i].status = "parsing", ![i].step = "import"]
    /\ UNCHANGED backend

\* readMiroImportStream; drive then shows the row as uploading.
ImportStream(i, ok) ==
    /\ i \in Imports /\ row[i].step = "import"
    /\ row' = IF ok THEN [row EXCEPT ![i].status = "uploading", ![i].step = "create"]
              ELSE [row EXCEPT ![i] = Failed(row[i])]
    /\ UNCHANGED <<items, backend>>

\* createDoc of the import; an expired session removes the row instead.
ImportCreate(i, reply, expired) ==
    /\ i \in Imports /\ row[i].step = "create"
    /\ expired => reply = "refused"
    /\ Store(i, reply)
    /\ row' = IF reply = "ok"
              THEN [row EXCEPT ![i].docId = made'[i], ![i].step = "apply"]
              ELSE [row EXCEPT ![i] = [Failed(row[i]) EXCEPT
                      !.status = IF expired THEN "gone" ELSE "error"]]
    /\ items' = IF expired THEN Omitting(items, {i}) ELSE items
    /\ UNCHANGED <<saved, blobs>>

ImportApply(i, ok, written) ==
    /\ i \in Imports /\ row[i].step = "apply"
    /\ ok => written
    /\ Save(i, written)
    /\ row' = IF ok THEN [row EXCEPT ![i] = Finished(row[i])]
              ELSE [row EXCEPT ![i].step = "cleanup"]
    /\ UNCHANGED <<items, made, live, blobs>>

\* The import deletes the document it could not fill, if it can.
ImportCleanup(i, deleted) ==
    /\ row[i].step = "cleanup"
    /\ ~deleted => "delete" \in Faults
    /\ live' = IF deleted THEN [live EXCEPT ![i] = @ \ {row[i].docId}] ELSE live
    /\ row' = [row EXCEPT ![i] = [Failed(row[i]) EXCEPT
                 !.docId = IF deleted THEN 0 ELSE @]]
    /\ UNCHANGED <<items, made, saved, blobs>>

-----------------------------------------------------------------------------
Work(i) ==
    \/ \E reply \in Replies : Import(i, reply) \/ Upload(i, reply) \/ Create(i, reply)
    \/ \E ok, written \in BOOLEAN : Apply(i, ok, written)
    \/ Wake(i)

ImportWork(i) ==
    \/ \E ok \in BOOLEAN : ImportStream(i, ok) \/ ImportCleanup(i, ok)
    \/ \E reply \in Replies, expired \in BOOLEAN : ImportCreate(i, reply, expired)
    \/ \E ok, written \in BOOLEAN : ImportApply(i, ok, written)

UserStep ==
    \/ \E i \in Files, b \in BOOLEAN : Enqueue(i, b)
    \/ \E i \in Files : Retry(i)
    \/ \E i \in Rows, deleted \in BOOLEAN : Dismiss(i, deleted)
    \/ \E i \in Imports : StartImport(i)
    \/ Mount \/ ClearFinished

Next ==
    \/ UserStep
    \/ \E i \in Files : Work(i)
    \/ \E i \in Imports : ImportWork(i)

\* Every awaited call settles and every backoff ends; the user owes nothing.
Fairness ==
    /\ \A i \in Files : WF_vars(Work(i))
    /\ \A i \in Imports : WF_vars(ImportWork(i))

Spec == Init /\ [][Next]_vars
FairSpec == Spec /\ Fairness

-----------------------------------------------------------------------------
(* Properties                                                              *)

InList(i) == row[i].status \notin {"new", "gone"}

(* The type of every variable; the list names every row of the panel once. *)
TypeOK ==
    /\ row \in [Rows -> RowType]
    /\ made \in [Rows -> Nat] /\ blobs \in [Rows -> Nat]
    /\ \A i \in Rows : live[i] \subseteq 1 .. made[i] /\ saved[i] \subseteq 1 .. made[i]
    /\ items \in Seq(Rows)
    /\ {items[n] : n \in DOMAIN items} = {i \in Rows : InList(i)}
    /\ Len(items) = Cardinality({i \in Rows : InList(i)})

(* A row takes a slot of the queue exactly while some worker or import is  *)
(* at work on it: no slot leaks when an attempt fails, backs off or is     *)
(* retried, and no worker runs behind a row that says it is over.          *)
SlotsHaveWorkers ==
    \A i \in Rows : row[i].status \in {"parsing", "uploading"} <=> row[i].step # "none"

(* At most MAX_CONCURRENCY files are worked on, whatever order enqueues,   *)
(* retries, mounts and failures come in.                                   *)
WorkersWithinCap ==
    Cardinality({i \in Files : row[i].step # "none"}) <= MaxConcurrency

(* However often a row is retried, by the backoff or by the user, it makes *)
(* one document and stores its blob once (getOrCreateDoc, runItem).        *)
NothingMadeTwice == \A i \in Rows : made[i] <= 1 /\ blobs[i] <= 1

(* A row that says "done" has a document that exists and holds what was    *)
(* in the file, or the blob of the file.                                   *)
DoneIsSaved ==
    \A i \in Rows : row[i].status = "done" =>
        /\ row[i].docId \in live[i]
        /\ IF i \in Blobs THEN row[i].fileId # 0 ELSE row[i].docId \in saved[i]

(* A document that was created and never filled is always known to a row   *)
(* of the panel that is not done: dismissing the row deletes it, so none   *)
(* is left behind as long as the delete works.                             *)
EmptyDocumentsAreOwned ==
    \A i \in Rows \ Blobs : \A d \in live[i] \ saved[i] :
        row[i].docId = d /\ row[i].status \in {"uploading", "parsing", "pending", "error"}

(* Every file the queue holds is run to its end.                           *)
FilesAreServed ==
    \A i \in Files : row[i].status = "pending" ~> row[i].status \in {"done", "error"}
=============================================================================
