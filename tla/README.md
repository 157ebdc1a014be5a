# A verification project for Wafflebase

TLA+ models of the parts of Wafflebase whose correctness depends on the order in
which things happen, the TLC runs that check them on small instances, and TLAPS
proofs of what they keep for every value of their constants. Every definition
is translated from the TypeScript under `src/packages`; `PROJECT.json` maps each
to its lines, and lists the runs, the hazards, the findings and the theorems.

Run a check with `tlc -config SheetRows.cfg MCSheetStructure`, a proof with
`tlapm SheetStructureProofs.tla`.

## 1. The system

Wafflebase is a collaborative office suite: a spreadsheet engine
(`packages/sheets`), editors for documents, slides, boards and notes, a React
frontend that binds them to CRDT documents held by a Yorkie server, a NestJS
backend with PostgreSQL, object storage and an embedded DuckDB, and a command
line client.

| component | state | operations | hard part |
|---|---|---|---|
| Worksheet structure (`frontend/.../yorkie-worksheet-*.ts`, `sheets/.../shifting.ts`, `merging.ts`, `rule-ranges.ts`) | row and column id orders, cells by id pair, everything else by visual index | insert, delete, move lines | eight kinds of metadata, each shifted by a function of its own, must stay on the same lines |
| Sheet engine (`sheets/.../sheet.ts`) | cached merges, styles, freeze pane, hidden lines, selection, filter | cell edits, structure, formatting, clipboard | cache against document; rules between kinds of metadata |
| Collaborative store (`yorkie-store.ts`) | Yorkie document, cell cache, batch overlay | transactions, batches, undo | concurrent clients; reads inside a batch |
| Recalculation (`calculator.ts`, `sheet-view.tsx`) | dependants, spilled arrays; in-flight and pending flags | topological sort, evaluation, remote sync | cycles; a change during a recalculation |
| Upload queue and imports (`upload-queue.ts`, `miro-import-runner.ts`) | panel rows, slots, ids kept for retries | drop, retry, dismiss; workers | async workers, rate limits, lost replies, the user between two awaits |
| DuckDB engine (`duckdb.service.ts`, `lakehouse.service.ts`) | engine queue, pool, generation, poisoned flag, secrets | lease, query, clean up, time out, rebuild | orphaned statements, failed clean-up, rebuild races |
| Documents, copies (`document/*.service.ts`) | rows, blobs, Yorkie content | copy, delete | three stores and no common transaction |
| Workspaces, folders (`workspace`, `folder`) | members, invites, slugs, folder tree | remove, accept, move | check then write by concurrent requests |
| Notifications | rows, badge counts | report, read, stream | duplicates, other replicas |
| Sign-in, share links, Yorkie webhook | one-shot states and codes, roles | redeem, resolve | expiry and single use |
| Docs, slides, board, notes editors | models of their own over Yorkie | editing, history, import and export | concurrent edits; layout is out of scope |
| CLI, design editor, documentation site | little | | |

How they interact. The view calls `Sheet`; `Sheet` calls a store; the Yorkie
store turns a call into one transaction on the shared document; a remote change
calls back into the view, which reloads the engine's caches and recalculates.
The documents list drops files into the upload queue, whose workers call the
backend for a blob, a document row and, for parsed formats, the Yorkie document.
A spreadsheet tab over a lakehouse calls the backend, which runs the query on
the one DuckDB engine of the process.

What makes each correct:

- worksheet: after any sequence of edits every piece of data names the line it
  was put on, nothing is stored under a line that is gone, and metadata keeps
  its own rules (merges apart, frozen band a prefix);
- upload queue: no more workers than slots, no slot without a worker, one
  document and one blob per file, "done" means saved, an empty document always
  has an owner, and every file is served;
- DuckDB engine: an operation runs alone on an instance that holds no secret but
  its own, an abandoned one cannot touch what replaced its instance, no
  instance or connection is lost, every caller is answered and a poisoned
  engine comes back;
- collaboration: what two clients do at once ends as if one had done it after the
  other, nothing is left under a row that is gone, a comment stays on its row;
- formulas: what is shown is what the formula evaluates to, circles show errors,
  a spill destroys nothing that was typed and goes with its formula, and every
  remote change is brought in;
- filter and store: the hidden rows are those that fail, the index is that of
  the cells, a call is one undo step, a sort keeps whole rows;
- backend: no document without its blob, no blob that is forgotten, a failed
  request leaves nothing, folders form trees inside a workspace, a workspace
  keeps an owner, a notification is made once and reaches its badge.

Of the other components `PROJECT.json` says in a note why they are not modelled.

## 2. Modules

| module | models | extends |
|---|---|---|
| `AxisShift` | index arithmetic of insert, delete and move, one operator per kind of metadata | |
| `RowList` | abstract specification: a sheet is a list of whole rows | |
| `SheetStructure` | one axis of one worksheet, one client | `AxisShift`; implements `RowList` |
| `SheetStructureProofs` | theorems of `SheetStructure` | it and `ListLemmas` |
| `Lists` | taking entries out of an array, for the modules that do | |
| `ListLemmas` | lemmas on lists without repetition, counting, least elements, cutting and splicing | `Lists`, `AxisShift` |
| `UploadQueue` | the upload queue, its workers and imports | `Lists` |
| `UploadQueueProofs` | theorems of `UploadQueue` | it and `ListLemmas` |
| `DuckDbEngine` | the DuckDB engine and the requests on it | `Lists` |
| `DuckDbEngineProofs` | theorems of `DuckDbEngine` | it and `ListLemmas` |
| `SharedSheet` | one worksheet, several clients, the merge of their changes | `AxisShift`, `Lists` |
| `SharedSheetProofs` | theorems of `SharedSheet` | it and `ListLemmas` |
| `Calculator` | dependants, order of evaluation, spilled arrays of one worksheet | `Lists` |
| `Recalculation` | the view that brings remote changes into the sheet | `Calculator` |
| `RecalculationProofs` | theorems of both | `Recalculation`, `ListLemmas` |
| `WorksheetStore` | batches, cell index, undo and redo of the store | |
| `FilteredSheet` | typing, clearing, filtering and sorting over that store | `WorksheetStore` |
| `FilteredSheetProofs` | theorems of both | `FilteredSheet` |
| `Database` | tables with their delete rules, object store, requests | |
| `Workspaces`, `Folders`, `Documents` | the handlers of those services | `Database`; `Folders` and `Documents` each alone |
| `Notifications` | reports, readings, badge streams and the bell | `Workspaces`, `Lists` |
| `Backend` | all four together | `Folders`, `Documents`, `Notifications` |
| `BackendProofs` | what every table and every request holds; theorems on owners, folders, blobs, failures, notifications and joins | `Backend`, `ListLemmas` |
| `MC*` | the seeds, inputs and symmetry sets of the runs | the module they check |

A comment `Mutant:` marks an operator that changes the definition below it the
way a slip in that code would; no specification uses it. Replacing the definition by it
must make the property named in `PROJECT.json` fail.

### 2.1 SheetStructure

The code runs rows and columns through the same functions with the roles
exchanged, so one axis is modelled. `order` is `rowOrder`; `cells` is the map of one
column keyed by row id; `heights` is `rowHeights`; `hidden` is the engine's
`userHiddenRows` and `savedHidden` what the document holds; `merges`, `rules`,
`chart`, `frozen` and `threads` are the fields of those names (a comment
thread by the row id of its anchor, everything else by index). Ids are model values: what
matters is that `createWorksheetAxisId` returns one that is not in the order,
and that it may be one used before.

`InsertRows`, `DeleteRows` and `MoveRows` are `Sheet.shiftCells` and
`Sheet.moveCells` with the Yorkie transaction they run and the cached state
they rewrite after it. The other actions are the calls that create what they
have to carry. A formula is one reference or range of rows, which is all
`shiftFormula` and `moveFormula` rewrite. Two merged blocks under one anchor
key overwrite each other: `OnePerAnchor` keeps any one of them.

`RowList` says what the outside may rely on: a row is a record of its data and its
height, and a structural edit inserts blank rows, removes rows or moves a block.
`SheetStructure` implements it (`ImplementsRowList`) through `RowAt`, which joins the id-keyed
cells and the index-keyed heights of a row.

### 2.2 UploadQueue

`row[i]` is the `UploadItem` of file or import `i` and where its worker is: the
step it awaits. An action is what happens when the awaited call settles, up to
the next await; JavaScript runs that much without interruption. `Pump` is part
of every action whose code calls it and of no other, which is what lets an ended
import leave files waiting (section 3, without a run). The backend is `made`, `live`, `saved` and `blobs`:
what its requests leave behind, whether or not the client hears of it. `Faults`
says whether a served request may lose its reply and whether a delete may fail.

### 2.3 DuckDbEngine

`caller[r]` is what the HTTP caller of request `r` still waits for; `op[r]` is
the statement its operation runs next, which goes on when the caller has been
answered. `engine` holds the fields of `DuckDbService`; `line` is the chain of
promises of `withEngineLock`, as the list of requests whose gate is not released,
so a request is in turn when it is the head. An instance is the number of the
`initialize()` call that made it. `secrets[b]` are the temporary secrets left on instance
`b`. `Invalidate`, `Reset`, `FinishLease` and `LeaseAbandoned` are functions
from the fields to the fields, like the methods they stand for, which call one another
synchronously.

Each request calls the engine once and takes a secret. A statement, a build and
the interrupt owe nothing: they may hang for ever. A failed `CREATE SECRET` may have
made the secret. `Operate` abstracts the query; what matters is whether something was
attached that must be detached.

### 2.4 SharedSheet

Each client has a `replica` of the document and changes it in one transaction per
call of `YorkieStore`. Yorkie is outside this repository, so `Merge` and what it rests on are
marked external: the row order is a list whose elements know which element they
were inserted behind and stay as tombstones; a record keeps the latest write of
each key; writes carry totally ordered tickets. `Sync` pushes a client's changes
and pulls the others'. A call is a function from replica to replica (`Apply`), so that a
merge of two can be compared with running them in either order: `last` keeps, as
history, each client's last call and what it started from. `composer` is the open
comment box with the row it was pinned to, `painted` whether the view has been
drawn since the last merge. `View` is what users can tell apart: cells from the top
and heights by index.

### 2.5 Calculator and Recalculation

A formula is what it reads and what it writes: the sum of cells, or their
transposition over itself and its neighbours. `Visit` is the depth-first search
of `topologicalSort` with its marking of paths; the search calls itself through a function of the
depth, which the number of cells bounds, as only a cell not visited before goes deeper. The loops of the code
over lists (the sorted cells, the cells a selection removes) are recursive functions of the number of
rounds. The store may list formulas in any order; `Orders` bounds that to two in the run. `blockers` is `spillBlockers`, with the retry of an anchor when
its blocking cell goes. `typed` and `circular` are history.

`Recalculation` adds the view: `frame` is the animation frame asked for with its
`needsRecalc`, `running` the run in flight, `pending` the note left for it, `cache` the set of
cross-sheet formulas. A remote edit of this worksheet is computed by the
collaborator's own calculator, in a browser without blockers. Cells of another
worksheet (`Outside`) can be read but are no nodes of the graph.

### 2.6 WorksheetStore and FilteredSheet

A call of `Sheet` awaits a store that answers at once, so it is one step: it begins a
batch, which is a record with the document it started from, the cells written so far and
the filter to be stored, and ends it in one update. What reads the document rather than the
overlay does so in the model too: the rebuilt index (`EnsureIndex`) and `FormulaGrid`. `index` is
`Dirty` when the code's flag says so. `past` and `future` are Yorkie's history (external) of a client that
has the document to itself. Column A holds numbers and never a formula (`TypedAssumption`); a formula in column B sums all of A or shows one
cell of it. `Total` is the sum of a function of numbers, as the number of pairs it stands for, which needs no recursion.
The header is above the rows.

`missed` is history: it is set by the three ways in which the code leaves a formula
out (below) and cleared when every document in reach is current again.

### 2.7 Backend

A request is a record with the `step` its handler runs next. Every awaited statement is an
action, so two requests interleave at every `await`; a request ends "done",
"refused" (a 4xx the handler chose) or "failed". What a request makes is named
after the request. `Database` keeps the foreign keys and delete rules of `schema.prisma`: a folder takes
its subtree and returns documents to the root, a workspace takes all of its rows. `Faults` names the calls
that may fail: the database, the object store, Yorkie, and "cleanup" for those that undo an earlier step.

In `Notifications`, `stream[u]` is the badge stream of a user and the bell of the
browser behind it. A summary is two queries that answer in either order
(`Reading`). A row made on the replica that serves the stream is published to it; one
made elsewhere is found by the poll. The count of the bell is a cache entry that
the stream, a click and HTTP replies write, in the order they come.

## 3. Runs

| run | states | shows |
|---|---|---|
| `SheetRows` | 2 356 | ids, cells, heights and threads behave as one list of rows; references, hidden rows, merges, the frozen band, a rule and a chart keep theirs |
| `UploadSlots` | 210 222 | slots, the cap and "once" for three files, deletes failing or not |
| `UploadProgress` | 91 272 | done is saved, nothing is left behind, every file is served |
| `EngineIsolation` | 37 372 | operations apart, nothing leaked, the replacement left alone, while DETACH works |
| `EngineRecovery` | 65 378 | no foreign secret, everybody answered, the engine rebuilt, with every fault |
| `Backend` | 445 030 | rows, blobs, contents, folder trees, owners and notifications under any two requests of all kinds and three of some |
| `Badges` | 253 834 | the stream and the bell end up with what the database holds |
| `Collaboration` | 941 299 | pairs of concurrent calls match a serial order; orphans and repeated rows come from merges only; comments stay |
| `Recalculation` | 45 749 | formulas, circles, ghosts and typed values; every remote change is shown |
| `FilteredSheet` | 74 336 | index, hidden rows, formulas, one undo per call, sorts |
| `ConcurrentTyping` | violation | two clients typing into an empty sheet |
| `ClearedLastCell` | violation | clearing the lowest cell below a whole-column sum |

Some of the properties are conjunctions that name their parts, each defined beside the
state it is about: `MetadataFollowsRows` (one part for every kind of data kept by index),
`EngineIsWhole`, `TablesAgree`, `AllOrNothing`, `MovesKeepPlaces`, `ToldExactlyOnce`,
`NotificationsCatchUp`, `LocalChangesAreClean`, `ShownIsRight`, `SpillsAreClean`, `StoreAgrees`. The type
invariants of `DuckDbEngine`, `Backend`, `Recalculation` and `FilteredSheet` are parts of these, too.

### Bounds

- `SheetRows`. Four rows hold everything the shift functions distinguish: a line
  before, at, inside, at the end of and after the edited block, for blocks of one to several lines,
  and an order shorter than the sheet, which is where ids are made on demand. `MaxCells`, `MaxMerges`
  and the like bound how many things of each kind there are. The constraint `MeetingKinds` explores together the kinds
  that meet in an action or a property (values with heights and merges, values with threads, merges with the
  freeze pane) and the others one at a time: they are rewritten by operators that
  read nothing of one another. Insertions that would push something out of the window are left
  out, as the real sheet is far larger.
- Uploads. Three files under a cap of two is the least that makes a file wait; one backoff
  and one user retry is the least that makes an attempt run again.
- Engine. Four requests make one running, two queued and one refused, and let an orphan
  outlive a rebuild and meet a third request.
- `Backend`. Two workspaces, a folder inside a folder, a file, a sheet, an invite, two
  users. Two requests of any kinds cover every check-then-write pair; three meet within `Groups`, where a third
  can matter: joins racing a removal, and copies racing a delete. Failing clean-up is left out of
  the run, as it makes `FailuresLeaveNothing` (a part of `AllOrNothing`) false by definition. Requests are interchangeable.
- `Badges`. One watcher, two requests; `MaxReadings` is 2, so that a reading can be overtaken,
  `MaxMishaps` 1. Mishaps have to be bounded, as a stream that is cut off for ever catches up with nothing.
- `Collaboration`. Two clients, a sheet of three rows with a formula and a height, users aim at the first
  two rows with blocks of one or two, three changes in all: two concurrent ones and one before or after them. Blocks of two are
  needed for an insert inside what another client deletes, and what is to come out as in one order is
  proved for every bound (section 4.6).
- `Recalculation`. Six cells whose formulas can close one circle or two and whose two array formulas
  cross in one cell; two remote changes, the least that meet in one frame or one run;
  `MaxShared` bounds the cells in use in a sheet that sees remote changes.
- `FilteredSheet`. Three rows, one formula and at most three cells, conditions on one column, one undo step; the
  constraint `Small` says so, and calls that leave it are checked but not followed.

`CHECK_DEADLOCK FALSE` is set because behaviours end in every run: a finite number of files, requests or changes,
or a sheet whose bounds leave nothing to do.

### Fairness

- `UploadQueue`: an awaited call settles and a backoff ends, because both are promises the code
  awaits without a condition; the user owes nothing.
- `DuckDbEngine`: only timers fire (`setTimeout` in `waitBefore`, `waitForInitialization`,
  `withConnectionUntil`, `releaseWhenSettled`); statements and builds owe nothing. A
  property that holds with so little is the point of the deadline and of the grace period.
- `Backend` (run `Badges`): requests are served, EventSource connects again, the poll and the refetch
  interval tick, queries are answered.
- `Recalculation`: an animation frame fires and the promises of a run settle. Users and collaborators owe nothing.

### Exceptions the properties make

They are stated in the definitions and are what the code does not promise.
`PairsMatchSerialOrder` leaves out calls that have to add rows (the run
`ConcurrentTyping`), formulas that an insert rewrites under the person typing,
index-keyed data that two structural edits rewrite, which shift twice or once, and two cases met in
the proof: a row inserted inside the block the other client deletes stays, while the serial orders
delete it or put it elsewhere (`Splits`), and of a row that two concurrent moves have left twice in the order
one client may delete one place while the other types into it (`IntoRepeated`). Nor does collaboration.md list
either among the cases "expected to match a serial oracle" (line 225).
`FormulasAreCurrent` of `Calculator` leaves out readers of a spill and sheets that have had a
circle. `CirclesShowErrors` leaves out circles with a spill behind them: with C1 an array formula over C1 and C2
that reads A1 and B1, B1 reading A2 and C1, and A2 reading B1, the search can meet B1 first, mark B1 and A2
and reach C1 by a path it does not mark; C1 then shows its first element. `FormulasAreCurrent` of `FilteredSheet` holds unless `missed`, which has three causes:
typing between a change and the next repaint, when the index is rebuilt inside the batch without what
the batch has written; clearing the lowest cells (the run `ClearedLastCell`); and a sort that takes a formula
to a row where there was none, as `getFormulaGrid` reads the document and not the
batch (`yorkie-store.ts:549`), against the goal of batch-transactions.md that "intermediate reads during a batch
must see buffered writes".

### Findings

A finding with a run is a run that expects the violation of one property.

| run | what happens |
|---|---|
| `ConcurrentTyping` | two clients typing into different rows of an empty sheet each add row ids, and one value ends in a row nobody typed it in (`yorkie-worksheet-axis.ts:9`), against collaboration.md:229 |
| `ClearedLastCell` | `=SUM(A:A)` keeps its value when the lowest cell of the sheet is cleared (`yorkie-store.ts:568`), against formula.md:119 |

Three definitions are violated when added to a run; each quotes a line of the repository:

- `AlwaysAnOwner` (`Workspaces`, with `Backend.cfg`): a workspace has no owner when the second of the two inserts
  that make it fails, and, with no fault at all, when two owners remove each other at once, against
  document-access.ts:14;
- `CopiesOverwriteNothing` (`Documents`, with `Backend.cfg`): an edit of the copy made while it
  is written is lost, against document-copy.service.ts:152-154;
- `BackstopIsForNoStream` (`Notifications`, with `Badges.cfg`): a slow HTTP reply overwrites what the
  stream has written, and only the refetch interval repairs it, against use-notifications.ts:33-35.

Met while modelling, without a run:

- a move into the middle of another merged block is accepted and the block takes the
  rows in (`merging.ts:103`), against "in lockstep with cells" in sheet.md:86;
- freezing through a merged block is accepted (`sheet.ts:466`), against sheet.md:226;
- a rule whose rows are deleted stays, on the row that moved up (`rule-ranges.ts:12`), against sheet-style.md:206;
- hidden rows shifted by an insert are not persisted (`sheet.ts:1688`), so a reload brings the old ones back;
- an import ends without pumping (`upload-queue.ts:319`), so files waiting behind it stay until something else pumps;
- a late failed DETACH poisons the instance that replaced its own
  (`lakehouse.service.ts:408`), against duckdb.service.ts:332. With "detach" among the faults `NoInstanceLeak` and
  `PoolNeverDry` (parts of `EngineIsWhole`) fail as well (two builds install two instances; a request waits for a connection that was thrown
  away), which is why `EngineIsolation` leaves that fault out while `EngineRecovery` keeps it;
- a change that needs recalculation and arrives after a style change in the same frame is loaded
  without it (`sheet-view.tsx:1165` keeps the first argument), so formulas stay stale until the next edit
  or change; this is the disjunct `unlike` of `FormulasCatchUp`.

Remarks on what the code leaves open, from the definitions:

- two concurrent folder moves, each checked before the other is written, can close a cycle; `MovesKeepTrees` and
  `FoldersStayInside` say what still holds (parts of `MovesKeepPlaces` and `TablesAgree`);
- a user who removes two workspaces at once can be left with none;
- removing a workspace leaves its blobs behind, as the object store is not told; a reply lost on create makes a second document on retry (with "reply" in `Faults`,
  `NothingMadeTwice` fails), and a row dismissed after a failed creation leaves its blob (accepted, pdf.md:163);
- two clients that move a row at once leave its id twice in the order; two concurrent inserts shift a formula once; a comment
  opened between a merge and the repaint goes to the row now at the old index;
- an anchor in a circle gets its error without clearing its ghosts (`calculator.ts:54`); a path marked as circular may
  hold cells that only lead to the circle, and these keep #REF! when it is broken elsewhere; of two anchors one
  cell blocks only the last is tried again.

## 4. Proofs

Every theorem holds for every value of the constants under the assumptions named
in the modules. Those say what the code or the database gives (ids of rows that are
made are new, a value is no formula, the rows the database starts with satisfy its foreign keys, a pool has a
connection, null is no dedupe key, what users type is a number or a formula in its place, an array formula writes as many cells as it reads,
an order of the store names every cell once) and TLC evaluates each of them in every run. Three hypotheses
are written into the theorems that need them, and only there: `NoLostReply` and `DeletesWork` (uploads), `DetachWorks`
(engine), `CleanupWorks` (backend). Each names a call the code makes once and whose failure it logs, so
without it the property is false; section 3 says what happens then.

### 4.1 SheetStructure

| theorem | says |
|---|---|
| `TypeCorrect` | `Spec => []TypeOK`, which is more than types: the order names no row twice, ranges stay ordered and inside the window |
| `NothingOrphaned` | nothing is stored under a row id that is not in the order |
| `ThreadsFollow` | a structural edit removes the threads of the rows it deletes and no others |
| `FormulasFollow` | a formula names the rows it named, or is #REF! |
| `MetadataFollows` | hidden rows, frozen band, merges, rules and charts stay on their rows |
| `RowListImplemented` | `Spec => Rows!Spec`: the refinement of `RowList` |

The inductive invariant is `Inv == TypeOK /\ NoOrphans`: the type alone is inductive, but that a delete leaves
nothing behind needs that the order names no row twice, so that the ids taken out are not also left in.

The action properties follow from one fact per operation. `Sends(g)` says that the row at index `i` of the
order is at `g[i]` afterwards, or gone; `SheetStructureProofs` shows it with `ShiftMap` for inserts and
deletes and with `MoveMap` for moves, from the lemmas of `ListLemmas` on cutting and splicing a list. What is left for each
kind of metadata is arithmetic: that its own function of `AxisShift` (each clamps, drops or
splits in its own way) agrees with `g` on the rows that survive.

The refinement maps `View`, the window of records that `RowAt` makes of the id-keyed cells and the
index-keyed heights. Edits of one row change one record. For a structural edit, `ShiftWindow` and `MoveWindow` extend
the map of the order to the whole window, where there are no ids yet; cells arrive because ids do (`CellsSent`), heights because
`shiftDimensionMap` and `moveDimensionMap` send their indices the same way (`HeightsSent`), and the two
together are the step of `RowList`. The calls that create ids on demand or change only metadata are stuttering steps.

### 4.2 UploadQueue

`MadeOnce` assumes no lost replies (TLC finds it violated without) and `NothingForgotten` working deletes as
well. The inductive invariant `RowsInv`
says of every row on its own how its status, its worker's step, the ids it kept and what the backend
holds belong together (`Sound`). Neither property is inductive: "one document" needs that a worker about
to create has none yet, which needs that the id is kept as soon as one is made, which
needs to know which steps come after.

`ListNamesRowsOnce` (`[]TypeOK`), `ConcurrencyCapped`, `SlotsMatch` and `DoneMeansSaved` hold whatever is lost or
fails. For the last, `DocsHeld` says that the document a row names exists until the row is dismissed, although there may be
others it does not know of. `QueueInv` says that the list names
exactly the rows shown, each once, and that no more than `MaxConcurrency` of them have a worker. The cap is a
counting argument over `Pump`: of the pending rows of the list it starts the first ones,
as many as there are slots left, so `ListLemmas` counts how many elements of a list a filter keeps up to a position.

### 4.3 DuckDbEngine

`QueriesMeetOwnSecret` and `OperationsRunAlone` hold with every fault. `EngineInv` has these parts: a generation
and a build for every instance (`BuildsCounted`); who is in the line and in which order (`LineInOrder`);
a leased connection has one caller or one orphan (`LeasesHeld`); the pool holds no connection of an instance
on which something may still run (`PoolIsFree`); and `TopIsClean`. The last was the hard one: the
pool as a whole is not free of secrets, as a request that was called before a failed DETACH condemned its
instance gives its connection back all the same; but the connection the next request takes is, because `Outdated` keeps
such a request from running.

`InstancesAccountedFor` and `ReplacementIsSafe` assume `DetachWorks`. Then only the request whose turn it
is can condemn the engine (`PoolInv`), so at most one instance is in the making or in use, and an orphan has an older generation.

### 4.4 Backend

`BackendProofs` proves `TablesTyped` (`[]TypeOK`) by `Whole`: `TypeOK`, the form of every request record at
each of its steps (`AllFormed`), and that a row with the id of a request was made by that request (`RowsMade`,
`NewWorkspaces`). The form of a record is what a handler has in its local variables; with ids that name their
maker, every check made earlier can be stated about the present state. To this it adds one invariant per
question, each saying what a request knows by a read that is already over, and what of it nobody can have undone:

| theorem | property | inductive invariant |
|---|---|---|
| `RowsAgree` | `[]TablesAgree` | `FolderChecks` and `BlobsKnown` |
| `PlacesKept` (`TreesStay`, `DocumentsFiled`) | `MovesKeepPlaces` | `FolderChecks`: the folder looked up, if it is still there, is in that workspace, and a walk never met the folder to be moved; `FilingChecks`, the same for documents |
| `OwnersKept` | `WorkspacesKeepAnOwner` | `LeaversFound`: who leaves was found to be a member, not an owner |
| `BlobsTracked` (`CleanupWorks`) | `BlobsAreTracked` | `BlobsKnown`: whose blob a row has, which blob an upload, a copy or a delete is about, and that nobody else's row has it |
| `WholeOrNothing` (`CleanupWorks`), `CopiesWhole` | `[]AllOrNothing` | `BlobsKnown`; `LeavesNothing`, what each step of a request that will fail has left; `ContentsKnown`, where the content of a copy comes from |
| `ToldOnce` | `[]ToldExactlyOnce` | `NotesKnown`: which request made a note, of which event; `Announced`: a report that is done found or made the note |
| `JoinsNew` | `[]JoinsAreNew` | `JoinsCounted`: joins are at most the removals, plus one for a user who is in |

Proving changed the model in two places where a property said something the code does not promise and the runs
were too small to tell. `FolderInItsWorkspace` has a second exception: a copy of a document that another
request had left in a folder of the wrong workspace is filed there as well. `ReportsReachMembers`
allows for a note that went with its document or workspace: a later report of the same comment finds the first
one's note by its key and makes none of its own, and the first may have named a document of a workspace that is then
deleted. `Lineage` is now the least set closed under parents, in place of a bounded iteration,
so that it can be reasoned about.

### 4.5 WorksheetStore and FilteredSheet

| theorem | property | inductive invariant |
|---|---|---|
| `IndexAgrees` | `[]StoreAgrees` | `StoreInv` |
| `HiddenRowsFail` | `[]FilterHidesWhatFails` | `StoreInv` |
| `OneUndoPerCall` | `CallsUndoAtOnce` | `StoreInv` |
| `SortsKeepWholeRows` | `SortsKeepRows` | `StoreInv` |
| `FormulasShowCells` | `[]FormulasAreCurrent` | `FormulasInv` |

They rest on `StoreAssumption` (the names that stand for something are no numbers and no set of cells is the mark
of a dirty index), `TypedAssumption` and `FiltersAssumption` (where users type what).

A call is a batch that grows step by step and ends in one update, and so are the proofs: one lemma for each step
a call is made of (`SetGridWrites`, `EnsureIndexReads`, `DeleteRangeIsSetGrid`, `CalculateWrites`, `RecomputeReady`)
says what the batch holds after it, and `EndKeeps` what its end makes of it. A batch is `Ready` to end when the
filter it stores hides what fails by the cells it has written. `StoreInv` says that of every document of the
history, past and future, as undo makes any of them the present one; the index is then dirty or that of
the document, and the filter in memory the document's.

For `FormulasInv` every document in reach is current unless `missed`. That a formula is current is a statement about
column A only (`EvaluateShows`, `CurrentMeans`), provided the index is that of the cells. An edit keeps it if the used rows
do not shrink: the dependants are looked up by the bounds after the edit (`EditKeepsCurrent`). A sort keeps it if no
formula lands where there was none (`SortKeepsCurrent`). These two hypotheses and the clean index of `SetData` are the negations of the
three causes of `missed`, so the theorem also says that there is no fourth.

A sort gives a row the number of rows that go before it. That no two rows get the same place is a counting argument
on `Before`, a strict total order (`RisingPlaces`), and with as many places as rows none is free
(`PlacesArePermuted`, `NewRowPermutes`); `SortMoves` follows a row through deletion, writing and calculation.

### 4.6 SharedSheet

| theorem | property | inductive invariant |
|---|---|---|
| `CopiesSound` | | `SheetsInv /\ ComposersInv`, as `[]` |
| `ReplicasTyped` | `[]TypeOK` | both |
| `LocallyClean` | `LocalChangesAreClean` | `SheetsInv` |
| `CommentsStay` | `CommentsStayOnTheirRow` | both |
| `ChangesRemembered` | | `SheetsInv /\ HistoryInv`, as `[]` |
| `SerialPairs` | `[]PairsMatchSerialOrder` | all three |

They rest on four assumptions: clients are numbered, bounds are numbers, what users type is no formula, and a formula of a stored
sheet names a row of that sheet. There may be any number of clients, rows and changes.

The first part is about one call on one replica, and needs no session. `Document(doc, b)` says that the
elements of a replica are well formed, with tickets and ids below `b`, and that its list is in the order `Lined` makes of
them. `LinedInserted` is the heart of it: elements whose tickets are later than all others stand right behind the one they were
inserted behind, so that the list a call writes in place is the list a merge would make. It is an
induction over tickets. For each call one lemma says that it `Follows`: the elements
there were stay the elements they were, new ones have tickets of the call, and formulas reach a bounded number of rows further; and that it is
`CleanAfter`: no cell or thread is left without a row it had, and no id is repeated. `CallFollows` joins them.

The second part is about the session. `SheetsInv` says that every copy is a `Document`, that any two copies `Agree` on the
elements both have, and that nobody has an element with a ticket some client may still use (`Unclaimed`). This is what makes a merge
of elements well defined: two clients never give one ticket to two elements (`BlocksApart`: the blocks of tickets of two
clients, or of one client at two times, are disjoint, as a change uses at most `Width`). `MergeSound` shows that copies that agree
merge into one that agrees with whatever they agreed with. `ComposersInv` pins an open composer to its row as long as the view is painted.

Merges do orphan cells and repeat rows, so `SheetsInv` says nothing of these: `CleanAfter` compares a replica with what it was
before the call, and `SheetsInv` only has to make sure that the replica is a document then.

The third part is about pairs of calls on one replica. `HistoryInv` says that what a client started its last call from is
still a sound copy all of whose tickets and ids are older than the call (`Base`, `Stamps`), so that the pair can be compared there, whatever
has been merged since. The rest needs no session any more. What a call does to the two records is described once, as
`Rewritten(old, f, E, S, t)`: the keys in `E` go, those in `S` are written with ticket `t`. Two such descriptions
on one replica merge into a third, `Joined`. Of the list, `Looks` says which elements
a call has added or removed, and `Twins` that two lists show the same
but for fresh rows under other names, which `View` does not tell apart. `PutTwins`, `PutTwice` and `MergedInserts` find where fresh elements stand after a merge. With these each kind of pair is a lemma of its own, which also says
which of the two orders the merge looks like:

| pair | order | lemma |
|---|---|---|
| typing, typing | either; a call that clears first | `TypedTyped` |
| typing, insert or delete | typing first | `TypedInsert`, `TypedDelete` |
| height, insert or delete | the height last, as it is the later write of an index | `HeightAfter` |
| insert, the block deleted ends above it | the insert first | `InsertDelete` |
| insert, the block deleted starts at it or below | the delete first | `DeleteInsert` |
| insert, insert | the upper one last; at one place the client with the greater number last | `InsertInsert` |

`PairMatches` joins them, and `SerialPairs` says that every pair the property speaks of is one of these.
The two exceptions above are the two places where a first attempt failed for a good reason.

Two definitions changed for the proof, and not in what they mean: `Lined` enters elements in the order of their tickets (it was a recursion
over the tree of elements), and `Shown` is `Omitting` of the tombstones.

### 4.7 Calculator and Recalculation

| theorem | says |
|---|---|
| `SpillsStayClean` | `Spec => []SpillsAreClean`: ghosts have their formula, blockers are about blocked anchors, what was typed remains |
| `FormulasStayCurrent` | `Spec => []FormulasAreCurrent`: every formula no spill, circle or other worksheet is behind shows what it evaluates to |
| `SheetShowsWhatIsRight` | `Spec => []ShownIsRight`: besides, the cells of a circle show an error |

All three are for any cells, formulas (circles and array formulas that cross included), selections, orders of
the store and changes by others; the formulas of the run are one small case.

`SpillsAreClean` is not inductive: a spill takes the cells of `Around` only if it knows that a formula stands where it writes
first and that no formula is a ghost. `SheetIsClean` adds that as `Whole`, and splits the rest into what holds always (`Whole`,
`Holds`: the cells hold what was typed) and what holds until somebody makes a circular reference (`Haunted`, of
ghosts) or a collaborator edits the sheet as well (`Noted`, of blockers). `Good(st, T, h, n)` is that invariant of a state on the way
through a call, with `h` and `n` for the last two. It is shown of each piece of a call (`VacatedGood`, `PutGood`, `SpillGood`,
`CalculatedGood`), and through the loops of `Calculate` and `Emptied` with the lemmas of section 4.8.
An edit that closes a circle can leave an array formula marked as an error with its ghosts still there, so that nothing
is kept of the ghosts from then on.

That formulas are current needs what `topologicalSort` returns. Its invariant is `Below`: the visited cells are
those on the path and those sorted, the cells of the path that have left the stack are marked, and the sorted cells are
`Ordered`, each before those of its dependants that are not marked. `VisitSound` carries it one depth down, for
any graph, and `VisitStraight` says that nothing is marked when no cell is behind itself. `Sorts` is the result.
`ClosureIs` gives what is behind a cell as the least set that is closed under reading, from which come `SortedBehind` (a cell is sorted
if one of the cells asked for is behind it, and no spill) and `BehindBefore` (an edit leaves alone
what is behind a cell it is not behind itself). With these, `CalculateShows` goes through the sorted cells: a plain formula
shows its value or comes later.

For circles the same loop carries that a cell of a circle shows an error or comes later (`CalculateMarks`). The search
does not mark all of them: where two circles meet it can reach a cell of the second by a path that has left the
first. Such a cell still reads a cell of its circle (`RoundIs`), which by `Ordered` comes before it and shows an
error by then, and a sum over an error is one. This is where array formulas differ, as they pass on their elements one by one.

### 4.8 Induction

The prover cannot instantiate a theorem with an operator parameter, which is how its library states
induction. Where a proof has to count along a list, `ListLemmas` uses that every non-empty set of natural numbers has
a least element (`LeastNatural`), and takes the least position at which the claim fails. `LoopRuns` and
`LoopStays` of `RecalculationProofs` are that argument for a loop of the code, a recursive function of the number of its
rounds: the function exists, and what every round keeps holds after the last.

### 4.9 Only model-checked

- All liveness (`EngineRecovers`, `CallersAreAnswered`, `NotificationsCatchUp`, and those of the uploads and
  of `Recalculation`): fairness and ENABLED are beyond the prover.
- The two runs that expect a violation.

## 5. Not modelled, and why

- Rendering, layout, file formats, SQL, the parser and the formula functions: data transformations without
  order. They are most of the repository's lines, and its coverage by the map stays small for that reason.
- Two axes at once: no function reads both but the merge map, whose second axis has the same code.
- Column and row styles, paste, autofill, images and pivots: the same shift functions again, or single writes.
- Bulk deletion and renaming of documents, renaming of folders: one statement each on fields nothing else reads.
- Sign-in, share links, the Yorkie webhook: decisions on one read of the database.
- DuckDB shutdown; the second build attempt; withConnection without a secret, which skips two statements.
- The docs, slides, board and notes editors: models of their own, each as large as the sheet engine, whose concurrency is Yorkie's.
- Undo after a remote change: it is Yorkie's history, of which this repository shows too little to model it.

## 6. Plan

Done: every module of section 2, and the theorems of section 4.

Abstract specifications worth stating: a queue with a bounded number of servers for `UploadQueue`, a lock for the engine
queue, and the notes and docs stores if there is room for them.
