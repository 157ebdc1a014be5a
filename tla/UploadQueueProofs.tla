-------------------------- MODULE UploadQueueProofs --------------------------
(***************************************************************************)
(* What the upload queue does, for any number of files, imports, retries   *)
(* and any concurrency cap.  First what one row makes, where no reply is   *)
(* lost: the facts about a row are inductive together, where its worker is *)
(* decides which of the document and the blob exist, and the other way     *)
(* round.  Then, whatever gets lost or fails, the list and the slots, and  *)
(* the documents a row holds on to.                                        *)
(***************************************************************************)
EXTENDS UploadQueue, ListLemmas, TLAPS

Running == {"parsing", "uploading"}

NoLostReply == "reply" \notin Faults
DeletesWork == "delete" \notin Faults

\* A row, and what the backend holds for it: m documents made, the live and the
\* filled ones, b blobs.
Sound(i, it, m, l, s, b) ==
    /\ it \in RowType
    /\ m \in {0, 1} /\ b \in {0, 1}
    /\ l = {} \/ (m = 1 /\ l = {1})
    /\ it.fileId = b
    /\ it.status \in Running <=> it.step # "none"
    /\ it.status = "new" => m = 0
    /\ it.status = "pending" => i \in Files
    /\ it.status = "done" =>
          /\ it.docId = 1 /\ l = {1}
          /\ IF i \in Blobs THEN b = 1 ELSE 1 \in s
    /\ it.step = "create" => m = 0
    /\ it.step \in {"apply", "cleanup"} => it.docId = 1 /\ m = 1 /\ l = {1}
    /\ i \in Files => it.docId = m /\ it.step # "cleanup"
    /\ i \in Files /\ it.status # "gone" => (m = 1 => l = {1})
    /\ i \in Blobs =>
          /\ m = 1 => it.status \in {"done", "gone"}
          /\ it.step \notin {"import", "apply"}
          /\ it.step = "upload" => b = 0
          /\ it.step = "create" => b = 1
    /\ i \notin Blobs =>
          /\ it.step # "upload" /\ b = 0
          /\ DeletesWork /\ 1 \in l \ s =>
                it.docId = 1 /\ it.status \in Running \cup {"pending", "error"}
    /\ i \in Imports =>
          /\ ~it.file /\ it.step # "sleep"
          /\ it.step = "import" => m = 0

AllSound(r, m, l, s, b) ==
    /\ DOMAIN r = Rows
    /\ \A i \in Rows : Sound(i, r[i], m[i], l[i], s[i], b[i])

RowsInv ==
    /\ row = [i \in Rows |-> row[i]]
    /\ made \in [Rows -> Nat] /\ blobs \in [Rows -> Nat]
    /\ live = [i \in Rows |-> live[i]] /\ saved = [i \in Rows |-> saved[i]]
    /\ AllSound(row, made, live, saved, blobs)

\* The row of i becomes it, and the queue may be pumped.
RowBecomes(i, it) ==
    \/ row' = [row EXCEPT ![i] = it]
    \/ \E list : row' = Pump(list, [row EXCEPT ![i] = it])

-----------------------------------------------------------------------------
(* Starting an attempt keeps a row sound: a pending row is a file's, and a  *)
(* sleeping one too (runItem's loop, pump).                                 *)
LEMMA EnterSound ==
  ASSUME NEW i \in Rows, NEW it, NEW m, NEW l, NEW s, NEW b,
         Sound(i, it, m, l, s, b),
         it.status = "pending" \/ it.step = "sleep"
  PROVE  /\ Sound(i, Enter(i, it), m, l, s, b)
         /\ Sound(i, Enter(i, [it EXCEPT !.attempt = 0]), m, l, s, b)
<1> USE RetriesAssumption, BlobsAssumption, ImportsAssumption
<1>1. ASSUME NEW x, Sound(i, x, m, l, s, b),
             x.status = "pending" \/ x.step = "sleep"
      PROVE  Sound(i, Enter(i, x), m, l, s, b)
  <2>1. i \in Files
    BY <1>1 DEF Sound, Rows
  <2> DEFINE y == Enter(i, x)
  <2>2. /\ y \in RowType /\ y.docId = x.docId /\ y.fileId = x.fileId /\ y.file = x.file
        /\ y.status = IF i \in Blobs THEN "uploading" ELSE "parsing"
        /\ y.step = IF i \notin Blobs THEN "import"
                    ELSE IF x.fileId = 0 THEN "upload" ELSE "create"
    BY <1>1 DEF Sound, Enter, RowType, Statuses, Steps
  <2> HIDE DEF y
  <2>3. Sound(i, y, m, l, s, b)
    BY <1>1, <2>1, <2>2 DEF Sound, Running
  <2> QED  BY <2>3 DEF y
<1> DEFINE fresh == [it EXCEPT !.attempt = 0]
<1>2. fresh \in RowType /\ fresh.status = it.status /\ fresh.step = it.step
      /\ fresh.docId = it.docId /\ fresh.fileId = it.fileId /\ fresh.file = it.file
  BY DEF Sound, RowType
<1> HIDE DEF fresh
<1>3. Sound(i, fresh, m, l, s, b)
  BY <1>2 DEF Sound
<1>4. Sound(i, Enter(i, fresh), m, l, s, b)
  BY <1>1, <1>2, <1>3
<1> QED  BY <1>1, <1>4 DEF fresh

(* The pump only starts pending rows, so it keeps every row sound.          *)
LEMMA PumpSound ==
  ASSUME NEW list, NEW r, NEW m, NEW l, NEW s, NEW b,
         AllSound(r, m, l, s, b)
  PROVE  /\ AllSound(Pump(list, r), m, l, s, b)
         /\ Pump(list, r) = [i \in Rows |-> Pump(list, r)[i]]
<1> DEFINE pending(n) == r[list[n]].status = "pending"
           upTo(n) == Cardinality({k \in 1 .. n : pending(k)})
           claimed == {list[n] : n \in {k \in DOMAIN list : pending(k) /\
                         Cardinality(Active(r)) + upTo(k) <= MaxConcurrency}}
<1>1. Pump(list, r) = [i \in DOMAIN r |->
         IF i \in claimed THEN Enter(i, [r[i] EXCEPT !.attempt = 0]) ELSE r[i]]
  BY DEF Pump
<1>2. \A i \in claimed : r[i].status = "pending"
  OBVIOUS
<1>3. DOMAIN r = Rows  BY DEF AllSound
<1> HIDE DEF claimed
<1>4. ASSUME NEW i \in Rows
      PROVE  Sound(i, Pump(list, r)[i], m[i], l[i], s[i], b[i])
  <2>0. Sound(i, r[i], m[i], l[i], s[i], b[i])
    BY DEF AllSound
  <2>1. CASE i \in claimed
    BY <1>1, <1>2, <1>3, <2>0, <2>1, EnterSound
  <2>2. CASE i \notin claimed
    BY <1>1, <1>3, <2>0, <2>2
  <2> QED  BY <2>1, <2>2
<1> QED  BY <1>1, <1>3, <1>4 DEF AllSound

(* Replacing one row and what the backend holds for it by sound ones keeps  *)
(* all rows sound, pumped or not.                                           *)
LEMMA OneRow ==
  ASSUME RowsInv, NEW i \in Rows, NEW it, NEW m, NEW l, NEW s, NEW b,
         Sound(i, it, m, l, s, b), m \in Nat, b \in Nat,
         made' = [made EXCEPT ![i] = m], live' = [live EXCEPT ![i] = l],
         saved' = [saved EXCEPT ![i] = s], blobs' = [blobs EXCEPT ![i] = b],
         RowBecomes(i, it)
  PROVE  RowsInv'
<1> DEFINE r == [row EXCEPT ![i] = it]
<1>1. AllSound(r, made', live', saved', blobs')
  BY DEF RowsInv, AllSound
<1>2. r = [j \in Rows |-> r[j]]
  BY DEF RowsInv
<1> HIDE DEF r
<1>3. AllSound(row', made', live', saved', blobs') /\ row' = [j \in Rows |-> row'[j]]
  BY <1>1, <1>2, PumpSound DEF r, RowBecomes
<1>4. made' \in [Rows -> Nat] /\ blobs' \in [Rows -> Nat]
      /\ live' = [j \in Rows |-> live'[j]] /\ saved' = [j \in Rows |-> saved'[j]]
  BY DEF RowsInv
<1> QED  BY <1>3, <1>4 DEF RowsInv

LEMMA SoundRows ==
  ASSUME RowsInv, NEW i \in Rows
  PROVE  /\ Sound(i, row[i], made[i], live[i], saved[i], blobs[i])
         /\ row[i] \in RowType /\ made[i] \in {0, 1} /\ blobs[i] \in {0, 1}
BY DEF RowsInv, AllSound, Sound

(* Steps that leave the backend alone. *)
LEMMA RowOnly ==
  ASSUME RowsInv, NEW i \in Rows, NEW it,
         Sound(i, it, made[i], live[i], saved[i], blobs[i]),
         UNCHANGED backend,
         RowBecomes(i, it)
  PROVE  RowsInv'
<1>1. /\ made' = [made EXCEPT ![i] = made[i]] /\ live' = [live EXCEPT ![i] = live[i]]
      /\ saved' = [saved EXCEPT ![i] = saved[i]]
      /\ blobs' = [blobs EXCEPT ![i] = blobs[i]]
      /\ made[i] \in Nat /\ blobs[i] \in Nat
  BY DEF RowsInv, backend
<1> QED  BY <1>1, OneRow

(* A failed or rate-limited attempt of a file leaves its row sound, whatever *)
(* the step it failed in.                                                    *)
LEMMA RejectedRow ==
  ASSUME NEW i \in Files, RowsInv, NEW reply, row[i].step # "none",
         Rejected(i, reply)
  PROVE  \E it : /\ Sound(i, it, made[i], live[i], saved[i], blobs[i])
                 /\ RowBecomes(i, it)
<1> USE RetriesAssumption, ImportsAssumption DEF Rows
<1>1. Sound(i, row[i], made[i], live[i], saved[i], blobs[i]) /\ row[i] \in RowType
  BY SoundRows
<1>2. CASE reply = "limited" /\ row[i].attempt < MaxRateRetries
  <2> DEFINE it == [row[i] EXCEPT !.step = "sleep", !.attempt = @ + 1]
  <2>1. RowBecomes(i, it)
    BY <1>2 DEF Rejected, RowsInv, RowBecomes
  <2>a. row[i].attempt + 1 \in 0 .. MaxRateRetries
    BY <1>1, <1>2 DEF RowType
  <2>2. /\ it \in RowType /\ it.step = "sleep" /\ it.status = row[i].status
        /\ it.docId = row[i].docId /\ it.fileId = row[i].fileId /\ it.file = row[i].file
    BY <1>1, <2>a, Zenon DEF RowType, Steps
  <2> HIDE DEF it
  <2>3. Sound(i, it, made[i], live[i], saved[i], blobs[i])
    BY <1>1, <1>2, <2>2 DEF Sound, Running
  <2> QED  BY <2>1, <2>3
<1>3. CASE ~(reply = "limited" /\ row[i].attempt < MaxRateRetries)
  <2>1. RowBecomes(i, Failed(row[i]))
    BY <1>3 DEF Rejected, Settled, RowBecomes
  <2>2. Sound(i, Failed(row[i]), made[i], live[i], saved[i], blobs[i])
    BY <1>1 DEF Sound, Failed, RowType, Statuses, Steps, Running
  <2> QED  BY <2>1, <2>2
<1> QED  BY <1>2, <1>3

-----------------------------------------------------------------------------
(* One lemma per group of actions.                                          *)

LEMMA UserSteps ==
  ASSUME RowsInv, UserStep
  PROVE  RowsInv'
<1> USE ImportsAssumption, BlobsAssumption, RetriesAssumption DEF Rows
<1>1. ASSUME NEW i \in Files, NEW fits \in BOOLEAN, Enqueue(i, fits)  PROVE RowsInv'
  <2> DEFINE it == [row[i] EXCEPT !.status = IF fits THEN "pending" ELSE "error",
                                  !.file = fits]
  <2>1. RowBecomes(i, it)
    BY <1>1 DEF Enqueue, RowsInv, RowBecomes
  <2>2. /\ it \in RowType /\ it.status \in {"pending", "error"}
        /\ it.step = row[i].step /\ it.docId = row[i].docId /\ it.fileId = row[i].fileId
    BY <1>1, SoundRows DEF RowType, Statuses
  <2> HIDE DEF it
  <2>3. Sound(i, it, made[i], live[i], saved[i], blobs[i])
    BY <1>1, <2>2, SoundRows DEF Enqueue, Sound, Running
  <2> QED  BY <1>1, <2>1, <2>3, RowOnly DEF Enqueue
<1>2. ASSUME NEW i \in Files, Retry(i)  PROVE RowsInv'
  <2> DEFINE it == Retried(row[i])
  <2>1. RowBecomes(i, it)
    BY <1>2 DEF Retry, Settled, RowBecomes
  <2>a. row[i] \in RowType /\ row[i].retries + 1 \in 0 .. MaxRetries
    BY <1>2, SoundRows DEF Retry, RowType
  <2>2. /\ it \in RowType /\ it.status = "pending" /\ it.step = row[i].step
        /\ it.docId = row[i].docId /\ it.fileId = row[i].fileId
    BY <2>a DEF Retried, RowType, Statuses
  <2> HIDE DEF it
  <2>3. Sound(i, it, made[i], live[i], saved[i], blobs[i])
    BY <1>2, <2>2, SoundRows DEF Retry, Sound, Running
  <2> QED  BY <1>2, <2>1, <2>3, RowOnly DEF Retry
<1>3. ASSUME NEW i \in Rows, NEW deleted \in BOOLEAN, Dismiss(i, deleted)
      PROVE  RowsInv'
  <2> DEFINE it == [row[i] EXCEPT !.status = "gone"]
             l  == IF deleted THEN live[i] \ {row[i].docId} ELSE live[i]
  <2>0. row' = [row EXCEPT ![i] = it]
    BY <1>3 DEF Dismiss, RowsInv
  <2>1. RowBecomes(i, it) /\ live' = [live EXCEPT ![i] = l]
    BY <1>3, <2>0 DEF Dismiss, RowsInv, RowBecomes
  <2>2. /\ made' = [made EXCEPT ![i] = made[i]]
        /\ saved' = [saved EXCEPT ![i] = saved[i]]
        /\ blobs' = [blobs EXCEPT ![i] = blobs[i]]
        /\ made[i] \in Nat /\ blobs[i] \in Nat
    BY <1>3 DEF Dismiss, RowsInv
  <2>3. Sound(i, it, made[i], l, saved[i], blobs[i])
    BY <1>3, SoundRows
    DEF Dismiss, MustClean, DeletesWork, Sound, RowType, Statuses, Steps, Running
  <2> HIDE DEF it, l
  <2> QED  BY <2>1, <2>2, <2>3, OneRow
<1>4. ASSUME NEW i \in Imports, StartImport(i)  PROVE RowsInv'
  <2> DEFINE it == [row[i] EXCEPT !.status = "parsing", !.step = "import"]
  <2>1. RowBecomes(i, it)
    BY <1>4 DEF StartImport, RowsInv, RowBecomes
  <2>2. /\ it \in RowType /\ it.status = "parsing" /\ it.step = "import"
        /\ it.docId = row[i].docId /\ it.fileId = row[i].fileId /\ it.file = row[i].file
    BY <1>4, SoundRows DEF RowType, Statuses, Steps
  <2> HIDE DEF it
  <2>a. i \in Rows /\ i \notin Files /\ i \notin Blobs
    OBVIOUS
  <2>b. Sound(i, row[i], made[i], live[i], saved[i], blobs[i]) /\ made[i] = 0 /\ live[i] = {}
    BY <1>4, <2>a, SoundRows DEF StartImport, Sound
  <2>3. Sound(i, it, made[i], live[i], saved[i], blobs[i])
    BY <2>2, <2>a, <2>b DEF Sound, Running
  <2> QED  BY <1>4, <2>1, <2>3, RowOnly DEF StartImport
<1>5. ASSUME Mount  PROVE RowsInv'
  <2>1. AllSound(row', made, live, saved, blobs) /\ row' = [i \in Rows |-> row'[i]]
    <3>1. AllSound(row, made, live, saved, blobs)
      BY DEF RowsInv
    <3>2. row' = Pump(items, row)
      BY <1>5 DEF Mount
    <3> QED  BY <3>1, <3>2, PumpSound
  <2> QED  BY <1>5, <2>1 DEF Mount, RowsInv, backend
<1>6. ASSUME ClearFinished  PROVE RowsInv'
  <2>1. ASSUME NEW i \in Rows
        PROVE  Sound(i, row'[i], made[i], live[i], saved[i], blobs[i])
    <3>1. row'[i] = IF row[i].status = "done" THEN [row[i] EXCEPT !.status = "gone"]
                    ELSE row[i]
      BY <1>6, Zenon DEF ClearFinished
    <3> QED  BY <3>1, SoundRows DEF Sound, RowType, Statuses, Steps, Running
  <2>2. row' = [i \in Rows |-> row'[i]]
    BY <1>6 DEF ClearFinished
  <2> QED  BY <1>6, <2>1, <2>2 DEF ClearFinished, RowsInv, AllSound, backend
<1> QED  BY <1>1, <1>2, <1>3, <1>4, <1>5, <1>6 DEF UserStep

LEMMA WorkerSteps ==
  ASSUME RowsInv, NoLostReply, NEW i \in Files, Work(i)
  PROVE  RowsInv'
<1> USE ImportsAssumption, BlobsAssumption DEF Rows
<1>0. /\ Sound(i, row[i], made[i], live[i], saved[i], blobs[i])
      /\ row[i] \in RowType /\ made[i] \in {0, 1} /\ blobs[i] \in {0, 1}
  BY SoundRows
<1>r. /\ made = [made EXCEPT ![i] = made[i]] /\ live = [live EXCEPT ![i] = live[i]]
      /\ saved = [saved EXCEPT ![i] = saved[i]]
      /\ blobs = [blobs EXCEPT ![i] = blobs[i]]
      /\ made[i] \in Nat /\ blobs[i] \in Nat
  BY <1>0 DEF RowsInv
<1>1. ASSUME NEW reply \in Replies, Import(i, reply)  PROVE RowsInv'
  <2>1. CASE reply = "ok"
    <3> DEFINE it == IF row[i].docId = 0 THEN [row[i] EXCEPT !.step = "create"]
                     ELSE [row[i] EXCEPT !.step = "apply", !.status = "uploading"]
    <3>1. RowBecomes(i, it)
      BY <1>1, <2>1 DEF Import, RowsInv, RowBecomes
    <3>2. Sound(i, it, made[i], live[i], saved[i], blobs[i])
      BY <1>0, <1>1 DEF Import, Sound, RowType, Statuses, Steps, Running
    <3> QED  BY <1>1, <3>1, <3>2, RowOnly DEF Import
  <2>2. CASE reply # "ok"
    <3>1. PICK it : Sound(i, it, made[i], live[i], saved[i], blobs[i]) /\ RowBecomes(i, it)
      BY <1>1, <2>2, RejectedRow DEF Import
    <3> QED  BY <1>1, <3>1, RowOnly DEF Import
  <2> QED  BY <2>1, <2>2
<1>2. ASSUME NEW reply \in Replies, Upload(i, reply)  PROVE RowsInv'
  <2>1. CASE reply = "ok"
    <3> DEFINE it == Uploaded(row[i], 1)
    <3>0. blobs[i] = 0 /\ blobs[i] + 1 = 1 /\ i \in Blobs
      BY <1>0, <1>2 DEF Upload, Sound
    <3>1. RowBecomes(i, it) /\ blobs[i] = 0 /\ i \in Blobs
      BY <1>2, <2>1, <3>0, Zenon DEF Upload, RowBecomes
    <3>2. blobs' = [blobs EXCEPT ![i] = 1]
      BY <1>2, <2>1, <3>1 DEF Upload, Served, RowsInv
    <3>3. /\ it \in RowType /\ it.step = "create" /\ it.status = row[i].status
          /\ it.docId = row[i].docId /\ it.fileId = 1 /\ it.file = row[i].file
      BY <1>0 DEF Uploaded, RowType, Steps
    <3> HIDE DEF it
    <3>4. Sound(i, it, made[i], live[i], saved[i], 1)
      BY <1>0, <1>2, <3>1, <3>3 DEF Upload, Sound, Running
    <3> QED  BY <1>2, <1>r, <3>1, <3>2, <3>4, OneRow DEF Upload
  <2>2. CASE reply # "ok"
    <3>1. PICK it : Sound(i, it, made[i], live[i], saved[i], blobs[i]) /\ RowBecomes(i, it)
      BY <1>2, <2>2, RejectedRow DEF Upload
    <3>2. blobs' = blobs
      BY <1>2, <2>2, <1>r DEF Upload, Served, Replies, NoLostReply
    <3> QED  BY <1>2, <3>1, <3>2, RowOnly DEF Upload, backend
  <2> QED  BY <2>1, <2>2
<1>3. ASSUME NEW reply \in Replies, Create(i, reply)  PROVE RowsInv'
  <2>0. made[i] = 0 /\ live[i] = {}
    BY <1>0, <1>3 DEF Create, Sound
  <2>1. CASE reply = "ok"
    <3>a. made' = [made EXCEPT ![i] = 1]
      BY <1>3, <2>0, <2>1 DEF Create, Store, Served, RowsInv
    <3>2. made'[i] = 1
      BY <3>a DEF RowsInv
    <3>b. live' = [live EXCEPT ![i] = live[i] \cup {1}]
      BY <1>3, <2>1, <3>2 DEF Create, Store, Served, RowsInv
    <3>1. made' = [made EXCEPT ![i] = 1] /\ live' = [live EXCEPT ![i] = {1}]
      BY <2>0, <3>a, <3>b
    <3>3. CASE i \in Blobs
      <4> DEFINE it == Finished([row[i] EXCEPT !.docId = 1])
      <4>1. RowBecomes(i, it)
        BY <1>3, <2>1, <3>2, <3>3 DEF Create, Created, Settled, RowBecomes
      <4>2. /\ it \in RowType /\ it.step = "none" /\ it.status = "done"
            /\ it.docId = 1 /\ it.fileId = row[i].fileId /\ it.file = FALSE
        BY <1>0 DEF Finished, RowType, Steps, Statuses
      <4> HIDE DEF it
      <4>3. Sound(i, it, 1, {1}, saved[i], blobs[i])
        BY <1>0, <1>3, <3>3, <4>2 DEF Create, Sound, Running
      <4> QED  BY <1>3, <1>r, <3>1, <4>1, <4>3, OneRow DEF Create
    <3>4. CASE i \notin Blobs
      <4> DEFINE it == [row[i] EXCEPT !.docId = 1, !.step = "apply",
                                      !.status = "uploading"]
      <4>1. RowBecomes(i, it)
        BY <1>3, <2>1, <3>2, <3>4 DEF Create, Created, RowBecomes
      <4>2. /\ it \in RowType /\ it.step = "apply" /\ it.status = "uploading"
            /\ it.docId = 1 /\ it.fileId = row[i].fileId /\ it.file = row[i].file
        BY <1>0 DEF RowType, Steps, Statuses
      <4> HIDE DEF it
      <4>3. Sound(i, it, 1, {1}, saved[i], blobs[i])
        BY <1>0, <1>3, <3>4, <4>2 DEF Create, Sound, Running
      <4> QED  BY <1>3, <1>r, <3>1, <4>1, <4>3, OneRow DEF Create
    <3> QED  BY <3>3, <3>4
  <2>2. CASE reply # "ok"
    <3>1. PICK it : Sound(i, it, made[i], live[i], saved[i], blobs[i]) /\ RowBecomes(i, it)
      BY <1>3, <2>2, RejectedRow DEF Create
    <3>2. made' = made /\ live' = live
      BY <1>3, <2>2, <1>r DEF Create, Store, Served, Replies, NoLostReply
    <3> QED  BY <1>3, <3>1, <3>2, RowOnly DEF Create, backend
  <2> QED  BY <2>1, <2>2
<1>4. ASSUME NEW ok \in BOOLEAN, NEW written \in BOOLEAN, Apply(i, ok, written)
      PROVE  RowsInv'
  <2> DEFINE it == IF ok THEN Finished(row[i]) ELSE Failed(row[i])
             s  == IF written THEN saved[i] \cup {1} ELSE saved[i]
  <2>0. row[i].docId = 1 /\ i \notin Blobs /\ made[i] = 1 /\ live[i] = {1}
    BY <1>0, <1>4 DEF Apply, Sound
  <2>1. RowBecomes(i, it)
    BY <1>4 DEF Apply, Settled, RowBecomes
  <2>2. saved' = [saved EXCEPT ![i] = s]
    BY <1>4, <1>r, <2>0 DEF Apply, Save
  <2>3. /\ it \in RowType /\ it.step = "none"
        /\ it.status = IF ok THEN "done" ELSE "error"
        /\ it.docId = 1 /\ it.fileId = row[i].fileId
    BY <1>0, <2>0 DEF Finished, Failed, RowType, Steps, Statuses
  <2>4. ok => 1 \in s
    BY <1>4 DEF Apply
  <2> HIDE DEF it, s
  <2>5. Sound(i, it, made[i], live[i], s, blobs[i])
    BY <1>0, <2>0, <2>3, <2>4 DEF Sound, Running
  <2>6. /\ made' = [made EXCEPT ![i] = made[i]] /\ live' = [live EXCEPT ![i] = live[i]]
        /\ blobs' = [blobs EXCEPT ![i] = blobs[i]] /\ made[i] \in Nat /\ blobs[i] \in Nat
    BY <1>4, <1>r DEF Apply
  <2> QED  BY <2>1, <2>2, <2>5, <2>6, OneRow
<1>5. ASSUME Wake(i)  PROVE RowsInv'
  <2>1. RowBecomes(i, Enter(i, row[i]))
    BY <1>5 DEF Wake, RowBecomes
  <2>2. Sound(i, Enter(i, row[i]), made[i], live[i], saved[i], blobs[i])
    BY <1>0, <1>5, EnterSound DEF Wake
  <2> QED  BY <1>5, <2>1, <2>2, RowOnly DEF Wake
<1> QED  BY <1>1, <1>2, <1>3, <1>4, <1>5 DEF Work

LEMMA ImportSteps ==
  ASSUME RowsInv, NoLostReply, NEW i \in Imports, ImportWork(i)
  PROVE  RowsInv'
<1> USE ImportsAssumption, BlobsAssumption DEF Rows
<1>0. /\ Sound(i, row[i], made[i], live[i], saved[i], blobs[i])
      /\ row[i] \in RowType /\ made[i] \in {0, 1} /\ blobs[i] \in {0, 1}
      /\ i \notin Files /\ i \notin Blobs
  BY SoundRows
<1>r. /\ made = [made EXCEPT ![i] = made[i]] /\ live = [live EXCEPT ![i] = live[i]]
      /\ saved = [saved EXCEPT ![i] = saved[i]]
      /\ blobs = [blobs EXCEPT ![i] = blobs[i]]
      /\ made[i] \in Nat /\ blobs[i] \in Nat
  BY <1>0 DEF RowsInv
<1>1. ASSUME NEW ok \in BOOLEAN, ImportStream(i, ok)  PROVE RowsInv'
  <2> DEFINE it == IF ok THEN [row[i] EXCEPT !.status = "uploading", !.step = "create"]
                   ELSE Failed(row[i])
  <2>1. RowBecomes(i, it)
    BY <1>1 DEF ImportStream, RowBecomes, RowsInv
  <2>2. /\ it \in RowType /\ it.docId = row[i].docId /\ it.fileId = row[i].fileId
        /\ it.file = row[i].file
        /\ IF ok THEN it.status = "uploading" /\ it.step = "create"
           ELSE it.status = "error" /\ it.step = "none"
    BY <1>0 DEF Failed, RowType, Steps, Statuses
  <2> HIDE DEF it
  <2>3. made[i] = 0 /\ live[i] = {}
    BY <1>0, <1>1 DEF ImportStream, Sound
  <2>4. Sound(i, it, made[i], live[i], saved[i], blobs[i])
    BY <1>0, <2>2, <2>3 DEF Sound, Running
  <2> QED  BY <1>1, <2>1, <2>4, RowOnly DEF ImportStream
<1>2. ASSUME NEW reply \in Replies, NEW expired \in BOOLEAN,
             ImportCreate(i, reply, expired)
      PROVE  RowsInv'
  <2>0. made[i] = 0 /\ live[i] = {}
    BY <1>0, <1>2 DEF ImportCreate, Sound
  <2>1. CASE reply = "ok"
    <3> DEFINE it == [row[i] EXCEPT !.docId = 1, !.step = "apply"]
    <3>1. made' = [made EXCEPT ![i] = 1]
      BY <1>2, <2>0, <2>1 DEF ImportCreate, Store, Served, RowsInv
    <3>2. made'[i] = 1
      BY <3>1 DEF RowsInv
    <3>3. live' = [live EXCEPT ![i] = live[i] \cup {1}]
      BY <1>2, <2>1, <3>2 DEF ImportCreate, Store, Served, RowsInv
    <3>4. live' = [live EXCEPT ![i] = {1}]
      BY <2>0, <3>3
    <3>5. RowBecomes(i, it)
      BY <1>2, <2>1, <3>2 DEF ImportCreate, RowBecomes, RowsInv
    <3>6. /\ it \in RowType /\ it.docId = 1 /\ it.fileId = row[i].fileId
          /\ it.file = row[i].file /\ it.status = row[i].status /\ it.step = "apply"
      BY <1>0 DEF RowType, Steps
    <3> HIDE DEF it
    <3>7. Sound(i, it, 1, {1}, saved[i], blobs[i])
      BY <1>0, <1>2, <3>6 DEF ImportCreate, Sound, Running
    <3> QED  BY <1>2, <1>r, <3>1, <3>4, <3>5, <3>7, OneRow DEF ImportCreate
  <2>2. CASE reply # "ok"
    <3> DEFINE it == [Failed(row[i]) EXCEPT
                        !.status = IF expired THEN "gone" ELSE "error"]
    <3>1. made' = made /\ live' = live
      BY <1>2, <2>2, <1>r DEF ImportCreate, Store, Served, Replies, NoLostReply
    <3>2. RowBecomes(i, it)
      BY <1>2, <2>2 DEF ImportCreate, RowBecomes
    <3>3. /\ it \in RowType /\ it.docId = row[i].docId /\ it.fileId = row[i].fileId
          /\ it.file = row[i].file /\ it.status \in {"gone", "error"}
          /\ it.step = "none"
      BY <1>0 DEF Failed, RowType, Steps, Statuses
    <3> HIDE DEF it
    <3>4. Sound(i, it, made[i], live[i], saved[i], blobs[i])
      BY <1>0, <2>0, <3>3 DEF Sound, Running
    <3> QED  BY <1>2, <3>1, <3>2, <3>4, RowOnly DEF ImportCreate, backend
  <2> QED  BY <2>1, <2>2
<1>3. ASSUME NEW ok \in BOOLEAN, NEW written \in BOOLEAN, ImportApply(i, ok, written)
      PROVE  RowsInv'
  <2> DEFINE it == IF ok THEN Finished(row[i]) ELSE [row[i] EXCEPT !.step = "cleanup"]
             s  == IF written THEN saved[i] \cup {1} ELSE saved[i]
  <2>0. row[i].docId = 1 /\ made[i] = 1 /\ live[i] = {1} /\ row[i].status \in Running
    BY <1>0, <1>3 DEF ImportApply, Sound
  <2>1. RowBecomes(i, it)
    BY <1>3 DEF ImportApply, RowBecomes, RowsInv
  <2>2. saved' = [saved EXCEPT ![i] = s]
    BY <1>3, <1>r, <2>0 DEF ImportApply, Save
  <2>3. /\ it \in RowType /\ it.docId = 1 /\ it.fileId = row[i].fileId /\ it.file = FALSE
        /\ IF ok THEN it.status = "done" /\ it.step = "none"
           ELSE it.status = row[i].status /\ it.step = "cleanup"
    BY <1>0, <2>0 DEF Finished, Sound, RowType, Steps, Statuses
  <2>4. ok => 1 \in s
    BY <1>3 DEF ImportApply
  <2> HIDE DEF it, s
  <2>5. Sound(i, it, made[i], live[i], s, blobs[i])
    BY <1>0, <2>0, <2>3, <2>4 DEF Sound, Running
  <2>6. /\ made' = [made EXCEPT ![i] = made[i]] /\ live' = [live EXCEPT ![i] = live[i]]
        /\ blobs' = [blobs EXCEPT ![i] = blobs[i]] /\ made[i] \in Nat /\ blobs[i] \in Nat
    BY <1>3, <1>r DEF ImportApply
  <2> QED  BY <2>1, <2>2, <2>5, <2>6, OneRow
<1>4. ASSUME NEW deleted \in BOOLEAN, ImportCleanup(i, deleted)  PROVE RowsInv'
  <2> DEFINE it == [Failed(row[i]) EXCEPT !.docId = IF deleted THEN 0 ELSE @]
             l  == IF deleted THEN {} ELSE {1}
  <2>0. row[i].docId = 1 /\ live[i] = {1} /\ made[i] = 1
    BY <1>0, <1>4 DEF ImportCleanup, Sound
  <2>1. RowBecomes(i, it)
    BY <1>4 DEF ImportCleanup, RowBecomes
  <2>2. live' = [live EXCEPT ![i] = l]
    BY <1>4, <2>0, <1>r DEF ImportCleanup
  <2>3. /\ it \in RowType /\ it.docId = (IF deleted THEN 0 ELSE 1)
        /\ it.fileId = row[i].fileId
        /\ it.file = row[i].file /\ it.status = "error" /\ it.step = "none"
    BY <1>0, <2>0 DEF Failed, RowType, Steps, Statuses
  <2> HIDE DEF it
  <2>4. Sound(i, it, made[i], l, saved[i], blobs[i])
    BY <1>0, <2>0, <2>3 DEF Sound, Running
  <2>5. /\ made' = [made EXCEPT ![i] = made[i]] /\ saved' = [saved EXCEPT ![i] = saved[i]]
        /\ blobs' = [blobs EXCEPT ![i] = blobs[i]] /\ made[i] \in Nat /\ blobs[i] \in Nat
    BY <1>4, <1>r DEF ImportCleanup
  <2> HIDE DEF l
  <2> QED  BY <2>1, <2>2, <2>4, <2>5, OneRow
<1> QED  BY <1>1, <1>2, <1>3, <1>4 DEF ImportWork

-----------------------------------------------------------------------------
LEMMA RowsInit == Init => RowsInv
<1> USE RetriesAssumption, ImportsAssumption, BlobsAssumption
<1> SUFFICES ASSUME Init  PROVE RowsInv
  OBVIOUS
<1>1. ASSUME NEW i \in Rows
      PROVE  Sound(i, row[i], made[i], live[i], saved[i], blobs[i])
  <2>1. /\ row[i] = [status |-> "new", step |-> "none", attempt |-> 0, retries |-> 0,
                     file |-> FALSE, docId |-> 0, fileId |-> 0]
        /\ made[i] = 0 /\ live[i] = {} /\ blobs[i] = 0
    BY DEF Init
  <2> QED  BY <2>1 DEF Sound, RowType, Statuses, Steps, Running
<1> QED  BY <1>1 DEF Init, RowsInv, AllSound

LEMMA RowsStep ==
  ASSUME NoLostReply, RowsInv, [Next]_vars
  PROVE  RowsInv'
<1>1. CASE Next
  BY <1>1, UserSteps, WorkerSteps, ImportSteps DEF Next
<1>2. CASE UNCHANGED vars
  BY <1>2 DEF vars, RowsInv, AllSound
<1> QED  BY <1>1, <1>2

LEMMA RowsAlways ==
  ASSUME NoLostReply
  PROVE  Spec => []RowsInv
BY RowsInit, RowsStep, PTL DEF Spec

(* Where replies are not lost, a row makes one document and one blob: the   *)
(* ids getOrCreateDoc and runItem keep on the row are enough, whatever      *)
(* fails, backs off or is retried, and however often.                       *)
THEOREM MadeOnce ==
  ASSUME NoLostReply
  PROVE  Spec => []NothingMadeTwice
<1>1. RowsInv => NothingMadeTwice
  BY DEF RowsInv, AllSound, Sound, NothingMadeTwice
<1> QED  BY <1>1, RowsAlways, PTL

(* No document is left empty and forgotten by a retry, a dismissal or an    *)
(* import that fails half way.                                              *)
THEOREM NothingForgotten ==
  ASSUME NoLostReply, DeletesWork
  PROVE  Spec => []EmptyDocumentsAreOwned
<1>1. RowsInv => EmptyDocumentsAreOwned
  <2> SUFFICES ASSUME RowsInv, NEW i \in Rows \ Blobs, NEW d \in live[i] \ saved[i]
               PROVE  /\ row[i].docId = d
                      /\ row[i].status \in {"uploading", "parsing", "pending", "error"}
    BY DEF EmptyDocumentsAreOwned
  <2>1. d = 1
    BY SoundRows DEF Sound
  <2> QED  BY <2>1, SoundRows DEF Sound, Running
<1> QED  BY <1>1, RowsAlways, PTL

-----------------------------------------------------------------------------
(* The list and the slots, whatever gets lost or fails.                     *)

\* A row and the documents made for it, of which l exist and s are filled.
Fits(it, m, l, s) ==
    /\ it \in RowType
    /\ it.status \in Running <=> it.step # "none"
    /\ it.docId <= m
    /\ it.step \in {"apply", "cleanup"} => it.docId # 0
    /\ l \subseteq 1 .. m /\ s \subseteq 1 .. m

AllFit(r, m, l, s) ==
    /\ r = [i \in Rows |-> r[i]]
    /\ \A i \in Rows : Fits(r[i], m[i], l[i], s[i])

Shown(r) == {i \in Rows : r[i].status \notin {"new", "gone"}}
Workers(r) == {i \in Files : r[i].step # "none"}

QueueInv ==
    /\ made \in [Rows -> Nat] /\ blobs \in [Rows -> Nat]
    /\ live = [i \in Rows |-> live[i]] /\ saved = [i \in Rows |-> saved[i]]
    /\ AllFit(row, made, live, saved)
    /\ items \in Seq(Rows) /\ NoRepeats(items) /\ Elements(items) = Shown(row)
    /\ Cardinality(Workers(row)) <= MaxConcurrency

(* The pump starts pending rows only: what it starts fits, and the rows of  *)
(* the list stay the same.                                                  *)
LEMMA PumpFits ==
  ASSUME NEW list, NEW r, NEW m, NEW l, NEW s, AllFit(r, m, l, s)
  PROVE  AllFit(Pump(list, r), m, l, s) /\ Shown(Pump(list, r)) = Shown(r)
<1> DEFINE claimed == {list[n] : n \in {k \in DOMAIN list : r[list[k]].status = "pending" /\
                         Cardinality(Active(r))
                           + Cardinality({h \in 1 .. k : r[list[h]].status = "pending"})
                             <= MaxConcurrency}}
           after == Pump(list, r)
<1>1. DOMAIN r = Rows
  BY DEF AllFit
<1>2. after = [i \in Rows |->
                 IF i \in claimed THEN Enter(i, [r[i] EXCEPT !.attempt = 0]) ELSE r[i]]
  BY <1>1 DEF Pump
<1>3. \A i \in claimed : r[i].status = "pending"
  OBVIOUS
<1> HIDE DEF claimed, after
<1>4. ASSUME NEW i \in Rows
      PROVE  /\ Fits(after[i], m[i], l[i], s[i])
             /\ after[i].status \notin {"new", "gone"} <=> r[i].status \notin {"new", "gone"}
  <2>0. Fits(r[i], m[i], l[i], s[i])
    BY DEF AllFit
  <2>1. CASE i \in claimed
    <3>1. after[i] = Enter(i, [r[i] EXCEPT !.attempt = 0]) /\ r[i].status = "pending"
      BY <1>2, <1>3, <2>1
    <3> DEFINE fresh == [r[i] EXCEPT !.attempt = 0]
    <3>2. /\ fresh \in RowType /\ fresh.status = r[i].status
          /\ fresh.docId = r[i].docId /\ fresh.fileId = r[i].fileId
      BY <2>0, RetriesAssumption DEF Fits, RowType
    <3> HIDE DEF fresh
    <3>3. /\ Enter(i, fresh) \in RowType /\ Enter(i, fresh).docId = fresh.docId
          /\ Enter(i, fresh).status \in Running
          /\ Enter(i, fresh).step \in {"upload", "create", "import"}
      BY <3>2 DEF Enter, RowType, Statuses, Steps, Running
    <3> QED  BY <2>0, <3>1, <3>2, <3>3 DEF Fits, Running, fresh
  <2>2. CASE i \notin claimed
    BY <1>2, <2>0, <2>2
  <2> QED  BY <2>1, <2>2
<1>5. Shown(after) = Shown(r)
  BY <1>4 DEF Shown
<1> QED  BY <1>2, <1>4, <1>5 DEF AllFit, after

(* The pump starts no more rows than there are slots: the last one it       *)
(* claims has counted all those before it.                                  *)
LEMMA PumpWithinCap ==
  ASSUME NEW list \in Seq(Rows), NEW r, NEW m, NEW l, NEW s, AllFit(r, m, l, s),
         Cardinality(Workers(r)) <= MaxConcurrency
  PROVE  Cardinality(Workers(Pump(list, r))) <= MaxConcurrency
<1> DEFINE pending(k) == {h \in 1 .. k : r[list[h]].status = "pending"}
           K == {k \in DOMAIN list : r[list[k]].status = "pending" /\
                   Cardinality(Active(r)) + Cardinality(pending(k)) <= MaxConcurrency}
           claimed == {list[k] : k \in K}
           after == Pump(list, r)
<1>0. DOMAIN r = Rows /\ IsFiniteSet(Rows) /\ MaxConcurrency \in Nat /\ Len(list) \in Nat
      /\ DOMAIN list = 1 .. Len(list) /\ Files \subseteq Rows
  BY FilesAssumption, CapAssumption DEF AllFit, Rows
<1>1. after = [i \in Rows |->
                 IF i \in claimed THEN Enter(i, [r[i] EXCEPT !.attempt = 0]) ELSE r[i]]
  BY <1>0 DEF Pump
<1>2. K \subseteq 1 .. Len(list)
  BY <1>0
<1>3. IsFiniteSet(K)
  <2>1. IsFiniteSet(1 .. Len(list))
    BY <1>0, FS_Interval
  <2> HIDE DEF K
  <2> QED  BY <1>2, <2>1, FS_Subset
<1> HIDE DEF after
<1>4. IsFiniteSet(claimed) /\ Cardinality(claimed) <= Cardinality(K)
  <2> DEFINE f == [k \in K |-> list[k]]
  <2>1. f \in Surjection(K, claimed)
    BY DEF Surjection
  <2> HIDE DEF f, K, claimed
  <2> QED  BY <1>3, <2>1, FS_Surjection
<1>5. Workers(after) \subseteq Workers(r) \cup claimed
  BY <1>0, <1>1 DEF Workers
<1>6. /\ IsFiniteSet(Workers(r)) /\ IsFiniteSet(Active(r))
      /\ Cardinality(Workers(r)) <= Cardinality(Active(r))
      /\ Cardinality(Workers(r)) \in Nat /\ Cardinality(Active(r)) \in Nat
  <2>1. Workers(r) \subseteq Active(r)
    BY <1>0 DEF Workers, Active, AllFit, Fits, Running
  <2>2. Active(r) \subseteq Rows
    BY <1>0 DEF Active
  <2> QED  BY <1>0, <2>1, <2>2, FS_Subset, FS_CardinalityType
<1>7. CASE K = {}
  <2>1. Workers(after) \subseteq Workers(r)
    BY <1>5, <1>7
  <2>2. Cardinality(Workers(after)) <= Cardinality(Workers(r))
        /\ IsFiniteSet(Workers(after))
    BY <1>6, <2>1, FS_Subset
  <2>3. Cardinality(Workers(after)) \in Nat
    BY <2>2, FS_CardinalityType
  <2> QED  BY <1>0, <1>6, <2>2, <2>3 DEF after
<1>8. CASE K # {}
  <2>1. K \in SUBSET (0 .. Len(list))
    BY <1>0, <1>2
  <2> HIDE DEF K
  <2>2. \E k \in K : \A h \in K : h <= k
    BY <1>0, <1>8, <2>1, GreatestBelow
  <2>3. PICK top \in K : \A k \in K : k <= top
    BY <2>2
  <2> USE DEF K
  <2>4. top \in 1 .. Len(list) /\ K \subseteq pending(top)
    BY <1>0, <1>2, <2>3
  <2>5. /\ IsFiniteSet(pending(top)) /\ Cardinality(pending(top)) \in Nat
        /\ Cardinality(K) <= Cardinality(pending(top)) /\ Cardinality(K) \in Nat
    <3>1. IsFiniteSet(1 .. top) /\ pending(top) \subseteq 1 .. top
      BY <2>4, FS_Interval
    <3>2. IsFiniteSet(pending(top))
      BY <3>1, FS_Subset
    <3> HIDE DEF K
    <3> QED  BY <1>3, <2>4, <3>2, FS_Subset, FS_CardinalityType
  <2>6. Cardinality(Active(r)) + Cardinality(pending(top)) <= MaxConcurrency
    BY <2>3
  <2> HIDE DEF K, claimed, pending
  <2>7. /\ IsFiniteSet(Workers(r) \cup claimed)
        /\ Cardinality(Workers(r) \cup claimed)
             <= Cardinality(Workers(r)) + Cardinality(claimed)
        /\ Cardinality(Workers(r) \cup claimed) \in Nat
        /\ Cardinality(claimed) \in Nat
    <3>1. IsFiniteSet(Workers(r) \cap claimed)
      BY <1>4, FS_Intersection
    <3>2. Cardinality(Workers(r) \cap claimed) \in Nat /\ Cardinality(claimed) \in Nat
      BY <1>4, <3>1, FS_CardinalityType
    <3>3. /\ IsFiniteSet(Workers(r) \cup claimed)
          /\ Cardinality(Workers(r) \cup claimed) = Cardinality(Workers(r))
               + Cardinality(claimed) - Cardinality(Workers(r) \cap claimed)
      BY <1>4, <1>6, FS_Union
    <3>4. Cardinality(Workers(r) \cup claimed) \in Nat
      BY <3>3, FS_CardinalityType
    <3> QED  BY <1>6, <3>2, <3>3, <3>4
  <2>8. Cardinality(Workers(after)) <= Cardinality(Workers(r) \cup claimed)
        /\ Cardinality(Workers(after)) \in Nat
    BY <1>5, <2>7, FS_Subset, FS_CardinalityType
  <2>9. Cardinality(Workers(after)) <= MaxConcurrency
    BY <1>0, <1>4, <1>6, <2>5, <2>6, <2>7, <2>8
  <2> QED  BY <2>9 DEF after
<1> QED  BY <1>7, <1>8

\* The row of i becomes it, and the queue may be pumped over some list.
RowTurns(i, it) ==
    \/ row' = [row EXCEPT ![i] = it]
    \/ \E list \in Seq(Rows) : row' = Pump(list, [row EXCEPT ![i] = it])

LEMMA OneFits ==
  ASSUME QueueInv, NEW i \in Rows, NEW it, NEW m \in Nat, NEW l, NEW s, NEW b \in Nat,
         Fits(it, m, l, s),
         i \in Files /\ it.step # "none" => row[i].step # "none",
         made' = [made EXCEPT ![i] = m], live' = [live EXCEPT ![i] = l],
         saved' = [saved EXCEPT ![i] = s], blobs' = [blobs EXCEPT ![i] = b],
         RowTurns(i, it),
         items' \in Seq(Rows), NoRepeats(items'),
         Elements(items') = IF it.status \in {"new", "gone"} THEN Shown(row) \ {i}
                            ELSE Shown(row) \cup {i}
  PROVE  QueueInv'
<1> DEFINE r == [row EXCEPT ![i] = it]
<1>1. /\ made' \in [Rows -> Nat] /\ blobs' \in [Rows -> Nat]
      /\ live' = [j \in Rows |-> live'[j]] /\ saved' = [j \in Rows |-> saved'[j]]
  BY DEF QueueInv
<1>2. AllFit(r, made', live', saved')
  BY DEF QueueInv, AllFit
<1>3. Shown(r) = Elements(items')
  BY DEF QueueInv, AllFit, Shown
<1>4. Cardinality(Workers(r)) <= MaxConcurrency
  <2>1. Workers(r) \subseteq Workers(row)
    BY DEF QueueInv, AllFit, Workers, Rows
  <2>2. IsFiniteSet(Workers(row))
    <3>1. Workers(row) \subseteq Files \cup Imports
      BY DEF Workers
    <3> QED  BY <3>1, FilesAssumption, FS_Subset
  <2>3. /\ Cardinality(Workers(r)) <= Cardinality(Workers(row))
        /\ Cardinality(Workers(r)) \in Nat /\ Cardinality(Workers(row)) \in Nat
    BY <2>1, <2>2, FS_Subset, FS_CardinalityType
  <2> QED  BY <2>3, CapAssumption DEF QueueInv
<1>a. row' = r \/ \E list \in Seq(Rows) : row' = Pump(list, r)
  BY DEF RowTurns
<1> HIDE DEF r
<1>5. /\ AllFit(row', made', live', saved') /\ Shown(row') = Shown(r)
      /\ Cardinality(Workers(row')) <= MaxConcurrency
  <2>1. CASE row' = r
    BY <1>2, <1>4, <2>1
  <2>2. ASSUME NEW list \in Seq(Rows), row' = Pump(list, r)
        PROVE  /\ AllFit(row', made', live', saved') /\ Shown(row') = Shown(r)
               /\ Cardinality(Workers(row')) <= MaxConcurrency
    <3>1. AllFit(Pump(list, r), made', live', saved') /\ Shown(Pump(list, r)) = Shown(r)
      BY <1>2, PumpFits
    <3>2. Cardinality(Workers(Pump(list, r))) <= MaxConcurrency
      BY <1>2, <1>4, PumpWithinCap
    <3> QED  BY <2>2, <3>1, <3>2
  <2> QED  BY <1>a, <2>1, <2>2
<1> QED  BY <1>1, <1>3, <1>5 DEF QueueInv

(* Steps that leave the list alone. *)
LEMMA SameListFits ==
  ASSUME QueueInv, NEW i \in Rows, NEW it, NEW m \in Nat, NEW l, NEW s, NEW b \in Nat,
         Fits(it, m, l, s),
         i \in Files /\ it.step # "none" => row[i].step # "none",
         it.status \in {"new", "gone"} <=> row[i].status \in {"new", "gone"},
         made' = [made EXCEPT ![i] = m], live' = [live EXCEPT ![i] = l],
         saved' = [saved EXCEPT ![i] = s], blobs' = [blobs EXCEPT ![i] = b],
         RowTurns(i, it), items' = items
  PROVE  QueueInv'
<1>1. /\ items' \in Seq(Rows) /\ NoRepeats(items')
      /\ Elements(items') = IF it.status \in {"new", "gone"} THEN Shown(row) \ {i}
                            ELSE Shown(row) \cup {i}
  BY DEF QueueInv, Shown
<1> QED  BY <1>1, OneFits

LEMMA FitRows ==
  ASSUME QueueInv, NEW i \in Rows
  PROVE  /\ Fits(row[i], made[i], live[i], saved[i]) /\ row[i] \in RowType
         /\ made[i] \in Nat /\ blobs[i] \in Nat
         /\ made = [made EXCEPT ![i] = made[i]] /\ live = [live EXCEPT ![i] = live[i]]
         /\ saved = [saved EXCEPT ![i] = saved[i]]
         /\ blobs = [blobs EXCEPT ![i] = blobs[i]]
         /\ items \in Seq(Rows) /\ NoRepeats(items) /\ Elements(items) = Shown(row)
         /\ row = [j \in Rows |-> row[j]]
BY DEF QueueInv, AllFit, Fits

(* A failed attempt leaves a row that fits, whatever the backend has done.  *)
LEMMA RejectedFits ==
  ASSUME QueueInv, NEW i \in Files, NEW reply, row[i].step # "none", Rejected(i, reply),
         NEW m \in Nat, NEW l, NEW s, made[i] <= m, l \subseteq 1 .. m, s \subseteq 1 .. m
  PROVE  \E it : /\ Fits(it, m, l, s) /\ RowTurns(i, it)
                 /\ it.status \notin {"new", "gone"}
<1> USE RetriesAssumption DEF Rows
<1>1. Fits(row[i], made[i], live[i], saved[i]) /\ row[i] \in RowType /\ made[i] \in Nat
      /\ row[i].docId \in Nat /\ items \in Seq(Rows)
  BY FitRows DEF RowType
<1>2. CASE reply = "limited" /\ row[i].attempt < MaxRateRetries
  <2> DEFINE it == [row[i] EXCEPT !.step = "sleep", !.attempt = @ + 1]
  <2>1. RowTurns(i, it)
    BY <1>2, FitRows DEF Rejected, RowTurns
  <2>2. row[i].attempt + 1 \in 0 .. MaxRateRetries
    BY <1>1, <1>2 DEF RowType
  <2>3. /\ it \in RowType /\ it.step = "sleep" /\ it.status = row[i].status
        /\ it.docId = row[i].docId
    BY <1>1, <2>2, Zenon DEF RowType, Steps
  <2> HIDE DEF it
  <2>4. Fits(it, m, l, s) /\ it.status \notin {"new", "gone"}
    BY <1>1, <2>3 DEF Fits, Running
  <2> QED  BY <2>1, <2>4
<1>3. CASE ~(reply = "limited" /\ row[i].attempt < MaxRateRetries)
  <2> DEFINE it == Failed(row[i])
  <2>1. RowTurns(i, it)
    BY <1>1, <1>3 DEF Rejected, Settled, RowTurns
  <2>2. /\ it \in RowType /\ it.step = "none" /\ it.status = "error"
        /\ it.docId = row[i].docId
    BY <1>1 DEF Failed, RowType, Steps, Statuses
  <2> HIDE DEF it
  <2>3. Fits(it, m, l, s) /\ it.status \notin {"new", "gone"}
    BY <1>1, <2>2 DEF Fits, Running
  <2> QED  BY <2>1, <2>3
<1> QED  BY <1>2, <1>3

LEMMA UserFits ==
  ASSUME QueueInv, UserStep
  PROVE  QueueInv'
<1> USE RetriesAssumption
<1>f. Files \subseteq Rows /\ Imports \subseteq Rows /\ Imports \cap Files = {}
  BY ImportsAssumption DEF Rows
<1>1. ASSUME NEW i \in Files, NEW fits \in BOOLEAN, Enqueue(i, fits)  PROVE QueueInv'
  <2> DEFINE it == [row[i] EXCEPT !.status = IF fits THEN "pending" ELSE "error",
                                  !.file = fits]
  <2>0. i \in Rows
    BY <1>f
  <2>1. i \notin Elements(items) /\ row[i].step = "none"
    BY <1>1, <2>0, FitRows DEF Enqueue, Shown, Fits, Running
  <2>2. /\ items' \in Seq(Rows) /\ NoRepeats(items')
        /\ Elements(items') = Shown(row) \cup {i}
    BY <1>1, <2>0, <2>1, FitRows, AppendElements DEF Enqueue
  <2>3. RowTurns(i, it)
    <3>1. [row EXCEPT ![i].status = IF fits THEN "pending" ELSE "error", ![i].file = fits]
            = [row EXCEPT ![i] = it]
      BY <2>0, FitRows
    <3> QED  BY <1>1, <2>2, <3>1 DEF Enqueue, RowTurns
  <2>4. /\ it \in RowType /\ it.status \in {"pending", "error"} /\ it.step = "none"
        /\ it.docId = row[i].docId
    BY <2>0, <2>1, FitRows DEF RowType, Statuses
  <2> HIDE DEF it
  <2>5. Fits(it, made[i], live[i], saved[i])
    BY <2>0, <2>1, <2>4, FitRows DEF Fits, Running
  <2>6. /\ made' = [made EXCEPT ![i] = made[i]] /\ live' = [live EXCEPT ![i] = live[i]]
        /\ saved' = [saved EXCEPT ![i] = saved[i]]
        /\ blobs' = [blobs EXCEPT ![i] = blobs[i]]
        /\ made[i] \in Nat /\ blobs[i] \in Nat
    BY <1>1, <2>0, FitRows DEF Enqueue, backend
  <2>7. Elements(items') = IF it.status \in {"new", "gone"} THEN Shown(row) \ {i}
                           ELSE Shown(row) \cup {i}
    BY <2>2, <2>4
  <2> QED  BY <2>0, <2>2, <2>3, <2>4, <2>5, <2>6, <2>7, OneFits
<1>2. ASSUME NEW i \in Files, Retry(i)  PROVE QueueInv'
  <2> DEFINE it == Retried(row[i])
  <2>0. i \in Rows /\ row[i].retries + 1 \in 0 .. MaxRetries
    BY <1>f, <1>2, FitRows DEF Retry, RowType
  <2>1. RowTurns(i, it)
    BY <1>2, <2>0, FitRows DEF Retry, Settled, RowTurns
  <2>2. /\ it \in RowType /\ it.status = "pending" /\ it.step = row[i].step
        /\ it.docId = row[i].docId
    BY <2>0, FitRows DEF Retried, RowType, Statuses
  <2> HIDE DEF it
  <2>3. Fits(it, made[i], live[i], saved[i])
    BY <1>2, <2>0, <2>2, FitRows DEF Retry, Fits, Running
  <2>4. it.status \in {"new", "gone"} <=> row[i].status \in {"new", "gone"}
    BY <1>2, <2>2 DEF Retry
  <2>5. /\ made' = [made EXCEPT ![i] = made[i]] /\ live' = [live EXCEPT ![i] = live[i]]
        /\ saved' = [saved EXCEPT ![i] = saved[i]]
        /\ blobs' = [blobs EXCEPT ![i] = blobs[i]]
        /\ made[i] \in Nat /\ blobs[i] \in Nat
    BY <1>2, <2>0, FitRows DEF Retry, backend
  <2> QED  BY <1>2, <2>0, <2>1, <2>2, <2>3, <2>4, <2>5, SameListFits DEF Retry
<1>3. ASSUME NEW i \in Rows, NEW deleted \in BOOLEAN, Dismiss(i, deleted)
      PROVE  QueueInv'
  <2> DEFINE it == [row[i] EXCEPT !.status = "gone"]
             l  == IF deleted THEN live[i] \ {row[i].docId} ELSE live[i]
  <2>1. RowTurns(i, it) /\ live' = [live EXCEPT ![i] = l]
    <3>1. [row EXCEPT ![i].status = "gone"] = [row EXCEPT ![i] = it]
      BY FitRows
    <3> QED  BY <1>3, <3>1, FitRows DEF Dismiss, RowTurns
  <2>2. /\ made' = [made EXCEPT ![i] = made[i]]
        /\ saved' = [saved EXCEPT ![i] = saved[i]]
        /\ blobs' = [blobs EXCEPT ![i] = blobs[i]]
        /\ made[i] \in Nat /\ blobs[i] \in Nat
    BY <1>3, FitRows DEF Dismiss
  <2>3. /\ it \in RowType /\ it.status = "gone" /\ it.step = row[i].step
        /\ it.docId = row[i].docId /\ row[i].step = "none"
    BY <1>3, FitRows DEF Dismiss, Fits, RowType, Statuses, Running
  <2>4. l \subseteq live[i]
    OBVIOUS
  <2> HIDE DEF it, l
  <2>5. Fits(it, made[i], l, saved[i])
    BY <2>3, <2>4, FitRows DEF Fits, Running
  <2>6. /\ items' \in Seq(Rows) /\ NoRepeats(items')
        /\ Elements(items') = Shown(row) \ {i}
    BY <1>3, FitRows, OmittingProperties DEF Dismiss
  <2>7. Elements(items') = IF it.status \in {"new", "gone"} THEN Shown(row) \ {i}
                           ELSE Shown(row) \cup {i}
    BY <2>3, <2>6
  <2> QED  BY <2>1, <2>2, <2>3, <2>5, <2>6, <2>7, OneFits
<1>4. ASSUME NEW i \in Imports, StartImport(i)  PROVE QueueInv'
  <2> DEFINE it == [row[i] EXCEPT !.status = "parsing", !.step = "import"]
  <2>0. i \in Rows /\ i \notin Files
    BY <1>f
  <2>1. i \notin Elements(items)
    BY <1>4, <2>0, FitRows DEF StartImport, Shown
  <2>2. /\ items' \in Seq(Rows) /\ NoRepeats(items')
        /\ Elements(items') = Shown(row) \cup {i}
    BY <1>4, <2>0, <2>1, FitRows, AppendElements DEF StartImport
  <2>3. RowTurns(i, it)
    <3>1. [row EXCEPT ![i].status = "parsing", ![i].step = "import"]
            = [row EXCEPT ![i] = it]
      BY <2>0, FitRows
    <3> QED  BY <1>4, <3>1 DEF StartImport, RowTurns
  <2>4. /\ it \in RowType /\ it.status = "parsing" /\ it.step = "import"
        /\ it.docId = row[i].docId
    BY <2>0, FitRows DEF RowType, Statuses, Steps
  <2> HIDE DEF it
  <2>5. Fits(it, made[i], live[i], saved[i])
    BY <2>0, <2>4, FitRows DEF Fits, Running
  <2>6. /\ made' = [made EXCEPT ![i] = made[i]] /\ live' = [live EXCEPT ![i] = live[i]]
        /\ saved' = [saved EXCEPT ![i] = saved[i]]
        /\ blobs' = [blobs EXCEPT ![i] = blobs[i]]
        /\ made[i] \in Nat /\ blobs[i] \in Nat
    BY <1>4, <2>0, FitRows DEF StartImport, backend
  <2>7. Elements(items') = IF it.status \in {"new", "gone"} THEN Shown(row) \ {i}
                           ELSE Shown(row) \cup {i}
    BY <2>2, <2>4
  <2> QED  BY <2>0, <2>2, <2>3, <2>5, <2>6, <2>7, OneFits
<1>5. ASSUME Mount  PROVE QueueInv'
  <2>1. AllFit(row, made, live, saved) /\ items \in Seq(Rows)
    BY DEF QueueInv
  <2>2. /\ AllFit(row', made, live, saved) /\ Shown(row') = Shown(row)
        /\ Cardinality(Workers(row')) <= MaxConcurrency
    BY <1>5, <2>1, PumpFits, PumpWithinCap DEF Mount, QueueInv
  <2> QED  BY <1>5, <2>2 DEF Mount, QueueInv, backend
<1>6. ASSUME ClearFinished  PROVE QueueInv'
  <2> DEFINE done == {i \in Rows : row[i].status = "done"}
  <2>1. /\ items' = Omitting(items, done) /\ UNCHANGED backend
        /\ row' = [i \in Rows |-> IF row[i].status = "done"
                                  THEN [row[i] EXCEPT !.status = "gone"] ELSE row[i]]
    BY <1>6 DEF ClearFinished
  <2>2. ASSUME NEW i \in Rows
        PROVE  /\ Fits(row'[i], made[i], live[i], saved[i])
               /\ row'[i].step = row[i].step
               /\ row'[i].status = IF i \in done THEN "gone" ELSE row[i].status
    BY <2>1, FitRows DEF Fits, RowType, Statuses, Running
  <2>3. Shown(row') = Shown(row) \ done /\ Workers(row') = Workers(row)
    BY <1>f, <2>2 DEF Shown, Workers
  <2>4. /\ items' \in Seq(Rows) /\ NoRepeats(items')
        /\ Elements(items') = Shown(row) \ done
    <3> HIDE DEF done
    <3> QED  BY <2>1, OmittingProperties DEF QueueInv
  <2>5. AllFit(row', made, live, saved)
    BY <2>1, <2>2 DEF AllFit
  <2> QED  BY <2>1, <2>3, <2>4, <2>5 DEF QueueInv, backend
<1> QED  BY <1>1, <1>2, <1>3, <1>4, <1>5, <1>6 DEF UserStep

LEMMA WorkerFits ==
  ASSUME QueueInv, NEW i \in Files, Work(i)
  PROVE  QueueInv'
<1> USE RetriesAssumption
<1>0. /\ i \in Rows
      /\ Fits(row[i], made[i], live[i], saved[i]) /\ row[i] \in RowType
      /\ made[i] \in Nat /\ blobs[i] \in Nat
      /\ made = [made EXCEPT ![i] = made[i]] /\ live = [live EXCEPT ![i] = live[i]]
      /\ saved = [saved EXCEPT ![i] = saved[i]]
      /\ blobs = [blobs EXCEPT ![i] = blobs[i]]
      /\ row = [j \in Rows |-> row[j]] /\ items \in Seq(Rows)
  BY FitRows DEF Rows
<1>b. /\ made[i] \in Nat /\ made[i] <= made[i]
      /\ live[i] \subseteq 1 .. made[i] /\ saved[i] \subseteq 1 .. made[i]
  BY <1>0 DEF Fits
<1>1. ASSUME NEW reply \in Replies, Import(i, reply)  PROVE QueueInv'
  <2>1. CASE reply = "ok"
    <3> DEFINE it == IF row[i].docId = 0 THEN [row[i] EXCEPT !.step = "create"]
                     ELSE [row[i] EXCEPT !.step = "apply", !.status = "uploading"]
    <3>1. RowTurns(i, it)
      BY <1>0, <1>1, <2>1 DEF Import, RowTurns
    <3>2. /\ it \in RowType /\ it.step \in {"create", "apply"} /\ it.docId = row[i].docId
          /\ it.status = row[i].status \/ it.status = "uploading"
          /\ it.step = "apply" => row[i].docId # 0
      BY <1>0 DEF RowType, Statuses, Steps
    <3> HIDE DEF it
    <3>3. /\ Fits(it, made[i], live[i], saved[i]) /\ row[i].step # "none"
          /\ it.status \in {"new", "gone"} <=> row[i].status \in {"new", "gone"}
      BY <1>0, <1>1, <3>2 DEF Import, Fits, Running
    <3> QED  BY <1>0, <1>1, <3>1, <3>3, SameListFits DEF Import, backend
  <2>2. CASE reply # "ok"
    <3>0. row[i].step # "none" /\ Rejected(i, reply)
      BY <1>1, <2>2 DEF Import
    <3>1. PICK it : /\ Fits(it, made[i], live[i], saved[i]) /\ RowTurns(i, it)
                    /\ it.status \notin {"new", "gone"}
      BY <1>b, <3>0, RejectedFits
    <3>2. row[i].status \notin {"new", "gone"}
      BY <1>0, <3>0 DEF Fits, Running
    <3> QED  BY <1>0, <1>1, <3>0, <3>1, <3>2, SameListFits DEF Import, backend
  <2> QED  BY <2>1, <2>2
<1>2. ASSUME NEW reply \in Replies, Upload(i, reply)  PROVE QueueInv'
  <2>0. /\ row[i].step # "none" /\ row[i].status \notin {"new", "gone"}
        /\ items' = items /\ made' = [made EXCEPT ![i] = made[i]]
        /\ live' = [live EXCEPT ![i] = live[i]] /\ saved' = [saved EXCEPT ![i] = saved[i]]
    BY <1>0, <1>2 DEF Upload, Fits, Running
  <2>1. PICK b \in Nat : blobs' = [blobs EXCEPT ![i] = b]
    <3> DEFINE b == IF Served(reply) THEN blobs[i] + 1 ELSE blobs[i]
    <3>1. b \in Nat /\ blobs' = [blobs EXCEPT ![i] = b]
      BY <1>0, <1>2 DEF Upload
    <3> HIDE DEF b
    <3> QED  BY <3>1
  <2>2. CASE reply = "ok"
    <3>0. PICK id \in Nat : id = blobs[i] + 1
      BY <1>0
    <3> DEFINE it == Uploaded(row[i], id)
    <3>1. RowTurns(i, it)
      BY <1>2, <2>2, <3>0, Zenon DEF Upload, RowTurns
    <3>2. /\ it \in RowType /\ it.step = "create" /\ it.status = row[i].status
          /\ it.docId = row[i].docId
      BY <1>0 DEF Uploaded, RowType, Steps
    <3> HIDE DEF it
    <3>3. Fits(it, made[i], live[i], saved[i])
      BY <1>0, <2>0, <3>2 DEF Fits, Running
    <3> QED  BY <1>0, <2>0, <2>1, <3>1, <3>2, <3>3, SameListFits
  <2>3. CASE reply # "ok"
    <3>1. PICK it : /\ Fits(it, made[i], live[i], saved[i]) /\ RowTurns(i, it)
                    /\ it.status \notin {"new", "gone"}
      BY <1>2, <1>b, <2>0, <2>3, RejectedFits DEF Upload
    <3> QED  BY <1>0, <2>0, <2>1, <3>1, SameListFits
  <2> QED  BY <2>2, <2>3
<1>3. ASSUME NEW reply \in Replies, Create(i, reply)  PROVE QueueInv'
  <2>0. /\ row[i].step # "none" /\ row[i].status \notin {"new", "gone"}
        /\ items' = items /\ saved' = saved /\ blobs' = blobs
    BY <1>0, <1>3 DEF Create, Fits, Running
  <2>1. PICK m \in Nat : /\ made' = [made EXCEPT ![i] = m] /\ made'[i] = m
                         /\ made[i] <= m
                         /\ Served(reply) => m # 0
    <3> DEFINE m == IF Served(reply) THEN made[i] + 1 ELSE made[i]
    <3>1. /\ m \in Nat /\ made' = [made EXCEPT ![i] = m] /\ made[i] <= m
          /\ Served(reply) => m # 0
      BY <1>0, <1>3 DEF Create, Store
    <3> HIDE DEF m
    <3>2. made'[i] = m
      BY <1>0, <3>1 DEF QueueInv
    <3> QED  BY <3>1, <3>2
  <2>2. PICK l : live' = [live EXCEPT ![i] = l] /\ l \subseteq 1 .. m
    <3> DEFINE l == IF Served(reply) THEN live[i] \cup {m} ELSE live[i]
    <3>1. live' = [live EXCEPT ![i] = l]
      BY <1>0, <1>3, <2>1 DEF Create, Store
    <3>3. l \subseteq 1 .. m
      BY <1>b, <2>1
    <3> HIDE DEF l
    <3> QED  BY <3>1, <3>3
  <2>3. saved[i] \subseteq 1 .. m
    BY <1>b, <2>1
  <2>4. CASE reply = "ok"
    <3>0. row' = Created(i, row[i], m) /\ m # 0
      BY <1>3, <2>1, <2>4 DEF Create, Served
    <3>1. CASE i \in Blobs
      <4> DEFINE it == Finished([row[i] EXCEPT !.docId = m])
      <4>1. RowTurns(i, it)
        BY <1>0, <3>0, <3>1 DEF Created, Settled, RowTurns
      <4>2. /\ it \in RowType /\ it.step = "none" /\ it.status = "done" /\ it.docId = m
        BY <1>0 DEF Finished, RowType, Steps, Statuses
      <4> HIDE DEF it
      <4>3. Fits(it, m, l, saved[i])
        BY <2>1, <2>2, <2>3, <4>2 DEF Fits, Running
      <4> QED  BY <1>0, <2>0, <2>1, <2>2, <4>1, <4>2, <4>3, SameListFits
    <3>2. CASE i \notin Blobs
      <4> DEFINE it == [row[i] EXCEPT !.docId = m, !.step = "apply",
                                      !.status = "uploading"]
      <4>1. RowTurns(i, it)
        BY <3>0, <3>2 DEF Created, RowTurns
      <4>2. /\ it \in RowType /\ it.step = "apply" /\ it.status = "uploading"
            /\ it.docId = m
        BY <1>0 DEF RowType, Steps, Statuses
      <4> HIDE DEF it
      <4>3. Fits(it, m, l, saved[i])
        BY <2>1, <2>2, <2>3, <3>0, <4>2 DEF Fits, Running
      <4> QED  BY <1>0, <2>0, <2>1, <2>2, <4>1, <4>2, <4>3, SameListFits
    <3> QED  BY <3>1, <3>2
  <2>5. CASE reply # "ok"
    <3>1. PICK it : /\ Fits(it, m, l, saved[i]) /\ RowTurns(i, it)
                    /\ it.status \notin {"new", "gone"}
      BY <1>3, <2>0, <2>1, <2>2, <2>3, <2>5, RejectedFits DEF Create
    <3> QED  BY <1>0, <2>0, <2>1, <2>2, <3>1, SameListFits
  <2> QED  BY <2>4, <2>5
<1>4. ASSUME NEW ok \in BOOLEAN, NEW written \in BOOLEAN, Apply(i, ok, written)
      PROVE  QueueInv'
  <2> DEFINE it == IF ok THEN Finished(row[i]) ELSE Failed(row[i])
             s  == IF written THEN saved[i] \cup {row[i].docId} ELSE saved[i]
  <2>1. RowTurns(i, it)
    BY <1>0, <1>4 DEF Apply, Settled, RowTurns
  <2>2. saved' = [saved EXCEPT ![i] = s]
    BY <1>0, <1>4 DEF Apply, Save
  <2>3. /\ it \in RowType /\ it.step = "none" /\ it.status \in {"done", "error"}
        /\ it.docId = row[i].docId
    BY <1>0 DEF Finished, Failed, RowType, Steps, Statuses
  <2>4. s \subseteq 1 .. made[i]
    BY <1>0, <1>4 DEF Apply, Fits, RowType
  <2> HIDE DEF it, s
  <2>5. Fits(it, made[i], live[i], s) /\ row[i].status \notin {"new", "gone"}
    BY <1>0, <1>4, <2>3, <2>4 DEF Apply, Fits, Running
  <2> QED  BY <1>0, <1>4, <2>1, <2>2, <2>3, <2>5, SameListFits DEF Apply
<1>5. ASSUME Wake(i)  PROVE QueueInv'
  <2> DEFINE it == Enter(i, row[i])
  <2>1. RowTurns(i, it)
    BY <1>5 DEF Wake, RowTurns
  <2>2. /\ it \in RowType /\ it.step \in {"upload", "create", "import"}
        /\ it.status \in Running /\ it.docId = row[i].docId
    BY <1>0 DEF Enter, RowType, Steps, Statuses, Running
  <2> HIDE DEF it
  <2>3. /\ Fits(it, made[i], live[i], saved[i]) /\ row[i].step # "none"
        /\ it.status \notin {"new", "gone"} /\ row[i].status \notin {"new", "gone"}
    BY <1>0, <1>5, <2>2 DEF Wake, Fits, Running
  <2> QED  BY <1>0, <1>5, <2>1, <2>3, SameListFits DEF Wake, backend
<1> QED  BY <1>1, <1>2, <1>3, <1>4, <1>5 DEF Work

LEMMA ImportFits ==
  ASSUME QueueInv, NEW i \in Imports, ImportWork(i)
  PROVE  QueueInv'
<1>0. /\ i \in Rows /\ i \notin Files
      /\ Fits(row[i], made[i], live[i], saved[i]) /\ row[i] \in RowType
      /\ made[i] \in Nat /\ blobs[i] \in Nat
      /\ made = [made EXCEPT ![i] = made[i]] /\ live = [live EXCEPT ![i] = live[i]]
      /\ saved = [saved EXCEPT ![i] = saved[i]]
      /\ blobs = [blobs EXCEPT ![i] = blobs[i]]
      /\ row = [j \in Rows |-> row[j]]
      /\ items \in Seq(Rows) /\ NoRepeats(items) /\ Elements(items) = Shown(row)
  BY FitRows, ImportsAssumption DEF Rows
<1>b. /\ made[i] \in Nat /\ made[i] <= made[i]
      /\ live[i] \subseteq 1 .. made[i] /\ saved[i] \subseteq 1 .. made[i]
  BY <1>0 DEF Fits
<1>1. ASSUME NEW ok \in BOOLEAN, ImportStream(i, ok)  PROVE QueueInv'
  <2> DEFINE it == IF ok THEN [row[i] EXCEPT !.status = "uploading", !.step = "create"]
                   ELSE Failed(row[i])
  <2>1. RowTurns(i, it)
    BY <1>0, <1>1 DEF ImportStream, RowTurns
  <2>2. /\ it \in RowType /\ it.docId = row[i].docId
        /\ IF ok THEN it.status = "uploading" /\ it.step = "create"
           ELSE it.status = "error" /\ it.step = "none"
    BY <1>0 DEF Failed, RowType, Steps, Statuses
  <2> HIDE DEF it
  <2>3. /\ Fits(it, made[i], live[i], saved[i])
        /\ it.status \notin {"new", "gone"} /\ row[i].status \notin {"new", "gone"}
    BY <1>0, <1>1, <2>2 DEF ImportStream, Fits, Running
  <2> QED  BY <1>0, <1>1, <2>1, <2>3, SameListFits DEF ImportStream, backend
<1>2. ASSUME NEW reply \in Replies, NEW expired \in BOOLEAN,
             ImportCreate(i, reply, expired)
      PROVE  QueueInv'
  <2>0. /\ row[i].step # "none" /\ row[i].status \notin {"new", "gone"}
        /\ saved' = [saved EXCEPT ![i] = saved[i]]
        /\ blobs' = [blobs EXCEPT ![i] = blobs[i]]
    BY <1>0, <1>2 DEF ImportCreate, Fits, Running
  <2>1. PICK m \in Nat : /\ made' = [made EXCEPT ![i] = m] /\ made'[i] = m
                         /\ made[i] <= m
                         /\ Served(reply) => m # 0
    <3> DEFINE m == IF Served(reply) THEN made[i] + 1 ELSE made[i]
    <3>1. /\ m \in Nat /\ made' = [made EXCEPT ![i] = m] /\ made[i] <= m
          /\ Served(reply) => m # 0
      BY <1>0, <1>2 DEF ImportCreate, Store
    <3> HIDE DEF m
    <3>2. made'[i] = m
      BY <1>0, <3>1 DEF QueueInv
    <3> QED  BY <3>1, <3>2
  <2>2. PICK l : live' = [live EXCEPT ![i] = l] /\ l \subseteq 1 .. m
    <3> DEFINE l == IF Served(reply) THEN live[i] \cup {m} ELSE live[i]
    <3>1. live' = [live EXCEPT ![i] = l]
      BY <1>0, <1>2, <2>1 DEF ImportCreate, Store
    <3>2. l \subseteq 1 .. m
      BY <1>b, <2>1
    <3> HIDE DEF l
    <3> QED  BY <3>1, <3>2
  <2>3. saved[i] \subseteq 1 .. m
    BY <1>b, <2>1
  <2>4. CASE reply = "ok"
    <3> DEFINE it == [row[i] EXCEPT !.docId = m, !.step = "apply"]
    <3>1. RowTurns(i, it) /\ m # 0 /\ items' = items
      <4>1. ~expired /\ m # 0
        BY <1>2, <2>1, <2>4 DEF ImportCreate, Served
      <4>2. items' = items
        BY <1>2, <4>1 DEF ImportCreate
      <4>3. row' = [row EXCEPT ![i].docId = m, ![i].step = "apply"]
        BY <1>2, <2>1, <2>4 DEF ImportCreate
      <4>4. row' = [row EXCEPT ![i] = it]
        BY <1>0, <4>3
      <4> QED  BY <4>1, <4>2, <4>4 DEF RowTurns
    <3>2. /\ it \in RowType /\ it.docId = m /\ it.status = row[i].status
          /\ it.step = "apply"
      BY <1>0 DEF RowType, Steps
    <3> HIDE DEF it
    <3>3. Fits(it, m, l, saved[i])
      BY <1>0, <2>0, <2>2, <2>3, <3>1, <3>2 DEF Fits, Running
    <3> QED  BY <1>0, <2>0, <2>1, <2>2, <3>1, <3>2, <3>3, SameListFits
  <2>5. CASE reply # "ok"
    <3> DEFINE it == [Failed(row[i]) EXCEPT
                        !.status = IF expired THEN "gone" ELSE "error"]
    <3>1. RowTurns(i, it)
      BY <1>2, <2>5 DEF ImportCreate, RowTurns
    <3>2. /\ it \in RowType /\ it.docId = row[i].docId /\ it.step = "none"
          /\ it.status = IF expired THEN "gone" ELSE "error"
      BY <1>0 DEF Failed, RowType, Steps, Statuses
    <3> HIDE DEF it
    <3>3. Fits(it, m, l, saved[i])
      BY <1>0, <2>1, <2>2, <2>3, <3>2 DEF Fits, RowType, Running
    <3>4. CASE expired
      <4>1. items' = Omitting(items, {i})
        BY <1>2, <3>4 DEF ImportCreate
      <4>2. /\ items' \in Seq(Rows) /\ NoRepeats(items')
            /\ Elements(items') = Shown(row) \ {i}
        <5>1. items \in Seq(Rows) /\ NoRepeats(items) /\ Elements(items) = Shown(row)
          BY <1>0
        <5> QED  BY <4>1, <5>1, OmittingProperties
      <4>3. Elements(items') = IF it.status \in {"new", "gone"} THEN Shown(row) \ {i}
                               ELSE Shown(row) \cup {i}
        BY <3>2, <3>4, <4>2
      <4> QED  BY <1>0, <2>0, <2>1, <2>2, <3>1, <3>3, <4>2, <4>3, OneFits
    <3>5. CASE ~expired
      <4>1. items' = items
        BY <1>2, <3>5 DEF ImportCreate
      <4>2. it.status = "error"
        BY <3>2, <3>5
      <4> QED  BY <1>0, <2>0, <2>1, <2>2, <3>1, <3>3, <4>1, <4>2, SameListFits
    <3> QED  BY <3>4, <3>5
  <2> QED  BY <2>4, <2>5
<1>3. ASSUME NEW ok \in BOOLEAN, NEW written \in BOOLEAN, ImportApply(i, ok, written)
      PROVE  QueueInv'
  <2> DEFINE it == IF ok THEN Finished(row[i]) ELSE [row[i] EXCEPT !.step = "cleanup"]
             s  == IF written THEN saved[i] \cup {row[i].docId} ELSE saved[i]
  <2>1. RowTurns(i, it)
    BY <1>0, <1>3 DEF ImportApply, RowTurns
  <2>2. saved' = [saved EXCEPT ![i] = s]
    BY <1>0, <1>3 DEF ImportApply, Save
  <2>3. /\ it \in RowType /\ it.docId = row[i].docId
        /\ IF ok THEN it.status = "done" /\ it.step = "none"
           ELSE it.status = row[i].status /\ it.step = "cleanup"
    BY <1>0 DEF Finished, RowType, Steps, Statuses
  <2>4. s \subseteq 1 .. made[i] /\ row[i].docId # 0 /\ row[i].status \in Running
    BY <1>0, <1>3 DEF ImportApply, Fits, RowType
  <2> HIDE DEF it, s
  <2>5. /\ Fits(it, made[i], live[i], s)
        /\ it.status \notin {"new", "gone"} /\ row[i].status \notin {"new", "gone"}
    BY <1>0, <2>3, <2>4 DEF Fits, Running
  <2> QED  BY <1>0, <1>3, <2>1, <2>2, <2>3, <2>5, SameListFits DEF ImportApply
<1>4. ASSUME NEW deleted \in BOOLEAN, ImportCleanup(i, deleted)  PROVE QueueInv'
  <2> DEFINE it == [Failed(row[i]) EXCEPT !.docId = IF deleted THEN 0 ELSE @]
             l  == IF deleted THEN live[i] \ {row[i].docId} ELSE live[i]
  <2>1. RowTurns(i, it)
    BY <1>4 DEF ImportCleanup, RowTurns
  <2>2. live' = [live EXCEPT ![i] = l]
    BY <1>0, <1>4 DEF ImportCleanup
  <2>3. /\ it \in RowType /\ it.docId = (IF deleted THEN 0 ELSE row[i].docId)
        /\ it.status = "error" /\ it.step = "none"
    BY <1>0 DEF Failed, RowType, Steps, Statuses
  <2>4. l \subseteq 1 .. made[i]
    BY <1>b
  <2> HIDE DEF it, l
  <2>5. /\ Fits(it, made[i], l, saved[i])
        /\ it.status \notin {"new", "gone"} /\ row[i].status \notin {"new", "gone"}
    BY <1>0, <1>4, <2>3, <2>4 DEF ImportCleanup, Fits, Running
  <2> QED  BY <1>0, <1>4, <2>1, <2>2, <2>5, SameListFits DEF ImportCleanup
<1> QED  BY <1>1, <1>2, <1>3, <1>4 DEF ImportWork

LEMMA QueueInit == Init => QueueInv
<1> SUFFICES ASSUME Init  PROVE QueueInv
  OBVIOUS
<1>1. ASSUME NEW i \in Rows
      PROVE  /\ Fits(row[i], made[i], live[i], saved[i])
             /\ row[i].status = "new" /\ row[i].step = "none"
  <2>1. /\ row[i] = [status |-> "new", step |-> "none", attempt |-> 0, retries |-> 0,
                     file |-> FALSE, docId |-> 0, fileId |-> 0]
        /\ made[i] = 0 /\ live[i] = {} /\ saved[i] = {}
    BY DEF Init
  <2> QED  BY <2>1, RetriesAssumption DEF Fits, RowType, Statuses, Steps, Running
<1>2. Workers(row) = {} /\ Shown(row) = {}
  BY <1>1 DEF Workers, Shown, Rows
<1>3. Cardinality(Workers(row)) <= MaxConcurrency
  BY <1>2, FS_EmptySet, CapAssumption
<1>4. items \in Seq(Rows) /\ NoRepeats(items) /\ Elements(items) = {}
  BY DEF Init, NoRepeats, Elements
<1> QED  BY <1>1, <1>2, <1>3, <1>4 DEF Init, QueueInv, AllFit

LEMMA QueueAlways == Spec => []QueueInv
<1>1. QueueInv /\ [Next]_vars => QueueInv'
  <2> SUFFICES ASSUME QueueInv, [Next]_vars  PROVE QueueInv'
    OBVIOUS
  <2>1. CASE Next
    BY <2>1, UserFits, WorkerFits, ImportFits DEF Next
  <2>2. CASE UNCHANGED vars
    BY <2>2 DEF vars, QueueInv, AllFit, Shown, Workers
  <2> QED  BY <2>1, <2>2
<1> QED  BY <1>1, QueueInit, PTL DEF Spec

(* Whatever fails, is lost or is retried, the panel's list names each row   *)
(* that was enqueued and not dismissed exactly once, and the ids a row      *)
(* keeps name documents that were made (enqueue, dismissItem,               *)
(* clearFinished, removeExternalItem).                                      *)
THEOREM ListNamesRowsOnce == Spec => []TypeOK
<1>1. QueueInv => TypeOK
  <2> SUFFICES ASSUME QueueInv  PROVE TypeOK
    OBVIOUS
  <2>1. row \in [Rows -> RowType] /\ \A i \in Rows : live[i] \subseteq 1 .. made[i]
                                                  /\ saved[i] \subseteq 1 .. made[i]
    BY DEF QueueInv, AllFit, Fits
  <2>2. {items[n] : n \in DOMAIN items} = {i \in Rows : InList(i)}
    BY DEF QueueInv, Elements, Shown, InList
  <2>3. Cardinality(Elements(items)) = Len(items)
    BY LengthCounts DEF QueueInv
  <2> QED  BY <2>1, <2>2, <2>3 DEF QueueInv, TypeOK, Elements
<1> QED  BY <1>1, QueueAlways, PTL

(* No order of drops, retries, mounts and failures runs more files at once  *)
(* than MAX_CONCURRENCY: the pump counts every slot that is taken and every *)
(* pending row it has claimed before this one.                              *)
THEOREM ConcurrencyCapped == Spec => []WorkersWithinCap
<1>1. QueueInv => WorkersWithinCap
  BY DEF QueueInv, WorkersWithinCap, Workers
<1> QED  BY <1>1, QueueAlways, PTL

(* Whatever fails or is lost, a slot is held exactly while something works  *)
(* on the row, so no failure path leaks one (runItem's finally, drive).     *)
THEOREM SlotsMatch == Spec => []SlotsHaveWorkers
<1>1. QueueInv => SlotsHaveWorkers
  BY DEF QueueInv, AllFit, Fits, SlotsHaveWorkers, Running
<1> QED  BY <1>1, QueueAlways, PTL

-----------------------------------------------------------------------------
(* What a row holds on to, whatever gets lost or fails.                     *)

\* The document a row keeps exists until the row is dismissed; a blob's worker
\* creates the document when it has the id of the blob.
Holds(i, it, l, s) ==
    /\ it.docId # 0 /\ it.status # "gone" => it.docId \in l
    /\ i \in Blobs => /\ it.step \notin {"import", "apply", "cleanup"}
                      /\ it.step = "create" => it.fileId # 0
    /\ it.status = "done" =>
          it.docId # 0 /\ IF i \in Blobs THEN it.fileId # 0 ELSE it.docId \in s
DocsHeld == \A i \in Rows : Holds(i, row[i], live[i], saved[i])

LEMMA EnterHolds ==
  ASSUME NEW i, NEW it \in RowType, NEW l, NEW s, Holds(i, it, l, s), it.status # "gone"
  PROVE  /\ Holds(i, Enter(i, it), l, s)
         /\ Holds(i, Enter(i, [it EXCEPT !.attempt = 0]), l, s)
<1>1. ASSUME NEW x \in RowType, x.docId = it.docId, x.fileId = it.fileId
      PROVE  Holds(i, Enter(i, x), l, s)
  <2> DEFINE y == Enter(i, x)
  <2>1. /\ y.docId = it.docId /\ y.fileId = it.fileId /\ y.status \in Running
        /\ y.step = IF i \notin Blobs THEN "import"
                    ELSE IF it.fileId = 0 THEN "upload" ELSE "create"
    BY <1>1 DEF Enter, RowType, Running
  <2> HIDE DEF y
  <2>2. Holds(i, y, l, s)
    BY <2>1 DEF Holds, Running
  <2> QED  BY <2>2 DEF y
<1> DEFINE fresh == [it EXCEPT !.attempt = 0]
<1>2. fresh \in RowType /\ fresh.docId = it.docId /\ fresh.fileId = it.fileId
  BY RetriesAssumption DEF RowType
<1> HIDE DEF fresh
<1>3. Holds(i, Enter(i, fresh), l, s)
  BY <1>1, <1>2
<1> QED  BY <1>1, <1>3 DEF fresh

LEMMA PumpHolds ==
  ASSUME NEW list, NEW r, NEW l, NEW s, DOMAIN r = Rows,
         \A i \in Rows : r[i] \in RowType /\ Holds(i, r[i], l[i], s[i])
  PROVE  \A i \in Rows : Holds(i, Pump(list, r)[i], l[i], s[i])
<1> DEFINE claimed == {list[n] : n \in {k \in DOMAIN list : r[list[k]].status = "pending" /\
                         Cardinality(Active(r))
                           + Cardinality({h \in 1 .. k : r[list[h]].status = "pending"})
                             <= MaxConcurrency}}
<1>2. Pump(list, r) = [i \in Rows |->
                 IF i \in claimed THEN Enter(i, [r[i] EXCEPT !.attempt = 0]) ELSE r[i]]
  BY DEF Pump
<1>3. \A i \in claimed : r[i].status = "pending"
  OBVIOUS
<1> HIDE DEF claimed
<1> SUFFICES ASSUME NEW i \in Rows  PROVE Holds(i, Pump(list, r)[i], l[i], s[i])
  OBVIOUS
<1>4. r[i] \in RowType /\ Holds(i, r[i], l[i], s[i])
  OBVIOUS
<1>5. CASE i \in claimed
  BY <1>2, <1>3, <1>4, <1>5, EnterHolds
<1>6. CASE i \notin claimed
  BY <1>2, <1>4, <1>6
<1> QED  BY <1>5, <1>6

LEMMA OneHolds ==
  ASSUME QueueInv, DocsHeld, NEW i \in Rows, NEW it \in RowType, NEW l, NEW s,
         Holds(i, it, l, s),
         live' = [live EXCEPT ![i] = l], saved' = [saved EXCEPT ![i] = s],
         RowTurns(i, it)
  PROVE  DocsHeld'
<1> DEFINE r == [row EXCEPT ![i] = it]
<1>1. \A j \in Rows : r[j] \in RowType /\ Holds(j, r[j], live'[j], saved'[j])
  BY FitRows DEF DocsHeld, QueueInv
<1>2. DOMAIN r = Rows
  BY FitRows
<1>3. row' = r \/ \E list \in Seq(Rows) : row' = Pump(list, r)
  BY DEF RowTurns
<1> HIDE DEF r
<1>4. \A j \in Rows : Holds(j, row'[j], live'[j], saved'[j])
  BY <1>1, <1>2, <1>3, PumpHolds
<1> QED  BY <1>4 DEF DocsHeld

LEMMA HeldRows ==
  ASSUME QueueInv, DocsHeld, NEW i \in Rows
  PROVE  /\ Holds(i, row[i], live[i], saved[i]) /\ row[i] \in RowType
         /\ row[i].status \in Running <=> row[i].step # "none"
         /\ row[i].step \in {"apply", "cleanup"} => row[i].docId # 0
         /\ live = [live EXCEPT ![i] = live[i]] /\ saved = [saved EXCEPT ![i] = saved[i]]
         /\ row = [j \in Rows |-> row[j]] /\ items \in Seq(Rows)
         /\ made[i] \in Nat
BY FitRows DEF DocsHeld, Fits

\* A failed attempt holds on to what its row has.
LEMMA RejectedHolds ==
  ASSUME QueueInv, DocsHeld, NEW i \in Rows, NEW reply, row[i].step # "none",
         Rejected(i, reply), NEW l, live[i] \subseteq l
  PROVE  \E it \in RowType : Holds(i, it, l, saved[i]) /\ RowTurns(i, it)
<1>1. /\ Holds(i, row[i], live[i], saved[i]) /\ row[i] \in RowType /\ items \in Seq(Rows)
      /\ row[i].status \in Running /\ row = [j \in Rows |-> row[j]]
  BY HeldRows
<1>2. CASE reply = "limited" /\ row[i].attempt < MaxRateRetries
  <2> DEFINE it == [row[i] EXCEPT !.step = "sleep", !.attempt = @ + 1]
  <2>1. RowTurns(i, it)
    BY <1>1, <1>2 DEF Rejected, RowTurns
  <2>2. row[i].attempt + 1 \in 0 .. MaxRateRetries
    BY <1>1, <1>2, RetriesAssumption DEF RowType
  <2>3. /\ it \in RowType /\ it.step = "sleep" /\ it.status = row[i].status
        /\ it.docId = row[i].docId /\ it.fileId = row[i].fileId
    BY <1>1, <2>2, Zenon DEF RowType, Steps
  <2> HIDE DEF it
  <2>4. Holds(i, it, l, saved[i])
    BY <1>1, <2>3 DEF Holds, Running
  <2> QED  BY <2>1, <2>3, <2>4
<1>3. CASE ~(reply = "limited" /\ row[i].attempt < MaxRateRetries)
  <2> DEFINE it == Failed(row[i])
  <2>1. RowTurns(i, it)
    BY <1>1, <1>3 DEF Rejected, Settled, RowTurns
  <2>2. /\ it \in RowType /\ it.step = "none" /\ it.status = "error"
        /\ it.docId = row[i].docId
    BY <1>1 DEF Failed, RowType, Steps, Statuses
  <2> HIDE DEF it
  <2>3. Holds(i, it, l, saved[i])
    BY <1>1, <2>2 DEF Holds, Running
  <2> QED  BY <2>1, <2>2, <2>3
<1> QED  BY <1>2, <1>3

LEMMA UserHolds ==
  ASSUME QueueInv, DocsHeld, UserStep
  PROVE  DocsHeld'
<1>f. Files \subseteq Rows /\ Imports \subseteq Rows /\ Blobs \cap Imports = {}
  BY ImportsAssumption, BlobsAssumption DEF Rows
<1>q. UNCHANGED backend => \A i \in Rows : /\ live' = [live EXCEPT ![i] = live[i]]
                                           /\ saved' = [saved EXCEPT ![i] = saved[i]]
  BY HeldRows DEF backend
<1>1. ASSUME NEW i \in Files, NEW fits \in BOOLEAN, Enqueue(i, fits)  PROVE DocsHeld'
  <2> DEFINE it == [row[i] EXCEPT !.status = IF fits THEN "pending" ELSE "error",
                                  !.file = fits]
  <2>0. i \in Rows /\ items' \in Seq(Rows)
    BY <1>f, <1>1, HeldRows DEF Enqueue
  <2>1. RowTurns(i, it)
    <3>1. [row EXCEPT ![i].status = IF fits THEN "pending" ELSE "error", ![i].file = fits]
            = [row EXCEPT ![i] = it]
      BY <2>0, HeldRows
    <3> QED  BY <1>1, <2>0, <3>1 DEF Enqueue, RowTurns
  <2>2. /\ it \in RowType /\ it.status \in {"pending", "error"} /\ it.step = "none"
        /\ it.docId = row[i].docId
    BY <1>1, <2>0, HeldRows DEF Enqueue, RowType, Statuses, Running
  <2> HIDE DEF it
  <2>3. Holds(i, it, live[i], saved[i])
    BY <1>1, <2>0, <2>2, HeldRows DEF Enqueue, Holds
  <2> QED  BY <1>1, <1>q, <2>0, <2>1, <2>2, <2>3, OneHolds DEF Enqueue
<1>2. ASSUME NEW i \in Files, Retry(i)  PROVE DocsHeld'
  <2> DEFINE it == Retried(row[i])
  <2>0. i \in Rows /\ row[i].retries + 1 \in 0 .. MaxRetries
    BY <1>f, <1>2, RetriesAssumption, HeldRows DEF Retry, RowType
  <2>1. RowTurns(i, it)
    BY <1>2, <2>0, HeldRows DEF Retry, Settled, RowTurns
  <2>2. /\ it \in RowType /\ it.status = "pending" /\ it.step = "none"
        /\ it.docId = row[i].docId
    BY <1>2, <2>0, HeldRows DEF Retry, Retried, RowType, Statuses, Running
  <2> HIDE DEF it
  <2>3. Holds(i, it, live[i], saved[i])
    BY <1>2, <2>0, <2>2, HeldRows DEF Retry, Holds
  <2> QED  BY <1>2, <1>q, <2>0, <2>1, <2>2, <2>3, OneHolds DEF Retry
<1>3. ASSUME NEW i \in Rows, NEW deleted \in BOOLEAN, Dismiss(i, deleted)
      PROVE  DocsHeld'
  <2> DEFINE it == [row[i] EXCEPT !.status = "gone"]
             l  == IF deleted THEN live[i] \ {row[i].docId} ELSE live[i]
  <2>1. RowTurns(i, it) /\ live' = [live EXCEPT ![i] = l]
    <3>1. [row EXCEPT ![i].status = "gone"] = [row EXCEPT ![i] = it]
      BY HeldRows
    <3> QED  BY <1>3, <3>1, HeldRows DEF Dismiss, RowTurns
  <2>2. it \in RowType /\ it.status = "gone" /\ it.step = "none"
    BY <1>3, HeldRows DEF Dismiss, RowType, Statuses, Running
  <2> HIDE DEF it, l
  <2>3. Holds(i, it, l, saved[i])
    BY <2>2 DEF Holds
  <2>4. saved' = [saved EXCEPT ![i] = saved[i]]
    BY <1>3, HeldRows DEF Dismiss
  <2> QED  BY <2>1, <2>2, <2>3, <2>4, OneHolds
<1>4. ASSUME NEW i \in Imports, StartImport(i)  PROVE DocsHeld'
  <2> DEFINE it == [row[i] EXCEPT !.status = "parsing", !.step = "import"]
  <2>0. i \in Rows /\ i \notin Blobs
    BY <1>f
  <2>1. RowTurns(i, it)
    <3>1. [row EXCEPT ![i].status = "parsing", ![i].step = "import"] = [row EXCEPT ![i] = it]
      BY <2>0, HeldRows
    <3> QED  BY <1>4, <3>1 DEF StartImport, RowTurns
  <2>2. /\ it \in RowType /\ it.status = "parsing" /\ it.docId = row[i].docId
    BY <2>0, HeldRows DEF RowType, Statuses, Steps
  <2> HIDE DEF it
  <2>3. Holds(i, it, live[i], saved[i])
    BY <1>4, <2>0, <2>2, HeldRows DEF StartImport, Holds
  <2> QED  BY <1>4, <1>q, <2>0, <2>1, <2>2, <2>3, OneHolds DEF StartImport
<1>5. ASSUME Mount  PROVE DocsHeld'
  <2>1. DOMAIN row = Rows
        /\ \A i \in Rows : row[i] \in RowType /\ Holds(i, row[i], live[i], saved[i])
    BY HeldRows DEF QueueInv, AllFit
  <2>2. \A i \in Rows : Holds(i, Pump(items, row)[i], live[i], saved[i])
    BY <2>1, PumpHolds
  <2> QED  BY <1>5, <2>2 DEF Mount, DocsHeld, backend
<1>6. ASSUME ClearFinished  PROVE DocsHeld'
  <2>1. ASSUME NEW i \in Rows  PROVE Holds(i, row'[i], live[i], saved[i])
    <3>1. row'[i] = IF row[i].status = "done" THEN [row[i] EXCEPT !.status = "gone"]
                    ELSE row[i]
      BY <1>6, Zenon DEF ClearFinished
    <3>2. CASE row[i].status = "done"
      <4>1. row'[i].status = "gone" /\ row'[i].step = "none"
        BY <3>1, <3>2, HeldRows DEF RowType, Running
      <4> QED  BY <4>1 DEF Holds
    <3> QED  BY <3>1, <3>2, HeldRows
  <2> QED  BY <1>6, <2>1 DEF ClearFinished, DocsHeld, backend
<1> QED  BY <1>1, <1>2, <1>3, <1>4, <1>5, <1>6 DEF UserStep

\* What a created document leaves: its id, in the list of those that exist.
LEMMA StoreKeeps ==
  ASSUME QueueInv, DocsHeld, NEW i \in Rows, NEW reply, Store(i, reply)
  PROVE  \E l : /\ live' = [live EXCEPT ![i] = l] /\ live[i] \subseteq l
                /\ reply = "ok" => made'[i] \in l /\ made'[i] \in Nat \ {0}
<1> DEFINE l == IF Served(reply) THEN live[i] \cup {made'[i]} ELSE live[i]
<1>1. live' = [live EXCEPT ![i] = l]
  BY DEF Store
<1>2. Served(reply) => made'[i] = made[i] + 1
  BY DEF Store, QueueInv
<1>3. reply = "ok" => made'[i] \in l /\ made'[i] \in Nat \ {0}
  BY <1>2, HeldRows DEF Served
<1> HIDE DEF l
<1>4. live[i] \subseteq l
  BY DEF l
<1> QED  BY <1>1, <1>3, <1>4

LEMMA WorkerHolds ==
  ASSUME QueueInv, DocsHeld, NEW i \in Files, Work(i)
  PROVE  DocsHeld'
<1>0. /\ i \in Rows
      /\ Holds(i, row[i], live[i], saved[i]) /\ row[i] \in RowType
      /\ row[i].status \in Running <=> row[i].step # "none"
      /\ row[i].step \in {"apply", "cleanup"} => row[i].docId # 0
      /\ live = [live EXCEPT ![i] = live[i]] /\ saved = [saved EXCEPT ![i] = saved[i]]
      /\ row = [j \in Rows |-> row[j]] /\ items \in Seq(Rows) /\ live[i] \subseteq live[i]
  BY HeldRows DEF Rows
<1>1. ASSUME NEW reply \in Replies, Import(i, reply)  PROVE DocsHeld'
  <2>0. live' = live /\ saved' = saved
    BY <1>1 DEF Import, backend
  <2>1. CASE reply = "ok"
    <3> DEFINE it == IF row[i].docId = 0 THEN [row[i] EXCEPT !.step = "create"]
                     ELSE [row[i] EXCEPT !.step = "apply", !.status = "uploading"]
    <3>1. RowTurns(i, it)
      BY <1>0, <1>1, <2>1 DEF Import, RowTurns
    <3>2. /\ it \in RowType /\ it.docId = row[i].docId /\ it.status \in Running /\ i \notin Blobs
      BY <1>0, <1>1 DEF Import, Holds, RowType, Steps, Statuses, Running
    <3> HIDE DEF it
    <3>3. Holds(i, it, live[i], saved[i])
      BY <1>0, <1>1, <3>2 DEF Import, Holds, Running
    <3> QED  BY <1>0, <2>0, <3>1, <3>2, <3>3, OneHolds
  <2>2. CASE reply # "ok"
    <3>1. PICK it \in RowType : Holds(i, it, live[i], saved[i]) /\ RowTurns(i, it)
      BY <1>0, <1>1, <2>2, RejectedHolds DEF Import
    <3> QED  BY <1>0, <2>0, <3>1, OneHolds
  <2> QED  BY <2>1, <2>2
<1>2. ASSUME NEW reply \in Replies, Upload(i, reply)  PROVE DocsHeld'
  <2>0. live' = live /\ saved' = saved
    BY <1>2 DEF Upload
  <2>1. CASE reply = "ok"
    <3> DEFINE it == Uploaded(row[i], blobs[i] + 1)
    <3>1. RowTurns(i, it)
      BY <1>2, <2>1 DEF Upload, RowTurns
    <3>2. /\ it \in RowType /\ it.step = "create" /\ it.status = row[i].status
          /\ it.docId = row[i].docId /\ it.fileId # 0
      <4>1. blobs[i] + 1 \in Nat \ {0}
        BY <1>0, FitRows
      <4> QED  BY <1>0, <4>1 DEF Uploaded, RowType, Steps
    <3> HIDE DEF it
    <3>3. Holds(i, it, live[i], saved[i])
      BY <1>0, <1>2, <3>2 DEF Upload, Holds, Running
    <3> QED  BY <1>0, <2>0, <3>1, <3>2, <3>3, OneHolds
  <2>2. CASE reply # "ok"
    <3>1. PICK it \in RowType : Holds(i, it, live[i], saved[i]) /\ RowTurns(i, it)
      BY <1>0, <1>2, <2>2, RejectedHolds DEF Upload
    <3> QED  BY <1>0, <2>0, <3>1, OneHolds
  <2> QED  BY <2>1, <2>2
<1>3. ASSUME NEW reply \in Replies, Create(i, reply)  PROVE DocsHeld'
  <2>0. saved' = [saved EXCEPT ![i] = saved[i]]
    BY <1>0, <1>3 DEF Create
  <2>1. PICK l : /\ live' = [live EXCEPT ![i] = l] /\ live[i] \subseteq l
                 /\ reply = "ok" => made'[i] \in l /\ made'[i] \in Nat \ {0}
    BY <1>0, <1>3, StoreKeeps DEF Create
  <2>2. CASE reply = "ok"
    <3>0. PICK m : m = made'[i]
      OBVIOUS
    <3>a. row' = Created(i, row[i], m) /\ m \in l /\ m \in Nat \ {0}
      BY <1>3, <2>1, <2>2, <3>0 DEF Create
    <3>1. CASE i \in Blobs
      <4> DEFINE it == Finished([row[i] EXCEPT !.docId = m])
      <4>1. RowTurns(i, it)
        BY <1>0, <3>a, <3>1 DEF Created, Settled, RowTurns
      <4>2. /\ it \in RowType /\ it.step = "none" /\ it.status = "done" /\ it.docId = m
            /\ it.fileId = row[i].fileId
        BY <1>0, <3>a DEF Finished, RowType, Steps, Statuses
      <4> HIDE DEF it
      <4>3. Holds(i, it, l, saved[i])
        BY <1>0, <1>3, <3>a, <3>1, <4>2 DEF Create, Holds
      <4> QED  BY <1>0, <2>0, <2>1, <4>1, <4>2, <4>3, OneHolds
    <3>2. CASE i \notin Blobs
      <4> DEFINE it == [row[i] EXCEPT !.docId = m, !.step = "apply",
                                      !.status = "uploading"]
      <4>1. RowTurns(i, it)
        BY <3>a, <3>2 DEF Created, RowTurns
      <4>2. it \in RowType /\ it.status = "uploading" /\ it.docId = m
        BY <1>0, <3>a DEF RowType, Steps, Statuses
      <4> HIDE DEF it
      <4>3. Holds(i, it, l, saved[i])
        BY <3>a, <3>2, <4>2 DEF Holds
      <4> QED  BY <1>0, <2>0, <2>1, <4>1, <4>2, <4>3, OneHolds
    <3> QED  BY <3>1, <3>2
  <2>3. CASE reply # "ok"
    <3>1. PICK it \in RowType : Holds(i, it, l, saved[i]) /\ RowTurns(i, it)
      BY <1>0, <1>3, <2>1, <2>3, RejectedHolds DEF Create
    <3> QED  BY <1>0, <2>0, <2>1, <3>1, OneHolds
  <2> QED  BY <2>2, <2>3
<1>4. ASSUME NEW ok \in BOOLEAN, NEW written \in BOOLEAN, Apply(i, ok, written)
      PROVE  DocsHeld'
  <2> DEFINE it == IF ok THEN Finished(row[i]) ELSE Failed(row[i])
             s  == IF written THEN saved[i] \cup {row[i].docId} ELSE saved[i]
  <2>1. RowTurns(i, it)
    BY <1>0, <1>4 DEF Apply, Settled, RowTurns
  <2>2. saved' = [saved EXCEPT ![i] = s] /\ live' = [live EXCEPT ![i] = live[i]]
    BY <1>0, <1>4 DEF Apply, Save
  <2>3. /\ it \in RowType /\ it.step = "none" /\ it.docId = row[i].docId
        /\ it.status = IF ok THEN "done" ELSE "error"
    BY <1>0 DEF Finished, Failed, RowType, Steps, Statuses
  <2>4. (ok => row[i].docId \in s) /\ i \notin Blobs /\ row[i].docId # 0
    BY <1>0, <1>4 DEF Apply, Holds
  <2> HIDE DEF it, s
  <2>5. Holds(i, it, live[i], s)
    BY <1>0, <1>4, <2>3, <2>4 DEF Apply, Holds, Running
  <2> QED  BY <1>0, <2>1, <2>2, <2>3, <2>5, OneHolds
<1>5. ASSUME Wake(i)  PROVE DocsHeld'
  <2> DEFINE it == Enter(i, row[i])
  <2>1. RowTurns(i, it) /\ live' = live /\ saved' = saved
    BY <1>5 DEF Wake, RowTurns, backend
  <2>2. it \in RowType
    BY <1>0 DEF Enter, RowType, Steps, Statuses
  <2>3. Holds(i, it, live[i], saved[i])
    BY <1>0, <1>5, EnterHolds DEF Wake, Running
  <2> HIDE DEF it
  <2> QED  BY <1>0, <2>1, <2>2, <2>3, OneHolds
<1> QED  BY <1>1, <1>2, <1>3, <1>4, <1>5 DEF Work

LEMMA ImportHolds ==
  ASSUME QueueInv, DocsHeld, NEW i \in Imports, ImportWork(i)
  PROVE  DocsHeld'
<1>0. /\ i \in Rows /\ i \notin Blobs
      /\ Holds(i, row[i], live[i], saved[i]) /\ row[i] \in RowType
      /\ row[i].status \in Running <=> row[i].step # "none"
      /\ row[i].step \in {"apply", "cleanup"} => row[i].docId # 0
      /\ live = [live EXCEPT ![i] = live[i]] /\ saved = [saved EXCEPT ![i] = saved[i]]
      /\ row = [j \in Rows |-> row[j]] /\ items \in Seq(Rows)
  BY HeldRows, ImportsAssumption, BlobsAssumption DEF Rows
<1>1. ASSUME NEW ok \in BOOLEAN, ImportStream(i, ok)  PROVE DocsHeld'
  <2> DEFINE it == IF ok THEN [row[i] EXCEPT !.status = "uploading", !.step = "create"]
                   ELSE Failed(row[i])
  <2>1. RowTurns(i, it) /\ live' = live /\ saved' = saved
    BY <1>0, <1>1 DEF ImportStream, RowTurns, backend
  <2>2. /\ it \in RowType /\ it.docId = row[i].docId /\ it.status \in {"uploading", "error"}
    BY <1>0 DEF Failed, RowType, Steps, Statuses
  <2> HIDE DEF it
  <2>3. Holds(i, it, live[i], saved[i])
    BY <1>0, <1>1, <2>2 DEF ImportStream, Holds, Running
  <2> QED  BY <1>0, <2>1, <2>2, <2>3, OneHolds
<1>2. ASSUME NEW reply \in Replies, NEW expired \in BOOLEAN,
             ImportCreate(i, reply, expired)
      PROVE  DocsHeld'
  <2>0. saved' = [saved EXCEPT ![i] = saved[i]]
    BY <1>0, <1>2 DEF ImportCreate
  <2>1. PICK l : /\ live' = [live EXCEPT ![i] = l] /\ live[i] \subseteq l
                 /\ reply = "ok" => made'[i] \in l /\ made'[i] \in Nat \ {0}
    BY <1>0, <1>2, StoreKeeps DEF ImportCreate
  <2>2. CASE reply = "ok"
    <3>0. PICK m : m = made'[i]
      OBVIOUS
    <3> DEFINE it == [row[i] EXCEPT !.docId = m, !.step = "apply"]
    <3>1. m \in l /\ m \in Nat \ {0} /\ RowTurns(i, it)
      <4>1. row' = [row EXCEPT ![i].docId = m, ![i].step = "apply"]
        BY <1>2, <2>2, <3>0 DEF ImportCreate
      <4> QED  BY <1>0, <2>1, <2>2, <3>0, <4>1 DEF RowTurns
    <3>2. /\ it \in RowType /\ it.docId = m /\ it.status = row[i].status
      BY <1>0, <3>1 DEF RowType, Steps
    <3> HIDE DEF it
    <3>3. Holds(i, it, l, saved[i])
      BY <1>0, <1>2, <3>1, <3>2 DEF ImportCreate, Holds, Running
    <3> QED  BY <1>0, <2>0, <2>1, <3>1, <3>2, <3>3, OneHolds
  <2>3. CASE reply # "ok"
    <3> DEFINE it == [Failed(row[i]) EXCEPT
                        !.status = IF expired THEN "gone" ELSE "error"]
    <3>1. RowTurns(i, it)
      BY <1>2, <2>3 DEF ImportCreate, RowTurns
    <3>2. it \in RowType /\ it.docId = row[i].docId /\ it.status \in {"gone", "error"}
      BY <1>0 DEF Failed, RowType, Steps, Statuses
    <3> HIDE DEF it
    <3>3. Holds(i, it, l, saved[i])
      BY <1>0, <1>2, <2>1, <3>2 DEF ImportCreate, Holds, Running
    <3> QED  BY <1>0, <2>0, <2>1, <3>1, <3>2, <3>3, OneHolds
  <2> QED  BY <2>2, <2>3
<1>3. ASSUME NEW ok \in BOOLEAN, NEW written \in BOOLEAN, ImportApply(i, ok, written)
      PROVE  DocsHeld'
  <2> DEFINE it == IF ok THEN Finished(row[i]) ELSE [row[i] EXCEPT !.step = "cleanup"]
             s  == IF written THEN saved[i] \cup {row[i].docId} ELSE saved[i]
  <2>1. RowTurns(i, it)
    BY <1>0, <1>3 DEF ImportApply, RowTurns
  <2>2. saved' = [saved EXCEPT ![i] = s] /\ live' = [live EXCEPT ![i] = live[i]]
    BY <1>0, <1>3 DEF ImportApply, Save
  <2>3. /\ it \in RowType /\ it.docId = row[i].docId
        /\ it.status = IF ok THEN "done" ELSE row[i].status
    BY <1>0 DEF Finished, RowType, Steps, Statuses
  <2>4. (ok => row[i].docId \in s) /\ row[i].docId # 0 /\ row[i].status \in Running
    BY <1>0, <1>3 DEF ImportApply
  <2> HIDE DEF it, s
  <2>5. Holds(i, it, live[i], s)
    BY <1>0, <2>3, <2>4 DEF Holds, Running
  <2> QED  BY <1>0, <2>1, <2>2, <2>3, <2>5, OneHolds
<1>4. ASSUME NEW deleted \in BOOLEAN, ImportCleanup(i, deleted)  PROVE DocsHeld'
  <2> DEFINE it == [Failed(row[i]) EXCEPT !.docId = IF deleted THEN 0 ELSE @]
             l  == IF deleted THEN live[i] \ {row[i].docId} ELSE live[i]
  <2>1. RowTurns(i, it)
    BY <1>4 DEF ImportCleanup, RowTurns
  <2>2. live' = [live EXCEPT ![i] = l] /\ saved' = [saved EXCEPT ![i] = saved[i]]
    BY <1>0, <1>4 DEF ImportCleanup
  <2>3. /\ it \in RowType /\ it.docId = (IF deleted THEN 0 ELSE row[i].docId)
        /\ it.status = "error"
    BY <1>0 DEF Failed, RowType, Steps, Statuses
  <2> HIDE DEF it
  <2>4. Holds(i, it, l, saved[i])
    BY <1>0, <1>4, <2>3 DEF ImportCleanup, Holds, Running
  <2> HIDE DEF l
  <2> QED  BY <1>0, <2>1, <2>2, <2>3, <2>4, OneHolds
<1> QED  BY <1>1, <1>2, <1>3, <1>4 DEF ImportWork

LEMMA HeldAlways == Spec => []DocsHeld
<1>1. Init => DocsHeld
  <2> SUFFICES ASSUME Init, NEW i \in Rows  PROVE Holds(i, row[i], live[i], saved[i])
    BY DEF DocsHeld
  <2>1. row[i].status = "new" /\ row[i].step = "none" /\ row[i].docId = 0
    BY DEF Init
  <2> QED  BY <2>1 DEF Holds
<1>2. QueueInv /\ DocsHeld /\ [Next]_vars => DocsHeld'
  <2> SUFFICES ASSUME QueueInv, DocsHeld, [Next]_vars  PROVE DocsHeld'
    OBVIOUS
  <2>1. CASE Next
    BY <2>1, UserHolds, WorkerHolds, ImportHolds DEF Next
  <2>2. CASE UNCHANGED vars
    BY <2>2 DEF vars, DocsHeld
  <2> QED  BY <2>1, <2>2
<1> QED  BY <1>1, <1>2, QueueAlways, PTL DEF Spec

(* "done" means saved, whatever is lost on the way and however clean-up     *)
(* fails: the document exists and holds the content, or the blob is stored. *)
THEOREM DoneMeansSaved == Spec => []DoneIsSaved
<1>1. QueueInv /\ DocsHeld => DoneIsSaved
  <2> SUFFICES ASSUME QueueInv, DocsHeld, NEW i \in Rows, row[i].status = "done"
               PROVE  /\ row[i].docId \in live[i]
                      /\ IF i \in Blobs THEN row[i].fileId # 0
                         ELSE row[i].docId \in saved[i]
    BY DEF DoneIsSaved
  <2> QED  BY HeldRows DEF Holds
<1> QED  BY <1>1, QueueAlways, HeldAlways, PTL
=============================================================================
