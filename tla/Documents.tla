----------------------------- MODULE Documents ------------------------------
(***************************************************************************)
(* DocumentController, DocumentCopyService and the one-call upload of      *)
(* ApiV1FilesController: rows, stored blobs and Yorkie content.            *)
(***************************************************************************)
EXTENDS Database

OnlyDocuments == UNCHANGED <<workspaces, members, invites, folders, notes>>

\* A new row; its foreign keys must exist.
InsertRow(r, ok, w, f, blob) ==
    IF ok /\ Holds(w, f)
    THEN documents' = Plus(documents, r,
            [workspace |-> w, folder |-> f, author |-> req[r].user, blob |-> blob])
    ELSE UNCHANGED documents

(* create and upload: a member, a folder of the workspace; an upload then  *)
(* stores the blob, and removes it again if the row cannot be made.        *)
AskDocument(r, kind, u, w, f) ==
    /\ kind \in {"create", "upload"}
    /\ Arrive(r, [kind |-> kind, step |-> "member", user |-> u, workspace |-> w,
                  folder |-> f, blob |-> None])
    /\ Reads

FirstWrite(r) == IF req[r].kind = "upload" THEN "put" ELSE "insert"

CheckMember(r) ==
    /\ req[r].kind \in {"create", "upload"} /\ req[r].step = "member"
    /\ Check(r, IsMember(req[r].workspace, req[r].user),
             IF req[r].folder = None THEN FirstWrite(r) ELSE "same")
    /\ Reads

CheckFolder(r) ==
    /\ req[r].kind \in {"create", "upload"} /\ req[r].step = "same"
    /\ Check(r, InWorkspace(req[r].folder, req[r].workspace), FirstWrite(r))
    /\ Reads

PutBlob(r, ok) ==
    /\ At(r, "upload", "put")
    /\ ~ok => MayFail("storage")
    /\ blobs' = IF ok THEN blobs \cup {r} ELSE blobs
    /\ req' = IF ok THEN [req EXCEPT ![r].blob = r, ![r].step = "insert"]
              ELSE [req EXCEPT ![r].step = "failed"]
    /\ UNCHANGED <<tables, contents>>

(* Mutant: a row that cannot be made is reported, and the blob stays. *)
InsertWithoutDiscard(r, ok) ==
    /\ req[r].kind \in {"create", "upload"} /\ req[r].step = "insert"
    /\ ~ok => MayFail("database")
    /\ InsertRow(r, ok, req[r].workspace, req[r].folder, req[r].blob)
    /\ Go(r, IF r \in DOMAIN documents' THEN "done" ELSE "failed")
    /\ OnlyDocuments /\ UNCHANGED storage
InsertDocument(r, ok) ==
    /\ req[r].kind \in {"create", "upload"} /\ req[r].step = "insert"
    /\ ~ok => MayFail("database")
    /\ InsertRow(r, ok, req[r].workspace, req[r].folder, req[r].blob)
    /\ Go(r, IF r \in DOMAIN documents' THEN "done"
             ELSE IF req[r].blob = None THEN "failed" ELSE "discard")
    /\ OnlyDocuments /\ UNCHANGED storage

\* discardBlob, and the catch of the upload: best effort, then the error.
DiscardBlob(r, ok) ==
    /\ req[r].kind \in {"upload", "copy"} /\ req[r].step = "discard"
    /\ ~ok => MayFail("cleanup")
    /\ blobs' = IF ok THEN blobs \ {req[r].blob} ELSE blobs
    /\ Go(r, "failed")
    /\ UNCHANGED <<tables, contents>>

-----------------------------------------------------------------------------
(* copy, move and delete start from the row, read once.                    *)
AskAbout(r, kind, u, d) ==
    /\ kind \in {"copy", "delete"}
    /\ Arrive(r, [kind |-> kind, step |-> "document", user |-> u, id |-> d,
                  row |-> None, blob |-> None, content |-> None])
    /\ Reads

\* A field the caller of a move did not send is Keep.
Keep == "keep"
AskMove(r, u, d, w, f) ==
    /\ Arrive(r, [kind |-> "move", step |-> "document", user |-> u, id |-> d,
                  row |-> None, blob |-> None, workspace |-> w, folder |-> f])
    /\ Reads

OfRow == {"copy", "move", "delete"}
ReadDocument(r) ==
    LET d == req[r].id
    IN  /\ req[r].kind \in OfRow /\ req[r].step = "document"
        /\ req' = IF d \in DOMAIN documents
                  THEN [req EXCEPT ![r].row = documents[d], ![r].step = "member"]
                  ELSE [req EXCEPT ![r].step = "refused"]
        /\ Reads

\* A copy needs a member, a move or a delete the manager of the document.
MayAct(r) ==
    LET row == req[r].row
    IN  IF req[r].kind = "copy" THEN IsMember(row.workspace, req[r].user)
        ELSE IsManager(row.workspace, row.author, req[r].user)

FilesInto(r) == req[r].folder \notin {Keep, None}
(* Mutant: a delete starts with the blob. *)
FirstStepBlobFirst(r) ==
    CASE req[r].kind = "copy"   -> "insertCopy"
      [] req[r].kind = "delete" -> IF req[r].row.blob = None THEN "remove" ELSE "blob"
      [] req[r].kind = "move"   -> "write"
FirstStep(r) ==
    CASE req[r].kind = "copy"   -> IF req[r].row.blob = None THEN "insertCopy" ELSE "copyBlob"
      [] req[r].kind = "delete" -> "remove"
      [] req[r].kind = "move"   -> IF req[r].workspace # Keep THEN "target"
                                   ELSE IF FilesInto(r) THEN "folder" ELSE "write"

CheckAccess(r) ==
    /\ req[r].kind \in OfRow /\ req[r].step = "member"
    /\ Check(r, MayAct(r), FirstStep(r))
    /\ Reads

-----------------------------------------------------------------------------
(* updateDocument with a workspace or a folder.                            *)
CheckTarget(r) ==
    /\ At(r, "move", "target")
    /\ Check(r, IsMember(req[r].workspace, req[r].user),
             IF FilesInto(r) THEN "folder" ELSE "write")
    /\ Reads

\* The folder is checked against the workspace the document is going to.
Destination(r) == IF req[r].workspace = Keep THEN req[r].row.workspace ELSE req[r].workspace
CheckTargetFolder(r) ==
    /\ At(r, "move", "folder")
    /\ Check(r, InWorkspace(req[r].folder, Destination(r)), "write")
    /\ Reads

\* Leaving a workspace without naming a folder leaves the folder as well.
Moved(r, row) ==
    [row EXCEPT
        !.workspace = IF req[r].workspace = Keep THEN @ ELSE req[r].workspace,
        !.folder = IF req[r].folder # Keep THEN req[r].folder
                   ELSE IF req[r].workspace \notin {Keep, req[r].row.workspace} THEN None
                   ELSE @]

MoveDocument(r) ==
    LET d == req[r].id
        ok == d \in DOMAIN documents
                /\ Holds(Moved(r, documents[d]).workspace, Moved(r, documents[d]).folder)
    IN  /\ At(r, "move", "write")
        /\ Go(r, IF ok THEN "done" ELSE "failed")
        /\ documents' = IF ok THEN [documents EXCEPT ![d] = Moved(r, @)] ELSE documents
        /\ OnlyDocuments /\ UNCHANGED storage

-----------------------------------------------------------------------------
(* deleteDocument: the row, then its blob as well as may be.               *)
(* Mutant: the blob of a deleted document is forgotten. *)
RemoveOnlyDocument(r) ==
    /\ At(r, "delete", "remove") /\ req[r].id \in DOMAIN documents
    /\ DeleteDocument(req[r].id) /\ Go(r, "done")
    /\ UNCHANGED <<workspaces, members, invites, folders, storage>>
RemoveDocument(r) ==
    LET there == req[r].id \in DOMAIN documents
    IN  /\ At(r, "delete", "remove")
        /\ IF there THEN DeleteDocument(req[r].id) ELSE UNCHANGED <<documents, notes>>
        /\ Go(r, IF ~there THEN "failed"
                 ELSE IF req[r].row.blob = None THEN "done" ELSE "blob")
        /\ UNCHANGED <<workspaces, members, invites, folders, storage>>

RemoveBlob(r, ok) ==
    /\ At(r, "delete", "blob")
    /\ ~ok => MayFail("cleanup")
    /\ blobs' = IF ok THEN blobs \ {req[r].row.blob} ELSE blobs
    /\ Go(r, "done")
    /\ UNCHANGED <<tables, contents>>

-----------------------------------------------------------------------------
(* DocumentCopyService.copy                                                *)

\* CopyObject under a fresh id; the object may be gone by now.
CopyBlob(r, ok) ==
    LET stored == ok /\ req[r].row.blob \in blobs
    IN  /\ At(r, "copy", "copyBlob")
        /\ ~ok => MayFail("storage")
        /\ blobs' = IF stored THEN blobs \cup {r} ELSE blobs
        /\ req' = IF stored THEN [req EXCEPT ![r].blob = r, ![r].step = "insertCopy"]
                  ELSE [req EXCEPT ![r].step = "failed"]
        /\ UNCHANGED <<tables, contents>>

InsertCopy(r, ok) ==
    /\ At(r, "copy", "insertCopy")
    /\ ~ok => MayFail("database")
    /\ InsertRow(r, ok, req[r].row.workspace, req[r].row.folder, req[r].blob)
    /\ Go(r, IF r \in DOMAIN documents' THEN "content"
             ELSE IF req[r].blob = None THEN "failed" ELSE "discard")
    /\ OnlyDocuments /\ UNCHANGED storage

\* copyContent: nothing to do for a blob or for a source nobody has opened.
ReadContent(r, ok) ==
    LET d == req[r].id
        none == req[r].blob # None \/ d \notin DOMAIN contents
    IN  /\ At(r, "copy", "content")
        /\ ~ok => MayFail("yorkie") /\ req[r].blob = None
        /\ req' = IF ok /\ ~none
                  THEN [req EXCEPT ![r].step = "writeContent", ![r].content = contents[d]]
                  ELSE [req EXCEPT ![r].step = IF ok THEN "done" ELSE "rollback"]
        /\ Reads

\* The last write wins.  One that fails may still have reached Yorkie.
WriteContent(r, ok, written) ==
    /\ At(r, "copy", "writeContent")
    /\ ~ok => MayFail("yorkie")
    /\ ok => written
    /\ contents' = IF written THEN Plus(contents, r, req[r].content) ELSE contents
    /\ Go(r, IF ok THEN "done" ELSE "rollback")
    /\ UNCHANGED <<tables, blobs>>

\* A member writes in the document, from an editor.
Edit(r, u, d) ==
    /\ documents[d].blob = None /\ IsMember(documents[d].workspace, u)
    /\ Arrive(r, [kind |-> "edit", step |-> "done", user |-> u, id |-> d])
    /\ contents' = Plus(contents, d, r)
    /\ UNCHANGED <<tables, blobs>>

\* The row goes first, and its blob only once the row is gone.
RollBack(r, ok) ==
    LET deleted == ok /\ r \in DOMAIN documents
    IN  /\ At(r, "copy", "rollback")
        /\ ~ok => MayFail("cleanup")
        /\ IF deleted THEN DeleteDocument(r) ELSE UNCHANGED <<documents, notes>>
        /\ Go(r, IF deleted /\ req[r].blob # None THEN "discard" ELSE "failed")
        /\ UNCHANGED <<workspaces, members, invites, folders, storage>>

-----------------------------------------------------------------------------
(* Properties                                                              *)

Referenced == {documents[d].blob : d \in DOMAIN documents}
HeldBy(r) ==
    IF req[r].kind \in {"upload", "copy"} /\ req[r].step \in {"insert", "insertCopy", "discard"}
    THEN {req[r].blob}
    ELSE IF At(r, "delete", "blob") THEN {req[r].row.blob} ELSE {}
Orphans == blobs \ (Referenced \cup UNION {HeldBy(r) : r \in Active})

(* No document ever points at a blob that is not stored: a blob is removed *)
(* after its row and never before, in deletes, uploads and copies alike.   *)
DocumentsHaveTheirBlob == Referenced \subseteq blobs \cup {None}

(* A blob is lost sight of only when a whole workspace is deleted: every   *)
(* other step leaves it with a row, or with a request that will remove it. *)
BlobsAreTracked ==
    [][\/ Orphans' \subseteq Orphans
       \/ \E r \in Requests : At(r, "removeWorkspace", "delete") /\ req'[r].step = "done"
      ]_dbVars

(* An upload or a copy that reports an error leaves neither a row nor a    *)
(* blob, wherever it failed and whoever else touched the row meanwhile.    *)
FailuresLeaveNothing ==
    \A r \in Requests :
        req[r].kind \in {"create", "upload", "copy"} /\ req[r].step \in {"failed", "refused"}
          => r \notin DOMAIN documents \cup blobs

(* A copy that reports success is whole: it has a blob of its own, which   *)
(* outlives the source, or what its source held at some time since it was  *)
(* asked, unless somebody has written in it.                               *)
WrittenIn(d) == {d} \cup {r \in Requests : At(r, "edit", "done") /\ req[r].id = d}
CopiesAreWhole ==
    \A r \in Requests : At(r, "copy", "done") /\ r \in DOMAIN documents =>
        IF req[r].row.blob # None THEN documents[r].blob = r /\ r \in blobs
        ELSE req[r].id \in DOMAIN SeedDocuments =>
                /\ r \in DOMAIN contents
                /\ contents[r] \in WrittenIn(req[r].id) \cup WrittenIn(r)

(* The content of a copy is written where nobody has written: "the target  *)
(* key has never been attached to by anyone" (document-copy.service.ts:152)*)
CopiesOverwriteNothing ==
    [][\A r \in Requests :
          At(r, "copy", "writeContent") /\ contents' # contents /\ req' # req
            => r \notin DOMAIN contents]_dbVars

\* Every document is in a folder of its own workspace, if in any.
FiledInside ==
    \A d \in DOMAIN documents :
        /\ documents[d].workspace \in DOMAIN workspaces
        /\ documents[d].folder # None =>
              InWorkspace(documents[d].folder, documents[d].workspace)

(* No request files a document under a folder of another workspace, unless *)
(* another move changed the document's workspace after this one read it, or*)
(* the row it copies was such a document when it was read.                 *)
Misfiled(row) == row.folder # None /\ ~InWorkspace(row.folder, row.workspace)
FolderInItsWorkspace ==
    [][\/ FiledInside => FiledInside'
       \/ \E r \in Requests :
             \/ At(r, "move", "write")
                   /\ documents[req[r].id].workspace # req[r].row.workspace
             \/ At(r, "copy", "insertCopy") /\ Misfiled(req[r].row)]_dbVars

(* Uploads and copies happen whole or not at all, though three stores have *)
(* no transaction in common.                                               *)
AllOrNothing == FailuresLeaveNothing /\ CopiesAreWhole
=============================================================================
