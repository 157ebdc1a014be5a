------------------------------ MODULE Folders -------------------------------
(***************************************************************************)
(* FolderController and FolderService: the tree of folders of a workspace. *)
(***************************************************************************)
EXTENDS Database

OnlyFolders == UNCHANGED <<workspaces, members, invites, documents, blobs, contents,
                           notes>>

(* create: any member; the parent must be a folder of the workspace.       *)
AskFolder(r, u, w, parent) ==
    /\ Arrive(r, [kind |-> "createFolder", step |-> "member", user |-> u,
                  workspace |-> w, parent |-> parent])
    /\ Reads

CheckCreator(r) ==
    /\ At(r, "createFolder", "member")
    /\ Check(r, IsMember(req[r].workspace, req[r].user),
             IF req[r].parent = None THEN "create" ELSE "same")
    /\ Reads

CheckParent(r) ==
    /\ At(r, "createFolder", "same")
    /\ Check(r, InWorkspace(req[r].parent, req[r].workspace), "create")
    /\ Reads

InsertFolder(r) ==
    LET ok == Holds(req[r].workspace, req[r].parent)
    IN  /\ At(r, "createFolder", "create")
        /\ Go(r, IF ok THEN "done" ELSE "failed")
        /\ folders' = IF ok THEN Plus(folders, r, [workspace |-> req[r].workspace,
                                parent |-> req[r].parent, author |-> req[r].user])
                      ELSE folders
        /\ OnlyFolders

-----------------------------------------------------------------------------
(* update with a parent, and remove: the manager of the folder.            *)
AskMoveFolder(r, u, f, parent) ==
    /\ Arrive(r, [kind |-> "moveFolder", step |-> "folder", user |-> u, folder |-> f,
                  parent |-> parent, cursor |-> parent, visited |-> {}])
    /\ Reads

AskDeleteFolder(r, u, f) ==
    /\ Arrive(r, [kind |-> "deleteFolder", step |-> "folder", user |-> u, folder |-> f])
    /\ Reads

\* getById, and what the handler keeps of the row (one read).
ReadFolder(r) ==
    /\ req[r].kind \in {"moveFolder", "deleteFolder"} /\ req[r].step = "folder"
    /\ Check(r, req[r].folder \in DOMAIN folders, "manager")
    /\ Reads

\* resolveFolderManager.  The workspace and author of a folder never change, so
\* the row read before and the one stored agree; a deleted row is refused too.
FolderManager(r) ==
    LET f == req[r].folder
        ok == f \in DOMAIN folders
                /\ IsManager(folders[f].workspace, folders[f].author, req[r].user)
    IN  /\ req[r].kind \in {"moveFolder", "deleteFolder"} /\ req[r].step = "manager"
        /\ Check(r, ok, IF req[r].kind = "deleteFolder" THEN "delete"
                        ELSE IF req[r].parent = None THEN "write" ELSE "same")
        /\ Reads

CheckNewParent(r) ==
    LET f == req[r].folder
    IN  /\ At(r, "moveFolder", "same")
        /\ Check(r, f \in DOMAIN folders /\ InWorkspace(req[r].parent, folders[f].workspace),
                 "walk")
        /\ Reads

(* Mutant: the walk starts above the new parent. *)
WalkAboveParent(r) ==
    LET c == ParentOf(req[r].cursor)
    IN  /\ At(r, "moveFolder", "walk")
        /\ IF c = req[r].folder THEN Go(r, "refused")
           ELSE req' = [req EXCEPT ![r].visited = @ \cup {req[r].cursor}, ![r].cursor = c,
                                   ![r].step = IF c = None THEN "write" ELSE @]
        /\ Reads
\* assertNoCycle: one read for every folder on the way up from the new parent.
Walk(r) ==
    LET c  == req[r].cursor
        up == ParentOf(c)
    IN  /\ At(r, "moveFolder", "walk")
        /\ IF c = req[r].folder THEN Go(r, "refused")
           ELSE IF c \in req[r].visited THEN Go(r, "write")
           ELSE req' = [req EXCEPT ![r].visited = @ \cup {c}, ![r].cursor = up,
                                   ![r].step = IF up = None THEN "write" ELSE @]
        /\ Reads

MoveFolder(r) ==
    LET f  == req[r].folder
        ok == f \in DOMAIN folders /\ FolderExists(req[r].parent)
    IN  /\ At(r, "moveFolder", "write")
        /\ Go(r, IF ok THEN "done" ELSE "failed")
        /\ folders' = IF ok THEN [folders EXCEPT ![f].parent = req[r].parent]
                      ELSE folders
        /\ OnlyFolders

RemoveFolder(r) ==
    LET f == req[r].folder
    IN  /\ At(r, "deleteFolder", "delete")
        /\ IF f \in DOMAIN folders
           THEN Go(r, "done") /\ DeleteFolders({f})
           ELSE Go(r, "failed") /\ UNCHANGED <<folders, documents>>
        /\ UNCHANGED <<workspaces, members, invites, notes, storage>>

-----------------------------------------------------------------------------
\* The folders form trees: no folder is above itself.
AcyclicIn(F) ==
    \A S \in SUBSET DOMAIN F :
        S # {} => \E f \in S : F[f].parent \notin S

\* The request saw, on its way up, the folders that are above it now.
StillAbove(r) ==
    IF req[r].parent = None THEN TRUE
    ELSE req[r].visited = Lineage(req[r].parent)

(* Moving a folder never puts it below itself, as long as the folders the  *)
(* handler walked through are still the ones above the new parent when it  *)
(* writes.  (assertNoCycle; two moves that overtake each other can.)       *)
MovesKeepTrees ==
    [][\A r \in Requests :
          At(r, "moveFolder", "write") /\ req'[r].step = "done" /\ StillAbove(r)
            /\ AcyclicIn(folders)
          => AcyclicIn(folders')]_dbVars

(* A folder and its parent are in one workspace, whatever is created,      *)
(* moved or deleted meanwhile.                                             *)
FoldersStayInside ==
    \A f \in DOMAIN folders :
        /\ folders[f].workspace \in DOMAIN workspaces
        /\ folders[f].parent # None =>
              InWorkspace(folders[f].parent, folders[f].workspace)
=============================================================================
