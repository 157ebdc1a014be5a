------------------------------ MODULE Database ------------------------------
(***************************************************************************)
(* The backend's tables with the delete rules of schema.prisma, the object *)
(* store, and the requests being served.                                   *)
(*                                                                         *)
(* A request is a record with a "step": the statement its handler will run *)
(* next.  Every awaited statement is an action, so the statements of two   *)
(* requests interleave in any order.  A request ends "done", "refused" (a  *)
(* 4xx the handler chose) or "failed" (an error it did not choose).  Ids   *)
(* are uuids: whatever a request creates is named after the request.       *)
(***************************************************************************)
EXTENDS Naturals, FiniteSets

CONSTANTS
    Users,          \* ids of users
    Requests,       \* requests that may be served; each is used once
    None,           \* null
    Faults,         \* calls that may fail: "database", "storage", "yorkie", and
                    \* "cleanup" for those that undo an earlier step
    Kinds,          \* kinds of request that arrive
    Groups,         \* bound: sets of kinds that meet when more than two arrive
    SeedWorkspaces, \* workspaces at the start: id -> slug
    SeedMembers,    \* <<workspace, user>> -> role
    SeedInvites,    \* token -> [workspace, role, by, expires]
    SeedFolders,    \* id -> [workspace, parent, author]
    SeedDocuments   \* id -> [workspace, folder, author, blob]

ASSUME FaultsAssumption == Faults \subseteq {"database", "storage", "yorkie", "cleanup"}
ASSUME NoneAssumption ==
    None \notin Users \cup Requests \cup DOMAIN SeedWorkspaces \cup DOMAIN SeedFolders
                  \cup DOMAIN SeedDocuments

\* Ids are uuids: no row of the start has the id of a row that is made later.
ASSUME FreshAssumption ==
    Requests \cap (DOMAIN SeedWorkspaces \cup DOMAIN SeedInvites \cup DOMAIN SeedFolders
                     \cup DOMAIN SeedDocuments) = {}

VARIABLES
    workspaces,  \* id -> slug
    members,     \* <<workspace, user>> -> role
    invites,     \* token -> invite
    folders,     \* id -> folder
    documents,   \* id -> document
    blobs,       \* ids of the stored objects
    contents,    \* Yorkie document -> what was written last, named after the writer
    notes,       \* id -> notification
    req          \* request -> what its handler knows, and its next step

tables == <<workspaces, members, invites, folders, documents, notes>>
storage == <<blobs, contents>>
dbVars == <<workspaces, members, invites, folders, documents, blobs, contents, notes,
            req>>

Roles == {"owner", "member"}
Over == {"done", "refused", "failed"}
Blobs == {SeedDocuments[d].blob : d \in DOMAIN SeedDocuments} \ {None}
Rows == DOMAIN SeedFolders \cup DOMAIN SeedDocuments \cup Blobs \cup Requests

\* The rows of the start fit together, as the foreign keys make them, and the
\* folders are in the workspace of their parent; every blob has one document.
ASSUME SeedsAssumption ==
    /\ SeedMembers \in [DOMAIN SeedMembers -> Roles]
    /\ DOMAIN SeedMembers \subseteq (DOMAIN SeedWorkspaces) \X Users
    /\ SeedInvites \in [DOMAIN SeedInvites ->
          [workspace : DOMAIN SeedWorkspaces, role : Roles, by : Users, expires : BOOLEAN]]
    /\ SeedFolders \in [DOMAIN SeedFolders ->
          [workspace : DOMAIN SeedWorkspaces, parent : DOMAIN SeedFolders \cup {None},
           author : Users]]
    /\ \A f \in DOMAIN SeedFolders : SeedFolders[f].parent # None =>
          SeedFolders[SeedFolders[f].parent].workspace = SeedFolders[f].workspace
    /\ SeedDocuments \in [DOMAIN SeedDocuments ->
          [workspace : DOMAIN SeedWorkspaces, author : Users,
           folder : DOMAIN SeedFolders \cup {None}, blob : Blobs \cup {None}]]
    /\ \A c, d \in DOMAIN SeedDocuments :
          c # d /\ SeedDocuments[c].blob # None => SeedDocuments[c].blob # SeedDocuments[d].blob
    /\ Blobs \cap Requests = {}

-----------------------------------------------------------------------------
(* Tables                                                                  *)

Less(f, S) == [x \in DOMAIN f \ S |-> f[x]]
Plus(f, x, y) == [z \in DOMAIN f \cup {x} |-> IF z = x THEN y ELSE f[z]]

IsMember(w, u) == <<w, u>> \in DOMAIN members
IsOwner(w, u) == IsMember(w, u) /\ members[<<w, u>>] = "owner"
Membership(u) == {m \in DOMAIN members : m[2] = u}

\* isDocumentManager, for documents and folders.
IsManager(w, author, u) == IsMember(w, u) /\ (members[<<w, u>>] = "owner" \/ author = u)

\* A folder and the folders above it, as the parent ids lead: what every set
\* has that holds the folder and, with a folder, its parent.
ParentOf(f) == IF f \in DOMAIN folders THEN folders[f].parent ELSE None
ClosedUp(S) == \A f \in S : ParentOf(f) \in S \cup {None}
Lineage(f) ==
    {g \in DOMAIN folders :
        \A S \in SUBSET DOMAIN folders : f \in S /\ ClosedUp(S) => g \in S}

\* Delete rules.  A folder takes its subtree (Cascade) and returns the
\* documents of the subtree to the root (SetNull).
Subtree(S) == {f \in DOMAIN folders : Lineage(f) \cap S # {}}
Unfiled(D, gone) == [d \in DOMAIN D |-> IF D[d].folder \in gone
                                        THEN [D[d] EXCEPT !.folder = None] ELSE D[d]]
DeleteFolders(S) ==
    /\ folders' = Less(folders, Subtree(S))
    /\ documents' = Unfiled(documents, Subtree(S))

NotesOf(D) == {n \in DOMAIN notes : notes[n].document \in D}
DeleteDocument(d) ==
    /\ documents' = Less(documents, {d})
    /\ notes' = Less(notes, NotesOf({d}))

\* Everything in a workspace goes with it; the object store is not told.
DeleteWorkspace(w) ==
    LET docs == {d \in DOMAIN documents : documents[d].workspace = w}
        gone == Subtree({f \in DOMAIN folders : folders[f].workspace = w})
    IN  /\ workspaces' = Less(workspaces, {w})
        /\ members' = Less(members, {m \in DOMAIN members : m[1] = w})
        /\ invites' = Less(invites, {t \in DOMAIN invites : invites[t].workspace = w})
        /\ folders' = Less(folders, gone)
        /\ documents' = Unfiled(Less(documents, docs), gone)
        /\ notes' = Less(notes, {n \in DOMAIN notes : notes[n].workspace = w}
                                  \cup NotesOf(docs))

\* Foreign keys of a new or changed row.
FolderExists(f) == f = None \/ f \in DOMAIN folders
Holds(w, f) == w \in DOMAIN workspaces /\ FolderExists(f)

\* assertSameWorkspace
InWorkspace(f, w) == f \in DOMAIN folders /\ folders[f].workspace = w

-----------------------------------------------------------------------------
(* Requests                                                                *)

\* A step that only reads.
Reads == UNCHANGED <<tables, storage>>

Idle == [kind |-> "none", step |-> "none"]
At(r, kind, step) == req[r].kind = kind /\ req[r].step = step
Arrived == {r \in Requests : req[r] # Idle}
MayMeet(kind) ==
    \/ Cardinality(Arrived) < 2
    \/ \E G \in Groups : {kind} \cup {req[r].kind : r \in Arrived} \subseteq G
Arrive(r, request) ==
    /\ req[r] = Idle
    /\ request.kind \in {kind \in Kinds : MayMeet(kind)}
    /\ req' = [req EXCEPT ![r] = request]
Go(r, step) == req' = [req EXCEPT ![r].step = step]
\* The next step if the check holds, a refusal if not.
Check(r, ok, step) == Go(r, IF ok THEN step ELSE "refused")
Active == {r \in Requests : req[r].step \notin Over \cup {"none"}}

MayFail(call) == call \in Faults

InitDatabase ==
    /\ workspaces = SeedWorkspaces
    /\ members = SeedMembers
    /\ invites = SeedInvites
    /\ folders = SeedFolders
    /\ documents = SeedDocuments
    /\ blobs = Blobs
    /\ contents = [d \in {x \in DOMAIN SeedDocuments : SeedDocuments[x].blob = None} |-> d]
    /\ notes = <<>>
    /\ req = [r \in Requests |-> Idle]
=============================================================================
