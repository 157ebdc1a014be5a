------------------------------ MODULE Backend -------------------------------
(***************************************************************************)
(* The backend as a whole: requests for workspaces, folders, documents and *)
(* notifications that share the tables and the object store, and interleave*)
(* at every awaited statement.                                             *)
(***************************************************************************)
EXTENDS Folders, Documents, Notifications

CONSTANT Names   \* names of new workspaces

vars == notifyVars

Init == InitDatabase /\ InitStream

\* The shape of the state, with the foreign keys of schema.prisma.
MembersOK ==
    /\ DOMAIN members \subseteq (DOMAIN workspaces) \X Users
    /\ \A m \in DOMAIN members : members[m] \in Roles
InvitesOK ==
    \A t \in DOMAIN invites :
        invites[t] \in [workspace : DOMAIN workspaces, role : Roles, by : Users,
                       expires : BOOLEAN]
FoldersOK ==
    \A f \in DOMAIN folders :
        folders[f] \in [workspace : DOMAIN workspaces,
                       parent : DOMAIN folders \cup {None}, author : Users]
DocumentsOK ==
    \A d \in DOMAIN documents :
        documents[d] \in [workspace : DOMAIN workspaces, author : Users,
                         folder : DOMAIN folders \cup {None}, blob : Rows \cup {None}]
StorageOK == blobs \subseteq Rows /\ DOMAIN contents \subseteq Rows
NotesOK ==
    \A n \in DOMAIN notes :
        /\ notes[n].recipient \in Users /\ notes[n].workspace \in DOMAIN workspaces
        /\ notes[n].document \in DOMAIN documents \cup {None}
        /\ notes[n].event \in Events \cup {Joined} /\ notes[n].read \in BOOLEAN
RequestsOK ==
    \A r \in Requests : req[r] # Idle => req[r].kind \in Kinds /\ req[r].user \in Users
StreamsOK ==
    \A u \in Watchers :
        /\ Len(stream[u].readings) <= MaxReadings /\ stream[u].mishaps <= MaxMishaps
        /\ ~stream[u].open => stream[u].readings = <<>>
TypeOK ==
    /\ MembersOK /\ InvitesOK /\ FoldersOK /\ DocumentsOK /\ StorageOK
    /\ NotesOK /\ RequestsOK /\ StreamsOK

-----------------------------------------------------------------------------
(* What a client may ask.  It names rows that exist when it asks.          *)

AskWorkspaces(r, u) ==
    \/ \E name \in Names : AskWorkspace(r, u, name)
    \/ \E w \in DOMAIN workspaces :
          \/ \E name \in Names : AskRename(r, u, w, name)
          \/ AskRemoval(r, u, w)
          \/ \E m \in DOMAIN members : m[1] = w /\ AskRemoveMember(r, u, w, m[2])
          \/ \E role \in Roles, expires \in BOOLEAN : AskInvite(r, u, w, role, expires)
          \/ \E t \in DOMAIN invites : AskRevoke(r, u, w, t)
    \/ \E t \in DOMAIN invites : AskAccept(r, u, t)

AskFolders(r, u) ==
    \E parent \in DOMAIN folders \cup {None} :
        \/ \E w \in DOMAIN workspaces : AskFolder(r, u, w, parent)
        \/ \E f \in DOMAIN folders : AskMoveFolder(r, u, f, parent) \/ AskDeleteFolder(r, u, f)

AskDocuments(r, u) ==
    \/ \E kind \in {"create", "upload"}, w \in DOMAIN workspaces,
          f \in DOMAIN folders \cup {None} : AskDocument(r, kind, u, w, f)
    \/ \E d \in DOMAIN documents :
          \/ \E kind \in {"copy", "delete"} : AskAbout(r, kind, u, d)
          \/ Edit(r, u, d)
          \/ \E w \in DOMAIN workspaces \cup {Keep}, f \in DOMAIN folders \cup {None, Keep} :
                AskMove(r, u, d, w, f)

AskNotes(r, u) ==
    \/ \E d \in DOMAIN documents, e \in Events : AskReport(r, u, d, Users, e)
    \/ \E ids \in {Inbox(u)} \cup {{n} : n \in Inbox(u)}, here \in BOOLEAN :
          ids # {} /\ (here => u \in Watchers) /\ MarkRead(r, u, ids, here)

-----------------------------------------------------------------------------
(* The statements of a request that is being served.                       *)

WorkspaceSteps(r) ==
    \/ ChooseSlug(r) \/ InsertWorkspace(r) \/ (\E ok \in BOOLEAN : InsertOwner(r, ok))
    \/ AssertOwner(r) \/ RenameWorkspace(r) \/ CountWorkspaces(r) \/ RemoveWorkspace(r)
    \/ FindMember(r) \/ RemoveMember(r)
    \/ CreateInvite(r) \/ RevokeInvite(r)
    \/ (\E expired \in BOOLEAN : ReadInvite(r, expired)) \/ ReadExisting(r) \/ Join(r)

FolderSteps(r) ==
    \/ CheckCreator(r) \/ CheckParent(r) \/ InsertFolder(r)
    \/ ReadFolder(r) \/ FolderManager(r) \/ CheckNewParent(r) \/ Walk(r)
    \/ MoveFolder(r) \/ RemoveFolder(r)

DocumentSteps(r) ==
    \/ CheckMember(r) \/ CheckFolder(r)
    \/ ReadDocument(r) \/ CheckAccess(r) \/ CheckTarget(r) \/ CheckTargetFolder(r)
    \/ MoveDocument(r) \/ RemoveDocument(r)
    \/ \E ok \in BOOLEAN :
          \/ PutBlob(r, ok) \/ InsertDocument(r, ok) \/ DiscardBlob(r, ok)
          \/ RemoveBlob(r, ok) \/ CopyBlob(r, ok) \/ InsertCopy(r, ok)
          \/ ReadContent(r, ok) \/ RollBack(r, ok)
          \/ \E written \in BOOLEAN : WriteContent(r, ok, written)

NoteSteps(r) ==
    \/ ReadOwners(r) \/ (\E ok \in BOOLEAN : NotifyJoin(r, ok))
    \/ ReadReported(r) \/ KeepMembers(r) \/ NotifyComment(r)
    \/ \E marked \in {0, 1} : ReadReply(r, marked)

Answer(u) ==
    \E i \in 1 .. MaxReadings : ReadUnread(u, i) \/ ReadLatest(u, i) \/ Deliver(u, i)
Streams(u) ==
    \/ Connect(u) \/ Drop(u) \/ Poll(u) \/ Answer(u)
    \/ Refetch(u) \/ CountUnread(u) \/ FetchReply(u) \/ LoseFetch(u)
    \/ \E i \in 1 .. MaxReadings : LoseReading(u, i)

Serve(r) ==
    \/ (WorkspaceSteps(r) \/ FolderSteps(r) \/ DocumentSteps(r)) /\ UNCHANGED stream
    \/ NoteSteps(r)

MayArrive(r) == req[r] = Idle /\ {kind \in Kinds : MayMeet(kind)} # {}

Next ==
    \/ \E r \in Requests, u \in Users : MayArrive(r) /\
          \/ (AskWorkspaces(r, u) \/ AskFolders(r, u) \/ AskDocuments(r, u))
                /\ UNCHANGED stream
          \/ AskNotes(r, u)
    \/ \E r \in Requests : Serve(r)
    \/ \E u \in Watchers : Streams(u)

Spec == Init /\ [][Next]_vars

\* Requests are served, a browser opens its stream again (EventSource), the
\* poll and the refetch interval tick, and queries are answered.
Fairness ==
    /\ \A r \in Requests : WF_vars(Serve(r))
    /\ \A u \in Watchers :
          /\ WF_vars(Connect(u)) /\ WF_vars(Poll(u)) /\ WF_vars(Answer(u))
          /\ WF_vars(Refetch(u)) /\ WF_vars(CountUnread(u)) /\ WF_vars(FetchReply(u))
FairSpec == Spec /\ Fairness

-----------------------------------------------------------------------------
(* The rows fit together at every moment: foreign keys, documents and their*)
(* blobs, folders and the workspace of their parent.                       *)
TablesAgree == TypeOK /\ DocumentsHaveTheirBlob /\ FoldersStayInside

(* Moves of folders and documents, checked before they are written, leave  *)
(* trees that stay inside a workspace.                                     *)
MovesKeepPlaces == MovesKeepTrees /\ FolderInItsWorkspace
=============================================================================
