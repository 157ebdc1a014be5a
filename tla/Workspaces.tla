----------------------------- MODULE Workspaces -----------------------------
(***************************************************************************)
(* WorkspaceService: workspaces, their members and invites.                *)
(***************************************************************************)
EXTENDS Database

\* The tables these handlers leave alone.
KeepsFiles == UNCHANGED <<folders, documents, blobs, contents>>

(* create: a slug nobody has, the workspace, then its owner.               *)
AskWorkspace(r, u, name) ==
    /\ Arrive(r, [kind |-> "createWorkspace", step |-> "slug", user |-> u,
                  name |-> name])
    /\ Reads

Slugs == {workspaces[w] : w \in DOMAIN workspaces}

\* generateUniqueSlug: the name, or the name with a random suffix.
ChooseSlug(r) ==
    /\ At(r, "createWorkspace", "slug")
    /\ req' = [req EXCEPT ![r].step = "create",
                 ![r].name = IF req[r].name \in Slugs THEN <<req[r].name, r>> ELSE @]
    /\ Reads

InsertWorkspace(r) ==
    /\ At(r, "createWorkspace", "create")
    /\ IF req[r].name \in Slugs
       THEN Go(r, "failed") /\ UNCHANGED workspaces
       ELSE Go(r, "owner") /\ workspaces' = Plus(workspaces, r, req[r].name)
    /\ KeepsFiles /\ UNCHANGED <<members, invites, notes>>

InsertOwner(r, ok) ==
    /\ At(r, "createWorkspace", "owner")
    /\ ~ok => MayFail("database")
    /\ members' = IF ok THEN Plus(members, <<r, req[r].user>>, "owner") ELSE members
    /\ Go(r, IF ok THEN "done" ELSE "failed")
    /\ KeepsFiles /\ UNCHANGED <<workspaces, invites, notes>>

-----------------------------------------------------------------------------
(* update: owners only; a new slug must be free.                           *)
AskRename(r, u, w, name) ==
    /\ Arrive(r, [kind |-> "renameWorkspace", step |-> "owner", user |-> u,
                  workspace |-> w, name |-> name])
    /\ Reads

RenameWorkspace(r) ==
    LET w  == req[r].workspace
        ok == w \in DOMAIN workspaces /\ req[r].name \notin Slugs \ {workspaces[w]}
    IN  /\ At(r, "renameWorkspace", "update")
        /\ Go(r, IF ok THEN "done" ELSE "failed")
        /\ workspaces' = IF ok THEN [workspaces EXCEPT ![w] = req[r].name] ELSE workspaces
        /\ KeepsFiles /\ UNCHANGED <<members, invites, notes>>

-----------------------------------------------------------------------------
(* remove: owners only, and not the caller's last workspace.               *)
AskRemoval(r, u, w) ==
    /\ Arrive(r, [kind |-> "removeWorkspace", step |-> "owner", user |-> u,
                  workspace |-> w])
    /\ Reads

\* The statements that ask assertOwner first, and what comes next.
AfterOwner == [renameWorkspace |-> "update", removeWorkspace |-> "count",
               removeMember |-> "find", createInvite |-> "create", revokeInvite |-> "delete"]
AssertOwner(r) ==
    /\ req[r].step = "owner" /\ req[r].kind \in DOMAIN AfterOwner
    /\ Check(r, IsOwner(req[r].workspace, req[r].user), AfterOwner[req[r].kind])
    /\ Reads

CountWorkspaces(r) ==
    /\ At(r, "removeWorkspace", "count")
    /\ Check(r, Cardinality(Membership(req[r].user)) > 1, "delete")
    /\ Reads

RemoveWorkspace(r) ==
    /\ At(r, "removeWorkspace", "delete")
    /\ IF req[r].workspace \in DOMAIN workspaces
       THEN Go(r, "done") /\ DeleteWorkspace(req[r].workspace)
       ELSE Go(r, "failed") /\ UNCHANGED tables
    /\ UNCHANGED storage

-----------------------------------------------------------------------------
(* removeMember: an owner removes anyone, a member only themselves.        *)
AskRemoveMember(r, u, w, target) ==
    /\ Arrive(r, [kind |-> "removeMember", user |-> u, workspace |-> w,
                  target |-> target, found |-> None, step |-> IF u = target THEN "find" ELSE "owner"])
    /\ Reads

(* Mutant: an owner may leave. *)
FindAnyMember(r) ==
    LET m == <<req[r].workspace, req[r].target>>
    IN  /\ At(r, "removeMember", "find") /\ m \in DOMAIN members
        /\ req' = [req EXCEPT ![r].found = members[m], ![r].step = "delete"]
        /\ Reads
FindMember(r) ==
    LET m == <<req[r].workspace, req[r].target>>
    IN  /\ At(r, "removeMember", "find")
        /\ req' = IF m \in DOMAIN members
                     /\ ~(members[m] = "owner" /\ req[r].user = req[r].target)
                  THEN [req EXCEPT ![r].found = members[m], ![r].step = "delete"]
                  ELSE [req EXCEPT ![r].step = "refused"]
        /\ Reads

RemoveMember(r) ==
    LET m == <<req[r].workspace, req[r].target>>
    IN  /\ At(r, "removeMember", "delete")
        /\ Go(r, IF m \in DOMAIN members THEN "done" ELSE "failed")
        /\ members' = Less(members, {m})
        /\ KeepsFiles /\ UNCHANGED <<workspaces, invites, notes>>

-----------------------------------------------------------------------------
(* createInvite and revokeInvite.                                          *)
AskInvite(r, u, w, role, expires) ==
    /\ Arrive(r, [kind |-> "createInvite", step |-> "owner", user |-> u,
                  workspace |-> w, role |-> role, expires |-> expires])
    /\ Reads

CreateInvite(r) ==
    LET ok == req[r].workspace \in DOMAIN workspaces
    IN  /\ At(r, "createInvite", "create")
        /\ Go(r, IF ok THEN "done" ELSE "failed")
        /\ invites' = IF ok THEN Plus(invites, r,
                            [workspace |-> req[r].workspace, role |-> req[r].role,
                             by |-> req[r].user, expires |-> req[r].expires])
                      ELSE invites
        /\ KeepsFiles /\ UNCHANGED <<workspaces, members, notes>>

AskRevoke(r, u, w, token) ==
    /\ Arrive(r, [kind |-> "revokeInvite", step |-> "owner", user |-> u,
                  workspace |-> w, token |-> token])
    /\ Reads

\* The delete is scoped to the workspace the caller owns.
RevokeInvite(r) ==
    LET t == req[r].token
        mine == t \in DOMAIN invites /\ invites[t].workspace = req[r].workspace
    IN  /\ At(r, "revokeInvite", "delete")
        /\ Go(r, IF mine THEN "done" ELSE "refused")
        /\ invites' = IF mine THEN Less(invites, {t}) ELSE invites
        /\ KeepsFiles /\ UNCHANGED <<workspaces, members, notes>>

-----------------------------------------------------------------------------
(* acceptInvite                                                            *)
AskAccept(r, u, token) ==
    /\ Arrive(r, [kind |-> "accept", step |-> "invite", user |-> u, token |-> token])
    /\ Reads

\* An invite with a date may have expired by now.
ReadInvite(r, expired) ==
    LET t == req[r].token
    IN  /\ At(r, "accept", "invite")
        /\ expired => t \in DOMAIN invites /\ invites[t].expires
        /\ req' = IF t \in DOMAIN invites /\ ~expired
                  THEN [req EXCEPT ![r] =
                          [kind |-> "accept", step |-> "existing", user |-> req[r].user,
                           invite |-> invites[t], joined |-> FALSE]]
                  ELSE [req EXCEPT ![r].step = "refused"]
        /\ Reads

ReadExisting(r) ==
    /\ At(r, "accept", "existing")
    /\ Go(r, IF IsMember(req[r].invite.workspace, req[r].user) THEN "done" ELSE "create")
    /\ Reads

(* Mutant: a membership made meanwhile counts as made here. *)
JoinAgain(r) ==
    /\ At(r, "accept", "create") /\ req[r].invite.workspace \in DOMAIN workspaces
    /\ req' = [req EXCEPT ![r].step = "recipients", ![r].joined = TRUE]
    /\ members' = Plus(members, <<req[r].invite.workspace, req[r].user>>, req[r].invite.role)
    /\ KeepsFiles /\ UNCHANGED <<workspaces, invites, notes>>
\* A row made meanwhile (P2002) is an idempotent success.
Join(r) ==
    LET w == req[r].invite.workspace
        m == <<w, req[r].user>>
    IN  /\ At(r, "accept", "create")
        /\ IF m \in DOMAIN members THEN Go(r, "done") /\ UNCHANGED members
           ELSE IF w \notin DOMAIN workspaces THEN Go(r, "failed") /\ UNCHANGED members
           ELSE /\ req' = [req EXCEPT ![r].step = "recipients", ![r].joined = TRUE]
                /\ members' = Plus(members, m, req[r].invite.role)
        /\ KeepsFiles /\ UNCHANGED <<workspaces, invites, notes>>

\* createMemberJoined tells the owners and the creator of the invite.
JoinRecipients(r) ==
    LET w == req[r].invite.workspace
    IN  ({u \in Users : IsOwner(w, u)} \cup {req[r].invite.by}) \ {req[r].user}

-----------------------------------------------------------------------------
HasOwner(w) == \E u \in Users : IsOwner(w, u)

(* Removing members leaves no workspace without an owner: an owner cannot  *)
(* leave, and removes others only.  It takes two owners who remove each    *)
(* other, or a member who is made an owner while leaving, to break it.     *)
WorkspacesKeepAnOwner ==
    [][\A w \in DOMAIN workspaces :
          HasOwner(w) /\ w \in DOMAIN workspaces' =>
            \/ HasOwner(w)'
            \/ \E r \in Requests :
                  /\ At(r, "removeMember", "delete") /\ req[r].workspace = w
                  /\ IF req[r].user = req[r].target THEN req[r].found = "member"
                     ELSE ~IsOwner(w, req[r].user)]_dbVars

(* The backend tells managers apart because "there is always an owner, so  *)
(* no document becomes unmanageable" (document-access.ts:14).              *)
AlwaysAnOwner ==
    \A w \in DOMAIN workspaces :
        HasOwner(w) \/ (w \in Requests /\ At(w, "createWorkspace", "owner"))
=============================================================================
