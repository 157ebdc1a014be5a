---------------------------- MODULE BackendProofs ----------------------------
(***************************************************************************)
(* Theorems about Backend: what holds of the tables, the object store and  *)
(* the requests, however many requests interleave.                         *)
(***************************************************************************)
EXTENDS Backend, ListLemmas

-----------------------------------------------------------------------------
(* What the record of a request holds, by kind.  W, F and D are the ids of  *)
(* the workspaces, folders and documents that have been made so far.        *)

MakesWorkspace(q) == q.kind = "createWorkspace" /\ q.step \in {"owner", "done", "failed"}
MakesFolder(q) == q.kind = "createFolder" /\ q.step \in {"done", "failed"}
MakesDocument(q) ==
    /\ q.kind \in {"create", "upload", "copy"}
    /\ q.step \in {"content", "writeContent", "rollback", "discard", "done", "failed"}

MadeWorkspaces == DOMAIN SeedWorkspaces \cup {r \in Requests : MakesWorkspace(req[r])}
MadeFolders == DOMAIN SeedFolders \cup {r \in Requests : MakesFolder(req[r])}
MadeDocuments == DOMAIN SeedDocuments \cup {r \in Requests : MakesDocument(req[r])}

Steps ==
    {"slug", "create", "owner", "update", "count", "delete", "find", "invite", "existing",
     "recipients", "notify", "member", "same", "folder", "manager", "walk", "write", "put",
     "insert", "discard", "document", "copyBlob", "insertCopy", "content", "writeContent",
     "rollback", "remove", "blob", "target", "members", "reply", "done", "refused", "failed"}
Tokens == DOMAIN SeedInvites \cup Requests
InviteRow(W) == [workspace : W, role : Roles, by : Users, expires : BOOLEAN]
DocumentRow(W, F) ==
    [workspace : W, author : Users, folder : F \cup {None}, blob : Rows \cup {None}]

WorkspaceForms(q, W) ==
    /\ q.kind = "createWorkspace" =>
            /\ q \in [kind : {"createWorkspace"}, step : Steps, user : Users,
                      name : Names \cup (Names \X Requests)]
            /\ q.step = "slug" => q.name \in Names
    /\ q.kind = "renameWorkspace" =>
          q \in [kind : {"renameWorkspace"}, step : Steps, user : Users, workspace : W,
                 name : Names]
    /\ q.kind = "removeWorkspace" =>
          q \in [kind : {"removeWorkspace"}, step : Steps, user : Users, workspace : W]
    /\ q.kind = "removeMember" =>
          q \in [kind : {"removeMember"}, step : Steps, user : Users, workspace : W,
                 target : Users, found : Roles \cup {None}]
    /\ q.kind = "createInvite" =>
          q \in [kind : {"createInvite"}, step : Steps, user : Users, workspace : W,
                 role : Roles, expires : BOOLEAN]
    /\ q.kind = "revokeInvite" =>
          q \in [kind : {"revokeInvite"}, step : Steps, user : Users, workspace : W,
                 token : Tokens]

\* A request to join knows the token, then the invite, then whom to tell.
AcceptForms(q, W) ==
    q.kind = "accept" =>
        \/ /\ q \in [kind : {"accept"}, step : Steps, user : Users, token : Tokens]
           /\ q.step \in {"invite", "refused"}
        \/ /\ q \in [kind : {"accept"}, step : Steps, user : Users, invite : InviteRow(W),
                     joined : BOOLEAN]
           /\ q.step \in {"existing", "create", "recipients", "done", "failed"}
        \/ /\ q \in [kind : {"accept"}, step : Steps, user : Users, invite : InviteRow(W),
                     joined : {TRUE}, to : SUBSET Users]
           /\ q.step \in {"notify", "done"}

FolderForms(q, W, F) ==
    /\ q.kind = "createFolder" =>
          q \in [kind : {"createFolder"}, step : Steps, user : Users, workspace : W,
                 parent : F \cup {None}]
    /\ q.kind = "moveFolder" =>
          q \in [kind : {"moveFolder"}, step : Steps, user : Users, folder : F,
                 parent : F \cup {None}, cursor : F \cup {None}, visited : SUBSET (F \cup {None})]
    /\ q.kind = "deleteFolder" =>
          q \in [kind : {"deleteFolder"}, step : Steps, user : Users, folder : F]

DocumentForms(q, W, F, D) ==
    /\ q.kind \in {"create", "upload"} =>
          q \in [kind : {"create", "upload"}, step : Steps, user : Users, workspace : W,
                 folder : F \cup {None}, blob : Requests \cup {None}]
    /\ q.kind \in {"copy", "delete"} =>
          q \in [kind : {"copy", "delete"}, step : Steps, user : Users, id : D,
                 row : DocumentRow(W, F) \cup {None}, blob : Requests \cup {None},
                 content : DOMAIN SeedDocuments \cup Requests \cup {None}]
    /\ q.kind = "move" =>
          q \in [kind : {"move"}, step : Steps, user : Users, id : D,
                 row : DocumentRow(W, F) \cup {None}, blob : {None},
                 workspace : W \cup {Keep}, folder : F \cup {None, Keep}]
    /\ q.kind = "edit" => q \in [kind : {"edit"}, step : Steps, user : Users, id : D]

NoteForms(q, W, D) ==
    /\ q.kind = "report" =>
          q \in [kind : {"report"}, step : Steps, user : Users, document : D,
                 to : SUBSET Users, event : Events, workspace : W \cup {None}]
    /\ q.kind = "markRead" =>
          q \in [kind : {"markRead"}, step : Steps, user : Users, all : BOOLEAN]

AllKinds ==
    {"createWorkspace", "renameWorkspace", "removeWorkspace", "removeMember", "createInvite",
     "revokeInvite", "accept", "createFolder", "moveFolder", "deleteFolder", "create",
     "upload", "copy", "delete", "move", "edit", "report", "markRead"}

Formed(q, W, F, D) ==
    /\ q = Idle \/ (q.kind \in AllKinds /\ q.kind \in Kinds)
    /\ WorkspaceForms(q, W)
    /\ AcceptForms(q, W)
    /\ FolderForms(q, W, F)
    /\ DocumentForms(q, W, F, D)
    /\ NoteForms(q, W, D)

AllFormed ==
    /\ DOMAIN req = Requests
    /\ \A r \in Requests : Formed(req[r], MadeWorkspaces, MadeFolders, MadeDocuments)

LEMMA FormedGrows ==
    ASSUME NEW q, NEW W, NEW F, NEW D, NEW W2, NEW F2, NEW D2,
           W \subseteq W2, F \subseteq F2, D \subseteq D2, Formed(q, W, F, D)
    PROVE  Formed(q, W2, F2, D2)
<1>1. WorkspaceForms(q, W2)
  BY DEF Formed, WorkspaceForms
<1>2. AcceptForms(q, W2)
  BY DEF Formed, AcceptForms, InviteRow
<1>3. FolderForms(q, W2, F2)
  BY DEF Formed, FolderForms
<1>4. DocumentForms(q, W2, F2, D2)
  BY DEF Formed, DocumentForms, DocumentRow
<1>5. NoteForms(q, W2, D2)
  BY DEF Formed, NoteForms
<1> QED  BY <1>1, <1>2, <1>3, <1>4, <1>5 DEF Formed

\* A step that goes on to another statement keeps the rest of the record.
LEMMA GoForms ==
    ASSUME NEW q, NEW W, NEW F, NEW D, NEW s \in Steps, Formed(q, W, F, D),
           s # "slug", q # Idle, q.kind # "accept"
    PROVE  LET p == [q EXCEPT !.step = s]
           IN  Formed(p, W, F, D) /\ p.kind = q.kind /\ p.user = q.user /\ p.step = s
<1> DEFINE p == [q EXCEPT !.step = s]
<1>1. p.kind = q.kind /\ p.user = q.user /\ p.step = s
  BY DEF Formed, WorkspaceForms, FolderForms, DocumentForms, NoteForms, AllKinds
<1>2. WorkspaceForms(p, W)
  BY <1>1 DEF Formed, WorkspaceForms
<1>3. AcceptForms(p, W)
  BY <1>1 DEF AcceptForms
<1>4. FolderForms(p, W, F)
  BY <1>1 DEF Formed, FolderForms
<1>5. DocumentForms(p, W, F, D)
  BY <1>1 DEF Formed, DocumentForms
<1>6. NoteForms(p, W, D)
  BY <1>1 DEF Formed, NoteForms
<1>7. p.kind \in AllKinds /\ p.kind \in Kinds
  BY <1>1 DEF Formed
<1> QED  BY <1>1, <1>2, <1>3, <1>4, <1>5, <1>6, <1>7 DEF Formed

CopyRecords(W, F, D) ==
    [kind : {"copy", "delete"}, step : Steps, user : Users, id : D,
     row : DocumentRow(W, F) \cup {None}, blob : Requests \cup {None},
     content : DOMAIN SeedDocuments \cup Requests \cup {None}]

LEMMA ReadRowFills ==
    ASSUME NEW W, NEW F, NEW D, NEW q \in CopyRecords(W, F, D), NEW x \in DocumentRow(W, F),
           NEW p, p = [q EXCEPT !.row = x, !.step = "member"]
    PROVE  p \in CopyRecords(W, F, D)
<1> DEFINE R == DocumentRow(W, F) \cup {None}
           C == DOMAIN SeedDocuments \cup Requests \cup {None}
           B == Requests \cup {None}
           X == [kind : {"copy", "delete"}, step : Steps, user : Users, id : D, row : R,
                 blob : B, content : C]
<1>1. q \in X /\ CopyRecords(W, F, D) = X
  BY DEF CopyRecords
<1>2. x \in R /\ "member" \in Steps /\ "writeContent" \in Steps
  BY DEF Steps
<1>3. [q EXCEPT !.row = x, !.step = "member"] \in X
  <2> HIDE DEF R, C, B
  <2> QED  BY <1>1, <1>2
<1> HIDE DEF X
<1> QED  BY <1>1, <1>3

LEMMA ReadContentFills ==
    ASSUME NEW W, NEW F, NEW D, NEW q \in CopyRecords(W, F, D),
           NEW x \in DOMAIN SeedDocuments \cup Requests \cup {None},
           NEW p, p = [q EXCEPT !.step = "writeContent", !.content = x]
    PROVE  p \in CopyRecords(W, F, D)
<1> DEFINE R == DocumentRow(W, F) \cup {None}
           C == DOMAIN SeedDocuments \cup Requests \cup {None}
           B == Requests \cup {None}
           X == [kind : {"copy", "delete"}, step : Steps, user : Users, id : D, row : R,
                 blob : B, content : C]
<1>1. q \in X /\ CopyRecords(W, F, D) = X
  BY DEF CopyRecords
<1>2. x \in C /\ "member" \in Steps /\ "writeContent" \in Steps
  BY DEF Steps
<1>3. [q EXCEPT !.step = "writeContent", !.content = x] \in X
  <2> HIDE DEF R, C, B
  <2> QED  BY <1>1, <1>2
<1> HIDE DEF X
<1> QED  BY <1>1, <1>3

\* Every row has been made by now.
RowsMade ==
    /\ DOMAIN workspaces \subseteq MadeWorkspaces
    /\ DOMAIN folders \subseteq MadeFolders
    /\ DOMAIN documents \subseteq MadeDocuments
    /\ DOMAIN invites \subseteq Tokens
    /\ \A d \in DOMAIN contents : contents[d] \in DOMAIN SeedDocuments \cup Requests \cup {None}

\* What has been made stays made.
Onward(q, p) ==
    /\ MakesWorkspace(q) => MakesWorkspace(p)
    /\ MakesFolder(q) => MakesFolder(p)
    /\ MakesDocument(q) => MakesDocument(p)

\* A step of request r, as the other requests see it.
Stepped(r) ==
    /\ DOMAIN req' = Requests
    /\ \A x \in Requests \ {r} : req'[x] = req[x]
    /\ Formed(req'[r], MadeWorkspaces, MadeFolders, MadeDocuments)
    /\ req'[r] # Idle
    /\ req[r] # Idle => req'[r].kind = req[r].kind /\ req'[r].user = req[r].user
    /\ Onward(req[r], req'[r])

LEMMA GoSteps ==
    ASSUME AllFormed, NEW r \in Requests, NEW s \in Steps, s # "slug", Go(r, s),
           req[r] # Idle, req[r].kind # "accept",
           MakesWorkspace(req[r]) => s \in {"owner", "done", "failed"},
           MakesFolder(req[r]) => s \in {"done", "failed"},
           MakesDocument(req[r]) =>
               s \in {"content", "writeContent", "rollback", "discard", "done", "failed"}
    PROVE  Stepped(r)
<1>1. Formed(req[r], MadeWorkspaces, MadeFolders, MadeDocuments)
  BY DEF AllFormed
<1>2. req' = [req EXCEPT ![r] = [req[r] EXCEPT !.step = s]] /\ DOMAIN req = Requests
  BY DEF Go, AllFormed
<1> DEFINE p == [req[r] EXCEPT !.step = s]
<1>3. /\ Formed(p, MadeWorkspaces, MadeFolders, MadeDocuments)
      /\ p.kind = req[r].kind /\ p.user = req[r].user /\ p.step = s
  BY <1>1, GoForms
<1>4. p # Idle
  BY <1>3 DEF Idle, Steps
<1> HIDE DEF p
<1>5. /\ DOMAIN req' = Requests /\ req'[r] = p
      /\ \A x \in Requests \ {r} : req'[x] = req[x]
  BY <1>2 DEF p
<1>6. Onward(req[r], p)
  BY <1>3 DEF Onward, MakesWorkspace, MakesFolder, MakesDocument
<1> QED  BY <1>3, <1>4, <1>5, <1>6 DEF Stepped

\* A check, made before anything is.
LEMMA CheckSteps ==
    ASSUME AllFormed, NEW r \in Requests, NEW ok, NEW s \in Steps, s # "slug",
           Check(r, ok, s), req[r] # Idle, req[r].kind # "accept",
           ~MakesWorkspace(req[r]), ~MakesFolder(req[r]), ~MakesDocument(req[r])
    PROVE  Stepped(r)
<1> DEFINE t == IF ok THEN s ELSE "refused"
<1>1. t \in {s, "refused"}
  OBVIOUS
<1>2. Go(r, t)
  BY DEF Check
<1> HIDE DEF t
<1>3. t \in Steps /\ t # "slug"
  BY <1>1 DEF Steps
<1> QED  BY <1>2, <1>3, GoSteps

\* A record that is filled in.
LEMMA FillSteps ==
    ASSUME AllFormed, NEW r \in Requests, NEW p, req' = [req EXCEPT ![r] = p],
           Formed(p, MadeWorkspaces, MadeFolders, MadeDocuments), p # Idle,
           req[r] # Idle => p.kind = req[r].kind /\ p.user = req[r].user,
           Onward(req[r], p)
    PROVE  Stepped(r)
BY DEF AllFormed, Stepped

LEMMA FillEarly ==
    ASSUME AllFormed, NEW r \in Requests, NEW p, req' = [req EXCEPT ![r] = p],
           Formed(p, MadeWorkspaces, MadeFolders, MadeDocuments),
           p.kind # "none", p.kind = req[r].kind, p.user = req[r].user,
           ~MakesWorkspace(req[r]), ~MakesFolder(req[r]), ~MakesDocument(req[r])
    PROVE  Stepped(r)
<1>1. p # Idle
  BY DEF Idle
<1>2. Onward(req[r], p)
  BY DEF Onward
<1> QED  BY <1>1, <1>2, FillSteps

LEMMA WorkspaceStepped ==
    ASSUME AllFormed, TypeOK, RowsMade, NEW r \in Requests, WorkspaceSteps(r)
    PROVE  Stepped(r)
<1>0. Formed(req[r], MadeWorkspaces, MadeFolders, MadeDocuments) /\ DOMAIN req = Requests
  BY DEF AllFormed
<1> USE DEF At, Idle, MakesWorkspace, MakesFolder, MakesDocument
<1>1. CASE ChooseSlug(r)
  <2> DEFINE p == [req[r] EXCEPT !.step = "create",
                     !.name = IF req[r].name \in Slugs THEN <<req[r].name, r>> ELSE @]
  <2>1. req' = [req EXCEPT ![r] = p] /\ req[r].kind = "createWorkspace" /\ req[r].step = "slug"
    BY <1>1 DEF ChooseSlug
  <2>2. /\ p \in [kind : {"createWorkspace"}, step : Steps, user : Users,
                  name : Names \cup (Names \X Requests)]
        /\ p.step = "create" /\ p.kind = "createWorkspace" /\ p.user = req[r].user
    BY <1>0, <2>1 DEF Formed, WorkspaceForms, Steps
  <2> HIDE DEF p
  <2>3. Formed(p, MadeWorkspaces, MadeFolders, MadeDocuments)
    BY <1>0, <2>1, <2>2
       DEF Formed, WorkspaceForms, AcceptForms, FolderForms, DocumentForms, NoteForms, AllKinds
  <2> QED  BY <2>1, <2>2, <2>3, FillEarly
<1>2. CASE InsertWorkspace(r)
  <2>1. /\ req[r].kind = "createWorkspace" /\ req[r].step = "create"
        /\ Go(r, "failed") \/ Go(r, "owner")
    BY <1>2 DEF InsertWorkspace
  <2> QED  BY <2>1, GoSteps DEF Steps
<1>3. CASE \E ok \in BOOLEAN : InsertOwner(r, ok)
  <2>1. /\ req[r].kind = "createWorkspace" /\ req[r].step = "owner"
        /\ Go(r, "failed") \/ Go(r, "done")
    BY <1>3 DEF InsertOwner
  <2> QED  BY <2>1, GoSteps DEF Steps
<1>4. CASE AssertOwner(r)
  <2> DEFINE s == AfterOwner[req[r].kind]
  <2>1. /\ req[r].kind \in {"renameWorkspace", "removeWorkspace", "removeMember",
                            "createInvite", "revokeInvite"}
        /\ req[r].step = "owner"
        /\ Check(r, IsOwner(req[r].workspace, req[r].user), s)
        /\ s \in {"update", "count", "find", "create", "delete"}
    BY <1>4 DEF AssertOwner, AfterOwner
  <2> HIDE DEF s
  <2>2. s \in Steps /\ s # "slug"
    BY <2>1 DEF Steps
  <2> QED  BY <2>1, <2>2, CheckSteps
<1>5. CASE RenameWorkspace(r)
  <2>1. /\ req[r].kind = "renameWorkspace" /\ req[r].step = "update"
        /\ Go(r, "failed") \/ Go(r, "done")
    BY <1>5 DEF RenameWorkspace
  <2> QED  BY <2>1, GoSteps DEF Steps
<1>6. CASE CountWorkspaces(r)
  <2> DEFINE ok == Cardinality(Membership(req[r].user)) > 1
  <2>1. /\ req[r].kind = "removeWorkspace" /\ req[r].step = "count"
        /\ Check(r, ok, "delete")
    BY <1>6 DEF CountWorkspaces
  <2> HIDE DEF ok
  <2> QED  BY <2>1, CheckSteps DEF Steps
<1>7. CASE RemoveWorkspace(r)
  <2>1. /\ req[r].kind = "removeWorkspace" /\ req[r].step = "delete"
        /\ Go(r, "failed") \/ Go(r, "done")
    BY <1>7 DEF RemoveWorkspace
  <2> QED  BY <2>1, GoSteps DEF Steps
<1>8. CASE FindMember(r)
  <2> DEFINE m == <<req[r].workspace, req[r].target>>
             p == IF m \in DOMAIN members
                     /\ ~(members[m] = "owner" /\ req[r].user = req[r].target)
                  THEN [req[r] EXCEPT !.found = members[m], !.step = "delete"]
                  ELSE [req[r] EXCEPT !.step = "refused"]
  <2>1. /\ req[r].kind = "removeMember" /\ req[r].step = "find"
        /\ req' = [req EXCEPT ![r] = p]
    BY <1>8 DEF FindMember
  <2>2. m \in DOMAIN members => members[m] \in Roles
    BY DEF TypeOK, MembersOK
  <2>3. /\ p \in [kind : {"removeMember"}, step : Steps, user : Users,
                  workspace : MadeWorkspaces, target : Users, found : Roles \cup {None}]
        /\ p.kind = "removeMember" /\ p.user = req[r].user
    BY <1>0, <2>1, <2>2 DEF Formed, WorkspaceForms, Steps
  <2> HIDE DEF p
  <2>4. Formed(p, MadeWorkspaces, MadeFolders, MadeDocuments)
    BY <1>0, <2>1, <2>3
       DEF Formed, WorkspaceForms, AcceptForms, FolderForms, DocumentForms, NoteForms, AllKinds
  <2> QED  BY <2>1, <2>3, <2>4, FillEarly
<1>9. CASE RemoveMember(r)
  <2>1. /\ req[r].kind = "removeMember" /\ req[r].step = "delete"
        /\ Go(r, "failed") \/ Go(r, "done")
    BY <1>9 DEF RemoveMember
  <2> QED  BY <2>1, GoSteps DEF Steps
<1>10. CASE CreateInvite(r)
  <2>1. /\ req[r].kind = "createInvite" /\ req[r].step = "create"
        /\ Go(r, "failed") \/ Go(r, "done")
    BY <1>10 DEF CreateInvite
  <2> QED  BY <2>1, GoSteps DEF Steps
<1>11. CASE RevokeInvite(r)
  <2>1. /\ req[r].kind = "revokeInvite" /\ req[r].step = "delete"
        /\ Go(r, "refused") \/ Go(r, "done")
    BY <1>11 DEF RevokeInvite
  <2> QED  BY <2>1, GoSteps DEF Steps
<1>12. CASE \E expired \in BOOLEAN : ReadInvite(r, expired)
  <2>0. PICK expired \in BOOLEAN : ReadInvite(r, expired)
    BY <1>12
  <2> DEFINE t == req[r].token
             p == IF t \in DOMAIN invites /\ ~expired
                  THEN [kind |-> "accept", step |-> "existing", user |-> req[r].user,
                        invite |-> invites[t], joined |-> FALSE]
                  ELSE [req[r] EXCEPT !.step = "refused"]
  <2>1. /\ req[r].kind = "accept" /\ req[r].step = "invite"
        /\ req' = [req EXCEPT ![r] = p]
    BY <2>0 DEF ReadInvite
  <2>2. t \in DOMAIN invites => invites[t] \in InviteRow(MadeWorkspaces)
    BY DEF TypeOK, InvitesOK, RowsMade, InviteRow
  <2>3. req[r] \in [kind : {"accept"}, step : Steps, user : Users, token : Tokens]
    BY <1>0, <2>1 DEF Formed, AcceptForms
  <2>4. /\ AcceptForms(p, MadeWorkspaces)
        /\ p.kind = "accept" /\ p.user = req[r].user
    <3>1. CASE t \in DOMAIN invites /\ ~expired
      BY <2>2, <2>3, <3>1 DEF AcceptForms, Steps
    <3>2. CASE ~(t \in DOMAIN invites /\ ~expired)
      BY <2>3, <3>2 DEF AcceptForms, Steps
    <3> QED  BY <3>1, <3>2
  <2> HIDE DEF p
  <2>5. Formed(p, MadeWorkspaces, MadeFolders, MadeDocuments)
    BY <1>0, <2>1, <2>4
       DEF Formed, WorkspaceForms, FolderForms, DocumentForms, NoteForms, AllKinds
  <2> QED  BY <2>1, <2>4, <2>5, FillEarly
<1>13. CASE ReadExisting(r)
  <2> DEFINE s == IF IsMember(req[r].invite.workspace, req[r].user) THEN "done" ELSE "create"
             p == [req[r] EXCEPT !.step = s]
  <2>1. /\ req[r].kind = "accept" /\ req[r].step = "existing"
        /\ req' = [req EXCEPT ![r] = p]
    BY <1>13, <1>0 DEF ReadExisting, Go
  <2>2. s \in {"done", "create"}
    OBVIOUS
  <2> HIDE DEF s
  <2>3. req[r] \in [kind : {"accept"}, step : Steps, user : Users,
                   invite : InviteRow(MadeWorkspaces), joined : BOOLEAN]
    BY <1>0, <2>1 DEF Formed, AcceptForms
  <2>4. AcceptForms(p, MadeWorkspaces) /\ p.kind = "accept" /\ p.user = req[r].user
    BY <2>2, <2>3 DEF AcceptForms, Steps
  <2> HIDE DEF p
  <2>5. Formed(p, MadeWorkspaces, MadeFolders, MadeDocuments)
    BY <1>0, <2>1, <2>4
       DEF Formed, WorkspaceForms, FolderForms, DocumentForms, NoteForms, AllKinds
  <2> QED  BY <2>1, <2>4, <2>5, FillEarly
<1>14. CASE Join(r)
  <2> DEFINE Out(s) == [req[r] EXCEPT !.step = s]
             In == [req[r] EXCEPT !.step = "recipients", !.joined = TRUE]
  <2>0. /\ req[r].kind = "accept" /\ req[r].step = "create"
        /\ \/ req' = [req EXCEPT ![r] = Out("done")]
           \/ req' = [req EXCEPT ![r] = Out("failed")]
           \/ req' = [req EXCEPT ![r] = In]
    BY <1>14, <1>0 DEF Join, Go
  <2>1. PICK p \in {Out("done"), Out("failed"), In} : req' = [req EXCEPT ![r] = p]
    BY <2>0
  <2>3. req[r] \in [kind : {"accept"}, step : Steps, user : Users,
                   invite : InviteRow(MadeWorkspaces), joined : BOOLEAN]
    BY <1>0, <2>0 DEF Formed, AcceptForms
  <2>4. AcceptForms(p, MadeWorkspaces) /\ p.kind = "accept" /\ p.user = req[r].user
    BY <2>1, <2>3 DEF AcceptForms, Steps
  <2>5. Formed(p, MadeWorkspaces, MadeFolders, MadeDocuments)
    BY <1>0, <2>0, <2>4
       DEF Formed, WorkspaceForms, FolderForms, DocumentForms, NoteForms, AllKinds
  <2> HIDE DEF Out, In
  <2> QED  BY <2>0, <2>1, <2>4, <2>5, FillEarly
<1> QED
  BY <1>1, <1>2, <1>3, <1>4, <1>5, <1>6, <1>7, <1>8, <1>9, <1>10, <1>11, <1>12, <1>13,
     <1>14 DEF WorkspaceSteps

LEMMA FolderStepped ==
    ASSUME AllFormed, TypeOK, RowsMade, NEW r \in Requests, FolderSteps(r)
    PROVE  Stepped(r)
<1>0. Formed(req[r], MadeWorkspaces, MadeFolders, MadeDocuments) /\ DOMAIN req = Requests
  BY DEF AllFormed
<1> USE DEF At, Idle, MakesWorkspace, MakesFolder, MakesDocument
<1>1. CASE CheckCreator(r)
  <2> DEFINE s == IF req[r].parent = None THEN "create" ELSE "same"
  <2>1. /\ req[r].kind = "createFolder" /\ req[r].step = "member"
        /\ Check(r, IsMember(req[r].workspace, req[r].user), s)
        /\ s \in {"create", "same"}
    BY <1>1 DEF CheckCreator
  <2> HIDE DEF s
  <2>2. s \in Steps /\ s # "slug"
    BY <2>1 DEF Steps
  <2> QED  BY <2>1, <2>2, CheckSteps
<1>2. CASE CheckParent(r)
  <2>1. /\ req[r].kind = "createFolder" /\ req[r].step = "same"
        /\ Check(r, InWorkspace(req[r].parent, req[r].workspace), "create")
    BY <1>2 DEF CheckParent
  <2> QED  BY <2>1, CheckSteps DEF Steps
<1>3. CASE InsertFolder(r)
  <2>1. /\ req[r].kind = "createFolder" /\ req[r].step = "create"
        /\ Go(r, "failed") \/ Go(r, "done")
    BY <1>3 DEF InsertFolder
  <2> QED  BY <2>1, GoSteps DEF Steps
<1>4. CASE ReadFolder(r)
  <2>1. /\ req[r].kind \in {"moveFolder", "deleteFolder"} /\ req[r].step = "folder"
        /\ Check(r, req[r].folder \in DOMAIN folders, "manager")
    BY <1>4 DEF ReadFolder
  <2> QED  BY <2>1, CheckSteps DEF Steps
<1>5. CASE FolderManager(r)
  <2> DEFINE f == req[r].folder
             ok == f \in DOMAIN folders
                     /\ IsManager(folders[f].workspace, folders[f].author, req[r].user)
             s == IF req[r].kind = "deleteFolder" THEN "delete"
                  ELSE IF req[r].parent = None THEN "write" ELSE "same"
  <2>1. /\ req[r].kind \in {"moveFolder", "deleteFolder"} /\ req[r].step = "manager"
        /\ Check(r, ok, s) /\ s \in {"delete", "write", "same"}
    BY <1>5 DEF FolderManager
  <2> HIDE DEF s, ok
  <2>2. s \in Steps /\ s # "slug"
    BY <2>1 DEF Steps
  <2> QED  BY <2>1, <2>2, CheckSteps
<1>6. CASE CheckNewParent(r)
  <2> DEFINE ok == /\ req[r].folder \in DOMAIN folders
                   /\ InWorkspace(req[r].parent, folders[req[r].folder].workspace)
  <2>1. /\ req[r].kind = "moveFolder" /\ req[r].step = "same"
        /\ Check(r, ok, "walk")
    BY <1>6 DEF CheckNewParent
  <2> HIDE DEF ok
  <2> QED  BY <2>1, CheckSteps DEF Steps
<1>7. CASE Walk(r)
  <2> DEFINE c == req[r].cursor
             up == ParentOf(c)
             p == [req[r] EXCEPT !.visited = @ \cup {c}, !.cursor = up,
                                 !.step = IF up = None THEN "write" ELSE @]
  <2>1. /\ req[r].kind = "moveFolder" /\ req[r].step = "walk"
        /\ Go(r, "refused") \/ Go(r, "write") \/ req' = [req EXCEPT ![r] = p]
    BY <1>7 DEF Walk
  <2>2. CASE Go(r, "refused") \/ Go(r, "write")
    BY <2>1, <2>2, GoSteps DEF Steps
  <2>3. CASE req' = [req EXCEPT ![r] = p]
    <3>1. up \in MadeFolders \cup {None}
      BY DEF ParentOf, TypeOK, FoldersOK, RowsMade
    <3>2. /\ p \in [kind : {"moveFolder"}, step : Steps, user : Users, folder : MadeFolders,
                    parent : MadeFolders \cup {None}, cursor : MadeFolders \cup {None},
                    visited : SUBSET (MadeFolders \cup {None})]
          /\ p.kind = "moveFolder" /\ p.user = req[r].user
      BY <1>0, <2>1, <3>1 DEF Formed, FolderForms, Steps
    <3> HIDE DEF p
    <3>3. Formed(p, MadeWorkspaces, MadeFolders, MadeDocuments)
      BY <1>0, <2>1, <3>2
         DEF Formed, WorkspaceForms, AcceptForms, FolderForms, DocumentForms, NoteForms, AllKinds
    <3> QED  BY <2>1, <2>3, <3>2, <3>3, FillEarly
  <2> QED  BY <2>1, <2>2, <2>3
<1>8. CASE MoveFolder(r)
  <2>1. /\ req[r].kind = "moveFolder" /\ req[r].step = "write"
        /\ Go(r, "failed") \/ Go(r, "done")
    BY <1>8 DEF MoveFolder
  <2> QED  BY <2>1, GoSteps DEF Steps
<1>9. CASE RemoveFolder(r)
  <2>1. /\ req[r].kind = "deleteFolder" /\ req[r].step = "delete"
        /\ Go(r, "failed") \/ Go(r, "done")
    BY <1>9 DEF RemoveFolder
  <2> QED  BY <2>1, GoSteps DEF Steps
<1> QED  BY <1>1, <1>2, <1>3, <1>4, <1>5, <1>6, <1>7, <1>8, <1>9 DEF FolderSteps

LEMMA DocumentStepped ==
    ASSUME AllFormed, TypeOK, RowsMade, NEW r \in Requests, DocumentSteps(r)
    PROVE  Stepped(r)
<1>0. Formed(req[r], MadeWorkspaces, MadeFolders, MadeDocuments) /\ DOMAIN req = Requests
  BY DEF AllFormed
<1> USE DEF At, Idle, MakesWorkspace, MakesFolder, MakesDocument
\* What a step that fills in the record of an upload or a copy has to keep.
<1> DEFINE Record(p) ==
      /\ p.kind = req[r].kind /\ p.user = req[r].user
      /\ p.kind \in {"create", "upload", "copy", "delete", "move"}
      /\ DocumentForms(p, MadeWorkspaces, MadeFolders, MadeDocuments)
<1>a. ASSUME NEW p, Record(p)
      PROVE  Formed(p, MadeWorkspaces, MadeFolders, MadeDocuments)
  <2>1. p.kind \in Kinds /\ p.kind \in AllKinds
    BY <1>0, <1>a DEF Formed, AllKinds
  <2>2. /\ p.kind \in {"create", "upload", "copy", "delete", "move"}
        /\ DocumentForms(p, MadeWorkspaces, MadeFolders, MadeDocuments)
    BY <1>a
  <2> QED  BY <2>1, <2>2 DEF Formed, WorkspaceForms, AcceptForms, FolderForms, NoteForms
<1> HIDE DEF Record
<1>b. ASSUME NEW p, req' = [req EXCEPT ![r] = p], Record(p), ~MakesDocument(req[r])
      PROVE  Stepped(r)
  <2>1. /\ p.kind = req[r].kind /\ p.user = req[r].user /\ p.kind # "none"
        /\ ~MakesWorkspace(req[r]) /\ ~MakesFolder(req[r])
    BY <1>b DEF Record
  <2>2. Formed(p, MadeWorkspaces, MadeFolders, MadeDocuments)
    BY <1>a, <1>b
  <2> QED  BY <1>b, <2>1, <2>2, FillEarly
<1>1. CASE CheckMember(r)
  <2> DEFINE s == IF req[r].folder = None THEN FirstWrite(r) ELSE "same"
  <2>1. /\ req[r].kind \in {"create", "upload"} /\ req[r].step = "member"
        /\ Check(r, IsMember(req[r].workspace, req[r].user), s)
        /\ s \in {"put", "insert", "same"}
    BY <1>1 DEF CheckMember, FirstWrite
  <2> HIDE DEF s
  <2>2. s \in Steps /\ s # "slug"
    BY <2>1 DEF Steps
  <2> QED  BY <2>1, <2>2, CheckSteps
<1>2. CASE CheckFolder(r)
  <2>1. /\ req[r].kind \in {"create", "upload"} /\ req[r].step = "same"
        /\ Check(r, InWorkspace(req[r].folder, req[r].workspace), FirstWrite(r))
        /\ FirstWrite(r) \in {"put", "insert"}
    BY <1>2 DEF CheckFolder, FirstWrite
  <2>2. FirstWrite(r) \in Steps /\ FirstWrite(r) # "slug"
    BY <2>1 DEF Steps
  <2> QED  BY <2>1, <2>2, CheckSteps
<1>3. CASE ReadDocument(r)
  <2> DEFINE d == req[r].id
             read == [req[r] EXCEPT !.row = documents[d], !.step = "member"]
             gone == [req[r] EXCEPT !.step = "refused"]
  <2>1. /\ req[r].kind \in {"copy", "move", "delete"} /\ req[r].step = "document"
        /\ \/ d \in DOMAIN documents /\ req' = [req EXCEPT ![r] = read]
           \/ req' = [req EXCEPT ![r] = gone]
    BY <1>0, <1>3 DEF ReadDocument, OfRow
  <2>2. d \in DOMAIN documents => documents[d] \in DocumentRow(MadeWorkspaces, MadeFolders)
    BY DEF TypeOK, DocumentsOK, RowsMade, DocumentRow
  <2>3. ASSUME d \in DOMAIN documents  PROVE Record(read)
    <3>1. read.kind = req[r].kind /\ read.user = req[r].user
      BY <1>0, <2>1 DEF Formed, DocumentForms
    <3>2. CASE req[r].kind = "move"
      BY <1>0, <2>1, <2>2, <2>3, <3>1, <3>2 DEF Record, Formed, DocumentForms, Steps
    <3>3. CASE req[r].kind \in {"copy", "delete"}
      <4>1. req[r] \in CopyRecords(MadeWorkspaces, MadeFolders, MadeDocuments)
        BY <1>0, <3>3 DEF Formed, DocumentForms, CopyRecords
      <4>2. read \in CopyRecords(MadeWorkspaces, MadeFolders, MadeDocuments)
        <5>1. PICK q \in CopyRecords(MadeWorkspaces, MadeFolders, MadeDocuments) : q = req[r]
          BY <4>1
        <5>2. PICK x \in DocumentRow(MadeWorkspaces, MadeFolders) : x = documents[d]
          BY <2>2, <2>3
        <5>3. PICK p : p = [q EXCEPT !.row = x, !.step = "member"]
          OBVIOUS
        <5>4. read = p
          BY <5>1, <5>2, <5>3
        <5>5. p \in CopyRecords(MadeWorkspaces, MadeFolders, MadeDocuments)
          BY <5>3, ReadRowFills, Zenon
        <5> HIDE DEF read
        <5> QED  BY <5>4, <5>5
      <4> HIDE DEF read
      <4> QED  BY <3>1, <3>3, <4>2 DEF Record, DocumentForms, CopyRecords
    <3> QED  BY <2>1, <3>2, <3>3
  <2>4. Record(gone)
    BY <1>0, <2>1 DEF Record, Formed, DocumentForms, Steps
  <2> HIDE DEF read, gone
  <2> QED  BY <2>1, <2>3, <2>4, <1>b
<1>4. CASE CheckAccess(r)
  <2>1. /\ req[r].kind \in {"copy", "move", "delete"} /\ req[r].step = "member"
        /\ Check(r, MayAct(r), FirstStep(r))
        /\ FirstStep(r) \in {"insertCopy", "copyBlob", "remove", "target", "folder", "write"}
    BY <1>4 DEF CheckAccess, OfRow, FirstStep
  <2>2. FirstStep(r) \in Steps /\ FirstStep(r) # "slug"
    BY <2>1 DEF Steps
  <2> QED  BY <2>1, <2>2, CheckSteps
<1>5. CASE CheckTarget(r)
  <2> DEFINE s == IF FilesInto(r) THEN "folder" ELSE "write"
  <2>1. /\ req[r].kind = "move" /\ req[r].step = "target"
        /\ Check(r, IsMember(req[r].workspace, req[r].user), s)
        /\ s \in {"folder", "write"}
    BY <1>5 DEF CheckTarget
  <2> HIDE DEF s
  <2>2. s \in Steps /\ s # "slug"
    BY <2>1 DEF Steps
  <2> QED  BY <2>1, <2>2, CheckSteps
<1>6. CASE CheckTargetFolder(r)
  <2>1. /\ req[r].kind = "move" /\ req[r].step = "folder"
        /\ Check(r, InWorkspace(req[r].folder, Destination(r)), "write")
    BY <1>6 DEF CheckTargetFolder
  <2> QED  BY <2>1, CheckSteps DEF Steps
<1>7. CASE MoveDocument(r)
  <2>1. /\ req[r].kind = "move" /\ req[r].step = "write"
        /\ Go(r, "failed") \/ Go(r, "done")
    BY <1>7 DEF MoveDocument
  <2> QED  BY <2>1, GoSteps DEF Steps
<1>8. CASE RemoveDocument(r)
  <2>1. /\ req[r].kind = "delete" /\ req[r].step = "remove"
        /\ Go(r, "failed") \/ Go(r, "done") \/ Go(r, "blob")
    BY <1>8 DEF RemoveDocument
  <2> QED  BY <2>1, GoSteps DEF Steps
<1>9. CASE \E ok \in BOOLEAN : PutBlob(r, ok)
  <2> DEFINE put == [req[r] EXCEPT !.blob = r, !.step = "insert"]
             out == [req[r] EXCEPT !.step = "failed"]
  <2>1. /\ req[r].kind = "upload" /\ req[r].step = "put"
        /\ req' = [req EXCEPT ![r] = put] \/ Go(r, "failed")
    BY <1>0, <1>9 DEF PutBlob, Go
  <2>2. Record(put)
    BY <1>0, <2>1 DEF Record, Formed, DocumentForms, Steps
  <2> HIDE DEF put
  <2> QED  BY <2>1, <2>2, <1>b, GoSteps DEF Steps
<1>10. CASE \E ok \in BOOLEAN : InsertDocument(r, ok)
  <2>1. /\ req[r].kind \in {"create", "upload"} /\ req[r].step = "insert"
        /\ Go(r, "done") \/ Go(r, "failed") \/ Go(r, "discard")
    BY <1>10 DEF InsertDocument
  <2> QED  BY <2>1, GoSteps DEF Steps
<1>11. CASE \E ok \in BOOLEAN : DiscardBlob(r, ok)
  <2>1. /\ req[r].kind \in {"upload", "copy"} /\ req[r].step = "discard"
        /\ Go(r, "failed")
    BY <1>11 DEF DiscardBlob
  <2> QED  BY <2>1, GoSteps DEF Steps
<1>12. CASE \E ok \in BOOLEAN : RemoveBlob(r, ok)
  <2>1. /\ req[r].kind = "delete" /\ req[r].step = "blob" /\ Go(r, "done")
    BY <1>12 DEF RemoveBlob
  <2> QED  BY <2>1, GoSteps DEF Steps
<1>13. CASE \E ok \in BOOLEAN : CopyBlob(r, ok)
  <2> DEFINE put == [req[r] EXCEPT !.blob = r, !.step = "insertCopy"]
  <2>1. /\ req[r].kind = "copy" /\ req[r].step = "copyBlob"
        /\ req' = [req EXCEPT ![r] = put] \/ Go(r, "failed")
    BY <1>0, <1>13 DEF CopyBlob, Go
  <2>2. Record(put)
    BY <1>0, <2>1 DEF Record, Formed, DocumentForms, Steps
  <2> HIDE DEF put
  <2> QED  BY <2>1, <2>2, <1>b, GoSteps DEF Steps
<1>14. CASE \E ok \in BOOLEAN : InsertCopy(r, ok)
  <2>1. /\ req[r].kind = "copy" /\ req[r].step = "insertCopy"
        /\ Go(r, "content") \/ Go(r, "failed") \/ Go(r, "discard")
    BY <1>14 DEF InsertCopy
  <2> QED  BY <2>1, GoSteps DEF Steps
<1>15. CASE \E ok \in BOOLEAN : ReadContent(r, ok)
  <2> DEFINE d == req[r].id
             read == [req[r] EXCEPT !.step = "writeContent", !.content = contents[d]]
  <2>1. /\ req[r].kind = "copy" /\ req[r].step = "content"
        /\ \/ d \in DOMAIN contents /\ req' = [req EXCEPT ![r] = read]
           \/ Go(r, "done") \/ Go(r, "rollback")
    BY <1>0, <1>15 DEF ReadContent, Go
  <2>2. CASE Go(r, "done") \/ Go(r, "rollback")
    BY <2>1, <2>2, GoSteps DEF Steps
  <2>3. CASE d \in DOMAIN contents /\ req' = [req EXCEPT ![r] = read]
    <3>1. contents[d] \in DOMAIN SeedDocuments \cup Requests \cup {None}
      BY <2>3 DEF RowsMade
    <3>2. Record(read) /\ read.step = "writeContent"
      <4>1. req[r] \in CopyRecords(MadeWorkspaces, MadeFolders, MadeDocuments)
        BY <1>0, <2>1 DEF Formed, DocumentForms, CopyRecords
      <4>2. read \in CopyRecords(MadeWorkspaces, MadeFolders, MadeDocuments)
        <5>1. PICK q \in CopyRecords(MadeWorkspaces, MadeFolders, MadeDocuments) : q = req[r]
          BY <4>1
        <5>2. PICK x \in DOMAIN SeedDocuments \cup Requests \cup {None} : x = contents[d]
          BY <3>1
        <5>3. PICK p : p = [q EXCEPT !.step = "writeContent", !.content = x]
          OBVIOUS
        <5>4. read = p
          BY <5>1, <5>2, <5>3
        <5>5. p \in CopyRecords(MadeWorkspaces, MadeFolders, MadeDocuments)
          BY <5>3, ReadContentFills, Zenon
        <5> HIDE DEF read
        <5> QED  BY <5>4, <5>5
      <4>3. read.kind = "copy" /\ read.user = req[r].user /\ read.step = "writeContent"
        BY <2>1, <4>1 DEF CopyRecords
      <4> HIDE DEF read
      <4> QED  BY <2>1, <4>2, <4>3 DEF Record, DocumentForms, CopyRecords
    <3>3. read.kind = "copy" /\ read.user = req[r].user
      BY <2>1, <3>2 DEF Record
    <3> HIDE DEF read
    <3>4. Formed(read, MadeWorkspaces, MadeFolders, MadeDocuments)
      BY <3>2, <1>a
    <3>5. Onward(req[r], read) /\ read # Idle
      BY <2>1, <3>2, <3>3 DEF Onward
    <3> QED  BY <2>1, <2>3, <3>3, <3>4, <3>5, FillSteps
  <2> QED  BY <2>1, <2>2, <2>3
<1>16. CASE \E ok \in BOOLEAN : RollBack(r, ok)
  <2>1. /\ req[r].kind = "copy" /\ req[r].step = "rollback"
        /\ Go(r, "failed") \/ Go(r, "discard")
    BY <1>16 DEF RollBack
  <2> QED  BY <2>1, GoSteps DEF Steps
<1>17. CASE \E ok, written \in BOOLEAN : WriteContent(r, ok, written)
  <2>1. /\ req[r].kind = "copy" /\ req[r].step = "writeContent"
        /\ Go(r, "done") \/ Go(r, "rollback")
    BY <1>17 DEF WriteContent
  <2> QED  BY <2>1, GoSteps DEF Steps
<1> QED
  BY <1>1, <1>2, <1>3, <1>4, <1>5, <1>6, <1>7, <1>8, <1>9, <1>10, <1>11, <1>12, <1>13,
     <1>14, <1>15, <1>16, <1>17 DEF DocumentSteps

LEMMA NoteStepped ==
    ASSUME AllFormed, TypeOK, RowsMade, NEW r \in Requests, NoteSteps(r)
    PROVE  Stepped(r)
<1>0. Formed(req[r], MadeWorkspaces, MadeFolders, MadeDocuments) /\ DOMAIN req = Requests
  BY DEF AllFormed
<1> USE DEF At, Idle, MakesWorkspace, MakesFolder, MakesDocument
<1>1. CASE ReadOwners(r)
  <2> DEFINE to == JoinRecipients(r)
             p == [kind |-> "accept", step |-> "notify", user |-> req[r].user,
                   invite |-> req[r].invite, joined |-> TRUE, to |-> to]
  <2>1. /\ req[r].kind = "accept" /\ req[r].step = "recipients"
        /\ req' = [req EXCEPT ![r] = p]
    BY <1>0, <1>1 DEF ReadOwners
  <2>2. req[r].invite \in InviteRow(MadeWorkspaces) /\ req[r].user \in Users
    BY <1>0, <2>1 DEF Formed, AcceptForms
  <2>3. to \subseteq Users
    BY <2>2 DEF JoinRecipients, InviteRow
  <2> HIDE DEF to
  <2>4. AcceptForms(p, MadeWorkspaces) /\ p.kind = "accept" /\ p.user = req[r].user
    BY <2>2, <2>3 DEF AcceptForms, Steps
  <2> HIDE DEF p
  <2>5. Formed(p, MadeWorkspaces, MadeFolders, MadeDocuments)
    BY <1>0, <2>1, <2>4
       DEF Formed, WorkspaceForms, FolderForms, DocumentForms, NoteForms, AllKinds
  <2> QED  BY <2>1, <2>4, <2>5, FillEarly
<1>2. CASE \E ok \in BOOLEAN : NotifyJoin(r, ok)
  <2> DEFINE p == [req[r] EXCEPT !.step = "done"]
  <2>1. /\ req[r].kind = "accept" /\ req[r].step = "notify"
        /\ req' = [req EXCEPT ![r] = p]
    BY <1>0, <1>2 DEF NotifyJoin, Go
  <2>3. req[r] \in [kind : {"accept"}, step : Steps, user : Users,
                   invite : InviteRow(MadeWorkspaces), joined : {TRUE}, to : SUBSET Users]
    BY <1>0, <2>1 DEF Formed, AcceptForms
  <2>4. AcceptForms(p, MadeWorkspaces) /\ p.kind = "accept" /\ p.user = req[r].user
    BY <2>3 DEF AcceptForms, Steps
  <2> HIDE DEF p
  <2>5. Formed(p, MadeWorkspaces, MadeFolders, MadeDocuments)
    BY <1>0, <2>1, <2>4
       DEF Formed, WorkspaceForms, FolderForms, DocumentForms, NoteForms, AllKinds
  <2> QED  BY <2>1, <2>4, <2>5, FillEarly
<1> DEFINE Record(p) ==
      /\ p.kind = "report" /\ p.user = req[r].user
      /\ NoteForms(p, MadeWorkspaces, MadeDocuments)
<1>b. ASSUME NEW p, req' = [req EXCEPT ![r] = p], req[r].kind = "report", Record(p)
      PROVE  Stepped(r)
  <2>1. p.kind \in Kinds /\ p.kind \in AllKinds
    BY <1>0, <1>b DEF Formed, AllKinds
  <2>2. Formed(p, MadeWorkspaces, MadeFolders, MadeDocuments)
    BY <1>b, <2>1 DEF Formed, WorkspaceForms, AcceptForms, FolderForms, DocumentForms
  <2>3. /\ p.kind = req[r].kind /\ p.user = req[r].user /\ p.kind # "none"
        /\ ~MakesWorkspace(req[r]) /\ ~MakesFolder(req[r]) /\ ~MakesDocument(req[r])
    BY <1>b
  <2> QED  BY <1>b, <2>2, <2>3, FillEarly
<1> HIDE DEF Record
<1>3. CASE ReadReported(r)
  <2> DEFINE w == documents[req[r].document].workspace
             read == [req[r] EXCEPT !.workspace = w, !.step = "members"]
             gone == [req[r] EXCEPT !.step = "refused"]
  <2>1. /\ req[r].kind = "report" /\ req[r].step = "document"
        /\ \/ req[r].document \in DOMAIN documents /\ req' = [req EXCEPT ![r] = read]
           \/ req' = [req EXCEPT ![r] = gone]
    BY <1>0, <1>3 DEF ReadReported
  <2>2. req[r].document \in DOMAIN documents => w \in MadeWorkspaces
    BY DEF TypeOK, DocumentsOK, RowsMade
  <2> HIDE DEF w
  <2>3. req[r].document \in DOMAIN documents => Record(read)
    BY <1>0, <2>1, <2>2 DEF Record, Formed, NoteForms, Steps
  <2>4. Record(gone)
    BY <1>0, <2>1 DEF Record, Formed, NoteForms, Steps
  <2> HIDE DEF read, gone
  <2> QED  BY <2>1, <2>3, <2>4, <1>b
<1>4. CASE KeepMembers(r)
  <2> DEFINE to == {u \in req[r].to : IsMember(req[r].workspace, u)}
             read == [req[r] EXCEPT !.to = to, !.step = "notify"]
             gone == [req[r] EXCEPT !.step = "refused"]
  <2>1. /\ req[r].kind = "report" /\ req[r].step = "members"
        /\ req' = [req EXCEPT ![r] = read] \/ req' = [req EXCEPT ![r] = gone]
    BY <1>0, <1>4 DEF KeepMembers
  <2>2. to \subseteq Users
    BY <1>0, <2>1 DEF Formed, NoteForms
  <2> HIDE DEF to
  <2>3. Record(read)
    BY <1>0, <2>1, <2>2 DEF Record, Formed, NoteForms, Steps
  <2>4. Record(gone)
    BY <1>0, <2>1 DEF Record, Formed, NoteForms, Steps
  <2> HIDE DEF read, gone
  <2> QED  BY <2>1, <2>3, <2>4, <1>b
<1>5. CASE NotifyComment(r)
  <2>1. /\ req[r].kind = "report" /\ req[r].step = "notify"
        /\ Go(r, "failed") \/ Go(r, "done")
    BY <1>5 DEF NotifyComment
  <2> QED  BY <2>1, GoSteps DEF Steps
<1>6. CASE \E marked \in {0, 1} : ReadReply(r, marked)
  <2>1. req[r].kind = "markRead" /\ req[r].step = "reply" /\ Go(r, "done")
    BY <1>6 DEF ReadReply
  <2> QED  BY <2>1, GoSteps DEF Steps
<1> QED  BY <1>1, <1>2, <1>3, <1>4, <1>5, <1>6 DEF NoteSteps

\* A request that arrives.
LEMMA Arrives ==
    ASSUME AllFormed, NEW r \in Requests, NEW p, Arrive(r, p), p.kind \in AllKinds,
           WorkspaceForms(p, MadeWorkspaces), AcceptForms(p, MadeWorkspaces),
           FolderForms(p, MadeWorkspaces, MadeFolders),
           DocumentForms(p, MadeWorkspaces, MadeFolders, MadeDocuments),
           NoteForms(p, MadeWorkspaces, MadeDocuments)
    PROVE  Stepped(r)
<1>1. req' = [req EXCEPT ![r] = p] /\ req[r] = Idle /\ p.kind \in Kinds
  BY DEF Arrive
<1>2. Formed(p, MadeWorkspaces, MadeFolders, MadeDocuments)
  BY <1>1 DEF Formed
<1>3. p # Idle
  BY DEF Idle, AllKinds
<1>4. Onward(req[r], p)
  BY <1>1 DEF Onward, Idle, MakesWorkspace, MakesFolder, MakesDocument
<1> QED  BY <1>1, <1>2, <1>3, <1>4, FillSteps

LEMMA WorkspaceArrives ==
    ASSUME AllFormed, TypeOK, RowsMade, NEW r \in Requests, NEW u \in Users,
           AskWorkspaces(r, u)
    PROVE  Stepped(r)
<1>0. DOMAIN workspaces \subseteq MadeWorkspaces /\ DOMAIN invites \subseteq Tokens
  BY DEF RowsMade
<1> USE DEF WorkspaceForms, AcceptForms, FolderForms, DocumentForms, NoteForms, AllKinds, Steps
<1>1. CASE \E name \in Names : AskWorkspace(r, u, name)
  <2>1. PICK name \in Names : AskWorkspace(r, u, name)
    BY <1>1
  <2> DEFINE p == [kind |-> "createWorkspace", step |-> "slug", user |-> u, name |-> name]
  <2> QED  BY <2>1, Arrives, p.kind = "createWorkspace" DEF AskWorkspace
<1>2. ASSUME NEW w \in DOMAIN workspaces, NEW name \in Names, AskRename(r, u, w, name)
      PROVE  Stepped(r)
  <2> DEFINE p == [kind |-> "renameWorkspace", step |-> "owner", user |-> u,
                   workspace |-> w, name |-> name]
  <2> QED  BY <1>0, <1>2, Arrives, p.kind = "renameWorkspace" DEF AskRename
<1>3. ASSUME NEW w \in DOMAIN workspaces, AskRemoval(r, u, w)
      PROVE  Stepped(r)
  <2> DEFINE p == [kind |-> "removeWorkspace", step |-> "owner", user |-> u,
                   workspace |-> w]
  <2> QED  BY <1>0, <1>3, Arrives, p.kind = "removeWorkspace" DEF AskRemoval
<1>4. ASSUME NEW w \in DOMAIN workspaces, NEW m \in DOMAIN members, m[1] = w,
             AskRemoveMember(r, u, w, m[2])
      PROVE  Stepped(r)
  <2> DEFINE s == IF u = m[2] THEN "find" ELSE "owner"
             p == [kind |-> "removeMember", user |-> u, workspace |-> w,
                   target |-> m[2], found |-> None, step |-> s]
  <2>1. m[2] \in Users
    BY DEF TypeOK, MembersOK
  <2>2. s \in {"find", "owner"} /\ Arrive(r, p)
    BY <1>4 DEF AskRemoveMember
  <2> HIDE DEF s
  <2> QED  BY <1>0, <2>1, <2>2, Arrives, p.kind = "removeMember"
<1>5. ASSUME NEW w \in DOMAIN workspaces, NEW role \in Roles, NEW expires \in BOOLEAN,
             AskInvite(r, u, w, role, expires)
      PROVE  Stepped(r)
  <2> DEFINE p == [kind |-> "createInvite", step |-> "owner", user |-> u,
                   workspace |-> w, role |-> role, expires |-> expires]
  <2> QED  BY <1>0, <1>5, Arrives, p.kind = "createInvite" DEF AskInvite
<1>6. ASSUME NEW w \in DOMAIN workspaces, NEW t \in DOMAIN invites, AskRevoke(r, u, w, t)
      PROVE  Stepped(r)
  <2> DEFINE p == [kind |-> "revokeInvite", step |-> "owner", user |-> u,
                   workspace |-> w, token |-> t]
  <2> QED  BY <1>0, <1>6, Arrives, p.kind = "revokeInvite" DEF AskRevoke
<1>7. ASSUME NEW t \in DOMAIN invites, AskAccept(r, u, t)
      PROVE  Stepped(r)
  <2> DEFINE p == [kind |-> "accept", step |-> "invite", user |-> u, token |-> t]
  <2> QED  BY <1>0, <1>7, Arrives, p.kind = "accept" DEF AskAccept
<1> QED  BY <1>1, <1>2, <1>3, <1>4, <1>5, <1>6, <1>7 DEF AskWorkspaces

LEMMA FolderArrives ==
    ASSUME AllFormed, TypeOK, RowsMade, NEW r \in Requests, NEW u \in Users,
           AskFolders(r, u)
    PROVE  Stepped(r)
<1>0. DOMAIN workspaces \subseteq MadeWorkspaces /\ DOMAIN folders \subseteq MadeFolders
  BY DEF RowsMade
<1> USE DEF WorkspaceForms, AcceptForms, FolderForms, DocumentForms, NoteForms, AllKinds, Steps
<1>1. PICK parent \in DOMAIN folders \cup {None} :
        \/ \E w \in DOMAIN workspaces : AskFolder(r, u, w, parent)
        \/ \E f \in DOMAIN folders : AskMoveFolder(r, u, f, parent) \/ AskDeleteFolder(r, u, f)
  BY DEF AskFolders
<1>2. ASSUME NEW w \in DOMAIN workspaces, AskFolder(r, u, w, parent)
      PROVE  Stepped(r)
  <2> DEFINE p == [kind |-> "createFolder", step |-> "member", user |-> u,
                   workspace |-> w, parent |-> parent]
  <2> QED  BY <1>0, <1>2, Arrives, p.kind = "createFolder" DEF AskFolder
<1>3. ASSUME NEW f \in DOMAIN folders, AskMoveFolder(r, u, f, parent)
      PROVE  Stepped(r)
  <2> DEFINE p == [kind |-> "moveFolder", step |-> "folder", user |-> u, folder |-> f,
                   parent |-> parent, cursor |-> parent, visited |-> {}]
  <2> QED  BY <1>0, <1>3, Arrives, p.kind = "moveFolder" DEF AskMoveFolder
<1>4. ASSUME NEW f \in DOMAIN folders, AskDeleteFolder(r, u, f)
      PROVE  Stepped(r)
  <2> DEFINE p == [kind |-> "deleteFolder", step |-> "folder", user |-> u, folder |-> f]
  <2> QED  BY <1>0, <1>4, Arrives, p.kind = "deleteFolder" DEF AskDeleteFolder
<1> QED  BY <1>1, <1>2, <1>3, <1>4

LEMMA DocumentArrives ==
    ASSUME AllFormed, TypeOK, RowsMade, NEW r \in Requests, NEW u \in Users,
           AskDocuments(r, u)
    PROVE  Stepped(r)
<1>0. /\ DOMAIN workspaces \subseteq MadeWorkspaces /\ DOMAIN folders \subseteq MadeFolders
      /\ DOMAIN documents \subseteq MadeDocuments
  BY DEF RowsMade
<1> USE DEF WorkspaceForms, AcceptForms, FolderForms, DocumentForms, NoteForms, AllKinds, Steps
<1>1. ASSUME NEW kind \in {"create", "upload"}, NEW w \in DOMAIN workspaces,
             NEW f \in DOMAIN folders \cup {None}, AskDocument(r, kind, u, w, f)
      PROVE  Stepped(r)
  <2> DEFINE p == [kind |-> kind, step |-> "member", user |-> u, workspace |-> w,
                   folder |-> f, blob |-> None]
  <2> QED  BY <1>0, <1>1, Arrives, p.kind = kind DEF AskDocument
<1>2. ASSUME NEW d \in DOMAIN documents, NEW kind \in {"copy", "delete"},
             AskAbout(r, kind, u, d)
      PROVE  Stepped(r)
  <2> DEFINE p == [kind |-> kind, step |-> "document", user |-> u, id |-> d,
                   row |-> None, blob |-> None, content |-> None]
  <2> QED  BY <1>0, <1>2, Arrives, p.kind = kind DEF AskAbout
<1>3. ASSUME NEW d \in DOMAIN documents, Edit(r, u, d)
      PROVE  Stepped(r)
  <2> DEFINE p == [kind |-> "edit", step |-> "done", user |-> u, id |-> d]
  <2> QED  BY <1>0, <1>3, Arrives, p.kind = "edit" DEF Edit
<1>4. ASSUME NEW d \in DOMAIN documents, NEW w \in DOMAIN workspaces \cup {Keep},
             NEW f \in DOMAIN folders \cup {None, Keep}, AskMove(r, u, d, w, f)
      PROVE  Stepped(r)
  <2> DEFINE p == [kind |-> "move", step |-> "document", user |-> u, id |-> d,
                   row |-> None, blob |-> None, workspace |-> w, folder |-> f]
  <2> QED  BY <1>0, <1>4, Arrives, p.kind = "move" DEF AskMove
<1> QED  BY <1>1, <1>2, <1>3, <1>4 DEF AskDocuments

LEMMA NoteArrives ==
    ASSUME AllFormed, TypeOK, RowsMade, NEW r \in Requests, NEW u \in Users,
           AskNotes(r, u)
    PROVE  Stepped(r)
<1>0. DOMAIN documents \subseteq MadeDocuments
  BY DEF RowsMade
<1> USE DEF WorkspaceForms, AcceptForms, FolderForms, DocumentForms, NoteForms, AllKinds, Steps
<1>1. ASSUME NEW d \in DOMAIN documents, NEW e \in Events, AskReport(r, u, d, Users, e)
      PROVE  Stepped(r)
  <2> DEFINE to == Users \ {u}
             p == [kind |-> "report", step |-> "document", user |-> u, document |-> d,
                   to |-> to, event |-> e, workspace |-> None]
  <2>1. to \subseteq Users /\ Arrive(r, p)
    BY <1>1 DEF AskReport
  <2> HIDE DEF to
  <2> QED  BY <1>0, <2>1, Arrives, p.kind = "report"
<1>2. ASSUME NEW ids, NEW here \in BOOLEAN, MarkRead(r, u, ids, here)
      PROVE  Stepped(r)
  <2> DEFINE s == IF here THEN "reply" ELSE "done"
             all == ids = Inbox(u)
             p == [kind |-> "markRead", step |-> s, user |-> u, all |-> all]
  <2>1. s \in {"reply", "done"} /\ all \in BOOLEAN /\ Arrive(r, p)
    BY <1>2 DEF MarkRead
  <2> HIDE DEF s, all
  <2> QED  BY <1>0, <2>1, Arrives, p.kind = "markRead"
<1> QED  BY <1>1, <1>2 DEF AskNotes

-----------------------------------------------------------------------------
(* Every step is the arrival of a request, a statement of one, or a step of *)
(* a badge stream, which touches neither.                                   *)
Asks(r, u) == AskWorkspaces(r, u) \/ AskFolders(r, u) \/ AskDocuments(r, u) \/ AskNotes(r, u)
Acts(r) ==
    \/ req[r] = Idle /\ \E u \in Users : Asks(r, u)
    \/ WorkspaceSteps(r) \/ FolderSteps(r) \/ DocumentSteps(r) \/ NoteSteps(r)

LEMMA NextCases ==
    ASSUME [Next]_vars
    PROVE  UNCHANGED dbVars \/ \E r \in Requests : Acts(r)
<1>1. CASE UNCHANGED vars
  BY <1>1 DEF vars, notifyVars
<1>2. CASE \E r \in Requests, u \in Users : MayArrive(r) /\
             \/ (AskWorkspaces(r, u) \/ AskFolders(r, u) \/ AskDocuments(r, u))
                   /\ UNCHANGED stream
             \/ AskNotes(r, u)
  BY <1>2 DEF MayArrive, Acts, Asks
<1>3. CASE \E r \in Requests : Serve(r)
  BY <1>3 DEF Serve, Acts
<1>4. CASE \E u \in Watchers : Streams(u)
  <2>1. PICK u \in Watchers : Streams(u)
    BY <1>4
  <2>2. ASSUME NEW i, ReadUnread(u, i) \/ ReadLatest(u, i) \/ Deliver(u, i) \/ LoseReading(u, i)
        PROVE  UNCHANGED dbVars
    BY <2>2 DEF ReadUnread, ReadLatest, Deliver, LoseReading
  <2>3. CASE Connect(u) \/ Drop(u) \/ Poll(u)
    BY <2>3 DEF Connect, Drop, Poll
  <2>4. CASE Refetch(u) \/ CountUnread(u) \/ FetchReply(u) \/ LoseFetch(u)
    BY <2>4 DEF Refetch, CountUnread, FetchReply, LoseFetch
  <2> QED  BY <2>1, <2>2, <2>3, <2>4 DEF Streams, Answer
<1> QED  BY <1>1, <1>2, <1>3, <1>4 DEF Next

LEMMA ActsStepped ==
    ASSUME AllFormed, TypeOK, RowsMade, NEW r \in Requests, Acts(r)
    PROVE  Stepped(r)
BY WorkspaceStepped, FolderStepped, DocumentStepped, NoteStepped, WorkspaceArrives,
   FolderArrives, DocumentArrives, NoteArrives DEF Acts, Asks

LEMMA SteppedForms ==
    ASSUME AllFormed, NEW r \in Requests, Stepped(r)
    PROVE  /\ AllFormed'
           /\ MadeWorkspaces \subseteq MadeWorkspaces' /\ MadeFolders \subseteq MadeFolders'
           /\ MadeDocuments \subseteq MadeDocuments'
<1>1. \A x \in Requests : Onward(req[x], req'[x])
  BY DEF Stepped, Onward
<1>2. /\ MadeWorkspaces \subseteq MadeWorkspaces' /\ MadeFolders \subseteq MadeFolders'
      /\ MadeDocuments \subseteq MadeDocuments'
  BY <1>1 DEF Onward, MadeWorkspaces, MadeFolders, MadeDocuments
<1>3. ASSUME NEW x \in Requests
      PROVE  Formed(req'[x], MadeWorkspaces', MadeFolders', MadeDocuments')
  <2>1. Formed(req'[x], MadeWorkspaces, MadeFolders, MadeDocuments)
    BY DEF Stepped, AllFormed
  <2> QED  BY <1>2, <2>1, FormedGrows
<1> QED  BY <1>2, <1>3 DEF AllFormed, Stepped

(* What the requests of one kind leave alone.                               *)
WorkspaceKinds ==
    {"createWorkspace", "renameWorkspace", "removeWorkspace", "removeMember", "createInvite",
     "revokeInvite", "accept"}
FolderKinds == {"createFolder", "moveFolder", "deleteFolder"}
DocumentKinds == {"create", "upload", "copy", "delete", "move"}
NoteKinds == {"accept", "report", "markRead"}

LEMMA WorkspaceFrame ==
    ASSUME NEW r, WorkspaceSteps(r)
    PROVE  /\ req[r].kind \in WorkspaceKinds
           /\ UNCHANGED storage
           /\ RemoveWorkspace(r) \/ UNCHANGED <<folders, documents, notes>>
<1> USE DEF WorkspaceKinds, At, storage, tables, Reads, KeepsFiles
<1>1. CASE ChooseSlug(r) \/ InsertWorkspace(r) \/ \E ok \in BOOLEAN : InsertOwner(r, ok)
  BY <1>1 DEF ChooseSlug, InsertWorkspace, InsertOwner
<1>2. CASE AssertOwner(r)
  BY <1>2 DEF AssertOwner, AfterOwner
<1>3. CASE RenameWorkspace(r) \/ CountWorkspaces(r) \/ RemoveWorkspace(r)
  BY <1>3 DEF RenameWorkspace, CountWorkspaces, RemoveWorkspace
<1>4. CASE FindMember(r) \/ RemoveMember(r) \/ CreateInvite(r) \/ RevokeInvite(r)
  BY <1>4 DEF FindMember, RemoveMember, CreateInvite, RevokeInvite
<1>5. CASE \/ \E expired \in BOOLEAN : ReadInvite(r, expired)
           \/ ReadExisting(r) \/ Join(r)
  BY <1>5 DEF ReadInvite, ReadExisting, Join
<1> QED  BY <1>1, <1>2, <1>3, <1>4, <1>5 DEF WorkspaceSteps

LEMMA FolderFrame ==
    ASSUME NEW r, FolderSteps(r)
    PROVE  /\ req[r].kind \in FolderKinds
           /\ UNCHANGED <<workspaces, members, invites, notes, storage>>
           /\ RemoveFolder(r) \/ UNCHANGED documents
<1> USE DEF FolderKinds, At, storage, tables, Reads, OnlyFolders
<1>1. CASE CheckCreator(r) \/ CheckParent(r) \/ InsertFolder(r)
  BY <1>1 DEF CheckCreator, CheckParent, InsertFolder
<1>2. CASE ReadFolder(r) \/ FolderManager(r) \/ CheckNewParent(r) \/ Walk(r)
  BY <1>2 DEF ReadFolder, FolderManager, CheckNewParent, Walk
<1>3. CASE MoveFolder(r) \/ RemoveFolder(r)
  BY <1>3 DEF MoveFolder, RemoveFolder
<1> QED  BY <1>1, <1>2, <1>3 DEF FolderSteps

LEMMA DocumentFrame ==
    ASSUME NEW r, DocumentSteps(r)
    PROVE  /\ req[r].kind \in DocumentKinds
           /\ UNCHANGED <<workspaces, members, invites, folders>>
           /\ RemoveDocument(r) \/ (\E ok \in BOOLEAN : RollBack(r, ok)) \/ UNCHANGED notes
<1> USE DEF DocumentKinds, At, storage, tables, Reads, OnlyDocuments
<1>1. CASE CheckMember(r) \/ CheckFolder(r) \/ ReadDocument(r) \/ CheckAccess(r)
  BY <1>1 DEF CheckMember, CheckFolder, ReadDocument, CheckAccess, OfRow
<1>2. CASE CheckTarget(r) \/ CheckTargetFolder(r) \/ MoveDocument(r) \/ RemoveDocument(r)
  BY <1>2 DEF CheckTarget, CheckTargetFolder, MoveDocument, RemoveDocument
<1>3. CASE \E ok \in BOOLEAN : PutBlob(r, ok) \/ InsertDocument(r, ok) \/ DiscardBlob(r, ok)
  BY <1>3 DEF PutBlob, InsertDocument, DiscardBlob
<1>4. CASE \E ok \in BOOLEAN : RemoveBlob(r, ok) \/ CopyBlob(r, ok) \/ InsertCopy(r, ok)
  BY <1>4 DEF RemoveBlob, CopyBlob, InsertCopy
<1>5. CASE \E ok \in BOOLEAN : ReadContent(r, ok) \/ RollBack(r, ok)
  BY <1>5 DEF ReadContent, RollBack
<1>6. CASE \E ok, written \in BOOLEAN : WriteContent(r, ok, written)
  BY <1>6 DEF WriteContent
<1> QED  BY <1>1, <1>2, <1>3, <1>4, <1>5, <1>6 DEF DocumentSteps

LEMMA NoteFrame ==
    ASSUME NEW r, NoteSteps(r)
    PROVE  /\ req[r].kind \in NoteKinds
           /\ UNCHANGED <<workspaces, members, invites, folders, documents, storage>>
<1> USE DEF NoteKinds, At, storage, tables, OnlyNotes
<1>1. CASE ReadOwners(r) \/ \E ok \in BOOLEAN : NotifyJoin(r, ok)
  BY <1>1 DEF ReadOwners, NotifyJoin
<1>2. CASE ReadReported(r) \/ KeepMembers(r) \/ NotifyComment(r)
  BY <1>2 DEF ReadReported, KeepMembers, NotifyComment
<1>3. CASE \E marked \in {0, 1} : ReadReply(r, marked)
  BY <1>3 DEF ReadReply
<1> QED  BY <1>1, <1>2, <1>3 DEF NoteSteps

LEMMA ArrivalFrame ==
    ASSUME NEW r, NEW u \in Users, Asks(r, u)
    PROVE  /\ UNCHANGED <<workspaces, members, invites, folders, documents, blobs>>
           /\ (\E d \in DOMAIN documents : Edit(r, u, d)) \/ UNCHANGED contents
           /\ (\E ids, here : MarkRead(r, u, ids, here)) \/ UNCHANGED notes
<1> USE DEF storage, tables, Reads, OnlyNotes
<1>1. CASE AskWorkspaces(r, u)
  BY <1>1 DEF AskWorkspaces, AskWorkspace, AskRename, AskRemoval, AskRemoveMember, AskInvite,
              AskRevoke, AskAccept
<1>2. CASE AskFolders(r, u)
  BY <1>2 DEF AskFolders, AskFolder, AskMoveFolder, AskDeleteFolder
<1>3. CASE AskDocuments(r, u)
  BY <1>3 DEF AskDocuments, AskDocument, AskAbout, AskMove, Edit
<1>4. CASE AskNotes(r, u)
  BY <1>4 DEF AskNotes, AskReport, MarkRead
<1> QED  BY <1>1, <1>2, <1>3, <1>4 DEF Asks

(* Which statements change which table.                                     *)
LEMMA WorkspacesChange ==
    ASSUME NEW r, Acts(r)
    PROVE  \/ UNCHANGED workspaces
           \/ InsertWorkspace(r) \/ RenameWorkspace(r) \/ RemoveWorkspace(r)
<1>1. CASE WorkspaceSteps(r)
  BY <1>1 DEF WorkspaceSteps, ChooseSlug, InsertOwner, AssertOwner, CountWorkspaces, FindMember,
     RemoveMember, CreateInvite, RevokeInvite, ReadInvite, ReadExisting, Join, Reads, tables
<1> QED  BY <1>1, FolderFrame, DocumentFrame, NoteFrame, ArrivalFrame DEF Acts

LEMMA MembersChange ==
    ASSUME NEW r, Acts(r)
    PROVE  \/ UNCHANGED members
           \/ (\E ok \in BOOLEAN : InsertOwner(r, ok)) \/ RemoveMember(r) \/ Join(r)
           \/ RemoveWorkspace(r)
<1>1. CASE WorkspaceSteps(r)
  BY <1>1 DEF WorkspaceSteps, ChooseSlug, InsertWorkspace, AssertOwner, RenameWorkspace,
     CountWorkspaces, FindMember, CreateInvite, RevokeInvite, ReadInvite, ReadExisting, Reads,
     tables
<1> QED  BY <1>1, FolderFrame, DocumentFrame, NoteFrame, ArrivalFrame DEF Acts

LEMMA InvitesChange ==
    ASSUME NEW r, Acts(r)
    PROVE  UNCHANGED invites \/ CreateInvite(r) \/ RevokeInvite(r) \/ RemoveWorkspace(r)
<1>1. CASE WorkspaceSteps(r)
  BY <1>1 DEF WorkspaceSteps, ChooseSlug, InsertWorkspace, InsertOwner, AssertOwner,
     RenameWorkspace, CountWorkspaces, FindMember, RemoveMember, ReadInvite, ReadExisting, Join,
     Reads, tables
<1> QED  BY <1>1, FolderFrame, DocumentFrame, NoteFrame, ArrivalFrame DEF Acts

LEMMA FoldersChange ==
    ASSUME NEW r, Acts(r)
    PROVE  \/ UNCHANGED folders
           \/ InsertFolder(r) \/ MoveFolder(r) \/ RemoveFolder(r) \/ RemoveWorkspace(r)
<1>1. CASE FolderSteps(r)
  BY <1>1 DEF FolderSteps, CheckCreator, CheckParent, ReadFolder, FolderManager, CheckNewParent,
     Walk, Reads, tables
<1> QED  BY <1>1, WorkspaceFrame, DocumentFrame, NoteFrame, ArrivalFrame DEF Acts

LEMMA DocumentsChange ==
    ASSUME NEW r, Acts(r)
    PROVE  \/ UNCHANGED documents
           \/ \E ok \in BOOLEAN : InsertDocument(r, ok) \/ InsertCopy(r, ok) \/ RollBack(r, ok)
           \/ MoveDocument(r) \/ RemoveDocument(r) \/ RemoveFolder(r) \/ RemoveWorkspace(r)
<1>1. CASE DocumentSteps(r)
  BY <1>1 DEF DocumentSteps, CheckMember, CheckFolder, ReadDocument, CheckAccess, CheckTarget,
     CheckTargetFolder, PutBlob, DiscardBlob, RemoveBlob, CopyBlob, ReadContent, WriteContent,
     Reads, tables
<1> QED  BY <1>1, WorkspaceFrame, FolderFrame, NoteFrame, ArrivalFrame DEF Acts

LEMMA BlobsChange ==
    ASSUME NEW r, Acts(r)
    PROVE  \/ UNCHANGED blobs
           \/ \E ok \in BOOLEAN :
                 PutBlob(r, ok) \/ DiscardBlob(r, ok) \/ RemoveBlob(r, ok) \/ CopyBlob(r, ok)
<1>1. CASE DocumentSteps(r)
  BY <1>1 DEF DocumentSteps, CheckMember, CheckFolder, ReadDocument, CheckAccess, CheckTarget,
     CheckTargetFolder, MoveDocument, RemoveDocument, InsertDocument, InsertCopy, ReadContent,
     RollBack, WriteContent, Reads, storage
<1> QED  BY <1>1, WorkspaceFrame, FolderFrame, NoteFrame, ArrivalFrame DEF Acts, storage

LEMMA ContentsChange ==
    ASSUME NEW r, Acts(r)
    PROVE  \/ UNCHANGED contents
           \/ \E ok, written \in BOOLEAN : WriteContent(r, ok, written)
           \/ req[r] = Idle /\ \E u \in Users, d \in DOMAIN documents : Edit(r, u, d)
<1>1. CASE DocumentSteps(r)
  BY <1>1 DEF DocumentSteps, CheckMember, CheckFolder, ReadDocument, CheckAccess, CheckTarget,
     CheckTargetFolder, MoveDocument, RemoveDocument, PutBlob, DiscardBlob, RemoveBlob, CopyBlob,
     InsertDocument, InsertCopy, ReadContent, RollBack, Reads, storage
<1> QED  BY <1>1, WorkspaceFrame, FolderFrame, NoteFrame, ArrivalFrame DEF Acts, storage

LEMMA NotesChange ==
    ASSUME NEW r, Acts(r)
    PROVE  \/ UNCHANGED notes
           \/ (\E ok \in BOOLEAN : NotifyJoin(r, ok)) \/ NotifyComment(r)
           \/ req[r] = Idle /\ \E u \in Users : \E ids, here : MarkRead(r, u, ids, here)
           \/ RemoveDocument(r) \/ (\E ok \in BOOLEAN : RollBack(r, ok)) \/ RemoveWorkspace(r)
<1>1. CASE NoteSteps(r)
  BY <1>1 DEF NoteSteps, ReadOwners, ReadReported, KeepMembers, ReadReply, tables
<1> QED  BY <1>1, WorkspaceFrame, FolderFrame, DocumentFrame, ArrivalFrame DEF Acts

(* Which statements a request of a kind runs.                               *)
LEMMA WorkspaceCases ==
    ASSUME NEW r, WorkspaceSteps(r)
    PROVE  /\ req[r].kind = "createWorkspace" =>
                 \/ ChooseSlug(r) \/ InsertWorkspace(r)
                 \/ (\E ok \in BOOLEAN : InsertOwner(r, ok))
           /\ req[r].kind = "renameWorkspace" =>
                 \/ AssertOwner(r) \/ RenameWorkspace(r)
           /\ req[r].kind = "removeWorkspace" =>
                 \/ AssertOwner(r) \/ CountWorkspaces(r) \/ RemoveWorkspace(r)
           /\ req[r].kind = "removeMember" =>
                 \/ AssertOwner(r) \/ FindMember(r) \/ RemoveMember(r)
           /\ req[r].kind = "createInvite" =>
                 \/ AssertOwner(r) \/ CreateInvite(r)
           /\ req[r].kind = "revokeInvite" =>
                 \/ AssertOwner(r) \/ RevokeInvite(r)
           /\ req[r].kind = "accept" =>
                 \/ (\E expired \in BOOLEAN : ReadInvite(r, expired)) \/ ReadExisting(r)
                 \/ Join(r)
BY DEF WorkspaceSteps, At, AfterOwner, ChooseSlug, InsertWorkspace, InsertOwner, AssertOwner, RenameWorkspace,
     CountWorkspaces, RemoveWorkspace, FindMember, RemoveMember, CreateInvite,
     RevokeInvite, ReadInvite, ReadExisting, Join

LEMMA FolderCases ==
    ASSUME NEW r, FolderSteps(r)
    PROVE  /\ req[r].kind = "createFolder" =>
                 \/ CheckCreator(r) \/ CheckParent(r) \/ InsertFolder(r)
           /\ req[r].kind = "moveFolder" =>
                 \/ ReadFolder(r) \/ FolderManager(r) \/ CheckNewParent(r) \/ Walk(r)
                 \/ MoveFolder(r)
           /\ req[r].kind = "deleteFolder" =>
                 \/ ReadFolder(r) \/ FolderManager(r) \/ RemoveFolder(r)
<1> USE DEF At
<1>1. CASE CheckCreator(r)
  BY <1>1 DEF CheckCreator
<1>2. CASE CheckParent(r)
  BY <1>2 DEF CheckParent
<1>3. CASE InsertFolder(r)
  BY <1>3 DEF InsertFolder
<1>4. CASE ReadFolder(r)
  BY <1>4 DEF ReadFolder
<1>5. CASE FolderManager(r)
  BY <1>5 DEF FolderManager
<1>6. CASE CheckNewParent(r)
  BY <1>6 DEF CheckNewParent
<1>7. CASE Walk(r)
  BY <1>7 DEF Walk
<1>8. CASE MoveFolder(r)
  BY <1>8 DEF MoveFolder
<1>9. CASE RemoveFolder(r)
  BY <1>9 DEF RemoveFolder
<1> QED
  BY <1>1, <1>2, <1>3, <1>4, <1>5, <1>6, <1>7, <1>8, <1>9 DEF FolderSteps

LEMMA DocumentCases ==
    ASSUME NEW r, DocumentSteps(r)
    PROVE  /\ req[r].kind = "create" =>
                 \/ CheckMember(r) \/ CheckFolder(r)
                 \/ (\E ok \in BOOLEAN : InsertDocument(r, ok))
           /\ req[r].kind = "upload" =>
                 \/ CheckMember(r) \/ CheckFolder(r) \/ (\E ok \in BOOLEAN : PutBlob(r, ok))
                 \/ (\E ok \in BOOLEAN : InsertDocument(r, ok))
                 \/ (\E ok \in BOOLEAN : DiscardBlob(r, ok))
           /\ req[r].kind = "copy" =>
                 \/ ReadDocument(r) \/ CheckAccess(r)
                 \/ (\E ok \in BOOLEAN : CopyBlob(r, ok))
                 \/ (\E ok \in BOOLEAN : InsertCopy(r, ok))
                 \/ (\E ok \in BOOLEAN : ReadContent(r, ok))
                 \/ (\E ok, written \in BOOLEAN : WriteContent(r, ok, written))
                 \/ (\E ok \in BOOLEAN : RollBack(r, ok))
                 \/ (\E ok \in BOOLEAN : DiscardBlob(r, ok))
           /\ req[r].kind = "move" =>
                 \/ ReadDocument(r) \/ CheckAccess(r) \/ CheckTarget(r)
                 \/ CheckTargetFolder(r) \/ MoveDocument(r)
           /\ req[r].kind = "delete" =>
                 \/ ReadDocument(r) \/ CheckAccess(r) \/ RemoveDocument(r)
                 \/ (\E ok \in BOOLEAN : RemoveBlob(r, ok))
<1> USE DEF At, OfRow
<1>1. CASE CheckMember(r)
  BY <1>1 DEF CheckMember
<1>2. CASE CheckFolder(r)
  BY <1>2 DEF CheckFolder
<1>3. CASE ReadDocument(r)
  BY <1>3 DEF ReadDocument
<1>4. CASE CheckAccess(r)
  BY <1>4 DEF CheckAccess
<1>5. CASE CheckTarget(r)
  BY <1>5 DEF CheckTarget
<1>6. CASE CheckTargetFolder(r)
  BY <1>6 DEF CheckTargetFolder
<1>7. CASE MoveDocument(r)
  BY <1>7 DEF MoveDocument
<1>8. CASE RemoveDocument(r)
  BY <1>8 DEF RemoveDocument
<1>9. CASE \E ok \in BOOLEAN : PutBlob(r, ok)
  BY <1>9 DEF PutBlob
<1>10. CASE \E ok \in BOOLEAN : InsertDocument(r, ok)
  BY <1>10 DEF InsertDocument
<1>11. CASE \E ok \in BOOLEAN : DiscardBlob(r, ok)
  BY <1>11 DEF DiscardBlob
<1>12. CASE \E ok \in BOOLEAN : RemoveBlob(r, ok)
  BY <1>12 DEF RemoveBlob
<1>13. CASE \E ok \in BOOLEAN : CopyBlob(r, ok)
  BY <1>13 DEF CopyBlob
<1>14. CASE \E ok \in BOOLEAN : InsertCopy(r, ok)
  BY <1>14 DEF InsertCopy
<1>15. CASE \E ok \in BOOLEAN : ReadContent(r, ok)
  BY <1>15 DEF ReadContent
<1>16. CASE \E ok \in BOOLEAN : RollBack(r, ok)
  BY <1>16 DEF RollBack
<1>17. CASE \E ok, written \in BOOLEAN : WriteContent(r, ok, written)
  BY <1>17 DEF WriteContent
<1> QED
  BY <1>1, <1>2, <1>3, <1>4, <1>5, <1>6, <1>7, <1>8, <1>9, <1>10, <1>11, <1>12, <1>13,
     <1>14, <1>15, <1>16, <1>17 DEF DocumentSteps

LEMMA NoteCases ==
    ASSUME NEW r, NoteSteps(r)
    PROVE  /\ req[r].kind = "accept" =>
                 \/ ReadOwners(r) \/ (\E ok \in BOOLEAN : NotifyJoin(r, ok))
           /\ req[r].kind = "report" =>
                 \/ ReadReported(r) \/ KeepMembers(r) \/ NotifyComment(r)
           /\ req[r].kind = "markRead" =>
                 \/ (\E marked \in {0, 1} : ReadReply(r, marked))
BY DEF NoteSteps, At, ReadOwners, NotifyJoin, ReadReported, KeepMembers, NotifyComment, ReadReply

LEMMA ActCases ==
    ASSUME NEW r, Acts(r)
    PROVE  /\ req[r] = Idle => \E u \in Users : Asks(r, u)
           /\ req[r] # Idle => req[r].kind # "edit"
           /\ req[r].kind = "createWorkspace" =>
                 \/ ChooseSlug(r) \/ InsertWorkspace(r)
                 \/ (\E ok \in BOOLEAN : InsertOwner(r, ok))
           /\ req[r].kind = "renameWorkspace" =>
                 \/ AssertOwner(r) \/ RenameWorkspace(r)
           /\ req[r].kind = "removeWorkspace" =>
                 \/ AssertOwner(r) \/ CountWorkspaces(r) \/ RemoveWorkspace(r)
           /\ req[r].kind = "removeMember" =>
                 \/ AssertOwner(r) \/ FindMember(r) \/ RemoveMember(r)
           /\ req[r].kind = "createInvite" =>
                 \/ AssertOwner(r) \/ CreateInvite(r)
           /\ req[r].kind = "revokeInvite" =>
                 \/ AssertOwner(r) \/ RevokeInvite(r)
           /\ req[r].kind = "accept" =>
                 \/ (\E expired \in BOOLEAN : ReadInvite(r, expired)) \/ ReadExisting(r)
                 \/ Join(r) \/ ReadOwners(r) \/ (\E ok \in BOOLEAN : NotifyJoin(r, ok))
           /\ req[r].kind = "createFolder" =>
                 \/ CheckCreator(r) \/ CheckParent(r) \/ InsertFolder(r)
           /\ req[r].kind = "moveFolder" =>
                 \/ ReadFolder(r) \/ FolderManager(r) \/ CheckNewParent(r) \/ Walk(r)
                 \/ MoveFolder(r)
           /\ req[r].kind = "deleteFolder" =>
                 \/ ReadFolder(r) \/ FolderManager(r) \/ RemoveFolder(r)
           /\ req[r].kind = "create" =>
                 \/ CheckMember(r) \/ CheckFolder(r)
                 \/ (\E ok \in BOOLEAN : InsertDocument(r, ok))
           /\ req[r].kind = "upload" =>
                 \/ CheckMember(r) \/ CheckFolder(r) \/ (\E ok \in BOOLEAN : PutBlob(r, ok))
                 \/ (\E ok \in BOOLEAN : InsertDocument(r, ok))
                 \/ (\E ok \in BOOLEAN : DiscardBlob(r, ok))
           /\ req[r].kind = "copy" =>
                 \/ ReadDocument(r) \/ CheckAccess(r)
                 \/ (\E ok \in BOOLEAN : CopyBlob(r, ok))
                 \/ (\E ok \in BOOLEAN : InsertCopy(r, ok))
                 \/ (\E ok \in BOOLEAN : ReadContent(r, ok))
                 \/ (\E ok, written \in BOOLEAN : WriteContent(r, ok, written))
                 \/ (\E ok \in BOOLEAN : RollBack(r, ok))
                 \/ (\E ok \in BOOLEAN : DiscardBlob(r, ok))
           /\ req[r].kind = "move" =>
                 \/ ReadDocument(r) \/ CheckAccess(r) \/ CheckTarget(r)
                 \/ CheckTargetFolder(r) \/ MoveDocument(r)
           /\ req[r].kind = "delete" =>
                 \/ ReadDocument(r) \/ CheckAccess(r) \/ RemoveDocument(r)
                 \/ (\E ok \in BOOLEAN : RemoveBlob(r, ok))
           /\ req[r].kind = "report" =>
                 \/ ReadReported(r) \/ KeepMembers(r) \/ NotifyComment(r)
           /\ req[r].kind = "markRead" =>
                 \/ (\E marked \in {0, 1} : ReadReply(r, marked))
<1> USE DEF WorkspaceKinds, FolderKinds, DocumentKinds, NoteKinds
<1>1. CASE WorkspaceSteps(r)
  BY <1>1, WorkspaceFrame, WorkspaceCases DEF Idle
<1>2. CASE FolderSteps(r)
  BY <1>2, FolderFrame, FolderCases DEF Idle
<1>3. CASE DocumentSteps(r)
  BY <1>3, DocumentFrame, DocumentCases DEF Idle
<1>4. CASE NoteSteps(r)
  BY <1>4, NoteFrame, NoteCases DEF Idle
<1>5. CASE req[r] = Idle /\ \E u \in Users : Asks(r, u)
  BY <1>5 DEF Idle
<1> QED  BY <1>1, <1>2, <1>3, <1>4, <1>5 DEF Acts

-----------------------------------------------------------------------------
(* The tables fit together.                                                 *)

LEMMA NoneIsNoFolder ==
    ASSUME RowsMade
    PROVE  None \notin DOMAIN folders /\ None \notin DOMAIN documents
BY NoneAssumption DEF RowsMade, MadeFolders, MadeDocuments

\* A folder is in its own lineage, and what is above its parent is above it.
LEMMA LineageUp ==
    ASSUME NEW f \in DOMAIN folders
    PROVE  /\ f \in Lineage(f)
           /\ folders[f].parent # None => Lineage(folders[f].parent) \subseteq Lineage(f)
<1>1. f \in Lineage(f)
  BY DEF Lineage
<1>2. ASSUME folders[f].parent # None, NEW g \in Lineage(folders[f].parent)
      PROVE  g \in Lineage(f)
  <2>1. g \in DOMAIN folders
    BY <1>2 DEF Lineage
  <2>2. ASSUME NEW S \in SUBSET DOMAIN folders, f \in S, ClosedUp(S)
        PROVE  g \in S
    <3>1. folders[f].parent \in S
      BY <1>2, <2>2 DEF ClosedUp, ParentOf
    <3> QED  BY <1>2, <2>2, <3>1 DEF Lineage
  <2> QED  BY <2>1, <2>2 DEF Lineage
<1> QED  BY <1>1, <1>2

\* What a delete of folders leaves is not below what it takes.
LEMMA SubtreeLeaves ==
    ASSUME NEW S, NEW f \in DOMAIN folders \ Subtree(S)
    PROVE  /\ f \notin S
           /\ folders[f].parent # None => folders[f].parent \notin Subtree(S)
<1>1. f \notin S
  BY LineageUp DEF Subtree
<1>2. ASSUME folders[f].parent # None, folders[f].parent \in Subtree(S)
      PROVE  FALSE
  <2>1. PICK g \in S : g \in Lineage(folders[f].parent)
    BY <1>2 DEF Subtree
  <2>2. g \in Lineage(f)
    BY <1>2, <2>1, LineageUp
  <2> QED  BY <2>1, <2>2 DEF Subtree
<1> QED  BY <1>1, <1>2

\* A new workspace is nobody's until its owner is made a member.
NobodyIn(w) ==
    /\ \A m \in DOMAIN members : m[1] # w
    /\ \A t \in DOMAIN invites : invites[t].workspace # w
    /\ \A x \in Requests :
          /\ req[x].kind \in {"removeWorkspace", "createInvite"} /\ req[x].workspace = w
               => req[x].step \in {"owner", "refused"}
          /\ req[x].kind = "accept" /\ req[x].step \notin {"invite", "refused"}
               => req[x].invite.workspace # w
NewWorkspaces ==
    \A w \in Requests : At(w, "createWorkspace", "owner") =>
        w \in DOMAIN workspaces /\ NobodyIn(w)

RowsOK == MembersOK /\ InvitesOK /\ FoldersOK /\ DocumentsOK /\ NotesOK
Sound == AllFormed /\ TypeOK /\ RowsMade /\ NewWorkspaces

\* A request that makes a row makes the first one of its name.
LEMMA MakesFirst ==
    ASSUME AllFormed, RowsMade, NEW r \in Requests
    PROVE  /\ ~MakesWorkspace(req[r]) => r \notin MadeWorkspaces /\ r \notin DOMAIN workspaces
           /\ ~MakesFolder(req[r]) => r \notin MadeFolders /\ r \notin DOMAIN folders
           /\ ~MakesDocument(req[r]) => r \notin MadeDocuments /\ r \notin DOMAIN documents
BY FreshAssumption DEF RowsMade, MadeWorkspaces, MadeFolders, MadeDocuments

LEMMA MembersKept ==
    ASSUME Sound, NEW r \in Requests, Acts(r)
    PROVE  MembersOK'
<1>0. MembersOK
  BY DEF Sound, TypeOK
<1>1. CASE UNCHANGED <<members, workspaces>>
  BY <1>0, <1>1 DEF MembersOK
<1>2. CASE UNCHANGED members /\ InsertWorkspace(r)
  BY <1>0, <1>2 DEF MembersOK, InsertWorkspace, Plus
<1>3. CASE UNCHANGED members /\ RenameWorkspace(r)
  BY <1>0, <1>3 DEF MembersOK, RenameWorkspace
<1>4. CASE UNCHANGED workspaces /\ \E ok \in BOOLEAN : InsertOwner(r, ok)
  <2>1. r \in DOMAIN workspaces /\ req[r].user \in Users
    BY <1>4 DEF Sound, NewWorkspaces, InsertOwner, At, AllFormed, Formed, WorkspaceForms
  <2> QED  BY <1>0, <1>4, <2>1 DEF MembersOK, InsertOwner, Plus, Roles
<1>5. CASE UNCHANGED workspaces /\ RemoveMember(r)
  BY <1>0, <1>5 DEF MembersOK, RemoveMember, Less
<1>6. CASE UNCHANGED workspaces /\ Join(r)
  <2>1. req[r].user \in Users /\ req[r].invite.role \in Roles
    BY <1>6 DEF Sound, Join, At, AllFormed, Formed, AcceptForms, InviteRow
  <2> QED  BY <1>0, <1>6, <2>1 DEF MembersOK, Join, Plus
<1>7. CASE RemoveWorkspace(r)
  <2>1. CASE UNCHANGED tables
    BY <1>0, <2>1 DEF MembersOK, tables
  <2>2. CASE DeleteWorkspace(req[r].workspace)
    BY <1>0, <2>2 DEF MembersOK, DeleteWorkspace, Less
  <2> QED  BY <1>7, <2>1, <2>2 DEF RemoveWorkspace
<1>8. InsertWorkspace(r) \/ RenameWorkspace(r) => UNCHANGED members
  BY DEF InsertWorkspace, RenameWorkspace
<1>9. RemoveMember(r) \/ Join(r) \/ (\E ok \in BOOLEAN : InsertOwner(r, ok)) => UNCHANGED workspaces
  BY DEF RemoveMember, Join, InsertOwner
<1> QED
  BY <1>1, <1>2, <1>3, <1>4, <1>5, <1>6, <1>7, <1>8, <1>9, WorkspacesChange, MembersChange

LEMMA InvitesKept ==
    ASSUME Sound, NEW r \in Requests, Acts(r)
    PROVE  InvitesOK'
<1>0. InvitesOK
  BY DEF Sound, TypeOK
<1>1. CASE UNCHANGED <<invites, workspaces>>
  BY <1>0, <1>1 DEF InvitesOK
<1>2. CASE UNCHANGED invites /\ InsertWorkspace(r)
  BY <1>0, <1>2 DEF InvitesOK, InsertWorkspace, Plus
<1>3. CASE UNCHANGED invites /\ RenameWorkspace(r)
  BY <1>0, <1>3 DEF InvitesOK, RenameWorkspace
<1>4. CASE UNCHANGED workspaces /\ CreateInvite(r)
  <2> DEFINE i == [workspace |-> req[r].workspace, role |-> req[r].role, by |-> req[r].user,
                   expires |-> req[r].expires]
  <2>1. req[r].role \in Roles /\ req[r].user \in Users /\ req[r].expires \in BOOLEAN
    BY <1>4 DEF Sound, CreateInvite, At, AllFormed, Formed, WorkspaceForms
  <2>2. UNCHANGED invites \/ (req[r].workspace \in DOMAIN workspaces /\ invites' = Plus(invites, r, i))
    BY <1>4 DEF CreateInvite
  <2>3. req[r].workspace \in DOMAIN workspaces =>
          i \in [workspace : DOMAIN workspaces, role : Roles, by : Users, expires : BOOLEAN]
    BY <2>1
  <2> HIDE DEF i
  <2> QED  BY <1>0, <1>4, <2>2, <2>3 DEF InvitesOK, Plus
<1>5. CASE UNCHANGED workspaces /\ RevokeInvite(r)
  BY <1>0, <1>5 DEF InvitesOK, RevokeInvite, Less
<1>7. CASE RemoveWorkspace(r)
  <2>1. CASE UNCHANGED tables
    BY <1>0, <2>1 DEF InvitesOK, tables
  <2>2. CASE DeleteWorkspace(req[r].workspace)
    BY <1>0, <2>2 DEF InvitesOK, DeleteWorkspace, Less
  <2> QED  BY <1>7, <2>1, <2>2 DEF RemoveWorkspace
<1>8. InsertWorkspace(r) \/ RenameWorkspace(r) => UNCHANGED invites
  BY DEF InsertWorkspace, RenameWorkspace
<1>9. CreateInvite(r) \/ RevokeInvite(r) => UNCHANGED workspaces
  BY DEF CreateInvite, RevokeInvite
<1> QED
  BY <1>1, <1>2, <1>3, <1>4, <1>5, <1>7, <1>8, <1>9, WorkspacesChange, InvitesChange

LEMMA FoldersKept ==
    ASSUME Sound, NEW r \in Requests, Acts(r)
    PROVE  FoldersOK'
<1>0. FoldersOK
  BY DEF Sound, TypeOK
<1>1. CASE UNCHANGED <<folders, workspaces>>
  BY <1>0, <1>1 DEF FoldersOK
<1>2. CASE UNCHANGED folders /\ InsertWorkspace(r)
  BY <1>0, <1>2 DEF FoldersOK, InsertWorkspace, Plus
<1>3. CASE UNCHANGED folders /\ RenameWorkspace(r)
  BY <1>0, <1>3 DEF FoldersOK, RenameWorkspace
<1>4. CASE UNCHANGED workspaces /\ InsertFolder(r)
  <2> DEFINE g == [workspace |-> req[r].workspace, parent |-> req[r].parent,
                   author |-> req[r].user]
  <2>1. req[r].user \in Users
    BY <1>4 DEF Sound, InsertFolder, At, AllFormed, Formed, FolderForms
  <2>2. \/ UNCHANGED folders
        \/ Holds(req[r].workspace, req[r].parent) /\ folders' = Plus(folders, r, g)
    BY <1>4 DEF InsertFolder
  <2>3. Holds(req[r].workspace, req[r].parent) =>
          g \in [workspace : DOMAIN workspaces, parent : DOMAIN folders \cup {None}, author : Users]
    BY <2>1 DEF Holds, FolderExists
  <2> HIDE DEF g
  <2>4. CASE UNCHANGED folders
    BY <1>1, <1>4, <2>4
  <2>5. CASE Holds(req[r].workspace, req[r].parent) /\ folders' = Plus(folders, r, g)
    <3>1. DOMAIN folders' = DOMAIN folders \cup {r}
      BY <2>5 DEF Plus
    <3>2. folders'[r] = g /\ \A f \in DOMAIN folders \ {r} : folders'[f] = folders[f]
      BY <2>5 DEF Plus
    <3> QED  BY <1>0, <1>4, <2>3, <2>5, <3>1, <3>2 DEF FoldersOK
  <2> QED  BY <2>2, <2>4, <2>5
<1>5. CASE UNCHANGED workspaces /\ MoveFolder(r)
  <2>1. \/ UNCHANGED folders
        \/ /\ FolderExists(req[r].parent)
           /\ folders' = [folders EXCEPT ![req[r].folder].parent = req[r].parent]
    BY <1>5 DEF MoveFolder
  <2> QED  BY <1>0, <1>5, <2>1 DEF FoldersOK, FolderExists
<1>6. CASE UNCHANGED workspaces /\ RemoveFolder(r)
  <2>1. CASE folders' = Less(folders, Subtree({req[r].folder}))
    BY <1>0, <1>6, <2>1, SubtreeLeaves DEF FoldersOK, Less
  <2> QED  BY <1>1, <1>6, <2>1 DEF RemoveFolder, DeleteFolders
<1>7. CASE RemoveWorkspace(r)
  <2>1. CASE UNCHANGED tables
    BY <1>0, <2>1 DEF FoldersOK, tables
  <2>2. CASE DeleteWorkspace(req[r].workspace)
    <3> DEFINE w == req[r].workspace
               S == {f \in DOMAIN folders : folders[f].workspace = w}
    <3>1. folders' = Less(folders, Subtree(S)) /\ workspaces' = Less(workspaces, {w})
      BY <2>2 DEF DeleteWorkspace
    <3>2. \A f \in DOMAIN folders \ Subtree(S) : folders[f].workspace # w
      BY SubtreeLeaves
    <3> HIDE DEF S, w
    <3> QED  BY <1>0, <3>1, <3>2, SubtreeLeaves DEF FoldersOK, Less
  <2> QED  BY <1>7, <2>1, <2>2 DEF RemoveWorkspace
<1>8. InsertWorkspace(r) \/ RenameWorkspace(r) => UNCHANGED folders
  BY DEF InsertWorkspace, RenameWorkspace, KeepsFiles
<1>9. InsertFolder(r) \/ MoveFolder(r) \/ RemoveFolder(r) => UNCHANGED workspaces
  BY DEF InsertFolder, MoveFolder, RemoveFolder, OnlyFolders
<1> QED
  BY <1>1, <1>2, <1>3, <1>4, <1>5, <1>6, <1>7, <1>8, <1>9, WorkspacesChange, FoldersChange

\* Only deletes take workspaces, folders and documents away.
LEMMA OnlyDeletesTake ==
    ASSUME NEW r, Acts(r)
    PROVE  \/ RemoveWorkspace(r) \/ RemoveFolder(r)
           \/ DOMAIN workspaces \subseteq DOMAIN workspaces'
                /\ DOMAIN folders \subseteq DOMAIN folders'
<1>1. InsertWorkspace(r) \/ RenameWorkspace(r) => DOMAIN workspaces \subseteq DOMAIN workspaces'
  BY DEF InsertWorkspace, RenameWorkspace, Plus
<1>2. InsertFolder(r) \/ MoveFolder(r) => DOMAIN folders \subseteq DOMAIN folders'
  BY DEF InsertFolder, MoveFolder, Plus
<1> QED  BY <1>1, <1>2, WorkspacesChange, FoldersChange

\* What deleting folders or a workspace does to the documents.
LEMMA FolderDeleteRows ==
    ASSUME NEW r, RemoveFolder(r)
    PROVE  /\ UNCHANGED <<workspaces, notes, blobs, contents>>
           /\ \/ UNCHANGED <<folders, documents>>
              \/ /\ folders' = Less(folders, Subtree({req[r].folder}))
                 /\ documents' = Unfiled(documents, Subtree({req[r].folder}))
BY DEF RemoveFolder, DeleteFolders, storage

LEMMA WorkspaceDeleteRows ==
    ASSUME NEW r, RemoveWorkspace(r)
    PROVE  /\ UNCHANGED <<blobs, contents>>
           /\ \/ UNCHANGED tables
              \/ LET w == req[r].workspace
                     docs == {d \in DOMAIN documents : documents[d].workspace = w}
                     gone == Subtree({f \in DOMAIN folders : folders[f].workspace = w})
                 IN  /\ w \in DOMAIN workspaces
                     /\ workspaces' = Less(workspaces, {w})
                     /\ folders' = Less(folders, gone)
                     /\ documents' = Unfiled(Less(documents, docs), gone)
                     /\ notes' = Less(notes, {n \in DOMAIN notes : notes[n].workspace = w}
                                               \cup NotesOf(docs))
BY DEF RemoveWorkspace, DeleteWorkspace, storage

\* An insert of a document makes its row, or changes nothing.
LEMMA InsertRows ==
    ASSUME NEW r, NEW ok, NEW w, NEW f, NEW b, InsertRow(r, ok, w, f, b)
    PROVE  \/ UNCHANGED documents
           \/ /\ Holds(w, f) /\ DOMAIN documents' = DOMAIN documents \cup {r}
              /\ documents'[r] = [workspace |-> w, folder |-> f, author |-> req[r].user, blob |-> b]
              /\ \A d \in DOMAIN documents \ {r} : documents'[d] = documents[d]
BY DEF InsertRow, Plus

LEMMA DocumentsKept ==
    ASSUME Sound, NEW r \in Requests, Acts(r)
    PROVE  DocumentsOK'
<1>0. DocumentsOK
  BY DEF Sound, TypeOK
<1> DEFINE Row == [workspace : DOMAIN workspaces, author : Users,
                   folder : DOMAIN folders \cup {None}, blob : Rows \cup {None}]
<1>1. CASE /\ UNCHANGED documents /\ DOMAIN workspaces \subseteq DOMAIN workspaces'
           /\ DOMAIN folders \subseteq DOMAIN folders'
  BY <1>0, <1>1 DEF DocumentsOK, Rows
<1>2. CASE RemoveFolder(r)
  <2> DEFINE gone == Subtree({req[r].folder})
  <2>1. CASE UNCHANGED <<folders, documents>>
    BY <1>0, <1>2, <2>1, FolderDeleteRows DEF DocumentsOK, Rows
  <2>2. CASE folders' = Less(folders, gone) /\ documents' = Unfiled(documents, gone)
    <3>1. UNCHANGED workspaces
      BY <1>2, FolderDeleteRows
    <3> HIDE DEF gone
    <3> QED  BY <1>0, <2>2, <3>1 DEF DocumentsOK, Less, Unfiled, Rows
  <2> QED  BY <1>2, <2>1, <2>2, FolderDeleteRows
<1>3. CASE RemoveWorkspace(r)
  <2> DEFINE w == req[r].workspace
             docs == {d \in DOMAIN documents : documents[d].workspace = w}
             gone == Subtree({f \in DOMAIN folders : folders[f].workspace = w})
  <2>1. CASE UNCHANGED tables
    BY <1>0, <2>1 DEF DocumentsOK, Rows, tables
  <2>2. CASE /\ workspaces' = Less(workspaces, {w}) /\ folders' = Less(folders, gone)
             /\ documents' = Unfiled(Less(documents, docs), gone)
    <3>1. \A d \in DOMAIN documents \ docs : documents[d].workspace # w
      OBVIOUS
    <3> HIDE DEF gone, docs, w
    <3> QED  BY <1>0, <2>2, <3>1 DEF DocumentsOK, Less, Unfiled, Rows
  <2> QED  BY <1>3, <2>1, <2>2, WorkspaceDeleteRows
<1>4. CASE /\ UNCHANGED <<workspaces, folders>>
           /\ \E ok \in BOOLEAN : InsertDocument(r, ok) \/ InsertCopy(r, ok)
  <2>1. PICK ok, w, f, b : InsertRow(r, ok, w, f, b) /\ b = req[r].blob
    BY <1>4 DEF InsertDocument, InsertCopy
  <2>2. req[r].user \in Users /\ b \in Rows \cup {None}
    BY <1>4, <2>1 DEF Sound, InsertDocument, InsertCopy, At, AllFormed, Formed, DocumentForms,
                      Rows
  <2> DEFINE row == [workspace |-> w, folder |-> f, author |-> req[r].user, blob |-> b]
  <2>3. Holds(w, f) => row \in Row
    BY <2>2 DEF Holds, FolderExists
  <2> HIDE DEF row, Row
  <2>4. CASE UNCHANGED documents
    BY <1>1, <1>4, <2>4
  <2>5. CASE /\ Holds(w, f) /\ DOMAIN documents' = DOMAIN documents \cup {r}
             /\ documents'[r] = row
             /\ \A d \in DOMAIN documents \ {r} : documents'[d] = documents[d]
    BY <1>0, <1>4, <2>3, <2>5 DEF DocumentsOK, Row, Rows
  <2> QED  BY <2>1, <2>4, <2>5, InsertRows DEF row
<1>5. CASE UNCHANGED <<workspaces, folders>> /\ MoveDocument(r)
  <2> DEFINE d == req[r].id
             row == Moved(r, documents[d])
  <2>1. \/ UNCHANGED documents
        \/ /\ d \in DOMAIN documents /\ Holds(row.workspace, row.folder)
           /\ documents' = [documents EXCEPT ![d] = row]
    BY <1>5 DEF MoveDocument
  <2>2. d \in DOMAIN documents => documents[d] \in Row
    BY <1>0 DEF DocumentsOK
  <2>3. d \in DOMAIN documents /\ Holds(row.workspace, row.folder) => row \in Row
    <3>1. SUFFICES ASSUME d \in DOMAIN documents, Holds(row.workspace, row.folder)
                   PROVE  row \in Row
      OBVIOUS
    <3>2. PICK q \in Row : q = documents[d]
      BY <2>2, <3>1
    <3> DEFINE a == IF req[r].workspace = Keep THEN q.workspace ELSE req[r].workspace
               b == IF req[r].folder # Keep THEN req[r].folder
                    ELSE IF req[r].workspace \notin {Keep, req[r].row.workspace} THEN None
                    ELSE q.folder
    <3>3. row = [q EXCEPT !.workspace = a, !.folder = b]
      BY <3>2 DEF Moved
    <3>4. PICK x, y : x = a /\ y = b
      OBVIOUS
    <3> HIDE DEF a, b, row
    <3>5. row = [q EXCEPT !.workspace = x, !.folder = y]
      BY <3>3, <3>4
    <3>6. row.workspace = x /\ row.folder = y
      BY <3>2, <3>5
    <3>7. x \in DOMAIN workspaces /\ y \in DOMAIN folders \cup {None}
      BY <3>1, <3>6 DEF Holds, FolderExists
    <3> QED  BY <3>2, <3>5, <3>7
  <2> HIDE DEF row, d
  <2> QED  BY <1>0, <1>5, <2>1, <2>3 DEF DocumentsOK, Rows
<1>6. CASE /\ UNCHANGED <<workspaces, folders>>
           /\ RemoveDocument(r) \/ \E ok \in BOOLEAN : RollBack(r, ok)
  <2>1. UNCHANGED documents \/ \E S : documents' = Less(documents, S)
    <3>1. CASE RemoveDocument(r)
      BY <3>1 DEF RemoveDocument, DeleteDocument
    <3>2. CASE \E ok \in BOOLEAN : RollBack(r, ok)
      BY <3>2 DEF RollBack, DeleteDocument
    <3> QED  BY <1>6, <3>1, <3>2
  <2>2. ASSUME NEW S, documents' = Less(documents, S)
        PROVE  DocumentsOK'
    BY <1>0, <1>6, <2>2 DEF DocumentsOK, Less, Rows
  <2> QED  BY <1>1, <1>6, <2>1, <2>2
<1>7. DocumentSteps(r) => UNCHANGED <<workspaces, folders>>
  BY DocumentFrame
<1>8. \/ \E ok \in BOOLEAN : InsertDocument(r, ok) \/ InsertCopy(r, ok) \/ RollBack(r, ok)
      \/ MoveDocument(r) \/ RemoveDocument(r)
      => DocumentSteps(r)
  BY DEF DocumentSteps
<1> QED
  BY <1>1, <1>2, <1>3, <1>4, <1>5, <1>6, <1>7, <1>8, OnlyDeletesTake, DocumentsChange

LEMMA OnlyDeletesTakeDocuments ==
    ASSUME NEW r, Acts(r)
    PROVE  \/ RemoveDocument(r) \/ (\E ok \in BOOLEAN : RollBack(r, ok)) \/ RemoveWorkspace(r)
           \/ DOMAIN documents \subseteq DOMAIN documents'
<1>1. ASSUME NEW ok, InsertDocument(r, ok) \/ InsertCopy(r, ok)
      PROVE  DOMAIN documents \subseteq DOMAIN documents'
  BY <1>1 DEF InsertDocument, InsertCopy, InsertRow, Plus
<1>2. MoveDocument(r) => DOMAIN documents \subseteq DOMAIN documents'
  BY DEF MoveDocument
<1>3. RemoveFolder(r) => DOMAIN documents \subseteq DOMAIN documents'
  BY FolderDeleteRows DEF Unfiled
<1> QED  BY <1>1, <1>2, <1>3, DocumentsChange

\* The rows of a batch of notifications.
Note(u, e, w, d) ==
    [recipient |-> u, event |-> e, key |-> DedupeKey(e), workspace |-> w, document |-> d,
     seq |-> NextSeq, read |-> FALSE]

LEMMA InsertedNotes ==
    ASSUME NEW r, NEW S, NEW e, NEW w, NEW d, Insert(r, S, e, w, d)
    PROVE  /\ \A n \in DOMAIN notes : n \in DOMAIN notes' /\ notes'[n] = notes[n]
           /\ \A n \in DOMAIN notes' \ DOMAIN notes :
                 \E u \in S : ~Clashes(u, e) /\ n = <<r, u>> /\ notes'[n] = Note(u, e, w, d)
           /\ \A u \in S : Clashes(u, e) \/ <<r, u>> \in DOMAIN notes'
<1> DEFINE new == {u \in S : ~Clashes(u, e)}
           ids == {<<r, u>> : u \in new}
           row == [n \in ids |-> Note(n[2], e, w, d)]
<1>1. notes' = [n \in DOMAIN notes \cup DOMAIN row |->
                  IF n \in DOMAIN notes THEN notes[n] ELSE row[n]]
  BY DEF Insert, Note
<1>2. DOMAIN row = ids
  OBVIOUS
<1>3. \A n \in DOMAIN notes : n \in DOMAIN notes' /\ notes'[n] = notes[n]
  BY <1>1
<1>4. ASSUME NEW n \in DOMAIN notes' \ DOMAIN notes
      PROVE  \E u \in S : ~Clashes(u, e) /\ n = <<r, u>> /\ notes'[n] = Note(u, e, w, d)
  <2>1. n \in ids /\ notes'[n] = row[n]
    BY <1>1, <1>2, <1>4
  <2>2. PICK u \in new : n = <<r, u>>
    BY <2>1
  <2>3. row[n] = Note(n[2], e, w, d) /\ n[2] = u
    BY <2>1, <2>2
  <2> QED  BY <2>1, <2>2, <2>3
<1>5. ASSUME NEW u \in S, ~Clashes(u, e)
      PROVE  <<r, u>> \in DOMAIN notes'
  BY <1>1, <1>2, <1>5
<1> QED  BY <1>3, <1>4, <1>5

LEMMA NotesKept ==
    ASSUME Sound, NEW r \in Requests, Acts(r)
    PROVE  NotesOK'
<1>0. NotesOK
  BY DEF Sound, TypeOK
<1>1. CASE /\ UNCHANGED notes /\ DOMAIN workspaces \subseteq DOMAIN workspaces'
           /\ DOMAIN documents \subseteq DOMAIN documents'
  BY <1>0, <1>1 DEF NotesOK
<1>2. ASSUME NEW S \in SUBSET Users, NEW e \in Events \cup {Joined}, NEW w,
             NEW d, Insert(r, S, e, w, d), UNCHANGED <<workspaces, documents>>,
             S = {} \/ (w \in DOMAIN workspaces /\ d \in DOMAIN documents \cup {None})
      PROVE  NotesOK'
  <2>1. ASSUME NEW n \in DOMAIN notes' \ DOMAIN notes
        PROVE  \E u \in Users : notes'[n] = Note(u, e, w, d) /\ w \in DOMAIN workspaces
                                  /\ d \in DOMAIN documents \cup {None}
    BY <1>2, <2>1, InsertedNotes
  <2>2. \A n \in DOMAIN notes : n \in DOMAIN notes' /\ notes'[n] = notes[n]
    BY <1>2, InsertedNotes
  <2>3. \A u : LET n == Note(u, e, w, d)
                IN  /\ n.recipient = u /\ n.workspace = w /\ n.document = d
                    /\ n.event = e /\ n.read = FALSE
    BY DEF Note
  <2>4. SUFFICES ASSUME NEW n \in DOMAIN notes'
                 PROVE  /\ notes'[n].recipient \in Users
                        /\ notes'[n].workspace \in DOMAIN workspaces
                        /\ notes'[n].document \in DOMAIN documents \cup {None}
                        /\ notes'[n].event \in Events \cup {Joined} /\ notes'[n].read \in BOOLEAN
    BY <1>2 DEF NotesOK
  <2>5. CASE n \in DOMAIN notes
    BY <1>0, <2>2, <2>5 DEF NotesOK
  <2>6. CASE n \notin DOMAIN notes
    <3>1. PICK u \in Users : /\ notes'[n] = Note(u, e, w, d) /\ w \in DOMAIN workspaces
                             /\ d \in DOMAIN documents \cup {None}
      BY <2>1, <2>6
    <3>2. /\ notes'[n].recipient = u /\ notes'[n].workspace = w /\ notes'[n].document = d
          /\ notes'[n].event = e /\ notes'[n].read = FALSE
      BY <2>3, <3>1
    <3> QED  BY <1>2, <3>1, <3>2
  <2> QED  BY <2>5, <2>6
<1>3. CASE \E ok \in BOOLEAN : NotifyJoin(r, ok)
  <2>1. UNCHANGED <<workspaces, documents>>
    BY <1>3 DEF NotifyJoin, OnlyNotes
  <2>2. req[r].to \in SUBSET Users
    BY <1>3 DEF NotifyJoin, At, Sound, AllFormed, Formed, AcceptForms
  <2>3. \/ UNCHANGED notes
        \/ /\ Insert(r, req[r].to, Joined, req[r].invite.workspace, None)
           /\ req[r].invite.workspace \in DOMAIN workspaces
    BY <1>3 DEF NotifyJoin
  <2> QED  BY <1>1, <1>2, <2>1, <2>2, <2>3
<1>4. CASE NotifyComment(r)
  <2>1. UNCHANGED <<workspaces, documents>>
    BY <1>4 DEF NotifyComment, OnlyNotes
  <2>2. req[r].to \in SUBSET Users /\ req[r].event \in Events
    BY <1>4 DEF NotifyComment, At, Sound, AllFormed, Formed, NoteForms
  <2>3. \/ UNCHANGED notes
        \/ /\ Insert(r, req[r].to, req[r].event, req[r].workspace, req[r].document)
           /\ \/ req[r].to = {}
              \/ req[r].document \in DOMAIN documents /\ req[r].workspace \in DOMAIN workspaces
    BY <1>4 DEF NotifyComment
  <2> QED  BY <1>1, <1>2, <2>1, <2>2, <2>3
<1>5. CASE \E u \in Users : \E ids, here : MarkRead(r, u, ids, here)
  <2>1. UNCHANGED <<workspaces, documents>>
    BY <1>5 DEF MarkRead, OnlyNotes
  <2>2. /\ DOMAIN notes' = DOMAIN notes
        /\ \A n \in DOMAIN notes : \/ notes'[n] = notes[n]
                                   \/ notes'[n] = [notes[n] EXCEPT !.read = TRUE]
    BY <1>5 DEF MarkRead
  <2>3. ASSUME NEW n \in DOMAIN notes, notes'[n] = [notes[n] EXCEPT !.read = TRUE]
        PROVE  /\ notes'[n].recipient = notes[n].recipient /\ notes'[n].event = notes[n].event
               /\ notes'[n].workspace = notes[n].workspace
               /\ notes'[n].document = notes[n].document
               /\ notes'[n].read = TRUE \/ notes'[n].read = notes[n].read
    BY <2>3
  <2> QED  BY <1>0, <2>1, <2>2, <2>3 DEF NotesOK
<1>6. CASE RemoveDocument(r) \/ \E ok \in BOOLEAN : RollBack(r, ok)
  <2>1. UNCHANGED workspaces
    BY <1>6 DEF RemoveDocument, RollBack
  <2>2. \/ UNCHANGED <<documents, notes>>
        \/ \E d \in {req[r].id, r} : DeleteDocument(d)
    <3>1. CASE RemoveDocument(r)
      BY <3>1 DEF RemoveDocument
    <3>2. CASE \E ok \in BOOLEAN : RollBack(r, ok)
      BY <3>2 DEF RollBack
    <3> QED  BY <1>6, <3>1, <3>2
  <2>3. ASSUME NEW d, DeleteDocument(d)
        PROVE  NotesOK'
    BY <1>0, <2>1, <2>3 DEF NotesOK, DeleteDocument, NotesOf, Less
  <2> QED  BY <1>1, <2>1, <2>2, <2>3
<1>7. CASE RemoveWorkspace(r)
  <2> DEFINE w == req[r].workspace
             docs == {d \in DOMAIN documents : documents[d].workspace = w}
             gone == Subtree({f \in DOMAIN folders : folders[f].workspace = w})
  <2>1. CASE UNCHANGED tables
    BY <1>1, <2>1 DEF tables
  <2>2. CASE /\ workspaces' = Less(workspaces, {w})
             /\ documents' = Unfiled(Less(documents, docs), gone)
             /\ notes' = Less(notes, {n \in DOMAIN notes : notes[n].workspace = w}
                                       \cup NotesOf(docs))
    <3>1. DOMAIN documents' = DOMAIN documents \ docs
      BY <2>2 DEF Unfiled, Less
    <3> HIDE DEF gone, docs, w
    <3> QED  BY <1>0, <2>2, <3>1 DEF NotesOK, Less, NotesOf
  <2> QED  BY <1>7, <2>1, <2>2, WorkspaceDeleteRows
<1>8. RemoveFolder(r) => UNCHANGED workspaces /\ UNCHANGED notes
  BY FolderDeleteRows
<1> QED
  BY <1>1, <1>3, <1>4, <1>5, <1>6, <1>7, <1>8, NotesChange, OnlyDeletesTake,
     OnlyDeletesTakeDocuments

LEMMA GoStep ==
    ASSUME AllFormed, NEW r \in Requests, req[r] # Idle, NEW s, Go(r, s)
    PROVE  /\ req' = [req EXCEPT ![r] = [req[r] EXCEPT !.step = s]]
           /\ req'[r].step = s /\ req'[r].kind = req[r].kind
           /\ {"kind", "step", "user"} \subseteq DOMAIN req[r]
<1>1. Formed(req[r], MadeWorkspaces, MadeFolders, MadeDocuments) /\ DOMAIN req = Requests
  BY DEF AllFormed
<1>2. req' = [req EXCEPT ![r] = [req[r] EXCEPT !.step = s]]
  BY <1>1 DEF Go
<1>3. {"kind", "step", "user"} \subseteq DOMAIN req[r]
  <2>1. CASE req[r].kind \in WorkspaceKinds
    BY <1>1, <2>1 DEF Formed, WorkspaceForms, AcceptForms, WorkspaceKinds
  <2>2. CASE req[r].kind \in FolderKinds
    BY <1>1, <2>2 DEF Formed, FolderForms, FolderKinds
  <2>3. CASE req[r].kind \in DocumentKinds \cup {"edit"}
    BY <1>1, <2>3 DEF Formed, DocumentForms, DocumentKinds
  <2>4. CASE req[r].kind \in {"report", "markRead"}
    BY <1>1, <2>4 DEF Formed, NoteForms
  <2>5. req[r].kind \in AllKinds
    BY <1>1 DEF Formed
  <2> QED  BY <2>1, <2>2, <2>3, <2>4, <2>5 DEF AllKinds, WorkspaceKinds, FolderKinds, DocumentKinds
<1> QED  BY <1>1, <1>2, <1>3

LEMMA MadeKept ==
    ASSUME Sound, NEW r \in Requests, Acts(r)
    PROVE  RowsMade'
<1>0. AllFormed /\ TypeOK /\ RowsMade
  BY DEF Sound
<1>1. Stepped(r)
  BY <1>0, ActsStepped
<1>2. /\ AllFormed'
      /\ MadeWorkspaces \subseteq MadeWorkspaces' /\ MadeFolders \subseteq MadeFolders'
      /\ MadeDocuments \subseteq MadeDocuments'
  BY <1>0, <1>1, SteppedForms
<1>3. DOMAIN workspaces' \subseteq MadeWorkspaces'
  <2>1. CASE InsertWorkspace(r)
    <3>1. CASE UNCHANGED workspaces
      BY <1>0, <1>2, <3>1 DEF RowsMade
    <3>2. CASE Go(r, "owner") /\ workspaces' = Plus(workspaces, r, req[r].name)
      <4>1. req[r].kind = "createWorkspace"
        BY <2>1 DEF InsertWorkspace, At
      <4>2. req'[r].step = "owner" /\ req'[r].kind = "createWorkspace"
        BY <1>0, <3>2, <4>1, GoStep DEF Idle
      <4>3. r \in MadeWorkspaces'
        BY <4>2 DEF MadeWorkspaces, MakesWorkspace
      <4> QED  BY <1>0, <1>2, <3>2, <4>3 DEF RowsMade, Plus
    <3> QED  BY <2>1, <3>1, <3>2 DEF InsertWorkspace
  <2>2. RenameWorkspace(r) => DOMAIN workspaces' = DOMAIN workspaces
    BY DEF RenameWorkspace
  <2>3. RemoveWorkspace(r) => DOMAIN workspaces' \subseteq DOMAIN workspaces
    BY WorkspaceDeleteRows DEF tables, Less
  <2> QED  BY <1>0, <1>2, <2>1, <2>2, <2>3, WorkspacesChange DEF RowsMade
<1>4. DOMAIN folders' \subseteq MadeFolders'
  <2>1. CASE InsertFolder(r)
    <3>1. CASE UNCHANGED folders
      BY <1>0, <1>2, <3>1 DEF RowsMade
    <3>2. CASE Go(r, "done") /\ \E g : folders' = Plus(folders, r, g)
      <4>1. req[r].kind = "createFolder"
        BY <2>1 DEF InsertFolder, At
      <4>2. req'[r].step = "done" /\ req'[r].kind = "createFolder"
        BY <1>0, <3>2, <4>1, GoStep DEF Idle
      <4>3. r \in MadeFolders'
        BY <4>2 DEF MadeFolders, MakesFolder
      <4>4. DOMAIN folders' = DOMAIN folders \cup {r}
        BY <3>2 DEF Plus
      <4> QED  BY <1>0, <1>2, <4>3, <4>4 DEF RowsMade
    <3> QED  BY <2>1, <3>1, <3>2 DEF InsertFolder
  <2>2. MoveFolder(r) => DOMAIN folders' = DOMAIN folders
    BY DEF MoveFolder
  <2>3. RemoveWorkspace(r) => DOMAIN folders' \subseteq DOMAIN folders
    BY WorkspaceDeleteRows DEF tables, Less
  <2>4. RemoveFolder(r) => DOMAIN folders' \subseteq DOMAIN folders
    BY FolderDeleteRows DEF Less
  <2> QED  BY <1>0, <1>2, <2>1, <2>2, <2>3, <2>4, FoldersChange DEF RowsMade
<1>5. DOMAIN documents' \subseteq MadeDocuments'
  <2>1. CASE \E ok \in BOOLEAN : InsertDocument(r, ok) \/ InsertCopy(r, ok)
    <3>1. CASE UNCHANGED documents
      BY <1>0, <1>2, <3>1 DEF RowsMade
    <3>2. CASE DOMAIN documents' = DOMAIN documents \cup {r}
      <4>1. /\ req[r].kind \in {"create", "upload", "copy"}
            /\ Go(r, "done") \/ Go(r, "content")
        BY <2>1, <3>2 DEF InsertDocument, InsertCopy, At
      <4>2. req'[r].step \in {"done", "content"} /\ req'[r].kind \in {"create", "upload", "copy"}
        BY <1>0, <4>1, GoStep DEF Idle
      <4>3. r \in MadeDocuments'
        BY <4>2 DEF MadeDocuments, MakesDocument
      <4> QED  BY <1>0, <1>2, <3>2, <4>3 DEF RowsMade
    <3> QED  BY <2>1, <3>1, <3>2, InsertRows DEF InsertDocument, InsertCopy
  <2>2. MoveDocument(r) => DOMAIN documents' = DOMAIN documents
    BY DEF MoveDocument
  <2>3. RemoveWorkspace(r) => DOMAIN documents' \subseteq DOMAIN documents
    BY WorkspaceDeleteRows DEF tables, Less, Unfiled
  <2>4. RemoveFolder(r) => DOMAIN documents' \subseteq DOMAIN documents
    BY FolderDeleteRows DEF Unfiled
  <2>5. RemoveDocument(r) => DOMAIN documents' \subseteq DOMAIN documents
    BY DEF RemoveDocument, DeleteDocument, Less
  <2>6. (\E ok \in BOOLEAN : RollBack(r, ok)) => DOMAIN documents' \subseteq DOMAIN documents
    BY DEF RollBack, DeleteDocument, Less
  <2> QED
    BY <1>0, <1>2, <2>1, <2>2, <2>3, <2>4, <2>5, <2>6, DocumentsChange DEF RowsMade
<1>6. DOMAIN invites' \subseteq Tokens
  <2>1. CreateInvite(r) => DOMAIN invites' \subseteq DOMAIN invites \cup {r}
    BY DEF CreateInvite, Plus
  <2>2. RevokeInvite(r) => DOMAIN invites' \subseteq DOMAIN invites
    BY DEF RevokeInvite, Less
  <2>3. RemoveWorkspace(r) => DOMAIN invites' \subseteq DOMAIN invites
    BY DEF RemoveWorkspace, DeleteWorkspace, Less, tables
  <2> QED  BY <1>0, <2>1, <2>2, <2>3, InvitesChange DEF RowsMade, Tokens
<1>7. \A d \in DOMAIN contents' : contents'[d] \in DOMAIN SeedDocuments \cup Requests \cup {None}
  <2>1. CASE \E ok, written \in BOOLEAN : WriteContent(r, ok, written)
    <3>1. req[r].content \in DOMAIN SeedDocuments \cup Requests \cup {None}
      BY <1>0, <2>1 DEF WriteContent, At, AllFormed, Formed, DocumentForms
    <3> QED  BY <1>0, <2>1, <3>1 DEF RowsMade, WriteContent, Plus
  <2>2. CASE \E u \in Users, d \in DOMAIN documents : Edit(r, u, d)
    BY <1>0, <2>2 DEF RowsMade, Edit, Plus
  <2> QED  BY <1>0, <2>1, <2>2, ContentsChange DEF RowsMade
<1> QED  BY <1>3, <1>4, <1>5, <1>6, <1>7 DEF RowsMade

LEMMA StorageKept ==
    ASSUME Sound, NEW r \in Requests, Acts(r)
    PROVE  StorageOK'
<1>0. StorageOK /\ RowsMade
  BY DEF Sound, TypeOK
<1>1. blobs' \subseteq Rows
  <2>1. blobs' \subseteq blobs \cup {r}
    BY BlobsChange DEF PutBlob, DiscardBlob, RemoveBlob, CopyBlob
  <2> QED  BY <1>0, <2>1 DEF StorageOK, Rows
<1>2. DOMAIN contents' \subseteq Rows
  <2>1. DOMAIN contents' \subseteq DOMAIN contents \cup {r} \cup DOMAIN documents
    <3>1. ASSUME NEW ok, NEW written, WriteContent(r, ok, written)
          PROVE  DOMAIN contents' \subseteq DOMAIN contents \cup {r}
      BY <3>1 DEF WriteContent, Plus
    <3>2. ASSUME NEW u, NEW d \in DOMAIN documents, Edit(r, u, d)
          PROVE  DOMAIN contents' \subseteq DOMAIN contents \cup {d}
      BY <3>2 DEF Edit, Plus
    <3> QED  BY <3>1, <3>2, ContentsChange
  <2>2. DOMAIN documents \subseteq Rows
    BY <1>0 DEF RowsMade, MadeDocuments, Rows
  <2> QED  BY <1>0, <2>1, <2>2 DEF StorageOK, Rows
<1> QED  BY <1>1, <1>2 DEF StorageOK

\* Where a request starts.
LEMMA ArrivalSteps ==
    ASSUME AllFormed, NEW r \in Requests, NEW u \in Users, Asks(r, u)
    PROVE  /\ req'[r].kind = "createWorkspace" => req'[r].step = "slug"
           /\ req'[r].kind \in {"removeWorkspace", "createInvite"} => req'[r].step = "owner"
           /\ req'[r].kind = "removeMember" => req'[r].step \in {"find", "owner"}
           /\ req'[r].kind = "accept" => req'[r].step = "invite"
           /\ req'[r].kind = "createFolder" => req'[r].step = "member"
           /\ req'[r].kind \in {"moveFolder", "deleteFolder"} => req'[r].step = "folder"
           /\ req'[r].kind \in {"create", "upload"} =>
                 req'[r].step = "member" /\ req'[r].blob = None
           /\ req'[r].kind \in {"copy", "delete", "move"} =>
                 req'[r].step = "document" /\ req'[r].blob = None
           /\ req'[r].kind = "report" => req'[r].step = "document"
<1>0. DOMAIN req = Requests
  BY DEF AllFormed
<1>1. CASE AskWorkspaces(r, u)
  BY <1>0, <1>1 DEF AskWorkspaces, AskWorkspace, AskRename, AskRemoval, AskRemoveMember,
     AskInvite, AskRevoke, AskAccept, Arrive
<1>2. CASE AskFolders(r, u)
  BY <1>0, <1>2 DEF AskFolders, AskFolder, AskMoveFolder, AskDeleteFolder, Arrive
<1>3. CASE AskDocuments(r, u)
  BY <1>0, <1>3 DEF AskDocuments, AskDocument, AskAbout, AskMove, Edit, Arrive
<1>4. CASE AskNotes(r, u)
  BY <1>0, <1>4 DEF AskNotes, AskReport, MarkRead, Arrive
<1> QED  BY <1>1, <1>2, <1>3, <1>4 DEF Asks

\* Nothing knows a workspace that is being made.
LEMMA NobodyYet ==
    ASSUME AllFormed, TypeOK, RowsMade, NEW w, w \notin MadeWorkspaces
    PROVE  NobodyIn(w)
<1>1. w \notin DOMAIN workspaces
  BY DEF RowsMade
<1>2. ASSUME NEW x \in Requests, req[x].kind \in {"removeWorkspace", "createInvite"}
      PROVE  req[x].workspace # w
  BY <1>2 DEF AllFormed, Formed, WorkspaceForms
<1>3. ASSUME NEW x \in Requests, req[x].kind = "accept",
             req[x].step \notin {"invite", "refused"}
      PROVE  req[x].invite.workspace # w
  BY <1>3 DEF AllFormed, Formed, AcceptForms, InviteRow
<1>4. \A m \in DOMAIN members : m[1] # w
  BY <1>1 DEF TypeOK, MembersOK
<1>5. \A t \in DOMAIN invites : invites[t].workspace # w
  BY <1>1 DEF TypeOK, InvitesOK
<1> QED  BY <1>2, <1>3, <1>4, <1>5 DEF NobodyIn

\* A request that is not made for w is not made for it later.
LEMMA RequestStaysOut ==
    ASSUME Sound, NEW r \in Requests, Acts(r), NEW w \in MadeWorkspaces, NobodyIn(w)
    PROVE  /\ req'[r].kind \in {"removeWorkspace", "createInvite"} /\ req'[r].workspace = w
                => req'[r].step \in {"owner", "refused"}
           /\ req'[r].kind = "accept" /\ req'[r].step \notin {"invite", "refused"}
                => req'[r].invite.workspace # w
<1>0. AllFormed /\ DOMAIN req = Requests /\ Stepped(r)
  BY ActsStepped DEF Sound, AllFormed
<1>1. CASE req[r] = Idle
  BY <1>0, <1>1, ActCases, ArrivalSteps
<1>2. CASE req[r] # Idle /\ req'[r].kind \in {"removeWorkspace", "createInvite"}
  <2>1. req[r].kind = req'[r].kind
    BY <1>0, <1>2 DEF Stepped
  <2>2. req[r].kind # "accept" /\ {"kind", "step", "user", "workspace"} \subseteq DOMAIN req[r]
    BY <1>0, <1>2, <2>1 DEF AllFormed, Formed, WorkspaceForms
  <2>3. ASSUME NEW s, Go(r, s), s \in {"owner", "refused"} \/ req[r].workspace # w
        PROVE  req'[r].workspace = w => req'[r].step \in {"owner", "refused"}
    BY <1>0, <2>2, <2>3 DEF Go
  <2>4. CASE req[r].workspace # w
    <3>1. \E s : Go(r, s)
      BY <1>2, <2>1, ActCases DEF AssertOwner, CountWorkspaces, RemoveWorkspace, CreateInvite, Check
    <3> QED  BY <1>2, <2>3, <2>4, <3>1
  <2>5. CASE req[r].workspace = w
    <3>1. req[r].step \in {"owner", "refused"}
      BY <1>2, <2>1, <2>5 DEF NobodyIn
    <3>2. AssertOwner(r)
      BY <1>2, <2>1, <3>1, ActCases DEF CountWorkspaces, RemoveWorkspace, CreateInvite, At
    <3>3. ~IsOwner(w, req[r].user)
      <4>1. \A m \in DOMAIN members : m[1] # w
        BY DEF NobodyIn
      <4>2. <<w, req[r].user>>[1] = w
        OBVIOUS
      <4> QED  BY <4>1, <4>2 DEF IsOwner, IsMember
    <3>4. Go(r, "refused")
      BY <2>5, <3>2, <3>3 DEF AssertOwner, Check
    <3> QED  BY <1>2, <2>3, <3>4
  <2> QED  BY <2>4, <2>5
<1>3. CASE req[r] # Idle /\ req'[r].kind = "accept"
  <2>1. req[r].kind = "accept"
    BY <1>0, <1>3 DEF Stepped
  <2>2. CASE \E expired \in BOOLEAN : ReadInvite(r, expired)
    BY <1>0, <1>3, <2>2 DEF ReadInvite, NobodyIn
  <2>3. CASE \/ ReadExisting(r) \/ Join(r) \/ ReadOwners(r)
             \/ \E ok \in BOOLEAN : NotifyJoin(r, ok)
    <3>1. req[r].step \notin {"invite", "refused"} /\ "invite" \in DOMAIN req[r]
      BY <1>0, <2>1, <2>3
         DEF ReadExisting, Join, ReadOwners, NotifyJoin, At, AllFormed, Formed, AcceptForms
    <3>2. req[r].invite.workspace # w
      BY <2>1, <3>1 DEF NobodyIn
    <3>3. req'[r].invite = req[r].invite
      BY <1>0, <2>3, <3>1 DEF ReadExisting, Join, ReadOwners, NotifyJoin, Go
    <3> QED  BY <1>3, <3>2, <3>3
  <2> QED  BY <2>1, <2>2, <2>3, ActCases
<1> QED  BY <1>1, <1>2, <1>3

LEMMA NewKept ==
    ASSUME Sound, NEW r \in Requests, Acts(r)
    PROVE  NewWorkspaces'
<1>0. AllFormed /\ TypeOK /\ RowsMade /\ NewWorkspaces /\ Stepped(r)
  BY ActsStepped DEF Sound
<1>1. SUFFICES ASSUME NEW w \in Requests, At(w, "createWorkspace", "owner")'
               PROVE  w \in DOMAIN workspaces' /\ NobodyIn(w)'
  BY DEF NewWorkspaces
<1>2. CASE w = r
  <2>1. req[r] # Idle
    BY <1>0, <1>1, <1>2, ActCases, ArrivalSteps DEF At
  <2>2. req[r].kind = "createWorkspace"
    BY <1>0, <1>1, <1>2, <2>1 DEF Stepped, At
  <2>3. InsertWorkspace(r) /\ Go(r, "owner")
    <3>1. ASSUME NEW s, Go(r, s)
          PROVE  s = "owner"
      BY <1>0, <1>1, <1>2, <2>1, <3>1, GoStep DEF At
    <3>2. ~ChooseSlug(r)
      BY <1>0, <1>1, <1>2, <2>2 DEF ChooseSlug, At, AllFormed, Formed, WorkspaceForms
    <3>3. ~\E ok \in BOOLEAN : InsertOwner(r, ok)
      BY <3>1 DEF InsertOwner
    <3> QED  BY <2>2, <3>1, <3>2, <3>3, ActCases DEF InsertWorkspace
  <2>4. w \in DOMAIN workspaces'
    <3>1. ~Go(r, "failed")
      BY <1>0, <1>1, <1>2, <2>1, GoStep DEF At
    <3> QED  BY <1>2, <2>3, <3>1 DEF InsertWorkspace, Plus
  <2>5. r \notin MadeWorkspaces
    BY <1>0, <2>3, MakesFirst DEF InsertWorkspace, At, MakesWorkspace
  <2>6. NobodyIn(r)
    BY <1>0, <2>5, NobodyYet
  <2>7. UNCHANGED <<members, invites>> /\ \A x \in Requests \ {r} : req'[x] = req[x]
    BY <1>0, <2>3 DEF InsertWorkspace, Stepped
  <2>8. req'[r].kind = "createWorkspace"
    BY <1>1, <1>2 DEF At
  <2> QED  BY <1>2, <2>4, <2>6, <2>7, <2>8 DEF NobodyIn
<1>3. CASE w # r
  <2>1. /\ At(w, "createWorkspace", "owner") /\ w \in DOMAIN workspaces /\ NobodyIn(w)
        /\ w \in MadeWorkspaces
    BY <1>0, <1>1, <1>3 DEF Stepped, At, NewWorkspaces, RowsMade
  <2>2. w \in DOMAIN workspaces'
    <3>1. CASE RemoveWorkspace(r)
      <4>1. req[r].workspace # w
        BY <2>1, <3>1 DEF NobodyIn, RemoveWorkspace, At
      <4>2. UNCHANGED workspaces \/ workspaces' = Less(workspaces, {req[r].workspace})
        BY <3>1 DEF RemoveWorkspace, DeleteWorkspace, tables
      <4> QED  BY <2>1, <4>1, <4>2 DEF Less
    <3>2. RemoveFolder(r) => UNCHANGED workspaces
      BY FolderDeleteRows
    <3> QED  BY <2>1, <3>1, <3>2, OnlyDeletesTake
  <2>3. \A m \in DOMAIN members' : m[1] # w
    <3>1. CASE \E ok \in BOOLEAN : InsertOwner(r, ok)
      BY <1>3, <2>1, <3>1 DEF InsertOwner, NobodyIn, Plus
    <3>2. CASE RemoveMember(r)
      BY <2>1, <3>2 DEF RemoveMember, NobodyIn, Less
    <3>3. CASE Join(r)
      BY <2>1, <3>3 DEF Join, At, NobodyIn, Plus
    <3>4. CASE RemoveWorkspace(r)
      BY <2>1, <3>4 DEF RemoveWorkspace, DeleteWorkspace, NobodyIn, Less, tables
    <3>5. CASE UNCHANGED members
      BY <2>1, <3>5 DEF NobodyIn
    <3> QED  BY <3>1, <3>2, <3>3, <3>4, <3>5, MembersChange
  <2>4. \A t \in DOMAIN invites' : invites'[t].workspace # w
    <3>1. CASE CreateInvite(r)
      BY <2>1, <3>1 DEF CreateInvite, At, NobodyIn, Plus
    <3>2. CASE RevokeInvite(r)
      BY <2>1, <3>2 DEF RevokeInvite, NobodyIn, Less
    <3>3. CASE RemoveWorkspace(r)
      BY <2>1, <3>3 DEF RemoveWorkspace, DeleteWorkspace, NobodyIn, Less, tables
    <3>4. CASE UNCHANGED invites
      BY <2>1, <3>4 DEF NobodyIn
    <3> QED  BY <3>1, <3>2, <3>3, <3>4, InvitesChange
  <2>5. ASSUME NEW x \in Requests
        PROVE  /\ req'[x].kind \in {"removeWorkspace", "createInvite"} /\ req'[x].workspace = w
                    => req'[x].step \in {"owner", "refused"}
               /\ req'[x].kind = "accept" /\ req'[x].step \notin {"invite", "refused"}
                    => req'[x].invite.workspace # w
    <3>1. CASE x = r
      BY <2>1, <3>1, RequestStaysOut
    <3>2. CASE x # r
      BY <1>0, <2>1, <3>2 DEF Stepped, NobodyIn
    <3> QED  BY <3>1, <3>2
  <2> QED  BY <2>2, <2>3, <2>4, <2>5 DEF NobodyIn
<1> QED  BY <1>2, <1>3

-----------------------------------------------------------------------------
(* The badge streams.                                                       *)
StreamForm(x) ==
    /\ DOMAIN x = {"open", "mishaps", "readings", "sent", "count", "fetch"}
    /\ x.mishaps \in Nat /\ x.mishaps <= MaxMishaps
    /\ \E S : x.readings \in Seq(S)
    /\ Len(x.readings) <= MaxReadings
    /\ ~x.open => x.readings = <<>>
StreamForms == DOMAIN stream = Watchers /\ \A u \in Watchers : StreamForm(stream[u])

LEMMA OneStream ==
    ASSUME StreamForms, NEW u \in Watchers, NEW y, StreamForm(y),
           stream' = [stream EXCEPT ![u] = y]
    PROVE  StreamForms'
BY DEF StreamForms, StreamForm

\* A list that is one longer, one shorter, or changed in one place.
LEMMA ReadingsChange ==
    ASSUME NEW S, NEW list \in Seq(S), NEW i \in DOMAIN list, NEW v
    PROVE  /\ Append(list, v) \in Seq(S \cup {v}) /\ Len(Append(list, v)) = Len(list) + 1
           /\ [list EXCEPT ![i] = v] \in Seq(S \cup {v}) /\ Len([list EXCEPT ![i] = v]) = Len(list)
           /\ Taking(list, i) \in Seq(S) /\ Len(Taking(list, i)) <= Len(list)
<1>1. Len(list) \in Nat /\ DOMAIN list = 1 .. Len(list) /\ i \in 1 .. Len(list)
  OBVIOUS
<1>2. list \in Seq(S \cup {v})
  BY SeqMonotonic
<1>3. Append(list, v) \in Seq(S \cup {v}) /\ Len(Append(list, v)) = Len(list) + 1
  BY <1>2
<1>4. [list EXCEPT ![i] = v] \in Seq(S \cup {v}) /\ Len([list EXCEPT ![i] = v]) = Len(list)
  BY <1>1, <1>2
<1>5. SubSeq(list, 1, i - 1) \in Seq(S) /\ Len(SubSeq(list, 1, i - 1)) = i - 1
  BY <1>1
<1>6. SubSeq(list, i + 1, Len(list)) \in Seq(S)
        /\ Len(SubSeq(list, i + 1, Len(list))) = Len(list) - i
  BY <1>1
<1>7. Taking(list, i) \in Seq(S) /\ Len(Taking(list, i)) = (i - 1) + (Len(list) - i)
  BY <1>5, <1>6 DEF Taking
<1> QED  BY <1>1, <1>3, <1>4, <1>7

\* One more reading is put on the list of an open stream.
LEMMA OneMoreReading ==
    ASSUME NEW S, NEW list \in Seq(S), NEW v
    PROVE  /\ \E T : Append(list, v) \in Seq(T)
           /\ Len(Append(list, v)) = Len(list) + 1 /\ Len(list) \in Nat
<1>1. list \in Seq(S \cup {v}) /\ v \in S \cup {v}
  BY SeqMonotonic
<1> QED  BY <1>1, AppendElements

LEMMA ServerStreams ==
    ASSUME StreamForms, NEW u \in Watchers,
           \/ Connect(u) \/ Drop(u) \/ Poll(u)
           \/ \E i \in 1 .. MaxReadings :
                 ReadUnread(u, i) \/ ReadLatest(u, i) \/ Deliver(u, i) \/ LoseReading(u, i)
    PROVE  StreamForms'
<1> DEFINE x == stream[u]
<1>0. /\ DOMAIN stream = Watchers /\ StreamForm(x)
      /\ MaxReadings \in Nat /\ MaxReadings > 0 /\ MaxMishaps \in Nat
  BY BoundsAssumption DEF StreamForms
<1>a. PICK S : x.readings \in Seq(S)
  BY <1>0 DEF StreamForm
<1>1. CASE Connect(u)
  <2> DEFINE list == <<Reading("initial")>>
             y == [x EXCEPT !.open = TRUE, !.sent = None, !.readings = list]
  <2>1. stream' = [stream EXCEPT ![u] = y]
    BY <1>0, <1>1 DEF Connect
  <2>2. PICK v : v = Reading("initial")
    OBVIOUS
  <2>3. <<v>> \in Seq({v}) /\ Len(<<v>>) = 1
    OBVIOUS
  <2>4. Len(list) = 1 /\ \E T : list \in Seq(T)
    BY <2>2, <2>3
  <2> HIDE DEF list
  <2>5. DOMAIN y = {"open", "mishaps", "readings", "sent", "count", "fetch"} /\ y.open
    BY <1>0 DEF StreamForm
  <2>6. y.readings = list /\ y.mishaps = x.mishaps
    BY <1>0 DEF StreamForm
  <2> HIDE DEF y
  <2>7. (\E T : y.readings \in Seq(T)) /\ Len(y.readings) <= MaxReadings
    <3>1. Len(list) <= MaxReadings
      BY <1>0, <2>4
    <3> QED  BY <2>4, <2>6, <3>1, Zenon
  <2>8. y.mishaps \in Nat /\ y.mishaps <= MaxMishaps
    BY <1>0, <2>6 DEF StreamForm
  <2>9. StreamForm(y)
    BY <2>5, <2>7, <2>8 DEF StreamForm
  <2> QED  BY <2>1, <2>9, OneStream
<1>2. CASE Drop(u)
  <2> DEFINE y == [x EXCEPT !.open = FALSE, !.mishaps = @ + 1, !.readings = <<>>]
  <2>1. stream' = [stream EXCEPT ![u] = y] /\ x.mishaps < MaxMishaps
    BY <1>0, <1>2 DEF Drop, MayGoWrong
  <2>2. <<>> \in Seq({}) /\ Len(<<>>) = 0
    OBVIOUS
  <2>a. y.mishaps \in Nat /\ y.mishaps <= MaxMishaps
    BY <1>0, <2>1 DEF StreamForm
  <2>b. /\ DOMAIN y = {"open", "mishaps", "readings", "sent", "count", "fetch"}
        /\ y.readings = <<>>
    BY <1>0 DEF StreamForm
  <2>c. (\E T : y.readings \in Seq(T)) /\ Len(y.readings) <= MaxReadings
    BY <1>0, <2>2, <2>b
  <2> HIDE DEF y
  <2>3. StreamForm(y)
    BY <2>a, <2>b, <2>c DEF StreamForm
  <2> HIDE DEF y
  <2> QED  BY <2>1, <2>3, OneStream
<1>3. CASE Poll(u)
  <2> DEFINE others == Omitting(x.readings, {z \in Elements(x.readings) : z.source = "poll"})
             list == Append(others, Reading("poll"))
             m == IF others = x.readings THEN x.mishaps ELSE x.mishaps + 1
             y == [x EXCEPT !.readings = list, !.mishaps = m]
  <2>1. /\ stream' = [stream EXCEPT ![u] = y] /\ x.open /\ Len(others) < MaxReadings
        /\ others # x.readings => x.mishaps < MaxMishaps
    BY <1>0, <1>3 DEF Poll, MayGoWrong
  <2>2. others \in Seq(S)
    BY <1>a, OmittingProperties
  <2>3. m \in Nat /\ m <= MaxMishaps
    BY <1>0, <2>1 DEF StreamForm
  <2> HIDE DEF others, m
  <2>a. PICK v : v = Reading("poll")
    OBVIOUS
  <2>b. /\ \E T : Append(others, v) \in Seq(T)
        /\ Len(Append(others, v)) = Len(others) + 1 /\ Len(others) \in Nat
    BY <2>2, OneMoreReading
  <2>4. /\ \E T : list \in Seq(T)
        /\ Len(list) <= MaxReadings
    BY <1>0, <2>1, <2>a, <2>b
  <2> HIDE DEF list
  <2>5. StreamForm(y)
    BY <1>0, <2>1, <2>3, <2>4 DEF StreamForm
  <2> HIDE DEF y
  <2> QED  BY <2>1, <2>5, OneStream
<1>4. ASSUME NEW i \in DOMAIN x.readings, NEW v,
             stream' = [stream EXCEPT ![u] = [x EXCEPT !.readings = [@ EXCEPT ![i] = v]]]
      PROVE  StreamForms'
  <2> DEFINE list == [x.readings EXCEPT ![i] = v]
             y == [x EXCEPT !.readings = list]
  <2>1. list \in Seq(S \cup {v}) /\ Len(list) = Len(x.readings)
    BY <1>a, ReadingsChange
  <2>2. list = <<>> => x.readings = <<>>
    BY <1>a, <2>1
  <2>3. stream' = [stream EXCEPT ![u] = y]
    BY <1>4
  <2>4. x.readings # <<>>
    BY <1>a, <1>4
  <2> HIDE DEF list
  <2>5. StreamForm(y)
    BY <1>0, <2>1, <2>4 DEF StreamForm
  <2> HIDE DEF y
  <2> QED  BY <2>3, <2>5, OneStream
<1>5. ASSUME NEW i, ReadUnread(u, i)
      PROVE  StreamForms'
  <2> DEFINE v == [x.readings[i] EXCEPT !.unread = Unread(u)]
  <2>1. /\ i \in DOMAIN x.readings
        /\ stream' = [stream EXCEPT ![u] = [x EXCEPT !.readings = [@ EXCEPT ![i] = v]]]
    BY <1>0, <1>5 DEF ReadUnread
  <2> HIDE DEF v
  <2> QED  BY <2>1, <1>4
<1>6. ASSUME NEW i, ReadLatest(u, i)
      PROVE  StreamForms'
  <2> DEFINE v == [x.readings[i] EXCEPT !.latest = Latest(u)]
  <2>1. /\ i \in DOMAIN x.readings
        /\ stream' = [stream EXCEPT ![u] = [x EXCEPT !.readings = [@ EXCEPT ![i] = v]]]
    BY <1>0, <1>6 DEF ReadLatest
  <2> HIDE DEF v
  <2> QED  BY <2>1, <1>4
<1>7. ASSUME NEW i \in DOMAIN x.readings
      PROVE  LET t == Taking(x.readings, i)
             IN  t \in Seq(S) /\ Len(t) <= MaxReadings /\ x.open
  <2>1. x.readings # <<>>
    BY <1>a, <1>7
  <2>2. Len(x.readings) \in Nat /\ Len(x.readings) <= MaxReadings /\ x.open
    BY <1>0, <1>a, <2>1 DEF StreamForm
  <2>3. Taking(x.readings, i) \in Seq(S) /\ Len(Taking(x.readings, i)) <= Len(x.readings)
    BY <1>a, <1>7, ReadingsChange
  <2>4. Len(Taking(x.readings, i)) \in Nat
    BY <2>3
  <2> QED  BY <1>0, <2>2, <2>3, <2>4
<1>8. ASSUME NEW i, Deliver(u, i)
      PROVE  StreamForms'
  <2> DEFINE s == [unread |-> x.readings[i].unread, latest |-> x.readings[i].latest]
             t == Taking(x.readings, i)
             c == IF s = x.sent THEN x.count ELSE s.unread
             y == [x EXCEPT !.readings = t, !.sent = s, !.count = c]
  <2>1. i \in DOMAIN x.readings /\ stream' = [stream EXCEPT ![u] = y]
    BY <1>8, Zenon DEF Deliver
  <2>2. t \in Seq(S) /\ Len(t) <= MaxReadings /\ x.open
    BY <2>1, <1>7
  <2> HIDE DEF s, t, c
  <2>c. /\ DOMAIN y = {"open", "mishaps", "readings", "sent", "count", "fetch"}
        /\ y.readings = t /\ y.mishaps = x.mishaps /\ y.open = x.open
    BY <1>0 DEF StreamForm
  <2> HIDE DEF y
  <2>3. StreamForm(y)
    BY <1>0, <2>2, <2>c DEF StreamForm
  <2> QED  BY <2>1, <2>3, OneStream
<1>9. ASSUME NEW i, LoseReading(u, i)
      PROVE  StreamForms'
  <2> DEFINE t == Taking(x.readings, i)
             y == [x EXCEPT !.readings = t, !.mishaps = x.mishaps + 1]
  <2>1. /\ i \in DOMAIN x.readings /\ stream' = [stream EXCEPT ![u] = y]
        /\ x.mishaps < MaxMishaps
    BY <1>9, Zenon DEF LoseReading, MayGoWrong
  <2>2. t \in Seq(S) /\ Len(t) <= MaxReadings /\ x.open
    BY <2>1, <1>7
  <2> HIDE DEF t
  <2>3. StreamForm(y)
    BY <1>0, <2>1, <2>2 DEF StreamForm
  <2> HIDE DEF y
  <2> QED  BY <2>1, <2>3, OneStream
<1> QED  BY <1>1, <1>2, <1>3, <1>5, <1>6, <1>8, <1>9
\* The cached count and the reads of it leave the readings alone.
LEMMA ClientStreams ==
    ASSUME StreamForms, NEW u \in Watchers,
           \/ Refetch(u) \/ CountUnread(u) \/ FetchReply(u) \/ LoseFetch(u)
    PROVE  StreamForms'
<1> DEFINE x == stream[u]
<1>0. DOMAIN stream = Watchers /\ StreamForm(x) /\ MaxMishaps \in Nat
  BY BoundsAssumption DEF StreamForms
<1>1. ASSUME NEW f, NEW c, NEW m, m \in Nat, m <= MaxMishaps,
             stream' = [stream EXCEPT ![u] = [x EXCEPT !.fetch = f, !.count = c, !.mishaps = m]]
      PROVE  StreamForms'
  <2> DEFINE y == [x EXCEPT !.fetch = f, !.count = c, !.mishaps = m]
  <2>1. /\ DOMAIN y = {"open", "mishaps", "readings", "sent", "count", "fetch"}
        /\ y.readings = x.readings /\ y.open = x.open /\ y.mishaps = m
    BY <1>0 DEF StreamForm
  <2>2. stream' = [stream EXCEPT ![u] = y]
    BY <1>1
  <2> HIDE DEF y
  <2>3. StreamForm(y)
    BY <1>0, <1>1, <2>1 DEF StreamForm
  <2> QED  BY <2>2, <2>3, OneStream
<1>2. x.mishaps \in Nat /\ x.mishaps <= MaxMishaps
  BY <1>0 DEF StreamForm
<1>3. DOMAIN x = {"open", "mishaps", "readings", "sent", "count", "fetch"}
  BY <1>0 DEF StreamForm
<1>4. CASE Refetch(u)
  <2>1. stream' = [stream EXCEPT ![u] = [x EXCEPT !.fetch = Pending, !.count = x.count,
                                                  !.mishaps = x.mishaps]]
    BY <1>0, <1>3, <1>4 DEF Refetch
  <2> QED  BY <1>1, <1>2, <2>1, Zenon
<1>5. CASE CountUnread(u)
  <2>1. stream' = [stream EXCEPT ![u] = [x EXCEPT !.fetch = Unread(u), !.count = x.count,
                                                  !.mishaps = x.mishaps]]
    BY <1>0, <1>3, <1>5 DEF CountUnread
  <2> QED  BY <1>1, <1>2, <2>1, Zenon
<1>6. CASE FetchReply(u)
  <2>1. stream' = [stream EXCEPT ![u] = [x EXCEPT !.fetch = NoFetch, !.count = x.fetch,
                                                  !.mishaps = x.mishaps]]
    BY <1>0, <1>3, <1>6 DEF FetchReply
  <2> QED  BY <1>1, <1>2, <2>1, Zenon
<1>7. CASE LoseFetch(u)
  <2>1. /\ stream' = [stream EXCEPT ![u] = [x EXCEPT !.fetch = NoFetch, !.count = x.count,
                                                  !.mishaps = x.mishaps + 1]]
        /\ x.mishaps < MaxMishaps
    BY <1>0, <1>3, <1>7 DEF LoseFetch, MayGoWrong
  <2>2. x.mishaps + 1 \in Nat /\ x.mishaps + 1 <= MaxMishaps
    BY <1>0, <1>2, <2>1
  <2> HIDE DEF x
  <2> QED  BY <1>1, <2>1, <2>2, Zenon
<1> QED  BY <1>4, <1>5, <1>6, <1>7

\* The hub puts one reading on the streams it serves that have room for it.
LEMMA HubStreams ==
    ASSUME StreamForms, NEW S, NEW L \in Local(S), Publish(L)
    PROVE  StreamForms'
<1>0. MaxReadings \in Nat
  BY BoundsAssumption
<1>1. PICK v : v = Reading("hub")
  OBVIOUS
<1>2. stream' = [u \in Watchers |->
          IF u \in L THEN [stream[u] EXCEPT !.readings = Append(stream[u].readings, v)]
          ELSE stream[u]]
  BY <1>1 DEF Publish
<1>3. ASSUME NEW u \in Watchers
      PROVE  StreamForm(stream'[u])
  <2>0. StreamForm(stream[u])
    BY DEF StreamForms
  <2>1. CASE u \notin L
    BY <1>2, <2>0, <2>1
  <2>2. CASE u \in L
    <3> DEFINE list == Append(stream[u].readings, v)
               y == [stream[u] EXCEPT !.readings = list]
    <3>1. stream[u].open /\ Len(stream[u].readings) < MaxReadings
      BY <2>2 DEF Local
    <3>2. PICK T : stream[u].readings \in Seq(T)
      BY <2>0 DEF StreamForm
    <3>a. PICK old : old = stream[u].readings
      OBVIOUS
    <3>b. /\ \E Z : Append(old, v) \in Seq(Z)
          /\ Len(Append(old, v)) = Len(old) + 1 /\ Len(old) \in Nat
      BY <3>2, <3>a, OneMoreReading
    <3>3. (\E Z : list \in Seq(Z)) /\ Len(list) <= MaxReadings
      BY <1>0, <3>1, <3>a, <3>b
    <3>4. stream'[u] = y
      BY <1>2, <2>2
    <3> HIDE DEF list
    <3>5. /\ DOMAIN y = {"open", "mishaps", "readings", "sent", "count", "fetch"}
          /\ y.readings = list /\ y.open /\ y.mishaps = stream[u].mishaps
      BY <2>0, <3>1 DEF StreamForm
    <3> HIDE DEF y
    <3>6. StreamForm(y)
      BY <2>0, <3>3, <3>5 DEF StreamForm
    <3> QED  BY <3>4, <3>6
  <2> QED  BY <2>1, <2>2
<1>4. DOMAIN stream' = Watchers
  BY <1>2
<1> QED  BY <1>3, <1>4 DEF StreamForms

LEMMA InsertStreams ==
    ASSUME StreamForms, NEW r, NEW S, NEW e, NEW w, NEW d, Insert(r, S, e, w, d)
    PROVE  StreamForms'
<1>1. UNCHANGED stream \/ \E T : \E L \in Local(T) : Publish(L)
  BY DEF Insert
<1>2. CASE UNCHANGED stream
  BY <1>2 DEF StreamForms, StreamForm
<1> QED  BY <1>1, <1>2, HubStreams

LEMMA ReplyStreams ==
    ASSUME AllFormed, StreamForms, NEW r \in Requests, NEW marked, ReadReply(r, marked)
    PROVE  StreamForms'
<1>1. PICK u : u = req[r].user
  OBVIOUS
<1> DEFINE x == stream[u]
           c == IF req[r].all \/ marked >= x.count THEN 0 ELSE x.count - marked
           y == [x EXCEPT !.fetch = Pending, !.count = c]
<1>2. stream' = [stream EXCEPT ![u] = y]
  BY <1>1 DEF ReadReply
<1> HIDE DEF c
<1>3. CASE u \in Watchers
  <2>1. StreamForm(x)
    BY <1>3 DEF StreamForms
  <2>2. /\ DOMAIN y = {"open", "mishaps", "readings", "sent", "count", "fetch"}
        /\ y.readings = x.readings /\ y.open = x.open /\ y.mishaps = x.mishaps
    BY <2>1 DEF StreamForm
  <2> HIDE DEF y
  <2>3. StreamForm(y)
    BY <2>1, <2>2 DEF StreamForm
  <2> QED  BY <1>2, <1>3, <2>3, OneStream
<1>4. CASE u \notin Watchers
  <2> HIDE DEF y
  <2>1. DOMAIN stream' = Watchers /\ \A v \in Watchers : stream'[v] = stream[v]
    BY <1>2, <1>4 DEF StreamForms
  <2> QED  BY <2>1 DEF StreamForms, StreamForm
<1> QED  BY <1>3, <1>4

LEMMA StreamsKept ==
    ASSUME AllFormed, StreamForms, [Next]_vars
    PROVE  StreamForms'
<1>1. UNCHANGED stream => StreamForms'
  BY DEF StreamForms, StreamForm
<1>2. CASE UNCHANGED vars
  BY <1>1, <1>2 DEF vars, notifyVars
<1>3. ASSUME NEW r \in Requests, NEW u \in Users, AskNotes(r, u)
      PROVE  StreamForms'
  <2>1. UNCHANGED stream \/ \E S : \E L \in Local(S) : Publish(L)
    BY <1>3 DEF AskNotes, AskReport, MarkRead
  <2> QED  BY <1>1, <2>1, HubStreams
<1>4. ASSUME NEW r \in Requests, NoteSteps(r)
      PROVE  StreamForms'
  <2>1. CASE ReadOwners(r) \/ ReadReported(r) \/ KeepMembers(r)
    BY <1>1, <2>1 DEF ReadOwners, ReadReported, KeepMembers
  <2>2. CASE \E ok \in BOOLEAN : NotifyJoin(r, ok)
    <3>1. UNCHANGED stream \/ \E S, e, w, d : Insert(r, S, e, w, d)
      BY <2>2 DEF NotifyJoin
    <3> QED  BY <1>1, <3>1, InsertStreams
  <2>3. CASE NotifyComment(r)
    <3>1. UNCHANGED stream \/ \E S, e, w, d : Insert(r, S, e, w, d)
      BY <2>3 DEF NotifyComment
    <3> QED  BY <1>1, <3>1, InsertStreams
  <2>4. CASE \E marked \in {0, 1} : ReadReply(r, marked)
    BY <2>4, ReplyStreams
  <2> QED  BY <1>4, <2>1, <2>2, <2>3, <2>4 DEF NoteSteps
<1>5. ASSUME NEW u \in Watchers, Streams(u)
      PROVE  StreamForms'
  BY <1>5, ServerStreams, ClientStreams DEF Streams, Answer
<1> QED  BY <1>1, <1>2, <1>3, <1>4, <1>5 DEF Next, Serve

-----------------------------------------------------------------------------
(* The state is well formed at every moment.                                *)
Whole == Sound /\ StreamForms

LEMMA FormsType ==
    ASSUME AllFormed
    PROVE  RequestsOK
<1>1. ASSUME NEW r \in Requests, req[r] # Idle
      PROVE  req[r].kind \in Kinds /\ req[r].user \in Users
  <2>1. Formed(req[r], MadeWorkspaces, MadeFolders, MadeDocuments)
    BY DEF AllFormed
  <2>2. req[r].kind \in AllKinds /\ req[r].kind \in Kinds
    BY <1>1, <2>1 DEF Formed
  <2>3. CASE req[r].kind \in WorkspaceKinds
    BY <2>1, <2>2, <2>3 DEF Formed, WorkspaceForms, AcceptForms, WorkspaceKinds
  <2>4. CASE req[r].kind \in FolderKinds
    BY <2>1, <2>2, <2>4 DEF Formed, FolderForms, FolderKinds
  <2>5. CASE req[r].kind \in DocumentKinds \cup {"edit"}
    BY <2>1, <2>2, <2>5 DEF Formed, DocumentForms, DocumentKinds
  <2>6. CASE req[r].kind \in {"report", "markRead"}
    BY <2>1, <2>2, <2>6 DEF Formed, NoteForms
  <2> QED
    BY <2>2, <2>3, <2>4, <2>5, <2>6 DEF AllKinds, WorkspaceKinds, FolderKinds, DocumentKinds
<1> QED  BY <1>1 DEF RequestsOK

LEMMA FormsStreams ==
    ASSUME StreamForms
    PROVE  StreamsOK
BY DEF StreamForms, StreamForm, StreamsOK

LEMMA InitWhole ==
    ASSUME Init
    PROVE  Whole
<1> USE DEF Init, InitDatabase
<1>1. MembersOK
  BY SeedsAssumption DEF MembersOK
<1>2. InvitesOK
  BY SeedsAssumption DEF InvitesOK
<1>3. FoldersOK
  BY SeedsAssumption DEF FoldersOK
<1>4. DocumentsOK
  BY SeedsAssumption DEF DocumentsOK, Rows
<1>5. StorageOK
  BY DEF StorageOK, Rows
<1>6. NotesOK
  BY DEF NotesOK
<1>7. AllFormed
  <2>1. DOMAIN req = Requests /\ \A r \in Requests : req[r] = Idle
    OBVIOUS
  <2>2. \A W, F, D : Formed(Idle, W, F, D)
    BY DEF Formed, Idle, WorkspaceForms, AcceptForms, FolderForms, DocumentForms, NoteForms
  <2> QED  BY <2>1, <2>2 DEF AllFormed
<1>8. RowsMade
  <2>1. DOMAIN workspaces = DOMAIN SeedWorkspaces /\ DOMAIN folders = DOMAIN SeedFolders
    OBVIOUS
  <2>2. DOMAIN documents = DOMAIN SeedDocuments /\ DOMAIN invites = DOMAIN SeedInvites
    OBVIOUS
  <2>3. \A d \in DOMAIN contents : contents[d] \in DOMAIN SeedDocuments
    OBVIOUS
  <2> QED
    BY <2>1, <2>2, <2>3 DEF RowsMade, MadeWorkspaces, MadeFolders, MadeDocuments, Tokens
<1>9. NewWorkspaces
  BY DEF NewWorkspaces, At, Idle
<1>10. StreamForms
  <2>1. 0 \in Nat /\ 0 <= MaxMishaps /\ 0 <= MaxReadings
    BY BoundsAssumption
  <2>2. <<>> \in Seq({}) /\ Len(<<>>) = 0
    OBVIOUS
  <2>3. PICK x : x = [open |-> FALSE, mishaps |-> 0, readings |-> <<>>, sent |-> None,
                      count |-> 0, fetch |-> Pending]
    OBVIOUS
  <2>4. DOMAIN x = {"open", "mishaps", "readings", "sent", "count", "fetch"}
    BY <2>3
  <2>5. x.mishaps = 0 /\ x.readings = <<>>
    BY <2>3
  <2>6. StreamForm(x)
    BY <2>1, <2>2, <2>4, <2>5 DEF StreamForm
  <2>7. DOMAIN stream = Watchers /\ \A u \in Watchers : stream[u] = x
    BY <2>3 DEF InitStream
  <2> QED  BY <2>6, <2>7 DEF StreamForms
<1>11. RequestsOK /\ StreamsOK
  BY <1>7, <1>10, FormsType, FormsStreams
<1> QED
  BY <1>1, <1>2, <1>3, <1>4, <1>5, <1>6, <1>7, <1>8, <1>9, <1>10, <1>11
     DEF Whole, Sound, TypeOK

LEMMA NextWhole ==
    ASSUME Whole, [Next]_vars
    PROVE  Whole'
<1>0. Sound /\ AllFormed /\ StreamForms /\ TypeOK
  BY DEF Whole, Sound
<1>1. StreamForms'
  BY <1>0, StreamsKept
<1>2. StreamsOK'
  BY <1>1, FormsStreams, PTL
<1>3. CASE UNCHANGED dbVars
  <2>1. AllFormed' /\ RowsMade' /\ NewWorkspaces'
    BY <1>0, <1>3 DEF dbVars, Sound, AllFormed, RowsMade, NewWorkspaces, MadeWorkspaces,
       MadeFolders, MadeDocuments, NobodyIn, At
  <2>2. MembersOK' /\ InvitesOK' /\ FoldersOK' /\ DocumentsOK' /\ StorageOK' /\ NotesOK'
    BY <1>0, <1>3
       DEF dbVars, TypeOK, MembersOK, InvitesOK, FoldersOK, DocumentsOK, StorageOK, NotesOK
  <2>3. RequestsOK'
    BY <1>0, <1>3 DEF dbVars, TypeOK, RequestsOK
  <2> QED  BY <1>1, <1>2, <2>1, <2>2, <2>3 DEF Whole, Sound, TypeOK
<1>4. ASSUME NEW r \in Requests, Acts(r)
      PROVE  Whole'
  <2>1. AllFormed'
    BY <1>0, <1>4, ActsStepped, SteppedForms DEF Sound
  <2>2. RequestsOK'
    BY <2>1, FormsType, PTL
  <2>3. MembersOK' /\ InvitesOK' /\ FoldersOK' /\ DocumentsOK' /\ StorageOK' /\ NotesOK'
    BY <1>0, <1>4, MembersKept, InvitesKept, FoldersKept, DocumentsKept, StorageKept, NotesKept
  <2>4. RowsMade' /\ NewWorkspaces'
    BY <1>0, <1>4, MadeKept, NewKept
  <2> QED  BY <1>1, <1>2, <2>1, <2>2, <2>3, <2>4 DEF Whole, Sound, TypeOK
<1> QED  BY <1>3, <1>4, NextCases

(* However the statements of requests interleave, every row refers to rows  *)
(* that exist, as the foreign keys of schema.prisma have it: a row made or   *)
(* changed checks them, and a delete takes or unhooks what hangs on the row. *)
THEOREM TablesTyped == Spec => []TypeOK
<1>1. Init => Whole
  BY InitWhole
<1>2. Whole /\ [Next]_vars => Whole'
  BY NextWhole
<1>3. Whole => TypeOK
  BY DEF Whole, Sound
<1> QED  BY <1>1, <1>2, <1>3, PTL DEF Spec

-----------------------------------------------------------------------------
(* What the requests keep: workspaces their owners, folders their places    *)
(* and documents their blobs; failures leave nothing behind and             *)
(* notifications reach everybody once.  Each theorem rests on what a        *)
(* request has checked already and what no other can have undone since.     *)


\* The state is well formed before and after each step.
THEOREM StateIsWhole == Spec => []Whole
<1>1. Init => Whole
  BY InitWhole
<1>2. Whole /\ [Next]_vars => Whole'
  BY NextWhole
<1> QED  BY <1>1, <1>2, PTL DEF Spec

-----------------------------------------------------------------------------
\* A step to the next statement keeps what the request knows.
LEMMA GoKeeps ==
    ASSUME AllFormed, NEW r \in Requests, req[r] # Idle, NEW s, Go(r, s)
    PROVE  /\ req'[r].step = s /\ req'[r].kind = req[r].kind
           /\ DOMAIN req'[r] = DOMAIN req[r]
           /\ \A x \in DOMAIN req[r] \ {"step"} : req'[r][x] = req[r][x]
           /\ \A y \in Requests \ {r} : req'[y] = req[y]
<1>1. DOMAIN req = Requests
  BY DEF AllFormed
<1>2. /\ req' = [req EXCEPT ![r] = [req[r] EXCEPT !.step = s]]
      /\ req'[r].step = s /\ req'[r].kind = req[r].kind
  BY GoStep
<1> QED  BY <1>1, <1>2

\* What the requests know, by kind.
LEMMA Knows ==
    ASSUME AllFormed, NEW r \in Requests
    PROVE  LET q == req[r]
           IN  /\ q.kind = "removeMember" =>
                     DOMAIN q = {"kind", "step", "user", "workspace", "target", "found"}
               /\ q.kind = "createFolder" =>
                     DOMAIN q = {"kind", "step", "user", "workspace", "parent"}
               /\ q.kind = "moveFolder" =>
                     DOMAIN q = {"kind", "step", "user", "folder", "parent", "cursor", "visited"}
               /\ q.kind \in {"create", "upload"} =>
                     DOMAIN q = {"kind", "step", "user", "workspace", "folder", "blob"}
               /\ q.kind \in {"copy", "delete"} =>
                     DOMAIN q = {"kind", "step", "user", "id", "row", "blob", "content"}
               /\ q.kind = "move" =>
                     DOMAIN q = {"kind", "step", "user", "id", "row", "blob", "workspace", "folder"}
               /\ q.kind = "report" =>
                     DOMAIN q = {"kind", "step", "user", "document", "to", "event", "workspace"}
               /\ q.kind = "edit" => DOMAIN q = {"kind", "step", "user", "id"}
               /\ q = Idle => q.kind = "none" /\ q.step = "none"
<1>1. Formed(req[r], MadeWorkspaces, MadeFolders, MadeDocuments)
  BY DEF AllFormed
<1>2. WorkspaceForms(req[r], MadeWorkspaces)
  BY <1>1 DEF Formed
<1>3. FolderForms(req[r], MadeWorkspaces, MadeFolders)
  BY <1>1 DEF Formed
<1>4. DocumentForms(req[r], MadeWorkspaces, MadeFolders, MadeDocuments)
  BY <1>1 DEF Formed
<1>5. NoteForms(req[r], MadeWorkspaces, MadeDocuments)
  BY <1>1 DEF Formed
<1>6. req[r].kind = "removeMember" =>
        DOMAIN req[r] = {"kind", "step", "user", "workspace", "target", "found"}
  BY <1>2 DEF WorkspaceForms
<1>7. /\ req[r].kind = "createFolder" =>
           DOMAIN req[r] = {"kind", "step", "user", "workspace", "parent"}
      /\ req[r].kind = "moveFolder" =>
           DOMAIN req[r] = {"kind", "step", "user", "folder", "parent", "cursor", "visited"}
  BY <1>3 DEF FolderForms
<1>8. /\ req[r].kind \in {"create", "upload"} =>
           DOMAIN req[r] = {"kind", "step", "user", "workspace", "folder", "blob"}
      /\ req[r].kind = "edit" => DOMAIN req[r] = {"kind", "step", "user", "id"}
  BY <1>4 DEF DocumentForms
<1>9. /\ req[r].kind \in {"copy", "delete"} =>
           DOMAIN req[r] = {"kind", "step", "user", "id", "row", "blob", "content"}
      /\ req[r].kind = "move" =>
           DOMAIN req[r] = {"kind", "step", "user", "id", "row", "blob", "workspace", "folder"}
  BY <1>4 DEF DocumentForms
<1>10. req[r].kind = "report" =>
         DOMAIN req[r] = {"kind", "step", "user", "document", "to", "event", "workspace"}
  BY <1>5 DEF NoteForms
<1> QED  BY <1>6, <1>7, <1>8, <1>9, <1>10 DEF Idle

-----------------------------------------------------------------------------
(* Owners                                                                  *)

\* Who leaves was found to be a member that is not an owner.
LeaversFound ==
    \A r \in Requests :
        At(r, "removeMember", "delete") /\ req[r].user = req[r].target
          => req[r].found = "member"

LEMMA LeaversStayFound ==
    ASSUME Whole, LeaversFound, NEW r \in Requests, Acts(r)
    PROVE  LeaversFound'
<1>0. AllFormed /\ TypeOK /\ Stepped(r) /\ DOMAIN req = Requests
  BY ActsStepped DEF Whole, Sound, AllFormed
<1>1. SUFFICES ASSUME At(r, "removeMember", "delete")', (req[r].user = req[r].target)'
               PROVE  req'[r].found = "member"
  BY <1>0 DEF LeaversFound, Stepped, At
<1>2. req[r] # Idle /\ req[r].kind = "removeMember"
  BY <1>0, <1>1, ActCases, ArrivalSteps DEF At, Stepped
<1>3. DOMAIN req[r] = {"kind", "step", "user", "workspace", "target", "found"}
  BY <1>0, <1>2, Knows
<1>4. CASE AssertOwner(r)
  BY <1>0, <1>1, <1>2, <1>4 DEF AssertOwner, Check, Go, At, AfterOwner
<1>5. CASE RemoveMember(r)
  <2>1. \E s \in {"done", "failed"} : Go(r, s)
    BY <1>5 DEF RemoveMember
  <2> QED  BY <1>0, <1>1, <1>2, <2>1, GoKeeps DEF At
<1>6. CASE FindMember(r)
  <2>1. PICK m : m = <<req[r].workspace, req[r].target>>
    OBVIOUS
  <2>2. /\ m \in DOMAIN members /\ ~(members[m] = "owner" /\ req[r].user = req[r].target)
        /\ req' = [req EXCEPT ![r] = [req[r] EXCEPT !.found = members[m], !.step = "delete"]]
    <3>1. \/ m \in DOMAIN members /\ ~(members[m] = "owner" /\ req[r].user = req[r].target)
          \/ Go(r, "refused")
      BY <1>6, <2>1 DEF FindMember, Go
    <3>2. ~Go(r, "refused")
      BY <1>0, <1>1, <1>2, GoKeeps DEF At
    <3>3. req' = [req EXCEPT ![r].found = members[m], ![r].step = "delete"]
      BY <1>6, <2>1, <3>1, <3>2 DEF FindMember
    <3> QED  BY <1>0, <3>1, <3>2, <3>3
  <2>3. /\ req'[r].found = members[m] /\ req'[r].user = req[r].user
        /\ req'[r].target = req[r].target
    BY <1>0, <1>3, <2>2
  <2>4. members[m] \in {"owner", "member"}
    BY <1>0, <2>2 DEF TypeOK, MembersOK, Roles
  <2> QED  BY <1>1, <2>2, <2>3, <2>4
<1> QED  BY <1>2, <1>4, <1>5, <1>6, ActCases

LEMMA OwnersStay ==
    ASSUME Whole, LeaversFound, NEW x \in Requests, Acts(x), NEW w \in DOMAIN workspaces,
           HasOwner(w), w \in DOMAIN workspaces'
    PROVE  \/ HasOwner(w)'
           \/ \E r \in Requests :
                 /\ At(r, "removeMember", "delete") /\ req[r].workspace = w
                 /\ IF req[r].user = req[r].target THEN req[r].found = "member"
                    ELSE ~IsOwner(w, req[r].user)
<1>1. PICK u \in Users : <<w, u>> \in DOMAIN members /\ members[<<w, u>>] = "owner"
  BY DEF HasOwner, IsOwner, IsMember
<1>2. SUFFICES ASSUME ~HasOwner(w)'
               PROVE  \E r \in Requests :
                        /\ At(r, "removeMember", "delete") /\ req[r].workspace = w
                        /\ IF req[r].user = req[r].target THEN req[r].found = "member"
                           ELSE ~IsOwner(w, req[r].user)
  OBVIOUS
<1>3. \A v \in Users :
        ~(<<w, v>> \in DOMAIN members' /\ members'[<<w, v>>] = "owner")
  BY <1>2 DEF HasOwner, IsOwner, IsMember
<1>4. CASE \E ok \in BOOLEAN : InsertOwner(x, ok)
  BY <1>1, <1>3, <1>4 DEF InsertOwner, Plus
<1>5. CASE Join(x)
  BY <1>1, <1>3, <1>5 DEF Join, Plus
<1>6. CASE RemoveWorkspace(x)
  <2>1. CASE UNCHANGED tables
    BY <1>1, <1>3, <2>1 DEF tables
  <2>2. CASE DeleteWorkspace(req[x].workspace)
    <3>1. w # req[x].workspace /\ <<w, u>>[1] = w
      BY <2>2 DEF DeleteWorkspace, Less
    <3> QED  BY <1>1, <1>3, <2>2, <3>1 DEF DeleteWorkspace, Less
  <2> QED  BY <1>6, <2>1, <2>2 DEF RemoveWorkspace
<1>7. CASE RemoveMember(x)
  <2>1. /\ At(x, "removeMember", "delete")
        /\ members' = Less(members, {<<req[x].workspace, req[x].target>>})
    BY <1>7 DEF RemoveMember
  <2>2. \A v \in Users : <<w, v>> \in DOMAIN members /\ members[<<w, v>>] = "owner"
            => w = req[x].workspace /\ v = req[x].target
    BY <1>3, <2>1 DEF Less
  <2>3. w = req[x].workspace
    BY <1>1, <2>2
  <2>4. req[x].user \in Users
    BY <2>1 DEF Whole, Sound, TypeOK, RequestsOK, At, Idle
  <2>5. req[x].user # req[x].target => ~IsOwner(w, req[x].user)
    BY <2>2, <2>4 DEF IsOwner, IsMember
  <2> QED  BY <2>1, <2>3, <2>5 DEF LeaversFound
<1> QED  BY <1>1, <1>3, <1>4, <1>5, <1>6, <1>7, MembersChange

(* Every workspace that has an owner keeps one, as long as those who remove  *)
(* members are still what they were when removeMember asked: an owner never  *)
(* removes themselves, and a removal by one who is still an owner leaves     *)
(* them.                                                                     *)
THEOREM OwnersKept == Spec => WorkspacesKeepAnOwner
<1>1. Init => LeaversFound
  BY DEF Init, InitDatabase, LeaversFound, At, Idle
<1>2. Whole /\ LeaversFound /\ [Next]_vars => LeaversFound'
  <2>1. UNCHANGED dbVars /\ LeaversFound => LeaversFound'
    BY DEF dbVars, LeaversFound, At
  <2> QED  BY <2>1, LeaversStayFound, NextCases
<1>3. Whole /\ LeaversFound /\ [Next]_vars =>
        [\A w \in DOMAIN workspaces :
          HasOwner(w) /\ w \in DOMAIN workspaces' =>
            \/ HasOwner(w)'
            \/ \E r \in Requests :
                  /\ At(r, "removeMember", "delete") /\ req[r].workspace = w
                  /\ IF req[r].user = req[r].target THEN req[r].found = "member"
                     ELSE ~IsOwner(w, req[r].user)]_dbVars
  BY OwnersStay, NextCases
<1> QED  BY <1>1, <1>2, <1>3, StateIsWhole, PTL DEF Spec, WorkspacesKeepAnOwner

-----------------------------------------------------------------------------
(* Folders                                                                 *)

\* A folder keeps its workspace, and one that has been deleted stays so.
LEMMA FoldersStay ==
    ASSUME Whole, NEW x \in Requests, Acts(x), NEW f \in MadeFolders, f \in DOMAIN folders'
    PROVE  f \in DOMAIN folders /\ folders'[f].workspace = folders[f].workspace
<1>0. AllFormed /\ RowsMade /\ FoldersOK
  BY DEF Whole, Sound, TypeOK
<1>1. CASE UNCHANGED folders
  BY <1>1
<1>2. CASE InsertFolder(x)
  <2>1. UNCHANGED folders \/ \E g : folders' = Plus(folders, x, g)
    BY <1>2 DEF InsertFolder
  <2>2. req[x].kind = "createFolder" /\ req[x].step = "create"
    BY <1>2 DEF InsertFolder, At
  <2>3. x # f
    BY <1>0, <2>2, MakesFirst DEF MakesFolder
  <2> QED  BY <2>1, <2>3 DEF Plus
<1>3. CASE MoveFolder(x)
  <2>1. UNCHANGED folders \/ folders' = [folders EXCEPT ![req[x].folder].parent = req[x].parent]
    BY <1>3 DEF MoveFolder
  <2>2. \A g \in DOMAIN folders :
          folders[g] \in [workspace : DOMAIN workspaces,
                          parent : DOMAIN folders \cup {None}, author : Users]
    BY <1>0 DEF FoldersOK
  <2> QED  BY <2>1, <2>2
<1>4. ASSUME NEW S, folders' = Less(folders, S)
      PROVE  f \in DOMAIN folders /\ folders'[f].workspace = folders[f].workspace
  BY <1>4 DEF Less
<1>5. RemoveFolder(x) => UNCHANGED folders \/ \E S : folders' = Less(folders, S)
  BY FolderDeleteRows
<1>6. RemoveWorkspace(x) => UNCHANGED folders \/ \E S : folders' = Less(folders, S)
  BY WorkspaceDeleteRows DEF tables
<1> QED  BY <1>1, <1>2, <1>3, <1>4, <1>5, <1>6, FoldersChange

\* What is still there of a check that a folder is in a workspace.
InPlace(f, w) == f \in DOMAIN folders => folders[f].workspace = w
NewFoldersFit ==
    \A r \in Requests :
        At(r, "createFolder", "create") /\ req[r].parent # None
          => InPlace(req[r].parent, req[r].workspace)
MovedFoldersFit ==
    \A r \in Requests :
        /\ req[r].kind = "moveFolder" /\ req[r].step \in {"walk", "write"}
        /\ req[r].parent # None /\ req[r].folder \in DOMAIN folders
        => InPlace(req[r].parent, folders[req[r].folder].workspace)
\* The walk up never meets the folder that is moved.
WalksPastOthers ==
    \A r \in Requests : req[r].kind = "moveFolder" => req[r].folder \notin req[r].visited
FolderChecks == NewFoldersFit /\ MovedFoldersFit /\ WalksPastOthers

LEMMA OthersFoldersFit ==
    ASSUME Whole, FolderChecks, NEW x \in Requests, Acts(x), NEW r \in Requests,
           req'[r] = req[r]
    PROVE  /\ At(r, "createFolder", "create") /\ req[r].parent # None
                => InPlace(req[r].parent, req[r].workspace)'
           /\ /\ req[r].kind = "moveFolder" /\ req[r].step \in {"walk", "write"}
              /\ req[r].parent # None /\ req[r].folder \in DOMAIN folders'
              => InPlace(req[r].parent, folders[req[r].folder].workspace)'
<1>0. AllFormed
  BY DEF Whole, Sound
<1>1. Formed(req[r], MadeWorkspaces, MadeFolders, MadeDocuments)
  BY <1>0 DEF AllFormed
<1>2. ASSUME At(r, "createFolder", "create"), req[r].parent # None
      PROVE  InPlace(req[r].parent, req[r].workspace)'
  <2>1. req[r].parent \in MadeFolders
    BY <1>1, <1>2 DEF At, Formed, FolderForms
  <2>2. InPlace(req[r].parent, req[r].workspace)
    BY <1>2 DEF FolderChecks, NewFoldersFit
  <2> QED  BY <2>1, <2>2, FoldersStay DEF InPlace
<1>3. ASSUME req[r].kind = "moveFolder", req[r].step \in {"walk", "write"},
             req[r].parent # None, req[r].folder \in DOMAIN folders'
      PROVE  InPlace(req[r].parent, folders[req[r].folder].workspace)'
  <2>1. req[r].parent \in MadeFolders /\ req[r].folder \in MadeFolders
    BY <1>1, <1>3 DEF Formed, FolderForms
  <2>2. /\ req[r].folder \in DOMAIN folders
        /\ folders'[req[r].folder].workspace = folders[req[r].folder].workspace
    BY <1>3, <2>1, FoldersStay
  <2>3. InPlace(req[r].parent, folders[req[r].folder].workspace)
    BY <1>3, <2>2 DEF FolderChecks, MovedFoldersFit
  <2> QED  BY <2>1, <2>2, <2>3, FoldersStay DEF InPlace
<1> QED  BY <1>2, <1>3

\* The checks of the request that acts.
LEMMA NewFolderFits ==
    ASSUME Whole, FolderChecks, NEW r \in Requests, Acts(r),
           At(r, "createFolder", "create")', req'[r].parent # None
    PROVE  InPlace(req[r].parent, req[r].workspace)'
<1>0. AllFormed /\ TypeOK /\ Stepped(r)
  BY ActsStepped DEF Whole, Sound
<1>1. req[r] # Idle /\ req[r].kind = "createFolder"
  BY <1>0, ActCases, ArrivalSteps DEF At, Stepped
<1>2. DOMAIN req[r] = {"kind", "step", "user", "workspace", "parent"}
  BY <1>0, <1>1, Knows
<1>3. \E s : Go(r, s)
  BY <1>1, ActCases DEF CheckCreator, CheckParent, InsertFolder, Check
<1>4. req'[r].parent = req[r].parent /\ req'[r].workspace = req[r].workspace
  BY <1>0, <1>1, <1>2, <1>3, GoKeeps
<1>5. ~InsertFolder(r)
  <2>1. \A s : Go(r, s) => s = "create"
    BY <1>0, <1>1, GoKeeps DEF At
  <2> QED  BY <2>1 DEF InsertFolder
<1>6. CheckParent(r)
  <2>1. \A s : Go(r, s) => s = "create"
    BY <1>0, <1>1, GoKeeps DEF At
  <2>2. ~CheckCreator(r)
    BY <1>4, <2>1 DEF CheckCreator, Check
  <2> QED  BY <1>1, <1>5, <2>2, ActCases
<1>7. InWorkspace(req[r].parent, req[r].workspace) /\ UNCHANGED folders
  <2>1. \A s : Go(r, s) => s = "create"
    BY <1>0, <1>1, GoKeeps DEF At
  <2> QED  BY <1>6, <2>1 DEF CheckParent, Check, Reads, tables
<1> QED  BY <1>4, <1>7 DEF InPlace, InWorkspace

LEMMA MovedFolderFits ==
    ASSUME Whole, FolderChecks, NEW r \in Requests, Acts(r), req'[r].kind = "moveFolder"
    PROVE  /\ /\ req'[r].step \in {"walk", "write"} /\ req'[r].parent # None
              /\ req'[r].folder \in DOMAIN folders'
              => InPlace(req[r].parent, folders[req[r].folder].workspace)'
           /\ req'[r].folder \notin req'[r].visited
<1>0. AllFormed /\ TypeOK /\ RowsMade /\ Stepped(r) /\ DOMAIN req = Requests
  BY ActsStepped DEF Whole, Sound, AllFormed
<1>1. CASE req[r] = Idle
  <2>1. PICK u \in Users : Asks(r, u)
    BY <1>1, ActCases
  <2>2. req'[r].step = "folder"
    BY <1>0, <2>1, ArrivalSteps
  <2>3. \E f, p : AskMoveFolder(r, u, f, p)
    <3>1. CASE AskWorkspaces(r, u)
      BY <1>0, <3>1 DEF AskWorkspaces, AskWorkspace, AskRename, AskRemoval, AskRemoveMember,
         AskInvite, AskRevoke, AskAccept, Arrive
    <3>2. CASE AskFolders(r, u)
      BY <1>0, <3>2 DEF AskFolders, AskFolder, AskDeleteFolder, Arrive
    <3>3. CASE AskDocuments(r, u)
      BY <1>0, <3>3 DEF AskDocuments, AskDocument, AskAbout, AskMove, Edit, Arrive
    <3>4. CASE AskNotes(r, u)
      BY <1>0, <3>4 DEF AskNotes, AskReport, MarkRead, Arrive
    <3> QED  BY <2>1, <3>1, <3>2, <3>3, <3>4 DEF Asks
  <2>4. req'[r].visited = {}
    BY <1>0, <2>3 DEF AskMoveFolder, Arrive
  <2> QED  BY <2>2, <2>4
<1>2. CASE req[r] # Idle
  <2>1. req[r].kind = "moveFolder"
    BY <1>0, <1>2 DEF Stepped
  <2>2. DOMAIN req[r] = {"kind", "step", "user", "folder", "parent", "cursor", "visited"}
    BY <1>0, <2>1, Knows
  <2>3. req[r].folder \notin req[r].visited
    BY <2>1 DEF FolderChecks, WalksPastOthers
  <2>4. CASE \E s : Go(r, s)
    <3>1. PICK s : Go(r, s)
      BY <2>4
    <3>2. /\ req'[r].folder = req[r].folder /\ req'[r].parent = req[r].parent
          /\ req'[r].visited = req[r].visited /\ req'[r].step = s
      BY <1>0, <1>2, <2>2, <3>1, GoKeeps
    <3>3. ASSUME s \in {"walk", "write"}, req[r].parent # None, req[r].folder \in DOMAIN folders'
          PROVE  InPlace(req[r].parent, folders[req[r].folder].workspace)'
      <4>0. \A z : Go(r, z) => z = s
        BY <1>0, <1>2, <3>2, GoKeeps
      <4>1. ~ReadFolder(r) /\ ~FolderManager(r)
        BY <2>1, <3>3, <4>0 DEF ReadFolder, FolderManager, Check
      <4>2. CASE CheckNewParent(r)
        <5>1. InWorkspace(req[r].parent, folders[req[r].folder].workspace)
          BY <3>3, <4>0, <4>2 DEF CheckNewParent, Check
        <5>2. UNCHANGED folders
          BY <4>2 DEF CheckNewParent, Reads, tables
        <5> QED  BY <3>2, <5>1, <5>2 DEF InWorkspace, InPlace
      <4>3. CASE Walk(r)
        <5>1. UNCHANGED folders /\ req[r].step = "walk"
          BY <4>3 DEF Walk, Reads, tables, At
        <5> QED  BY <2>1, <3>2, <3>3, <5>1 DEF FolderChecks, MovedFoldersFit, InPlace
      <4>4. ~MoveFolder(r)
        BY <3>3, <4>0 DEF MoveFolder
      <4> QED  BY <2>1, <4>1, <4>2, <4>3, <4>4, ActCases
    <3> QED  BY <2>3, <3>2, <3>3
  <2>5. CASE ~\E s : Go(r, s)
    <3>1. Walk(r)
      BY <2>1, <2>5, ActCases DEF ReadFolder, FolderManager, CheckNewParent, MoveFolder, Check
    <3> DEFINE c == req[r].cursor
               up == ParentOf(c)
               s == IF up = None THEN "write" ELSE req[r].step
    <3>2. /\ UNCHANGED folders /\ req[r].step = "walk" /\ c # req[r].folder
          /\ req' = [req EXCEPT ![r].visited = @ \cup {c}, ![r].cursor = up,
                                ![r].step = IF up = None THEN "write" ELSE @]
      BY <2>5, <3>1 DEF Walk, Reads, tables, At
    <3> HIDE DEF up
    <3>3. /\ req'[r].folder = req[r].folder /\ req'[r].parent = req[r].parent
          /\ req'[r].visited = req[r].visited \cup {c}
      BY <1>0, <2>2, <3>2
    <3>4. req[r].parent # None /\ req[r].folder \in DOMAIN folders
            => InPlace(req[r].parent, folders[req[r].folder].workspace)'
      BY <2>1, <3>2, <3>3 DEF FolderChecks, MovedFoldersFit, InPlace
    <3> HIDE DEF c
    <3> QED  BY <2>3, <3>2, <3>3, <3>4
  <2> QED  BY <2>4, <2>5
<1> QED  BY <1>1, <1>2

LEMMA FolderChecksStay ==
    ASSUME Whole, FolderChecks, NEW x \in Requests, Acts(x)
    PROVE  FolderChecks'
<1>0. Stepped(x)
  BY ActsStepped DEF Whole, Sound
<1>1. ASSUME NEW r \in Requests \ {x}
      PROVE  req'[r] = req[r]
  BY <1>0 DEF Stepped
<1>2. NewFoldersFit'
  <2> SUFFICES ASSUME NEW r \in Requests, At(r, "createFolder", "create")', req'[r].parent # None
               PROVE  InPlace(req[r].parent, req[r].workspace)'
    BY DEF NewFoldersFit
  <2>1. CASE r = x
    BY <2>1, NewFolderFits
  <2>2. CASE r # x
    <3>1. req'[r] = req[r]
      BY <1>1, <2>2
    <3> QED  BY <3>1, OthersFoldersFit DEF At, InPlace
  <2> QED  BY <2>1, <2>2
<1>3. MovedFoldersFit' /\ WalksPastOthers'
  <2> SUFFICES ASSUME NEW r \in Requests, req'[r].kind = "moveFolder"
               PROVE  /\ /\ req'[r].step \in {"walk", "write"} /\ req'[r].parent # None
                         /\ req'[r].folder \in DOMAIN folders'
                         => InPlace(req[r].parent, folders[req[r].folder].workspace)'
                      /\ req'[r].folder \notin req'[r].visited
    BY DEF MovedFoldersFit, WalksPastOthers
  <2>1. CASE r = x
    BY <2>1, MovedFolderFits
  <2>2. CASE r # x
    <3>1. req'[r] = req[r]
      BY <1>1, <2>2
    <3>2. req[r].folder \notin req[r].visited
      BY <3>1 DEF FolderChecks, WalksPastOthers
    <3> QED  BY <3>1, <3>2, OthersFoldersFit DEF InPlace
  <2> QED  BY <2>1, <2>2
<1> QED  BY <1>2, <1>3 DEF FolderChecks

LEMMA FoldersKeepInside ==
    ASSUME Whole, FolderChecks, FoldersStayInside, NEW x \in Requests, Acts(x)
    PROVE  FoldersStayInside'
<1>0. AllFormed /\ RowsMade /\ FoldersOK /\ FoldersOK'
  BY FoldersKept DEF Whole, Sound, TypeOK
<1>1. ASSUME NEW f \in DOMAIN folders'
      PROVE  folders'[f].workspace \in DOMAIN workspaces'
  BY <1>0, <1>1 DEF FoldersOK
<1>2. ASSUME NEW f \in DOMAIN folders', folders'[f].parent # None
      PROVE  InWorkspace(folders[f].parent, folders[f].workspace)'
  <2> DEFINE p == folders'[f].parent
  <2>1. p \in DOMAIN folders'
    BY <1>0, <1>2 DEF FoldersOK
  <2>2. CASE f \in DOMAIN folders /\ p = folders[f].parent
    <3>1. f \in MadeFolders /\ p \in MadeFolders /\ InWorkspace(p, folders[f].workspace)
      BY <1>0, <1>2, <2>2 DEF RowsMade, FoldersStayInside, InWorkspace
    <3> QED  BY <2>1, <2>2, <3>1, FoldersStay DEF InWorkspace
  <2>3. CASE InsertFolder(x) /\ ~(f \in DOMAIN folders /\ p = folders[f].parent)
    <3>1. \/ UNCHANGED folders
          \/ folders' = Plus(folders, x, [workspace |-> req[x].workspace,
                                parent |-> req[x].parent, author |-> req[x].user])
      BY <2>3 DEF InsertFolder
    <3>2. f = x /\ p = req[x].parent /\ folders'[f].workspace = req[x].workspace
      BY <2>3, <3>1 DEF Plus
    <3>3. p \in MadeFolders /\ x \notin MadeFolders
      BY <1>0, <1>2, <2>3, <3>2, MakesFirst
         DEF InsertFolder, At, AllFormed, Formed, FolderForms, MakesFolder
    <3>4. p \in DOMAIN folders /\ folders'[p].workspace = folders[p].workspace
      BY <2>1, <3>3, FoldersStay
    <3>5. folders[p].workspace = req[x].workspace
      BY <1>2, <2>3, <3>2, <3>4 DEF InsertFolder, FolderChecks, NewFoldersFit, InPlace
    <3> QED  BY <2>1, <3>2, <3>4, <3>5 DEF InWorkspace
  <2>4. CASE MoveFolder(x) /\ ~(f \in DOMAIN folders /\ p = folders[f].parent)
    <3>1. \/ UNCHANGED folders
          \/ folders' = [folders EXCEPT ![req[x].folder].parent = req[x].parent]
      BY <2>4 DEF MoveFolder
    <3>2. f \in DOMAIN folders /\ f = req[x].folder
      BY <2>4, <3>1
    <3>3. p = req[x].parent
      <4>1. folders[f] \in [workspace : DOMAIN workspaces,
                            parent : DOMAIN folders \cup {None}, author : Users]
        BY <1>0, <3>2 DEF FoldersOK
      <4> QED  BY <2>4, <3>1, <3>2, <4>1
    <3>4. p \in MadeFolders /\ f \in MadeFolders
      BY <1>0, <1>2, <2>4, <3>2, <3>3 DEF MoveFolder, At, AllFormed, Formed, FolderForms
    <3>5. /\ p \in DOMAIN folders /\ folders'[p].workspace = folders[p].workspace
          /\ folders'[f].workspace = folders[f].workspace
      BY <2>1, <3>4, FoldersStay
    <3>6. folders[p].workspace = folders[f].workspace
      BY <1>2, <2>4, <3>2, <3>3, <3>5 DEF MoveFolder, At, FolderChecks, MovedFoldersFit, InPlace
    <3> QED  BY <2>1, <3>5, <3>6 DEF InWorkspace
  <2>5. ASSUME NEW S, folders' = Less(folders, S)
        PROVE  f \in DOMAIN folders /\ p = folders[f].parent
    BY <2>5 DEF Less
  <2>6. RemoveFolder(x) => UNCHANGED folders \/ \E S : folders' = Less(folders, S)
    BY FolderDeleteRows
  <2>7. RemoveWorkspace(x) => UNCHANGED folders \/ \E S : folders' = Less(folders, S)
    BY WorkspaceDeleteRows DEF tables
  <2> QED  BY <2>2, <2>3, <2>4, <2>5, <2>6, <2>7, FoldersChange
<1> QED  BY <1>1, <1>2 DEF FoldersStayInside

LEMMA InitFolders ==
    ASSUME Init
    PROVE  FolderChecks /\ FoldersStayInside
<1>1. FolderChecks
  BY DEF Init, InitDatabase, FolderChecks, NewFoldersFit, MovedFoldersFit, WalksPastOthers, At,
         Idle
<1>2. \A f \in DOMAIN SeedFolders :
        /\ SeedFolders[f].workspace \in DOMAIN SeedWorkspaces
        /\ SeedFolders[f].parent \in DOMAIN SeedFolders \cup {None}
  BY SeedsAssumption
<1>3. FoldersStayInside
  BY <1>2, SeedsAssumption DEF Init, InitDatabase, FoldersStayInside, InWorkspace
<1> QED  BY <1>1, <1>3

LEMMA FoldersUnmoved ==
    ASSUME FolderChecks, FoldersStayInside, UNCHANGED dbVars
    PROVE  FolderChecks' /\ FoldersStayInside'
<1>1. FoldersStayInside'
  BY DEF dbVars, FoldersStayInside, InWorkspace
<1>2. NewFoldersFit' /\ WalksPastOthers'
  BY DEF dbVars, FolderChecks, NewFoldersFit, WalksPastOthers, At, InPlace
<1>3. MovedFoldersFit'
  BY DEF dbVars, FolderChecks, MovedFoldersFit, InPlace
<1> QED  BY <1>1, <1>2, <1>3 DEF FolderChecks

LEMMA FoldersHold == Spec => [](FolderChecks /\ FoldersStayInside)
<1>1. Init => FolderChecks /\ FoldersStayInside
  BY InitFolders
<1>2. Whole /\ FolderChecks /\ FoldersStayInside /\ [Next]_vars
        => FolderChecks' /\ FoldersStayInside'
  BY FolderChecksStay, FoldersKeepInside, FoldersUnmoved, NextCases
<1> QED  BY <1>1, <1>2, StateIsWhole, PTL DEF Spec

\* The lineage of a folder is closed under parents.
LEMMA LineageClosed ==
    ASSUME NEW p, NEW g \in Lineage(p), folders[g].parent # None,
           folders[g].parent \in DOMAIN folders
    PROVE  folders[g].parent \in Lineage(p)
<1>1. g \in DOMAIN folders
  BY DEF Lineage
<1>2. ASSUME NEW S \in SUBSET DOMAIN folders, p \in S, ClosedUp(S)
      PROVE  folders[g].parent \in S
  <2>1. g \in S
    BY <1>2 DEF Lineage
  <2> QED  BY <1>1, <1>2, <2>1 DEF ClosedUp, ParentOf
<1> QED  BY <1>2 DEF Lineage

\* A folder put below one that is not below it leaves the trees trees.
LEMMA MoveKeepsTrees ==
    ASSUME Whole, AcyclicIn(folders), NEW f \in DOMAIN folders, NEW p,
           FolderExists(p), p = None \/ f \notin Lineage(p),
           folders' = [folders EXCEPT ![f].parent = p]
    PROVE  AcyclicIn(folders')
<1>0. RowsMade /\ FoldersOK
  BY DEF Whole, Sound, TypeOK
<1>1. DOMAIN folders' = DOMAIN folders
  OBVIOUS
<1>2. \A g \in DOMAIN folders \ {f} : folders'[g].parent = folders[g].parent
  OBVIOUS
<1>3. folders'[f].parent = p
  <2>1. folders[f] \in [workspace : DOMAIN workspaces, parent : DOMAIN folders \cup {None},
                        author : Users]
    BY <1>0 DEF FoldersOK
  <2> QED  BY <2>1
<1>4. SUFFICES ASSUME NEW S \in SUBSET DOMAIN folders, S # {},
                      \A g \in S : folders'[g].parent \in S
               PROVE  FALSE
  BY <1>1 DEF AcyclicIn
<1>5. None \notin S
  BY <1>0, NoneIsNoFolder
<1>6. CASE f \notin S
  BY <1>2, <1>4, <1>6 DEF AcyclicIn
<1>7. CASE f \in S
  <2>1. p \in S /\ p \in DOMAIN folders /\ p # None /\ f \notin Lineage(p)
    BY <1>3, <1>4, <1>5, <1>7
  <2> DEFINE T == S \cap Lineage(p)
  <2>2. p \in T /\ f \notin T
    BY <2>1, LineageUp
  <2>3. ASSUME NEW g \in T
        PROVE  folders[g].parent \in T
    <3>1. folders[g].parent \in S
      BY <1>2, <1>4, <2>2
    <3> QED  BY <1>5, <3>1, LineageClosed
  <2>4. T \in SUBSET DOMAIN folders /\ T # {}
    BY <2>2
  <2> HIDE DEF T
  <2> QED  BY <2>3, <2>4 DEF AcyclicIn
<1> QED  BY <1>6, <1>7

LEMMA TreesKept ==
    ASSUME Whole, FolderChecks, NEW x \in Requests, Acts(x), NEW r \in Requests,
           At(r, "moveFolder", "write"), req'[r].step = "done", StillAbove(r),
           AcyclicIn(folders)
    PROVE  AcyclicIn(folders')
<1>0. AllFormed /\ Stepped(x)
  BY ActsStepped DEF Whole, Sound
<1>1. x = r
  BY <1>0 DEF Stepped, At
<1>2. MoveFolder(r)
  <2>1. ~ReadFolder(r) /\ ~FolderManager(r)
    BY DEF ReadFolder, FolderManager, At
  <2>2. ~CheckNewParent(r) /\ ~Walk(r)
    BY DEF CheckNewParent, Walk, At
  <2> QED  BY <1>1, <2>1, <2>2, ActCases DEF At
<1>3. CASE UNCHANGED folders
  BY <1>3
<1>4. CASE /\ req[r].folder \in DOMAIN folders /\ FolderExists(req[r].parent)
           /\ folders' = [folders EXCEPT ![req[r].folder].parent = req[r].parent]
  <2>1. req[r].folder \notin req[r].visited
    BY DEF FolderChecks, WalksPastOthers, At
  <2>2. req[r].parent = None \/ req[r].folder \notin Lineage(req[r].parent)
    BY <2>1 DEF StillAbove
  <2> QED  BY <1>4, <2>2, MoveKeepsTrees
<1> QED  BY <1>2, <1>3, <1>4 DEF MoveFolder

(* A folder is never moved below itself, as long as the folders that          *)
(* assertNoCycle walked through are still the ones above the new parent when  *)
(* the move is written.                                                       *)
THEOREM TreesStay == Spec => MovesKeepTrees
<1>1. Whole /\ FolderChecks /\ [Next]_vars =>
        [\A r \in Requests :
          At(r, "moveFolder", "write") /\ req'[r].step = "done" /\ StillAbove(r)
            /\ AcyclicIn(folders)
          => AcyclicIn(folders')]_dbVars
  BY TreesKept, NextCases
<1> QED  BY <1>1, StateIsWhole, FoldersHold, PTL DEF Spec, MovesKeepTrees

-----------------------------------------------------------------------------
(* Documents and the folders they are in                                   *)

\* What is still there of the checks on the folder of a document.
NewDocumentsFit ==
    \A r \in Requests :
        /\ req[r].kind \in {"create", "upload"} /\ req[r].step \in {"put", "insert"}
        /\ req[r].folder # None
        => InPlace(req[r].folder, req[r].workspace)
MovedDocumentsFit ==
    \A r \in Requests :
        /\ req[r].kind = "move" /\ req[r].step = "write" /\ FilesInto(r)
        => InPlace(req[r].folder, Destination(r))
FilingChecks == NewDocumentsFit /\ MovedDocumentsFit

LEMMA OthersDocumentsFit ==
    ASSUME Whole, FilingChecks, NEW x \in Requests, Acts(x), NEW r \in Requests, r # x
    PROVE  /\ /\ req'[r].kind \in {"create", "upload"} /\ req'[r].step \in {"put", "insert"}
              /\ req'[r].folder # None
              => InPlace(req[r].folder, req[r].workspace)'
           /\ /\ req'[r].kind = "move" /\ req'[r].step = "write" /\ FilesInto(r)'
              => InPlace(req[r].folder, Destination(r))'
<1>0. AllFormed /\ req'[r] = req[r]
  BY ActsStepped DEF Whole, Sound, Stepped
<1>1. Formed(req[r], MadeWorkspaces, MadeFolders, MadeDocuments)
  BY <1>0 DEF AllFormed
<1>2. ASSUME req[r].kind \in {"create", "upload"}, req[r].step \in {"put", "insert"},
             req[r].folder # None
      PROVE  InPlace(req[r].folder, req[r].workspace)'
  <2>1. req[r].folder \in MadeFolders
    BY <1>1, <1>2 DEF Formed, DocumentForms
  <2>2. InPlace(req[r].folder, req[r].workspace)
    BY <1>2 DEF FilingChecks, NewDocumentsFit
  <2> QED  BY <1>0, <2>1, <2>2, FoldersStay DEF InPlace
<1>3. ASSUME req[r].kind = "move", req[r].step = "write", FilesInto(r)
      PROVE  InPlace(req[r].folder, Destination(r))'
  <2>1. req[r].folder \in MadeFolders
    BY <1>1, <1>3 DEF Formed, DocumentForms, FilesInto
  <2>2. InPlace(req[r].folder, Destination(r))
    BY <1>3 DEF FilingChecks, MovedDocumentsFit
  <2>3. Destination(r)' = Destination(r)
    BY <1>0 DEF Destination
  <2> QED  BY <1>0, <2>1, <2>2, <2>3, FoldersStay DEF InPlace
<1> QED  BY <1>0, <1>2, <1>3 DEF FilesInto

LEMMA NewDocumentFits ==
    ASSUME Whole, FilingChecks, NEW r \in Requests, Acts(r),
           req'[r].kind \in {"create", "upload"}, req'[r].step \in {"put", "insert"},
           req'[r].folder # None
    PROVE  InPlace(req[r].folder, req[r].workspace)'
<1>0. AllFormed /\ TypeOK /\ Stepped(r) /\ DOMAIN req = Requests
  BY ActsStepped DEF Whole, Sound, AllFormed
<1>1. req[r] # Idle /\ req[r].kind \in {"create", "upload"}
  BY <1>0, ActCases, ArrivalSteps DEF Stepped
<1>2. DOMAIN req[r] = {"kind", "step", "user", "workspace", "folder", "blob"}
  BY <1>0, <1>1, Knows
<1>3. CASE \E ok \in BOOLEAN : PutBlob(r, ok)
  <2>1. \/ Go(r, "failed")
        \/ req' = [req EXCEPT ![r].blob = r, ![r].step = "insert"]
    BY <1>3 DEF PutBlob, Go
  <2>2. At(r, "upload", "put") /\ UNCHANGED folders
    BY <1>3 DEF PutBlob, tables
  <2>3. ~Go(r, "failed")
    BY <1>0, <1>1, GoKeeps
  <2>4. req'[r].folder = req[r].folder /\ req'[r].workspace = req[r].workspace
    BY <1>0, <1>2, <2>1, <2>3
  <2> QED  BY <2>2, <2>4 DEF At, FilingChecks, NewDocumentsFit, InPlace
<1>4. CASE ~\E ok \in BOOLEAN : PutBlob(r, ok)
  <2>1. PICK s : Go(r, s)
    BY <1>1, <1>4, ActCases DEF CheckMember, CheckFolder, InsertDocument, DiscardBlob, Check
  <2>2. /\ req'[r].folder = req[r].folder /\ req'[r].workspace = req[r].workspace
        /\ s \in {"put", "insert"} /\ \A z : Go(r, z) => z = s
    BY <1>0, <1>1, <1>2, <2>1, GoKeeps
  <2>3. (\A ok : ~DiscardBlob(r, ok)) /\ (\A ok : ~InsertDocument(r, ok))
    BY <2>2 DEF DiscardBlob, InsertDocument
  <2>4. ~CheckMember(r)
    BY <2>2 DEF CheckMember, Check
  <2>5. CheckFolder(r)
    BY <1>1, <1>4, <2>3, <2>4, ActCases
  <2> QED  BY <2>2, <2>5 DEF CheckFolder, Check, InWorkspace, InPlace, Reads, tables
<1> QED  BY <1>3, <1>4

LEMMA MovedDocumentFits ==
    ASSUME Whole, FilingChecks, NEW r \in Requests, Acts(r),
           req'[r].kind = "move", req'[r].step = "write", FilesInto(r)'
    PROVE  InPlace(req[r].folder, Destination(r))'
<1>0. AllFormed /\ TypeOK /\ Stepped(r) /\ DOMAIN req = Requests
  BY ActsStepped DEF Whole, Sound, AllFormed
<1>1. req[r] # Idle /\ req[r].kind = "move"
  BY <1>0, ActCases, ArrivalSteps DEF Stepped
<1>2. DOMAIN req[r] = {"kind", "step", "user", "id", "row", "blob", "workspace", "folder"}
  BY <1>0, <1>1, Knows
<1>3. ~ReadDocument(r)
  <2>1. SUFFICES ASSUME ReadDocument(r)
                 PROVE  FALSE
    OBVIOUS
  <2>2. CASE req' = [req EXCEPT ![r].row = documents[req[r].id], ![r].step = "member"]
    BY <1>0, <1>2, <2>2
  <2>3. CASE Go(r, "refused")
    BY <1>0, <1>1, <2>3, GoKeeps
  <2> QED  BY <2>1, <2>2, <2>3 DEF ReadDocument, Go
<1>4. PICK s : Go(r, s)
  BY <1>1, <1>3, ActCases
     DEF CheckAccess, CheckTarget, CheckTargetFolder, MoveDocument, Check
<1>5. /\ req'[r].folder = req[r].folder /\ req'[r].workspace = req[r].workspace
      /\ req'[r].row = req[r].row /\ s = "write" /\ \A z : Go(r, z) => z = s
  BY <1>0, <1>1, <1>2, <1>4, GoKeeps
<1>6. FilesInto(r) /\ Destination(r)' = Destination(r)
  BY <1>5 DEF FilesInto, Destination
<1>7. ~CheckAccess(r)
  BY <1>1, <1>5, <1>6 DEF CheckAccess, Check, FirstStep
<1>8. ~CheckTarget(r) /\ ~MoveDocument(r)
  BY <1>5, <1>6 DEF CheckTarget, Check, MoveDocument
<1>9. CheckTargetFolder(r)
  BY <1>1, <1>3, <1>7, <1>8, ActCases
<1>10. InWorkspace(req[r].folder, Destination(r)) /\ UNCHANGED folders
  BY <1>5, <1>9 DEF CheckTargetFolder, Check, Reads, tables
<1> QED  BY <1>5, <1>6, <1>10 DEF InWorkspace, InPlace

LEMMA FilingChecksStay ==
    ASSUME Whole, FilingChecks, NEW x \in Requests, Acts(x)
    PROVE  FilingChecks'
<1>1. NewDocumentsFit'
  <2> SUFFICES ASSUME NEW r \in Requests,
                      req'[r].kind \in {"create", "upload"}, req'[r].step \in {"put", "insert"},
                      req'[r].folder # None
               PROVE  InPlace(req[r].folder, req[r].workspace)'
    BY DEF NewDocumentsFit
  <2> QED  BY NewDocumentFits, OthersDocumentsFit
<1>2. MovedDocumentsFit'
  <2> SUFFICES ASSUME NEW r \in Requests,
                      req'[r].kind = "move", req'[r].step = "write", FilesInto(r)'
               PROVE  InPlace(req[r].folder, Destination(r))'
    BY DEF MovedDocumentsFit
  <2> QED  BY MovedDocumentFits, OthersDocumentsFit
<1> QED  BY <1>1, <1>2 DEF FilingChecks

\* A move files a document where it checked, if it knows where it is.
LEMMA MoveFilesInside ==
    ASSUME Whole, FilingChecks, FiledInside, NEW x \in Requests, MoveDocument(x),
           documents[req[x].id].workspace = req[x].row.workspace,
           NEW d \in DOMAIN documents', documents'[d].folder # None
    PROVE  \/ /\ d \in DOMAIN documents /\ documents'[d].folder = documents[d].folder
              /\ documents'[d].workspace = documents[d].workspace
           \/ InPlace(documents'[d].folder, documents'[d].workspace)
<1>0. DocumentsOK
  BY DEF Whole, Sound, TypeOK
<1>1. CASE d # req[x].id \/ UNCHANGED documents
  BY <1>1 DEF MoveDocument
<1>2. CASE d = req[x].id /\ ~UNCHANGED documents
  <2>1. PICK q : q = documents[d]
    OBVIOUS
  <2>2. PICK a, b :
          /\ a = IF req[x].workspace = Keep THEN q.workspace ELSE req[x].workspace
          /\ b = IF req[x].folder # Keep THEN req[x].folder
                 ELSE IF req[x].workspace \notin {Keep, req[x].row.workspace} THEN None
                 ELSE q.folder
    OBVIOUS
  <2>3. /\ d \in DOMAIN documents
        /\ documents' = [documents EXCEPT ![d] = Moved(x, documents[d])]
    BY <1>2 DEF MoveDocument
  <2>4. documents'[d] = [q EXCEPT !.workspace = a, !.folder = b]
    BY <2>1, <2>2, <2>3 DEF Moved
  <2>5. documents'[d].workspace = a /\ documents'[d].folder = b
    <3>1. q \in [workspace : DOMAIN workspaces, author : Users,
                 folder : DOMAIN folders \cup {None}, blob : Rows \cup {None}]
      BY <1>0, <2>1, <2>3 DEF DocumentsOK
    <3> QED  BY <2>4, <3>1
  <2>6. q.workspace = req[x].row.workspace
    BY <1>2, <2>1
  <2>7. CASE FilesInto(x)
    <3>1. InPlace(req[x].folder, Destination(x))
      BY <2>7 DEF MoveDocument, At, FilingChecks, MovedDocumentsFit
    <3>2. b = req[x].folder /\ a = Destination(x)
      BY <2>2, <2>6, <2>7 DEF FilesInto, Destination
    <3> QED  BY <2>5, <3>1, <3>2
  <2>8. CASE ~FilesInto(x)
    <3>1. req[x].folder = Keep
      BY <2>2, <2>5, <2>8 DEF FilesInto
    <3>2. b = q.folder /\ a = q.workspace
      BY <2>2, <2>5, <2>6, <3>1
    <3> QED  BY <2>1, <2>3, <2>5, <3>2
  <2> QED  BY <2>7, <2>8
<1> QED  BY <1>1, <1>2

\* A row of documents after an insert is an old one, or the new one.
LEMMA InsertedRow ==
    ASSUME NEW r, NEW ok, NEW w, NEW f, NEW b, InsertRow(r, ok, w, f, b),
           NEW d \in DOMAIN documents'
    PROVE  \/ d \in DOMAIN documents /\ documents'[d] = documents[d]
           \/ /\ d = r /\ Holds(w, f) /\ documents'[d].workspace = w
              /\ documents'[d].folder = f /\ documents'[d].blob = b
<1> DEFINE row == [workspace |-> w, folder |-> f, author |-> req[r].user, blob |-> b]
<1>1. row.workspace = w /\ row.folder = f /\ row.blob = b
  OBVIOUS
<1>2. CASE UNCHANGED documents
  BY <1>2
<1>3. CASE Holds(w, f) /\ documents' = Plus(documents, r, row)
  <2> HIDE DEF row
  <2> QED  BY <1>1, <1>3 DEF Plus
<1> QED  BY <1>2, <1>3 DEF InsertRow

LEMMA DocumentsStayInside ==
    ASSUME Whole, FilingChecks, FiledInside, NEW x \in Requests, Acts(x),
           ~\E r \in Requests :
              \/ At(r, "move", "write")
                    /\ documents[req[r].id].workspace # req[r].row.workspace
              \/ At(r, "copy", "insertCopy") /\ Misfiled(req[r].row)
    PROVE  FiledInside'
<1>0. RowsMade /\ DocumentsOK /\ DocumentsOK'
  BY DocumentsKept DEF Whole, Sound, TypeOK
<1>1. ASSUME NEW d \in DOMAIN documents'
      PROVE  documents'[d].workspace \in DOMAIN workspaces'
  BY <1>0 DEF DocumentsOK
<1>2. ASSUME NEW d \in DOMAIN documents', documents'[d].folder # None
      PROVE  InWorkspace(documents[d].folder, documents[d].workspace)'
  <2> DEFINE f == documents'[d].folder
             w == documents'[d].workspace
  <2>1. f \in DOMAIN folders'
    BY <1>0, <1>2 DEF DocumentsOK
  <2>2. CASE d \in DOMAIN documents /\ f = documents[d].folder /\ w = documents[d].workspace
    <3>1. InWorkspace(f, w)
      BY <1>2, <2>2 DEF FiledInside
    <3>2. f \in MadeFolders
      BY <1>0, <3>1 DEF RowsMade, InWorkspace
    <3> QED  BY <2>1, <3>1, <3>2, FoldersStay DEF InWorkspace
  <2>3. ASSUME InPlace(f, w), UNCHANGED folders
        PROVE  InWorkspace(documents[d].folder, documents[d].workspace)'
    BY <2>1, <2>3 DEF InPlace, InWorkspace
  <2>4. ASSUME NEW ok, InsertDocument(x, ok)
        PROVE  InWorkspace(documents[d].folder, documents[d].workspace)'
    <3>1. /\ InsertRow(x, ok, req[x].workspace, req[x].folder, req[x].blob)
          /\ UNCHANGED folders
      BY <2>4 DEF InsertDocument, OnlyDocuments
    <3>2. \/ d \in DOMAIN documents /\ f = documents[d].folder /\ w = documents[d].workspace
          \/ f = req[x].folder /\ w = req[x].workspace
      BY <3>1, InsertedRow
    <3>3. req[x].folder # None => InPlace(req[x].folder, req[x].workspace)
      BY <2>4 DEF InsertDocument, FilingChecks, NewDocumentsFit
    <3> QED  BY <1>2, <2>2, <2>3, <3>1, <3>2, <3>3
  <2>5. ASSUME NEW ok, InsertCopy(x, ok)
        PROVE  InWorkspace(documents[d].folder, documents[d].workspace)'
    <3>1. /\ InsertRow(x, ok, req[x].row.workspace, req[x].row.folder, req[x].blob)
          /\ UNCHANGED folders /\ ~Misfiled(req[x].row)
      BY <2>5 DEF InsertCopy, OnlyDocuments
    <3>2. \/ d \in DOMAIN documents /\ f = documents[d].folder /\ w = documents[d].workspace
          \/ f = req[x].row.folder /\ w = req[x].row.workspace
      BY <3>1, InsertedRow
    <3> QED  BY <1>2, <2>2, <2>3, <3>1, <3>2 DEF Misfiled, InWorkspace, InPlace
  <2>6. CASE MoveDocument(x)
    <3>1. documents[req[x].id].workspace = req[x].row.workspace /\ UNCHANGED folders
      BY <2>6 DEF MoveDocument, OnlyDocuments
    <3> QED  BY <1>2, <2>2, <2>3, <2>6, <3>1, MoveFilesInside
  <2>7. ASSUME NEW S, NEW T, documents' = Unfiled(Less(documents, S), T)
        PROVE  d \in DOMAIN documents /\ f = documents[d].folder /\ w = documents[d].workspace
    <3>1. /\ d \in DOMAIN documents
          /\ \/ documents'[d] = documents[d]
             \/ documents'[d] = [documents[d] EXCEPT !.folder = None]
      BY <2>7 DEF Unfiled, Less
    <3>2. documents[d] \in [workspace : DOMAIN workspaces, author : Users,
                            folder : DOMAIN folders \cup {None}, blob : Rows \cup {None}]
      BY <1>0, <3>1 DEF DocumentsOK
    <3> QED  BY <1>2, <3>1, <3>2
  <2>8. ASSUME NEW T, documents' = Unfiled(documents, T)
        PROVE  d \in DOMAIN documents /\ f = documents[d].folder /\ w = documents[d].workspace
    <3>1. /\ d \in DOMAIN documents
          /\ \/ documents'[d] = documents[d]
             \/ documents'[d] = [documents[d] EXCEPT !.folder = None]
      BY <2>8 DEF Unfiled
    <3>2. documents[d] \in [workspace : DOMAIN workspaces, author : Users,
                            folder : DOMAIN folders \cup {None}, blob : Rows \cup {None}]
      BY <1>0, <3>1 DEF DocumentsOK
    <3> QED  BY <1>2, <3>1, <3>2
  <2>9. ASSUME NEW S, documents' = Less(documents, S)
        PROVE  d \in DOMAIN documents /\ f = documents[d].folder /\ w = documents[d].workspace
    BY <2>9 DEF Less
  <2>10. RemoveFolder(x) => UNCHANGED documents \/ \E T : documents' = Unfiled(documents, T)
    BY FolderDeleteRows
  <2>11. RemoveWorkspace(x) =>
           UNCHANGED documents \/ \E S, T : documents' = Unfiled(Less(documents, S), T)
    BY WorkspaceDeleteRows DEF tables
  <2>12. RemoveDocument(x) \/ (\E ok \in BOOLEAN : RollBack(x, ok)) =>
           UNCHANGED documents \/ \E S : documents' = Less(documents, S)
    BY DEF RemoveDocument, RollBack, DeleteDocument
  <2> QED
    BY <2>2, <2>4, <2>5, <2>6, <2>7, <2>8, <2>9, <2>10, <2>11, <2>12, DocumentsChange
<1> QED  BY <1>1, <1>2 DEF FiledInside

LEMMA FilingHolds == Spec => []FilingChecks
<1>1. Init => FilingChecks
  BY DEF Init, InitDatabase, FilingChecks, NewDocumentsFit, MovedDocumentsFit, Idle
<1>2. UNCHANGED dbVars /\ FilingChecks => FilingChecks'
  BY DEF dbVars, FilingChecks, NewDocumentsFit, MovedDocumentsFit, InPlace, FilesInto,
         Destination
<1>3. Whole /\ FilingChecks /\ [Next]_vars => FilingChecks'
  BY <1>2, FilingChecksStay, NextCases
<1> QED  BY <1>1, <1>3, StateIsWhole, PTL DEF Spec

(* No request files a document under a folder of another workspace, unless  *)
(* another move took the document to another workspace after this one read  *)
(* its row, or the row it copies was such a document.                       *)
THEOREM DocumentsFiled == Spec => FolderInItsWorkspace
<1>1. Whole /\ FilingChecks /\ [Next]_vars =>
        [\/ FiledInside => FiledInside'
         \/ \E r \in Requests :
               \/ At(r, "move", "write")
                     /\ documents[req[r].id].workspace # req[r].row.workspace
               \/ At(r, "copy", "insertCopy") /\ Misfiled(req[r].row)]_dbVars
  BY DocumentsStayInside, NextCases
<1> QED  BY <1>1, StateIsWhole, FilingHolds, PTL DEF Spec, FolderInItsWorkspace

(* Both at once: however moves overtake one another, folders stay trees and  *)
(* documents stay in folders of their own workspace.                         *)
THEOREM PlacesKept == Spec => MovesKeepPlaces
BY TreesStay, DocumentsFiled DEF MovesKeepPlaces

-----------------------------------------------------------------------------
(* Documents and their blobs                                               *)

\* The blob a document may have: its own, and none that another one has.
Own(d) == IF d \in DOMAIN SeedDocuments THEN {SeedDocuments[d].blob} ELSE {None, d}
RowBlobs == \A d \in DOMAIN documents : documents[d].blob \in Own(d)

\* What a request knows of blobs.
Makers == {"create", "upload", "copy"}
Early == {"member", "same", "put", "document", "copyBlob", "refused"}
CopiedSteps == {"insertCopy", "content", "writeContent", "rollback", "discard", "done"}
KnowsRow(r) ==
    req[r].kind \in OfRow /\ req[r].step \notin {"document", "refused"} =>
        /\ req[r].row.blob \in Own(req[r].id)
        /\ req[r].id \in DOMAIN documents => documents[req[r].id].blob = req[r].row.blob
KnowsBlob(r) ==
    req[r].kind \in Makers =>
        /\ req[r].blob \in {None, r}
        /\ req[r].step \in Early => req[r].blob = None
        /\ req[r].step \in {"insert", "insertCopy"} /\ req[r].blob # None => r \in blobs
        /\ req[r].step = "discard" => req[r].blob = r /\ r \notin DOMAIN documents
        /\ req[r].step \in {"writeContent", "rollback"} => req[r].blob = None
        /\ r \in DOMAIN documents => documents[r].blob = req[r].blob
StoresOwn(r) == r \in blobs => req[r].kind \in Makers /\ req[r].blob = r
CopiesBlob(r) ==
    req[r].kind = "copy" /\ req[r].step \in CopiedSteps =>
        (req[r].row.blob = None <=> req[r].blob = None)
RowIsGone(r) == At(r, "delete", "blob") => req[r].id \notin DOMAIN documents
BlobCheck(r) == KnowsRow(r) /\ KnowsBlob(r) /\ StoresOwn(r) /\ CopiesBlob(r) /\ RowIsGone(r)
BlobsKnown == RowBlobs /\ DocumentsHaveTheirBlob /\ \A r \in Requests : BlobCheck(r)

\* No blob is two documents' own.
LEMMA OwnDistinct ==
    ASSUME NEW c \in MadeDocuments, NEW d \in MadeDocuments, NEW b,
           b # None, b \in Own(c), b \in Own(d)
    PROVE  c = d
<1>1. \A e \in DOMAIN SeedDocuments : SeedDocuments[e].blob # None => SeedDocuments[e].blob \in Blobs
  BY DEF Blobs
<1>2. MadeDocuments \subseteq DOMAIN SeedDocuments \cup Requests
  BY DEF MadeDocuments
<1>3. CASE c \in DOMAIN SeedDocuments /\ d \in DOMAIN SeedDocuments
  BY <1>3, SeedsAssumption DEF Own
<1>4. CASE c \notin DOMAIN SeedDocuments \/ d \notin DOMAIN SeedDocuments
  <2>1. Blobs \cap Requests = {}
    BY SeedsAssumption
  <2> QED  BY <1>1, <1>2, <1>4, <2>1 DEF Own
<1> QED  BY <1>3, <1>4

\* A request that has made no document yet owns no document's blob.
LEMMA OwnIsNoRequests ==
    ASSUME NEW c \in MadeDocuments, NEW r \in Requests, r \notin MadeDocuments
    PROVE  r \notin Own(c)
<1>1. \A e \in DOMAIN SeedDocuments : SeedDocuments[e].blob # None => SeedDocuments[e].blob \in Blobs
  BY DEF Blobs
<1>2. Blobs \cap Requests = {} /\ None \notin Requests
  BY SeedsAssumption, NoneAssumption
<1> QED  BY <1>1, <1>2 DEF Own

\* A document keeps its blob, and one that has been deleted stays so.
LEMMA DocumentsStay ==
    ASSUME Whole, NEW x \in Requests, Acts(x), NEW d \in DOMAIN documents'
    PROVE  \/ d \in DOMAIN documents /\ documents'[d].blob = documents[d].blob
           \/ /\ d = x /\ x \notin MadeDocuments
              /\ documents'[d].blob = req[x].blob
              /\ req[x].kind \in Makers /\ req[x].step \in {"insert", "insertCopy"}
<1>0. AllFormed /\ RowsMade /\ DocumentsOK
  BY DEF Whole, Sound, TypeOK
<1>1. \A e \in DOMAIN documents :
        documents[e] \in [workspace : DOMAIN workspaces, author : Users,
                          folder : DOMAIN folders \cup {None}, blob : Rows \cup {None}]
  BY <1>0 DEF DocumentsOK
<1>2. ASSUME NEW ok, InsertDocument(x, ok)
      PROVE  \/ d \in DOMAIN documents /\ documents'[d].blob = documents[d].blob
             \/ d = x /\ documents'[d].blob = req[x].blob /\ x \notin MadeDocuments
  <2>1. InsertRow(x, ok, req[x].workspace, req[x].folder, req[x].blob)
    BY <1>2 DEF InsertDocument
  <2>2. x \notin MadeDocuments
    BY <1>0, <1>2, MakesFirst DEF InsertDocument, MakesDocument
  <2> QED  BY <2>1, <2>2, InsertedRow
<1>3. ASSUME NEW ok, InsertCopy(x, ok)
      PROVE  \/ d \in DOMAIN documents /\ documents'[d].blob = documents[d].blob
             \/ d = x /\ documents'[d].blob = req[x].blob /\ x \notin MadeDocuments
  <2>1. InsertRow(x, ok, req[x].row.workspace, req[x].row.folder, req[x].blob)
    BY <1>3 DEF InsertCopy
  <2>2. x \notin MadeDocuments
    BY <1>0, <1>3, MakesFirst DEF InsertCopy, At, MakesDocument
  <2> QED  BY <2>1, <2>2, InsertedRow
<1>4. MoveDocument(x) => d \in DOMAIN documents /\ documents'[d].blob = documents[d].blob
  <2>1. SUFFICES ASSUME MoveDocument(x)
                 PROVE  d \in DOMAIN documents /\ documents'[d].blob = documents[d].blob
    OBVIOUS
  <2>2. \/ UNCHANGED documents
        \/ documents' = [documents EXCEPT ![req[x].id] = Moved(x, documents[req[x].id])]
    BY <2>1 DEF MoveDocument
  <2>3. d \in DOMAIN documents => Moved(x, documents[d]).blob = documents[d].blob
    <3>1. SUFFICES ASSUME d \in DOMAIN documents
                   PROVE  Moved(x, documents[d]).blob = documents[d].blob
      OBVIOUS
    <3>2. PICK q : q = documents[d]
      OBVIOUS
    <3>3. PICK a, b :
            /\ a = IF req[x].workspace = Keep THEN q.workspace ELSE req[x].workspace
            /\ b = IF req[x].folder # Keep THEN req[x].folder
                   ELSE IF req[x].workspace \notin {Keep, req[x].row.workspace} THEN None
                   ELSE q.folder
      OBVIOUS
    <3>4. Moved(x, documents[d]) = [q EXCEPT !.workspace = a, !.folder = b]
      BY <3>2, <3>3 DEF Moved
    <3>5. q \in [workspace : DOMAIN workspaces, author : Users,
                 folder : DOMAIN folders \cup {None}, blob : Rows \cup {None}]
      BY <1>1, <3>1, <3>2
    <3> QED  BY <3>2, <3>4, <3>5
  <2> QED  BY <2>2, <2>3
<1>5. ASSUME NEW S, NEW T, documents' = Unfiled(Less(documents, S), T)
      PROVE  d \in DOMAIN documents /\ documents'[d].blob = documents[d].blob
  <2>1. /\ d \in DOMAIN documents
        /\ \/ documents'[d] = documents[d]
           \/ documents'[d] = [documents[d] EXCEPT !.folder = None]
    BY <1>5 DEF Unfiled, Less
  <2> QED  BY <1>1, <2>1
<1>6. ASSUME NEW T, documents' = Unfiled(documents, T)
      PROVE  d \in DOMAIN documents /\ documents'[d].blob = documents[d].blob
  <2>1. /\ d \in DOMAIN documents
        /\ \/ documents'[d] = documents[d]
           \/ documents'[d] = [documents[d] EXCEPT !.folder = None]
    BY <1>6 DEF Unfiled
  <2> QED  BY <1>1, <2>1
<1>7. ASSUME NEW S, documents' = Less(documents, S)
      PROVE  d \in DOMAIN documents /\ documents'[d].blob = documents[d].blob
  BY <1>7 DEF Less
<1>8. RemoveFolder(x) => UNCHANGED documents \/ \E T : documents' = Unfiled(documents, T)
  BY FolderDeleteRows
<1>9. RemoveWorkspace(x) =>
        UNCHANGED documents \/ \E S, T : documents' = Unfiled(Less(documents, S), T)
  BY WorkspaceDeleteRows DEF tables
<1>10. RemoveDocument(x) \/ (\E ok \in BOOLEAN : RollBack(x, ok)) =>
         UNCHANGED documents \/ \E S : documents' = Less(documents, S)
  BY DEF RemoveDocument, RollBack, DeleteDocument
<1>11. (\E ok \in BOOLEAN : InsertDocument(x, ok) \/ InsertCopy(x, ok)) =>
         req[x].kind \in Makers /\ req[x].step \in {"insert", "insertCopy"}
  BY DEF InsertDocument, InsertCopy, At, Makers
<1> QED
  BY <1>2, <1>3, <1>4, <1>5, <1>6, <1>7, <1>8, <1>9, <1>10, <1>11, DocumentsChange

\* Which blob a step takes away: the request's own or that of a row it deleted.
LEMMA BlobsStay ==
    ASSUME Whole, BlobsKnown, NEW x \in Requests, Acts(x), NEW b \in blobs \ blobs'
    PROVE  /\ UNCHANGED documents
           /\ \/ b = x /\ req[x].kind \in Makers /\ req[x].step = "discard"
              \/ At(x, "delete", "blob") /\ b = req[x].row.blob /\ b \in Own(req[x].id)
<1>1. BlobCheck(x)
  BY DEF BlobsKnown
<1>2. CASE \E ok \in BOOLEAN : DiscardBlob(x, ok)
  BY <1>1, <1>2 DEF BlobCheck, DiscardBlob, KnowsBlob, Makers, tables
<1>3. CASE \E ok \in BOOLEAN : RemoveBlob(x, ok)
  BY <1>1, <1>3 DEF BlobCheck, RemoveBlob, KnowsRow, At, OfRow, tables
<1> QED  BY <1>2, <1>3, BlobsChange DEF PutBlob, CopyBlob

LEMMA BlobsCome ==
    ASSUME NEW x \in Requests, Acts(x)
    PROVE  blobs' \subseteq blobs \cup {x}
BY BlobsChange DEF PutBlob, DiscardBlob, RemoveBlob, CopyBlob

\* The documents that are left have their blobs.
LEMMA RowsKeepBlobs ==
    ASSUME Whole, BlobsKnown, NEW x \in Requests, Acts(x)
    PROVE  RowBlobs' /\ DocumentsHaveTheirBlob'
<1>0. AllFormed /\ RowsMade /\ RowBlobs /\ BlobCheck(x)
  BY DEF Whole, Sound, BlobsKnown
<1>1. ASSUME NEW d \in DOMAIN documents'
      PROVE  documents'[d].blob \in Own(d)
  <2>1. CASE d \in DOMAIN documents /\ documents'[d].blob = documents[d].blob
    BY <1>0, <2>1 DEF RowBlobs
  <2>2. CASE /\ d = x /\ x \notin MadeDocuments /\ documents'[d].blob = req[x].blob
             /\ req[x].kind \in Makers
    BY <1>0, <2>2 DEF BlobCheck, KnowsBlob, Own, MadeDocuments
  <2> QED  BY <2>1, <2>2, DocumentsStay
<1>2. ASSUME NEW d \in DOMAIN documents', documents'[d].blob # None
      PROVE  documents'[d].blob \in blobs'
  <2> DEFINE b == documents'[d].blob
  <2>1. b \in blobs
    <3>1. CASE d \in DOMAIN documents /\ documents'[d].blob = documents[d].blob
      BY <1>2, <3>1 DEF BlobsKnown, DocumentsHaveTheirBlob, Referenced
    <3>2. CASE /\ d = x /\ documents'[d].blob = req[x].blob
               /\ req[x].kind \in Makers /\ req[x].step \in {"insert", "insertCopy"}
      BY <1>0, <1>2, <3>2 DEF BlobCheck, KnowsBlob
    <3> QED  BY <3>1, <3>2, DocumentsStay
  <2>2. SUFFICES ASSUME b \notin blobs'
                 PROVE  FALSE
    OBVIOUS
  <2>3. d \in DOMAIN documents /\ b \in Own(d) /\ d \in MadeDocuments /\ UNCHANGED documents
    BY <1>0, <1>1, <2>1, <2>2, BlobsStay DEF RowsMade
  <2>4. CASE b = x /\ req[x].kind \in Makers /\ req[x].step = "discard"
    <3>1. x \notin DOMAIN documents
      BY <1>0, <2>4 DEF BlobCheck, KnowsBlob
    <3>2. SeedDocuments[d].blob \in Blobs \/ d \notin DOMAIN SeedDocuments
      BY <1>2, <2>3 DEF Own, Blobs
    <3>3. Blobs \cap Requests = {}
      BY SeedsAssumption
    <3> QED  BY <1>2, <2>3, <2>4, <3>1, <3>2, <3>3 DEF Own
  <2>5. CASE At(x, "delete", "blob") /\ b \in Own(req[x].id)
    <3>1. req[x].id \notin DOMAIN documents
      BY <1>0, <2>5 DEF BlobCheck, RowIsGone
    <3>2. req[x].id \in MadeDocuments
      BY <1>0, <2>5 DEF At, AllFormed, Formed, DocumentForms
    <3> QED  BY <1>2, <2>3, <2>5, <3>1, <3>2, OwnDistinct
  <2> QED  BY <2>1, <2>2, <2>4, <2>5, BlobsStay
<1> QED  BY <1>1, <1>2 DEF RowBlobs, DocumentsHaveTheirBlob, Referenced

\* What the other requests know stays true.
LEMMA OthersKnowBlobs ==
    ASSUME Whole, BlobsKnown, NEW x \in Requests, Acts(x), NEW r \in Requests, r # x
    PROVE  BlobCheck(r)'
<1>0. AllFormed /\ RowsMade /\ BlobCheck(r) /\ req'[r] = req[r]
  BY ActsStepped DEF Whole, Sound, BlobsKnown, Stepped
<1>1. r \in DOMAIN documents' => r \in DOMAIN documents /\ documents'[r].blob = documents[r].blob
  BY DocumentsStay
<1>2. KnowsRow(r)'
  <2> SUFFICES ASSUME req[r].kind \in OfRow, req[r].step \notin {"document", "refused"}
               PROVE  /\ req[r].row.blob \in Own(req[r].id)
                      /\ req[r].id \in DOMAIN documents' =>
                            documents'[req[r].id].blob = req[r].row.blob
    BY <1>0 DEF KnowsRow
  <2>1. req[r].id \in MadeDocuments
    BY <1>0 DEF OfRow, AllFormed, Formed, DocumentForms
  <2> QED  BY <1>0, <2>1, DocumentsStay DEF BlobCheck, KnowsRow
<1>3. RowIsGone(r)'
  <2> SUFFICES ASSUME At(r, "delete", "blob")
               PROVE  req[r].id \notin DOMAIN documents'
    BY <1>0 DEF RowIsGone, At
  <2>1. req[r].id \in MadeDocuments
    BY <1>0 DEF At, AllFormed, Formed, DocumentForms
  <2> QED  BY <1>0, <2>1, DocumentsStay DEF BlobCheck, RowIsGone
<1>4. StoresOwn(r)'
  BY <1>0, BlobsCome DEF BlobCheck, StoresOwn
<1>5. CopiesBlob(r)'
  BY <1>0 DEF BlobCheck, CopiesBlob
<1>6. KnowsBlob(r)'
  <2>1. ASSUME req[r].kind \in Makers, req[r].step \in {"insert", "insertCopy"}, r \in blobs
        PROVE  r \in blobs'
    <3>1. r \notin MadeDocuments
      BY <1>0, <2>1, MakesFirst DEF MakesDocument
    <3>2. SUFFICES ASSUME r \notin blobs'
                   PROVE  FALSE
      OBVIOUS
    <3>3. At(x, "delete", "blob") /\ r \in Own(req[x].id)
      BY <2>1, <3>2, BlobsStay
    <3>4. req[x].id \in MadeDocuments
      BY <1>0, <3>3 DEF At, AllFormed, Formed, DocumentForms
    <3> QED  BY <3>1, <3>3, <3>4, OwnIsNoRequests
  <2> QED  BY <1>0, <1>1, <2>1 DEF BlobCheck, KnowsBlob
<1> QED  BY <1>2, <1>3, <1>4, <1>5, <1>6 DEF BlobCheck

\* A request that makes a document goes on to statement s.
LEMMA MakerGoes ==
    ASSUME Whole, BlobsKnown, NEW x \in Requests, Acts(x), NEW s, Go(x, s),
           req[x].kind \in Makers, x \in blobs' => x \in blobs,
           s \in Early => req[x].blob = None,
           s \in {"insert", "insertCopy"} /\ req[x].blob # None => x \in blobs',
           s = "discard" => req[x].blob # None /\ x \notin DOMAIN documents',
           s \in {"writeContent", "rollback"} => req[x].blob = None
    PROVE  KnowsBlob(x)' /\ StoresOwn(x)'
<1>0. AllFormed /\ BlobCheck(x)
  BY DEF Whole, Sound, BlobsKnown
<1>1. "blob" \in DOMAIN req[x] /\ req[x] # Idle
  BY <1>0, Knows DEF Makers, Idle
<1>2. req'[x].step = s /\ req'[x].kind = req[x].kind /\ req'[x].blob = req[x].blob
  BY <1>0, <1>1, GoKeeps
<1>3. x \in DOMAIN documents' => documents'[x].blob = req[x].blob
  BY <1>0, DocumentsStay DEF BlobCheck, KnowsBlob
<1> QED  BY <1>0, <1>2, <1>3 DEF BlobCheck, KnowsBlob, StoresOwn

\* A request that has read a row goes on to statement s.
LEMMA RowGoes ==
    ASSUME Whole, BlobsKnown, NEW x \in Requests, Acts(x), NEW s, Go(x, s),
           req[x].kind \in OfRow, req[x].step \notin {"document", "refused"}
    PROVE  /\ KnowsRow(x)'
           /\ req'[x].row = req[x].row /\ req'[x].id = req[x].id /\ req'[x].blob = req[x].blob
           /\ req'[x].kind = req[x].kind /\ req'[x].step = s
<1>0. AllFormed /\ BlobCheck(x)
  BY DEF Whole, Sound, BlobsKnown
<1>1. {"row", "id", "blob"} \subseteq DOMAIN req[x] /\ req[x] # Idle
  BY <1>0, Knows DEF OfRow, Idle
<1>2. /\ req'[x].row = req[x].row /\ req'[x].id = req[x].id /\ req'[x].blob = req[x].blob
      /\ req'[x].kind = req[x].kind /\ req'[x].step = s
  BY <1>0, <1>1, GoKeeps
<1>3. req[x].id \in MadeDocuments
  BY <1>0 DEF OfRow, AllFormed, Formed, DocumentForms
<1>4. req[x].id \in DOMAIN documents' => documents'[req[x].id].blob = req[x].row.blob
  BY <1>0, <1>3, DocumentsStay DEF BlobCheck, KnowsRow
<1> QED  BY <1>0, <1>2, <1>4 DEF BlobCheck, KnowsRow

LEMMA RowRead ==
    ASSUME Whole, BlobsKnown, NEW x \in Requests, Acts(x), ReadDocument(x)
    PROVE  BlobCheck(x)'
<1>0. /\ AllFormed /\ BlobCheck(x) /\ RowBlobs /\ DOMAIN req = Requests /\ RowsMade
      /\ req[x].kind \in OfRow /\ req[x].step = "document"
      /\ UNCHANGED <<documents, blobs>>
  BY DEF Whole, Sound, BlobsKnown, ReadDocument, AllFormed, Reads, tables, storage
<1>1. /\ {"kind", "step", "row", "id", "blob"} \subseteq DOMAIN req[x] /\ req[x] # Idle
  BY <1>0, Knows DEF OfRow, Idle
<1>2. x \notin DOMAIN documents
  BY <1>0, MakesFirst DEF MakesDocument
<1>3. CASE Go(x, "refused")
  <2>1. /\ req'[x].kind = req[x].kind /\ req'[x].step = "refused" /\ req'[x].blob = req[x].blob
    BY <1>0, <1>1, <1>3, GoKeeps
  <2> QED
    BY <1>0, <1>2, <2>1
       DEF BlobCheck, KnowsRow, KnowsBlob, StoresOwn, CopiesBlob, RowIsGone, At, Early, CopiedSteps
<1>4. CASE ~Go(x, "refused")
  <2>1. PICK d : d = req[x].id
    OBVIOUS
  <2>2. d \in DOMAIN documents /\ req' = [req EXCEPT ![x].row = documents[d], ![x].step = "member"]
    BY <1>4, <2>1 DEF ReadDocument, Go
  <2>3. PICK y : y = documents[d]
    OBVIOUS
  <2>4. /\ req'[x].kind = req[x].kind /\ req'[x].step = "member" /\ req'[x].blob = req[x].blob
        /\ req'[x].row = y /\ req'[x].id = d
    BY <1>0, <1>1, <2>1, <2>2, <2>3
  <2>5. y.blob \in Own(d)
    BY <1>0, <2>2, <2>3 DEF RowBlobs
  <2>6. KnowsRow(x)'
    BY <1>0, <2>3, <2>4, <2>5 DEF KnowsRow
  <2> QED
    BY <1>0, <1>2, <2>4, <2>6
       DEF BlobCheck, KnowsBlob, StoresOwn, CopiesBlob, RowIsGone, At, Early, CopiedSteps
<1> QED  BY <1>3, <1>4

\* The steps of an upload.
LEMMA UploadKnows ==
    ASSUME Whole, BlobsKnown, NEW x \in Requests, Acts(x), req[x].kind \in {"create", "upload"}
    PROVE  BlobCheck(x)'
<1>0. AllFormed /\ BlobCheck(x) /\ RowsMade /\ req[x].kind \in Makers /\ req[x] # Idle
  BY DEF Whole, Sound, BlobsKnown, Makers, Idle
<1>1. req'[x].kind = req[x].kind
  BY <1>0, ActsStepped DEF Stepped, Whole, Sound
<1>2. SUFFICES KnowsBlob(x)' /\ StoresOwn(x)'
  BY <1>1 DEF BlobCheck, KnowsRow, CopiesBlob, RowIsGone, At, OfRow
<1>3. CASE CheckMember(x) \/ CheckFolder(x)
  <2>1. /\ req[x].step \in {"member", "same"} /\ UNCHANGED <<documents, blobs>>
        /\ \E s \in {"put", "insert", "same", "refused"} : Go(x, s)
    BY <1>3 DEF CheckMember, CheckFolder, Check, FirstWrite, Reads, tables, storage
  <2>2. req[x].blob = None
    BY <1>0, <2>1 DEF BlobCheck, KnowsBlob, Early
  <2> QED  BY <1>0, <2>1, <2>2, MakerGoes
<1>4. ASSUME NEW ok \in BOOLEAN, PutBlob(x, ok)
      PROVE  KnowsBlob(x)' /\ StoresOwn(x)'
  <2>1. req[x].step = "put" /\ UNCHANGED documents
    BY <1>4 DEF PutBlob, At, tables
  <2>2. x \notin DOMAIN documents /\ req[x].blob = None
    BY <1>0, <2>1, MakesFirst DEF MakesDocument, BlobCheck, KnowsBlob, Early
  <2>3. CASE ~ok
    BY <1>0, <1>4, <2>2, <2>3, MakerGoes DEF PutBlob, Go, Early
  <2>4. CASE ok
    <3>1. /\ blobs' = blobs \cup {x} /\ DOMAIN req = Requests
          /\ req' = [req EXCEPT ![x].blob = x, ![x].step = "insert"]
      BY <1>0, <1>4, <2>4 DEF PutBlob, AllFormed
    <3>2. {"kind", "step", "blob"} \subseteq DOMAIN req[x]
      BY <1>0, Knows
    <3>3. req'[x].blob = x /\ req'[x].step = "insert" /\ req'[x].kind = req[x].kind
      BY <3>1, <3>2
    <3> QED  BY <1>0, <2>1, <2>2, <3>1, <3>3 DEF KnowsBlob, StoresOwn, Early
  <2> QED  BY <2>3, <2>4
<1>5. ASSUME NEW ok \in BOOLEAN, InsertDocument(x, ok)
      PROVE  KnowsBlob(x)' /\ StoresOwn(x)'
  <2>1. /\ UNCHANGED blobs
        /\ \E s \in {"done", "failed", "discard"} :
              /\ Go(x, s)
              /\ s = "discard" => req[x].blob # None /\ x \notin DOMAIN documents'
    BY <1>5 DEF InsertDocument, storage
  <2> QED  BY <1>0, <2>1, MakerGoes DEF Early
<1>6. ASSUME NEW ok \in BOOLEAN, DiscardBlob(x, ok)
      PROVE  KnowsBlob(x)' /\ StoresOwn(x)'
  BY <1>0, <1>6, MakerGoes DEF DiscardBlob, Early
<1> QED  BY <1>3, <1>4, <1>5, <1>6, ActCases

\* None is no blob, and no name of a request.
LEMMA NoneIsNoBlob ==
    ASSUME Whole
    PROVE  None \notin blobs /\ None \notin Requests
BY NoneAssumption DEF Whole, Sound, TypeOK, StorageOK, Rows, Blobs

\* The steps of a copy.
LEMMA CopyKnows ==
    ASSUME Whole, BlobsKnown, NEW x \in Requests, Acts(x), req[x].kind = "copy"
    PROVE  BlobCheck(x)'
<1>0. /\ AllFormed /\ BlobCheck(x) /\ RowsMade /\ req[x].kind \in Makers \cap OfRow
      /\ req[x] # Idle /\ req'[x].kind = "copy" /\ DOMAIN req = Requests
  BY ActsStepped DEF Whole, Sound, BlobsKnown, Makers, OfRow, Idle, Stepped, AllFormed
<1>1. SUFFICES ASSUME ~ReadDocument(x)
               PROVE  KnowsRow(x)' /\ KnowsBlob(x)' /\ StoresOwn(x)' /\ CopiesBlob(x)'
  BY <1>0, RowRead DEF BlobCheck, RowIsGone, At
<1>2. ASSUME NEW s, Go(x, s), req[x].step \notin {"document", "refused"}, 
             s \in CopiedSteps => (req[x].row.blob = None <=> req[x].blob = None)
      PROVE  KnowsRow(x)' /\ CopiesBlob(x)'
  BY <1>0, <1>2, RowGoes DEF CopiesBlob
<1>3. CASE CheckAccess(x)
  <2>1. /\ req[x].step = "member" /\ UNCHANGED <<documents, blobs>>
        /\ \E s \in {"insertCopy", "copyBlob", "refused"} :
              Go(x, s) /\ (s = "insertCopy" => req[x].row.blob = None)
    BY <1>0, <1>3 DEF CheckAccess, Check, FirstStep, Reads, tables, storage
  <2>2. PICK s \in {"insertCopy", "copyBlob", "refused"} :
              Go(x, s) /\ (s = "insertCopy" => req[x].row.blob = None)
    BY <2>1
  <2>3. req[x].blob = None
    BY <1>0, <2>1 DEF BlobCheck, KnowsBlob, Early
  <2>4. KnowsBlob(x)' /\ StoresOwn(x)'
    BY <1>0, <2>1, <2>2, <2>3, MakerGoes
  <2> QED  BY <1>2, <2>1, <2>2, <2>3, <2>4 DEF CopiedSteps
<1>4. ASSUME NEW ok \in BOOLEAN, CopyBlob(x, ok)
      PROVE  KnowsRow(x)' /\ KnowsBlob(x)' /\ StoresOwn(x)' /\ CopiesBlob(x)'
  <2>1. req[x].step = "copyBlob" /\ UNCHANGED documents
    BY <1>4 DEF CopyBlob, At, tables
  <2>2. x \notin DOMAIN documents /\ req[x].blob = None
    BY <1>0, <2>1, MakesFirst DEF MakesDocument, BlobCheck, KnowsBlob, Early
  <2>3. CASE Go(x, "failed") /\ UNCHANGED blobs
    <3>1. KnowsBlob(x)' /\ StoresOwn(x)'
      BY <1>0, <2>2, <2>3, MakerGoes DEF Early
    <3> QED  BY <1>2, <2>1, <2>3, <3>1 DEF CopiedSteps
  <2>4. CASE ~(Go(x, "failed") /\ UNCHANGED blobs)
    <3>1. /\ blobs' = blobs \cup {x} /\ req[x].row.blob \in blobs
          /\ req' = [req EXCEPT ![x].blob = x, ![x].step = "insertCopy"]
      BY <1>4, <2>4 DEF CopyBlob, Go
    <3>2. {"kind", "step", "row", "id", "blob"} \subseteq DOMAIN req[x]
      BY <1>0, Knows
    <3>3. /\ req'[x].blob = x /\ req'[x].step = "insertCopy" /\ req'[x].row = req[x].row
          /\ req'[x].id = req[x].id
      BY <1>0, <3>1, <3>2
    <3>4. KnowsRow(x)'
      BY <1>0, <2>1, <3>3 DEF BlobCheck, KnowsRow, OfRow
    <3>5. CopiesBlob(x)'
      BY <1>0, <3>1, <3>3, NoneIsNoBlob DEF CopiesBlob
    <3> QED  BY <1>0, <2>1, <2>2, <3>1, <3>3, <3>4, <3>5 DEF KnowsBlob, StoresOwn, Early
  <2> QED  BY <2>3, <2>4
<1>5. ASSUME NEW ok \in BOOLEAN, InsertCopy(x, ok)
      PROVE  KnowsRow(x)' /\ KnowsBlob(x)' /\ StoresOwn(x)' /\ CopiesBlob(x)'
  <2>1. /\ UNCHANGED blobs /\ req[x].step = "insertCopy"
        /\ \E s \in {"content", "failed", "discard"} :
              /\ Go(x, s)
              /\ s = "discard" => req[x].blob # None /\ x \notin DOMAIN documents'
    BY <1>5 DEF InsertCopy, storage, At
  <2>2. KnowsBlob(x)' /\ StoresOwn(x)'
    BY <1>0, <2>1, MakerGoes DEF Early
  <2> QED  BY <1>0, <1>2, <2>1, <2>2 DEF BlobCheck, CopiesBlob, CopiedSteps
<1>6. ASSUME NEW ok \in BOOLEAN, ReadContent(x, ok)
      PROVE  KnowsRow(x)' /\ KnowsBlob(x)' /\ StoresOwn(x)' /\ CopiesBlob(x)'
  <2>1. req[x].step = "content" /\ UNCHANGED <<documents, blobs>>
    BY <1>6 DEF ReadContent, At, Reads, tables, storage
  <2>2. CASE Go(x, "done") \/ (Go(x, "rollback") /\ req[x].blob = None)
    <3>1. KnowsBlob(x)' /\ StoresOwn(x)'
      BY <1>0, <2>1, <2>2, MakerGoes DEF Early
    <3> QED  BY <1>0, <1>2, <2>1, <2>2, <3>1 DEF BlobCheck, CopiesBlob, CopiedSteps
  <2>3. CASE ~(Go(x, "done") \/ (Go(x, "rollback") /\ req[x].blob = None))
    <3>1. PICK c : c = contents[req[x].id]
      OBVIOUS
    <3>2. /\ req[x].blob = None
          /\ req' = [req EXCEPT ![x].step = "writeContent", ![x].content = c]
      BY <1>6, <2>3, <3>1 DEF ReadContent, Go
    <3>3. {"kind", "step", "row", "id", "blob", "content"} \subseteq DOMAIN req[x]
      BY <1>0, Knows
    <3>4. /\ req'[x].blob = req[x].blob /\ req'[x].step = "writeContent"
          /\ req'[x].row = req[x].row /\ req'[x].id = req[x].id
      BY <1>0, <3>2, <3>3
    <3> QED
      BY <1>0, <2>1, <3>2, <3>4
         DEF BlobCheck, KnowsRow, OfRow, KnowsBlob, StoresOwn, CopiesBlob, CopiedSteps, Early
  <2> QED  BY <2>2, <2>3
<1>7. ASSUME NEW ok \in BOOLEAN, NEW written \in BOOLEAN, WriteContent(x, ok, written)
      PROVE  KnowsRow(x)' /\ KnowsBlob(x)' /\ StoresOwn(x)' /\ CopiesBlob(x)'
  <2>1. /\ req[x].step = "writeContent" /\ UNCHANGED <<documents, blobs>>
        /\ Go(x, "done") \/ Go(x, "rollback")
    BY <1>7 DEF WriteContent, At, tables
  <2>2. req[x].blob = None
    BY <1>0, <2>1 DEF BlobCheck, KnowsBlob
  <2>3. KnowsBlob(x)' /\ StoresOwn(x)'
    BY <1>0, <2>1, <2>2, MakerGoes DEF Early
  <2> QED  BY <1>0, <1>2, <2>1, <2>3 DEF BlobCheck, CopiesBlob, CopiedSteps
<1>8. ASSUME NEW ok \in BOOLEAN, RollBack(x, ok)
      PROVE  KnowsRow(x)' /\ KnowsBlob(x)' /\ StoresOwn(x)' /\ CopiesBlob(x)'
  <2>1. req[x].step = "rollback" /\ UNCHANGED blobs
    BY <1>8 DEF RollBack, At, storage
  <2>2. req[x].blob = None
    BY <1>0, <2>1 DEF BlobCheck, KnowsBlob
  <2>3. Go(x, "failed")
    BY <1>8, <2>2 DEF RollBack
  <2>4. KnowsBlob(x)' /\ StoresOwn(x)'
    BY <1>0, <2>1, <2>3, MakerGoes DEF Early
  <2> QED  BY <1>2, <2>1, <2>3, <2>4 DEF CopiedSteps
<1>9. ASSUME NEW ok \in BOOLEAN, DiscardBlob(x, ok)
      PROVE  KnowsRow(x)' /\ KnowsBlob(x)' /\ StoresOwn(x)' /\ CopiesBlob(x)'
  <2>1. /\ req[x].step = "discard" /\ UNCHANGED documents /\ blobs' \subseteq blobs
        /\ Go(x, "failed")
    BY <1>9 DEF DiscardBlob, At, tables
  <2>2. KnowsBlob(x)' /\ StoresOwn(x)'
    BY <1>0, <2>1, MakerGoes DEF Early
  <2> QED  BY <1>2, <2>1, <2>2 DEF CopiedSteps
<1> QED  BY <1>0, <1>1, <1>3, <1>4, <1>5, <1>6, <1>7, <1>8, <1>9, ActCases

\* The steps of a delete and of a move.
LEMMA DeleteKnows ==
    ASSUME Whole, BlobsKnown, NEW x \in Requests, Acts(x), req[x].kind \in {"delete", "move"}
    PROVE  BlobCheck(x)'
<1>0. /\ AllFormed /\ BlobCheck(x) /\ req[x].kind \in OfRow /\ req[x] # Idle
      /\ req'[x].kind = req[x].kind
  BY ActsStepped DEF Whole, Sound, BlobsKnown, OfRow, Idle, Stepped, AllFormed
<1>1. x \notin blobs'
  <2>1. x \notin blobs
    BY <1>0 DEF BlobCheck, StoresOwn, Makers
  <2> QED  BY <1>0, <2>1, BlobsChange DEF PutBlob, CopyBlob, RemoveBlob, DiscardBlob, At
<1>2. SUFFICES ASSUME ~ReadDocument(x)
               PROVE  KnowsRow(x)' /\ RowIsGone(x)'
  BY <1>0, <1>1, RowRead DEF BlobCheck, KnowsBlob, StoresOwn, CopiesBlob, Makers
<1>3. PICK s :
        /\ Go(x, s) /\ req[x].step \notin {"document", "refused"}
        /\ req[x].kind = "delete" /\ s = "blob" => req[x].id \notin DOMAIN documents'
  <2>1. CASE CheckAccess(x) \/ CheckTarget(x) \/ CheckTargetFolder(x)
    <3>1. /\ req[x].step \in {"member", "target", "folder"}
          /\ \E s \in {"remove", "target", "folder", "write", "refused"} : Go(x, s)
      BY <1>0, <2>1 DEF CheckAccess, CheckTarget, CheckTargetFolder, Check, FirstStep, At
    <3> QED  BY <3>1
  <2>2. CASE MoveDocument(x)
    <3>1. req[x].kind = "move" /\ req[x].step = "write" /\ (Go(x, "done") \/ Go(x, "failed"))
      BY <2>2 DEF MoveDocument, At
    <3> QED  BY <3>1
  <2>3. CASE RemoveDocument(x)
    <3>1. CASE Go(x, "done") \/ Go(x, "failed")
      BY <2>3, <3>1 DEF RemoveDocument, At
    <3>2. CASE Go(x, "blob") /\ DeleteDocument(req[x].id)
      BY <2>3, <3>2 DEF RemoveDocument, DeleteDocument, Less, At
    <3> QED  BY <2>3, <3>1, <3>2 DEF RemoveDocument
  <2>4. CASE \E ok \in BOOLEAN : RemoveBlob(x, ok)
    <3>1. req[x].step = "blob" /\ Go(x, "done")
      BY <2>4 DEF RemoveBlob, At
    <3> QED  BY <3>1
  <2> QED  BY <1>0, <1>2, <2>1, <2>2, <2>3, <2>4, ActCases
<1>4. KnowsRow(x)' /\ req'[x].id = req[x].id /\ req'[x].step = s
  BY <1>0, <1>3, RowGoes
<1> QED  BY <1>0, <1>3, <1>4 DEF RowIsGone, At

\* A request that arrives, and those that know nothing of blobs.
LEMMA ArrivalKnows ==
    ASSUME Whole, BlobsKnown, NEW x \in Requests, Acts(x),
           req[x].kind \notin {"create", "upload", "copy", "delete", "move"}
    PROVE  BlobCheck(x)'
<1>0. AllFormed /\ TypeOK /\ RowsMade /\ BlobCheck(x) /\ Stepped(x)
  BY ActsStepped DEF Whole, Sound, BlobsKnown
<1>1. x \notin blobs'
  <2>1. x \notin blobs
    BY <1>0 DEF BlobCheck, StoresOwn, Makers
  <2> QED  BY <2>1, BlobsChange DEF PutBlob, CopyBlob, RemoveBlob, DiscardBlob, At
<1>2. x \notin DOMAIN documents /\ x \notin DOMAIN documents'
  <2>1. x \notin DOMAIN documents
    BY <1>0, MakesFirst DEF MakesDocument
  <2> QED  BY <2>1, DocumentsStay DEF Makers
<1>3. CASE req[x] = Idle
  <2>1. PICK u \in Users : Asks(x, u)
    BY <1>3, ActCases
  <2>2. req'[x].kind \in {"create", "upload"} => req'[x].step = "member" /\ req'[x].blob = None
    BY <1>0, <2>1, ArrivalSteps
  <2>3. req'[x].kind \in {"copy", "delete", "move"} =>
          req'[x].step = "document" /\ req'[x].blob = None
    BY <1>0, <2>1, ArrivalSteps
  <2> QED
    BY <1>1, <1>2, <2>2, <2>3 DEF BlobCheck, KnowsRow, KnowsBlob, StoresOwn, CopiesBlob,
       RowIsGone, At, Makers, OfRow, CopiedSteps
<1>4. CASE req[x] # Idle
  BY <1>0, <1>1, <1>4 DEF BlobCheck, KnowsRow, KnowsBlob, StoresOwn, CopiesBlob,
     RowIsGone, At, Makers, OfRow, Stepped
<1> QED  BY <1>3, <1>4

LEMMA BlobsStayKnown ==
    ASSUME Whole, BlobsKnown, NEW x \in Requests, Acts(x)
    PROVE  BlobsKnown'
<1>1. BlobCheck(x)'
  BY UploadKnows, CopyKnows, DeleteKnows, ArrivalKnows
<1>2. \A r \in Requests : BlobCheck(r)'
  BY <1>1, OthersKnowBlobs
<1> QED  BY <1>2, RowsKeepBlobs DEF BlobsKnown

LEMMA InitBlobs == Init => BlobsKnown
<1> SUFFICES ASSUME Init  PROVE BlobsKnown
  OBVIOUS
<1>0. /\ documents = SeedDocuments /\ blobs = Blobs /\ \A r \in Requests : req[r] = Idle
  BY DEF Init, InitDatabase
<1>1. RowBlobs
  BY <1>0 DEF RowBlobs, Own
<1>2. DocumentsHaveTheirBlob
  BY <1>0 DEF DocumentsHaveTheirBlob, Referenced, Blobs
<1>3. ASSUME NEW r \in Requests  PROVE BlobCheck(r)
  <2>1. Blobs \cap Requests = {}
    BY SeedsAssumption
  <2>2. req[r].kind = "none" /\ r \notin blobs
    BY <1>0, <2>1 DEF Idle
  <2> QED
    BY <2>2 DEF BlobCheck, KnowsRow, KnowsBlob, StoresOwn, CopiesBlob, RowIsGone, At, Makers, OfRow
<1> QED  BY <1>1, <1>2, <1>3 DEF BlobsKnown

LEMMA BlobsUntouched ==
    ASSUME BlobsKnown, UNCHANGED dbVars
    PROVE  BlobsKnown'
<1>1. UNCHANGED <<documents, blobs, req>>
  BY DEF dbVars
<1>2. ASSUME NEW r \in Requests  PROVE BlobCheck(r)'
  BY <1>1 DEF BlobsKnown, BlobCheck, KnowsRow, KnowsBlob, StoresOwn, CopiesBlob, RowIsGone, At
<1> QED
  BY <1>1, <1>2 DEF BlobsKnown, RowBlobs, DocumentsHaveTheirBlob, Referenced

\* Every document has its blobs, every copy and discard knows the blob it
\* handles, at every step of every request.
THEOREM BlobsHold == Spec => []BlobsKnown
<1>1. Whole /\ BlobsKnown /\ [Next]_vars => BlobsKnown'
  BY BlobsStayKnown, BlobsUntouched, NextCases
<1> QED  BY <1>1, InitBlobs, StateIsWhole, PTL DEF Spec

(* The rows fit together at every moment, however requests interleave: no   *)
(* row names a row that is gone, no document a blob that is not stored, and *)
(* no folder is under one of another workspace.                             *)
THEOREM RowsAgree == Spec => []TablesAgree
<1>1. TypeOK /\ BlobsKnown /\ FolderChecks /\ FoldersStayInside => TablesAgree
  BY DEF TablesAgree, BlobsKnown
<1> QED  BY <1>1, TablesTyped, FoldersHold, BlobsHold, PTL

-----------------------------------------------------------------------------
(* Nothing is left behind, as long as what undoes an earlier step succeeds: *)
(* the code gives it one attempt and goes on when it fails.                 *)

CleanupWorks == ~MayFail("cleanup")

\* What a request will remove, it removes or will still remove.
LEMMA HeldStaysTracked ==
    ASSUME Whole, BlobsKnown, CleanupWorks, NEW x \in Requests, Acts(x),
           NEW b \in HeldBy(x), b \in blobs'
    PROVE  b \in Referenced' \/ (b \in HeldBy(x)' /\ x \in Active')
<1>0. AllFormed /\ BlobCheck(x) /\ b # None /\ BlobsKnown'
  BY BlobsStayKnown, BlobsCome, NoneIsNoBlob DEF Whole, Sound, BlobsKnown
<1>1. CASE At(x, "delete", "blob")
  <2>1. b = req[x].row.blob
    BY <1>1 DEF HeldBy, At
  <2>2. \E ok \in BOOLEAN : RemoveBlob(x, ok)
    BY <1>1, ActCases DEF At, ReadDocument, CheckAccess, RemoveDocument, Idle
  <2> QED  BY <2>1, <2>2 DEF RemoveBlob, CleanupWorks
<1>2. CASE /\ req[x].kind \in {"upload", "copy"}
           /\ req[x].step \in {"insert", "insertCopy", "discard"} /\ b = req[x].blob
  <2>0. /\ req[x] # Idle /\ "blob" \in DOMAIN req[x] /\ b = x
    BY <1>0, <1>2, Knows DEF Idle, BlobCheck, KnowsBlob, Makers
  <2>1. CASE \E ok \in BOOLEAN : DiscardBlob(x, ok)
    BY <1>2, <2>1 DEF DiscardBlob, CleanupWorks
  <2>2. CASE \E ok \in BOOLEAN : InsertDocument(x, ok) \/ InsertCopy(x, ok)
    <3>1. PICK s : Go(x, s) /\ (s = "discard" \/ x \in DOMAIN documents')
      BY <1>0, <1>2, <2>2 DEF InsertDocument, InsertCopy
    <3>2. /\ req'[x].step = s /\ req'[x].kind = req[x].kind /\ req'[x].blob = b
      BY <1>0, <1>2, <2>0, <3>1, GoKeeps
    <3>3. CASE s = "discard"
      BY <1>2, <3>2, <3>3 DEF HeldBy, Active, Over
    <3>4. CASE x \in DOMAIN documents'
      BY <1>0, <1>2, <3>2, <3>4 DEF BlobsKnown, BlobCheck, KnowsBlob, Makers, Referenced
    <3> QED  BY <3>1, <3>3, <3>4
  <2>3. (\E ok \in BOOLEAN : DiscardBlob(x, ok))
          \/ (\E ok \in BOOLEAN : InsertDocument(x, ok) \/ InsertCopy(x, ok))
    <3>1. CASE req[x].kind = "upload"
      BY <1>2, <3>1, ActCases DEF CheckMember, CheckFolder, PutBlob, At
    <3>2. CASE req[x].kind = "copy"
      BY <1>2, <3>2, ActCases
         DEF ReadDocument, CheckAccess, CopyBlob, ReadContent, WriteContent, RollBack, At
    <3> QED  BY <1>2, <3>1, <3>2
  <2> QED  BY <2>1, <2>2, <2>3
<1> QED  BY <1>1, <1>2 DEF HeldBy

\* The blob of a row stays with the row or goes to the request that removes it.
LEMMA ReferencedStaysTracked ==
    ASSUME Whole, BlobsKnown, NEW x \in Requests, Acts(x),
           NEW b \in Referenced, b # None,
           ~(At(x, "removeWorkspace", "delete") /\ req'[x].step = "done")
    PROVE  b \in Referenced' \/ (b \in HeldBy(x)' /\ x \in Active')
<1>0. AllFormed /\ BlobCheck(x) /\ RowsMade
  BY DEF Whole, Sound, BlobsKnown
<1>1. PICK d \in DOMAIN documents : documents[d].blob = b
  BY DEF Referenced
<1>2. CASE d \in DOMAIN documents'
  <2>1. documents'[d].blob = b
    BY <1>0, <1>1, <1>2, DocumentsStay DEF RowsMade
  <2> QED  BY <1>2, <2>1 DEF Referenced
<1>3. CASE d \notin DOMAIN documents'
  <2>1. CASE RemoveWorkspace(x)
    <3>1. At(x, "removeWorkspace", "delete") /\ (UNCHANGED tables \/ Go(x, "done"))
      BY <2>1 DEF RemoveWorkspace
    <3>2. req[x] # Idle
      BY <3>1 DEF At, Idle
    <3> QED  BY <1>0, <1>1, <1>3, <3>1, <3>2, GoKeeps DEF tables
  <2>2. CASE RemoveDocument(x)
    <3>1. /\ At(x, "delete", "remove") /\ DeleteDocument(req[x].id)
          /\ Go(x, IF req[x].row.blob = None THEN "done" ELSE "blob")
      BY <1>1, <1>3, <2>2 DEF RemoveDocument
    <3>2. d = req[x].id
      BY <1>1, <1>3, <3>1 DEF DeleteDocument, Less
    <3>3. req[x].row.blob = b
      BY <1>0, <1>1, <3>1, <3>2 DEF At, BlobCheck, KnowsRow, OfRow
    <3>4. /\ Go(x, "blob") /\ req[x].kind \in OfRow
          /\ req[x].step \notin {"document", "refused"}
      BY <3>1, <3>3 DEF At, OfRow
    <3>5. req'[x].kind = "delete" /\ req'[x].step = "blob" /\ req'[x].row.blob = b
      BY <3>1, <3>3, <3>4, RowGoes DEF At
    <3> QED  BY <3>5 DEF HeldBy, Active, At, Over
  <2>3. CASE \E ok \in BOOLEAN : RollBack(x, ok)
    <3>1. At(x, "copy", "rollback") /\ (UNCHANGED documents \/ DeleteDocument(x))
      BY <2>3 DEF RollBack
    <3>2. d = x
      BY <1>1, <1>3, <3>1 DEF DeleteDocument, Less
    <3>3. documents[x].blob = None
      BY <1>0, <1>1, <3>1, <3>2 DEF At, BlobCheck, KnowsBlob, Makers
    <3> QED  BY <1>1, <3>2, <3>3
  <2> QED  BY <1>1, <1>3, <2>1, <2>2, <2>3, OnlyDeletesTakeDocuments
<1> QED  BY <1>2, <1>3

\* A blob that a step stores is the request's to keep or to remove.
LEMMA NewBlobIsHeld ==
    ASSUME Whole, NEW x \in Requests, Acts(x), NEW b \in blobs' \ blobs
    PROVE  b \in HeldBy(x)' /\ x \in Active'
<1>1. PICK s \in {"insert", "insertCopy"} :
        /\ b = x /\ req[x].kind \in {"upload", "copy"}
        /\ req' = [req EXCEPT ![x].blob = x, ![x].step = s]
  <2>1. ASSUME NEW ok \in BOOLEAN, PutBlob(x, ok)
        PROVE  b = x /\ req[x].kind = "upload"
                 /\ req' = [req EXCEPT ![x].blob = x, ![x].step = "insert"]
    BY <2>1 DEF PutBlob, At
  <2>2. ASSUME NEW ok \in BOOLEAN, CopyBlob(x, ok)
        PROVE  b = x /\ req[x].kind = "copy"
                 /\ req' = [req EXCEPT ![x].blob = x, ![x].step = "insertCopy"]
    BY <2>2 DEF CopyBlob, At
  <2>3. \E ok \in BOOLEAN : PutBlob(x, ok) \/ CopyBlob(x, ok)
    BY BlobsChange DEF RemoveBlob, DiscardBlob
  <2> QED  BY <2>1, <2>2, <2>3
<1>2. {"kind", "step", "blob"} \subseteq DOMAIN req[x] /\ DOMAIN req = Requests
  BY <1>1, Knows DEF Whole, Sound, AllFormed
<1>3. req'[x].kind = req[x].kind /\ req'[x].step = s /\ req'[x].blob = x
  BY <1>1, <1>2
<1> QED  BY <1>1, <1>3 DEF HeldBy, Active, Over

LEMMA OrphansStay ==
    ASSUME Whole, BlobsKnown, CleanupWorks, NEW x \in Requests, Acts(x)
    PROVE  \/ Orphans' \subseteq Orphans
           \/ \E r \in Requests : At(r, "removeWorkspace", "delete") /\ req'[r].step = "done"
<1> SUFFICES ASSUME ~(At(x, "removeWorkspace", "delete") /\ req'[x].step = "done"),
                    NEW b \in Orphans'
             PROVE  b \in Orphans
  OBVIOUS
<1>1. b \in blobs' /\ b \notin Referenced' /\ b # None
      /\ \A r \in Requests : ~(b \in HeldBy(r)' /\ r \in Active')
  BY BlobsCome, NoneIsNoBlob DEF Orphans, Active
<1>2. b \in blobs
  BY <1>1, NewBlobIsHeld
<1>3. b \notin Referenced
  BY <1>1, ReferencedStaysTracked
<1>4. ASSUME NEW r \in Active, b \in HeldBy(r)  PROVE FALSE
  <2>1. r \in Requests
    BY DEF Active
  <2>2. r # x
    BY <1>1, <1>4, HeldStaysTracked
  <2>3. req'[r] = req[r]
    BY <2>1, <2>2, ActsStepped DEF Whole, Sound, Stepped
  <2>4. HeldBy(r)' = HeldBy(r) /\ r \in Active'
    BY <2>1, <2>3 DEF HeldBy, At, Active
  <2> QED  BY <1>1, <1>4, <2>1, <2>4
<1> QED  BY <1>2, <1>3, <1>4 DEF Orphans

(* As long as removing a blob succeeds, no blob is lost sight of, except    *)
(* those of a workspace that is deleted: each has a row, or a request that  *)
(* will remove it, in uploads, copies and deletes that interleave.          *)
THEOREM BlobsTracked ==
    ASSUME CleanupWorks
    PROVE  Spec => BlobsAreTracked
<1>1. Whole /\ BlobsKnown /\ [Next]_vars =>
        [\/ Orphans' \subseteq Orphans
         \/ \E r \in Requests : At(r, "removeWorkspace", "delete") /\ req'[r].step = "done"
        ]_dbVars
  BY OrphansStay, NextCases, CleanupWorks
<1> QED  BY <1>1, StateIsWhole, BlobsHold, PTL DEF Spec, BlobsAreTracked

\* A failed upload or copy has left nothing.
LeavesNothing(r) ==
    req[r].kind \in Makers /\ req[r].step \in {"failed", "refused"}
      => r \notin DOMAIN documents \cup blobs

LEMMA LeavesNothingStays ==
    ASSUME Whole, BlobsKnown, CleanupWorks, NEW x \in Requests, Acts(x), NEW r \in Requests,
           LeavesNothing(r)
    PROVE  LeavesNothing(r)'
<1>0. /\ AllFormed /\ RowsMade /\ BlobCheck(x) /\ BlobCheck(x)' /\ Stepped(x)
      /\ None \notin Requests
  BY BlobsStayKnown, ActsStepped, NoneIsNoBlob DEF Whole, Sound, BlobsKnown
<1>1. CASE r # x
  <2>1. req'[r] = req[r] /\ (r \in blobs' => r \in blobs)
    BY <1>0, <1>1, BlobsCome DEF Stepped
  <2>2. r \in DOMAIN documents' => r \in DOMAIN documents
    BY <1>1, DocumentsStay
  <2> QED  BY <2>1, <2>2 DEF LeavesNothing
<1>2. CASE r = x
  <2> SUFFICES ASSUME req'[x].kind \in Makers, req'[x].step \in {"failed", "refused"}
               PROVE  x \notin DOMAIN documents' /\ x \notin blobs'
    BY <1>2 DEF LeavesNothing
  <2>1. req'[x].blob = None => x \notin blobs'
    BY <1>0 DEF BlobCheck, StoresOwn
  <2>2. CASE req[x] = Idle
    <3>1. PICK u \in Users : Asks(x, u)
      BY <2>2, ActCases
    <3>2. req'[x].step \in {"member", "document"}
      BY <1>0, <3>1, ArrivalSteps DEF Makers
    <3> QED  BY <3>2
  <2>3. CASE req[x] # Idle
    <3>1. req[x].kind \in Makers /\ req'[x].kind = req[x].kind
      BY <1>0, <2>3 DEF Stepped
    <3>2. ASSUME NEW s, Go(x, s)
          PROVE  req'[x].step = s /\ req'[x].blob = req[x].blob
      BY <1>0, <2>3, <3>1, <3>2, GoKeeps, Knows DEF Makers
    <3>3. CASE ~MakesDocument(req[x]) /\ UNCHANGED documents /\ req'[x].step \in Early
      BY <1>0, <2>1, <3>1, <3>3, MakesFirst DEF BlobCheck, KnowsBlob
    <3>4. CASE /\ req[x].step \in {"put", "copyBlob"} /\ req'[x].step = "failed"
               /\ req'[x].blob = req[x].blob /\ UNCHANGED documents
      <4>1. req[x].blob = None /\ ~MakesDocument(req[x])
        BY <1>0, <3>1, <3>4 DEF BlobCheck, KnowsBlob, Early, MakesDocument
      <4> QED  BY <1>0, <2>1, <3>4, <4>1, MakesFirst
    <3>5. ASSUME NEW ok \in BOOLEAN, PutBlob(x, ok) \/ CopyBlob(x, ok)
          PROVE  x \notin DOMAIN documents' /\ x \notin blobs'
      <4>1. req[x].step \in {"put", "copyBlob"} /\ UNCHANGED documents
        BY <3>5 DEF PutBlob, CopyBlob, At, tables
      <4>2. CASE Go(x, "failed")
        BY <3>2, <3>4, <4>1, <4>2
      <4>3. CASE ~Go(x, "failed")
        <5>1. PICK t \in {"insert", "insertCopy"} :
                req' = [req EXCEPT ![x].blob = x, ![x].step = t]
          BY <3>5, <4>3 DEF PutBlob, CopyBlob, Go
        <5>2. DOMAIN req = Requests /\ {"step", "blob"} \subseteq DOMAIN req[x]
          BY <1>0, <3>1, Knows DEF Makers, AllFormed
        <5>3. req'[x].step = t
          BY <5>1, <5>2
        <5> QED  BY <5>3
      <4> QED  BY <4>2, <4>3
    <3>6. ASSUME NEW ok \in BOOLEAN, InsertDocument(x, ok) \/ InsertCopy(x, ok)
          PROVE  x \notin DOMAIN documents' /\ x \notin blobs'
      <4>1. PICK s : /\ Go(x, s) 
                     /\ s = "failed" => req[x].blob = None /\ x \notin DOMAIN documents'
                     /\ s \in {"done", "content", "discard", "failed"}
        BY <3>6 DEF InsertDocument, InsertCopy
      <4> QED  BY <2>1, <3>2, <4>1
    <3>7. ASSUME NEW ok \in BOOLEAN, DiscardBlob(x, ok)
          PROVE  x \notin DOMAIN documents' /\ x \notin blobs'
      BY <1>0, <3>1, <3>7 DEF DiscardBlob, CleanupWorks, BlobCheck, KnowsBlob, tables
    <3>8. ASSUME NEW ok \in BOOLEAN, RollBack(x, ok)
          PROVE  x \notin DOMAIN documents' /\ x \notin blobs'
      <4>1. req[x].blob = None /\ Go(x, "failed") /\ x \notin DOMAIN documents'
        BY <1>0, <3>1, <3>8
           DEF RollBack, CleanupWorks, BlobCheck, KnowsBlob, At, DeleteDocument, Less
      <4> QED  BY <2>1, <3>2, <4>1
    <3>9. CASE CheckMember(x) \/ CheckFolder(x) \/ CheckAccess(x) \/ ReadDocument(x)
      <4>1. UNCHANGED documents /\ req[x].step \in {"member", "same", "document"}
        BY <3>9 DEF CheckMember, CheckFolder, CheckAccess, ReadDocument, Reads, tables
      <4>2. req'[x].step # "failed"
        <5>1. CASE \E s \in {"put", "insert", "same", "refused", "insertCopy", "copyBlob",
                             "remove", "target", "folder", "write"} : Go(x, s)
          BY <3>2, <5>1
        <5>2. CASE ReadDocument(x) /\ ~Go(x, "refused")
          <6>1. PICK y : y = documents[req[x].id]
            OBVIOUS
          <6>2. /\ req' = [req EXCEPT ![x].row = y, ![x].step = "member"]
                /\ req[x].kind = "copy"
            BY <3>1, <5>2, <6>1 DEF ReadDocument, Go, OfRow, Makers
          <6>3. DOMAIN req = Requests /\ {"step", "row"} \subseteq DOMAIN req[x]
            BY <1>0, <6>2, Knows DEF AllFormed
          <6> QED  BY <6>2, <6>3
        <5>3. CheckMember(x) \/ CheckFolder(x) \/ CheckAccess(x) =>
                \E s \in {"put", "insert", "same", "refused", "insertCopy", "copyBlob",
                          "remove", "target", "folder", "write"} : Go(x, s)
          BY <3>1 DEF CheckMember, CheckFolder, CheckAccess, Check, FirstWrite, FirstStep, OfRow
        <5> QED  BY <3>9, <5>1, <5>2, <5>3
      <4> QED  BY <3>3, <4>1, <4>2 DEF MakesDocument, Early
    <3>10. CASE (\E ok \in BOOLEAN : ReadContent(x, ok))
                  \/ \E ok, written \in BOOLEAN : WriteContent(x, ok, written)
      <4>1. CASE \E s \in {"done", "rollback"} : Go(x, s)
        BY <3>2, <4>1
      <4>2. CASE ~\E s \in {"done", "rollback"} : Go(x, s)
        <5>1. PICK c : c = contents[req[x].id]
          OBVIOUS
        <5>2. /\ req' = [req EXCEPT ![x].step = "writeContent", ![x].content = c]
              /\ req[x].kind = "copy"
          BY <3>10, <4>2, <5>1 DEF ReadContent, WriteContent, Go, At
        <5>3. DOMAIN req = Requests /\ {"step", "content"} \subseteq DOMAIN req[x]
          BY <1>0, <5>2, Knows DEF AllFormed
        <5> QED  BY <5>2, <5>3
      <4> QED  BY <4>1, <4>2
    <3> QED
      BY <3>1, <3>5, <3>6, <3>7, <3>8, <3>9, <3>10, ActCases DEF Makers
  <2> QED  BY <2>2, <2>3
<1> QED  BY <1>1, <1>2

\* Uploads and copies that report an error have left neither a row nor a blob.
LEMMA FailuresLeave ==
    ASSUME CleanupWorks
    PROVE  Spec => []FailuresLeaveNothing
<1>1. Init => FailuresLeaveNothing
  BY DEF Init, InitDatabase, FailuresLeaveNothing, Idle
<1>2. Whole /\ BlobsKnown /\ FailuresLeaveNothing /\ [Next]_vars => FailuresLeaveNothing'
  <2>1. FailuresLeaveNothing <=> \A r \in Requests : LeavesNothing(r)
    BY DEF FailuresLeaveNothing, LeavesNothing, Makers
  <2>2. FailuresLeaveNothing' <=> \A r \in Requests : LeavesNothing(r)'
    BY DEF FailuresLeaveNothing, LeavesNothing, Makers
  <2>3. UNCHANGED dbVars /\ FailuresLeaveNothing => FailuresLeaveNothing'
    BY DEF dbVars, FailuresLeaveNothing
  <2> QED  BY <2>1, <2>2, <2>3, LeavesNothingStays, NextCases, CleanupWorks
<1> QED  BY <1>1, <1>2, StateIsWhole, BlobsHold, PTL DEF Spec

-----------------------------------------------------------------------------
(* What a copy holds.                                                       *)

\* A sheet of the start holds what was written in it; so does a copy of one.
SeedContents ==
    \A d \in DOMAIN SeedDocuments : SeedDocuments[d].blob = None =>
        d \in DOMAIN contents /\ contents[d] \in WrittenIn(d)
CopiedContent(r) ==
    req[r].kind = "copy" /\ req[r].id \in DOMAIN SeedDocuments /\ req[r].blob = None =>
        /\ req[r].step = "writeContent" => req[r].content \in WrittenIn(req[r].id)
        /\ req[r].step = "done" /\ r \in DOMAIN documents =>
              r \in DOMAIN contents /\ contents[r] \in WrittenIn(req[r].id) \cup WrittenIn(r)
ContentsKnown == SeedContents /\ \A r \in Requests : CopiedContent(r)

LEMMA EditsAreOver ==
    ASSUME Whole, NEW x \in Requests, Acts(x), NEW d
    PROVE  WrittenIn(d) \subseteq WrittenIn(d)'
<1>1. Stepped(x)
  BY ActsStepped DEF Whole, Sound
<1>2. req[x].kind # "edit"
  BY ActCases DEF Idle
<1>3. ASSUME NEW r \in Requests, At(r, "edit", "done")
      PROVE  req'[r] = req[r]
  BY <1>1, <1>2, <1>3 DEF Stepped, At
<1> QED  BY <1>3 DEF WrittenIn, At

\* What a step writes: the copy of a request, or an editor's own.
LEMMA ContentsStep ==
    ASSUME Whole, NEW x \in Requests, Acts(x), NEW d
    PROVE  \/ /\ d \in DOMAIN contents => d \in DOMAIN contents' /\ contents'[d] = contents[d]
              /\ d \in DOMAIN contents' => d \in DOMAIN contents
           \/ d \in DOMAIN contents' /\ contents'[d] \in WrittenIn(d)'
           \/ /\ d = x /\ At(x, "copy", "writeContent")
              /\ d \in DOMAIN contents' /\ contents'[d] = req[x].content
<1>0. DOMAIN req = Requests
  BY DEF Whole, Sound, AllFormed
<1>1. ASSUME NEW ok \in BOOLEAN, NEW written \in BOOLEAN, WriteContent(x, ok, written)
      PROVE  \/ /\ d \in DOMAIN contents => d \in DOMAIN contents' /\ contents'[d] = contents[d]
                /\ d \in DOMAIN contents' => d \in DOMAIN contents
             \/ /\ d = x /\ At(x, "copy", "writeContent")
                /\ d \in DOMAIN contents' /\ contents'[d] = req[x].content
  <2>1. At(x, "copy", "writeContent")
          /\ (UNCHANGED contents \/ contents' = Plus(contents, x, req[x].content))
    BY <1>1 DEF WriteContent
  <2> QED  BY <2>1 DEF Plus
<1>2. ASSUME NEW u \in Users, NEW e \in DOMAIN documents, Edit(x, u, e)
      PROVE  \/ /\ d \in DOMAIN contents => d \in DOMAIN contents' /\ contents'[d] = contents[d]
                /\ d \in DOMAIN contents' => d \in DOMAIN contents
             \/ d \in DOMAIN contents' /\ contents'[d] \in WrittenIn(d)'
  <2>1. /\ contents' = Plus(contents, e, x)
        /\ req' = [req EXCEPT ![x] = [kind |-> "edit", step |-> "done", user |-> u, id |-> e]]
    BY <1>2 DEF Edit, Arrive
  <2>2. x \in WrittenIn(e)'
    BY <1>0, <2>1 DEF WrittenIn, At
  <2> QED  BY <2>1, <2>2 DEF Plus
<1>3. CASE UNCHANGED contents
  BY <1>3
<1> QED  BY <1>1, <1>2, <1>3, ContentsChange

LEMMA ContentsStayKnown ==
    ASSUME Whole, BlobsKnown, ContentsKnown, NEW x \in Requests, Acts(x)
    PROVE  ContentsKnown'
<1>0. /\ AllFormed /\ RowsMade /\ Stepped(x) /\ BlobCheck(x) /\ DOMAIN req = Requests
      /\ SeedContents
  BY ActsStepped DEF Whole, Sound, AllFormed, BlobsKnown, ContentsKnown
<1>1. SeedContents'
  <2>1. \A d \in DOMAIN SeedDocuments : d # x
    BY FreshAssumption
  <2> QED  BY <1>0, <2>1, ContentsStep, EditsAreOver DEF SeedContents
<1>2. ASSUME NEW r \in Requests, r # x  PROVE CopiedContent(r)'
  <2>1. req'[r] = req[r] /\ CopiedContent(r)
    BY <1>0, <1>2 DEF Stepped, ContentsKnown
  <2>2. r \in DOMAIN documents' => r \in DOMAIN documents
    BY <1>2, DocumentsStay
  <2>a. PICK i : i = req[r].id
    OBVIOUS
  <2>b. WrittenIn(req[r].id) = WrittenIn(i) /\ WrittenIn(req[r].id)' = WrittenIn(i)'
    BY <2>1, <2>a DEF WrittenIn
  <2>3. SUFFICES ASSUME req[r].kind = "copy", i \in DOMAIN SeedDocuments, req[r].blob = None
                 PROVE  /\ req[r].step = "writeContent" => req[r].content \in WrittenIn(i)'
                        /\ req[r].step = "done" /\ r \in DOMAIN documents' =>
                              /\ r \in DOMAIN contents'
                              /\ contents'[r] \in WrittenIn(i)' \cup WrittenIn(r)'
    BY <2>1, <2>a, <2>b DEF CopiedContent
  <2>4. /\ WrittenIn(i) \subseteq WrittenIn(i)'
        /\ WrittenIn(r) \subseteq WrittenIn(r)'
    BY EditsAreOver
  <2>5. req[r].step = "writeContent" => req[r].content \in WrittenIn(i)'
    BY <2>1, <2>3, <2>4, <2>a, <2>b DEF CopiedContent
  <2>6. ASSUME req[r].step = "done", r \in DOMAIN documents'
        PROVE  r \in DOMAIN contents' /\ contents'[r] \in WrittenIn(i)' \cup WrittenIn(r)'
    <3>1. r \in DOMAIN contents /\ contents[r] \in WrittenIn(i) \cup WrittenIn(r)
      BY <2>1, <2>2, <2>3, <2>6, <2>a, <2>b DEF CopiedContent
    <3> QED  BY <1>2, <2>4, <3>1, ContentsStep
  <2> QED  BY <2>5, <2>6
<1>3. CopiedContent(x)'
  <2> SUFFICES ASSUME req'[x].kind = "copy", req'[x].id \in DOMAIN SeedDocuments,
                      req'[x].blob = None, req'[x].step \in {"writeContent", "done"}
               PROVE  /\ req'[x].step = "writeContent" =>
                            req'[x].content \in WrittenIn(req[x].id)'
                      /\ req'[x].step = "done" =>
                            /\ x \in DOMAIN contents'
                            /\ contents'[x] \in WrittenIn(req[x].id)' \cup WrittenIn(x)'
    BY DEF CopiedContent
  <2>1. req[x] # Idle /\ req[x].kind = "copy"
    BY <1>0, ActCases, ArrivalSteps DEF Stepped
  <2>2. {"kind", "step", "id", "row", "blob", "content"} \subseteq DOMAIN req[x]
    BY <1>0, <2>1, Knows
  <2>3. ASSUME NEW s, Go(x, s)
        PROVE  req'[x].step = s /\ req'[x].blob = req[x].blob /\ req'[x].id = req[x].id
    BY <1>0, <2>1, <2>2, <2>3, GoKeeps
  <2>4. CASE \E s \in {"insertCopy", "copyBlob", "refused", "failed", "discard", "content",
                       "rollback", "remove", "target", "folder", "write"} : Go(x, s)
    BY <2>3, <2>4
  <2>5. CASE ReadDocument(x) /\ ~Go(x, "refused")
    <3>1. PICK y : y = documents[req[x].id]
      OBVIOUS
    <3>2. req' = [req EXCEPT ![x].row = y, ![x].step = "member"]
      BY <2>5, <3>1 DEF ReadDocument, Go
    <3>3. req'[x].step = "member"
      BY <1>0, <2>2, <3>2
    <3> QED  BY <3>3
  <2>6. CASE (\E ok \in BOOLEAN : CopyBlob(x, ok)) /\ ~Go(x, "failed")
    <3>1. req' = [req EXCEPT ![x].blob = x, ![x].step = "insertCopy"]
      BY <2>6 DEF CopyBlob, Go
    <3>2. req'[x].step = "insertCopy"
      BY <1>0, <2>2, <3>1
    <3> QED  BY <3>2
  <2>7. ASSUME NEW ok \in BOOLEAN, ReadContent(x, ok), ~Go(x, "rollback")
        PROVE  /\ req'[x].step = "writeContent" =>
                     req'[x].content \in WrittenIn(req[x].id)'
               /\ req'[x].step = "done" =>
                     /\ x \in DOMAIN contents'
                     /\ contents'[x] \in WrittenIn(req[x].id)' \cup WrittenIn(x)'
    <3>1. PICK c : c = contents[req[x].id]
      OBVIOUS
    <3>2. \/ /\ req[x].blob = None
             /\ req' = [req EXCEPT ![x].step = "writeContent", ![x].content = c]
          \/ Go(x, "done") /\ (req[x].blob # None \/ req[x].id \notin DOMAIN contents)
      BY <2>7, <3>1 DEF ReadContent, Go
    <3>3. req'[x].id = req[x].id /\ req'[x].blob = req[x].blob
      <4>1. ASSUME req' = [req EXCEPT ![x].step = "writeContent", ![x].content = c]
            PROVE  req'[x].id = req[x].id /\ req'[x].blob = req[x].blob
        BY <1>0, <2>2, <4>1
      <4> QED  BY <2>3, <3>2, <4>1
    <3>4. SeedDocuments[req[x].id].blob = None
      <4>1. req[x].row.blob \in Own(req[x].id)
        BY <1>0, <2>1, <2>7 DEF BlobCheck, KnowsRow, OfRow, ReadContent, At
      <4>2. req[x].row.blob = None
        BY <1>0, <2>1, <2>7, <3>3 DEF BlobCheck, CopiesBlob, CopiedSteps, ReadContent, At
      <4> QED  BY <3>3, <4>1, <4>2 DEF Own
    <3>5. req[x].id \in DOMAIN contents /\ c \in WrittenIn(req[x].id)
      BY <1>0, <3>1, <3>3, <3>4 DEF SeedContents
    <3>6. c \in WrittenIn(req[x].id)'
      <4>1. PICK i : i = req[x].id
        OBVIOUS
      <4>2. c \in WrittenIn(i)'
        BY <3>5, <4>1, EditsAreOver
      <4> QED  BY <3>3, <4>1, <4>2 DEF WrittenIn
    <3>7. req' = [req EXCEPT ![x].step = "writeContent", ![x].content = c]
      BY <3>2, <3>3, <3>5
    <3>8. req'[x].step = "writeContent" /\ req'[x].content = c
      BY <1>0, <2>2, <3>7
    <3> QED  BY <3>3, <3>6, <3>8
  <2>8. ASSUME NEW ok \in BOOLEAN, NEW written \in BOOLEAN, WriteContent(x, ok, written),
               ~Go(x, "rollback")
        PROVE  /\ req'[x].step = "done" /\ x \in DOMAIN contents'
               /\ contents'[x] \in WrittenIn(req[x].id)'
    <3>1. /\ At(x, "copy", "writeContent") /\ Go(x, "done")
          /\ contents' = Plus(contents, x, req[x].content)
      BY <2>8 DEF WriteContent
    <3>2. req'[x].step = "done" /\ req'[x].blob = req[x].blob /\ req'[x].id = req[x].id
      BY <2>3, <3>1
    <3>3. req[x].content \in WrittenIn(req[x].id)
      BY <3>1, <3>2 DEF ContentsKnown, CopiedContent, At
    <3>4. PICK i, c : i = req[x].id /\ c = req[x].content
      OBVIOUS
    <3>5. c \in WrittenIn(i)'
      BY <3>3, <3>4, EditsAreOver
    <3>6. WrittenIn(i)' = WrittenIn(req[x].id)'
      BY <3>2, <3>4 DEF WrittenIn
    <3> QED  BY <3>1, <3>2, <3>4, <3>5, <3>6 DEF Plus
  <2>9. CheckAccess(x) => \E s \in {"insertCopy", "copyBlob", "refused", "remove", "target",
                                    "folder", "write"} : Go(x, s)
    BY <2>1 DEF CheckAccess, Check, FirstStep
  <2>10. (\E ok \in BOOLEAN : InsertCopy(x, ok) \/ RollBack(x, ok) \/ DiscardBlob(x, ok)) =>
           \E s \in {"failed", "discard", "content"} : Go(x, s)
    BY DEF InsertCopy, RollBack, DiscardBlob
  <2> QED
    BY <2>1, <2>4, <2>5, <2>6, <2>7, <2>8, <2>9, <2>10, ActCases
<1> QED  BY <1>1, <1>2, <1>3 DEF ContentsKnown

LEMMA InitContents == Init => ContentsKnown
BY DEF Init, InitDatabase, ContentsKnown, SeedContents, CopiedContent, WrittenIn, Idle

LEMMA ContentsUntouched ==
    ASSUME ContentsKnown, UNCHANGED dbVars
    PROVE  ContentsKnown'
BY DEF dbVars, ContentsKnown, SeedContents, CopiedContent, WrittenIn, At

\* A copy that is done is whole, whatever was written or deleted meanwhile.
THEOREM CopiesWhole == Spec => []CopiesAreWhole
<1>1. Whole /\ ContentsKnown /\ BlobsKnown /\ [Next]_vars => ContentsKnown'
  BY ContentsStayKnown, ContentsUntouched, NextCases
<1>2. Whole /\ BlobsKnown /\ ContentsKnown => CopiesAreWhole
  <2> SUFFICES ASSUME Whole, BlobsKnown, ContentsKnown, NEW r \in Requests,
                      At(r, "copy", "done"), r \in DOMAIN documents
               PROVE  IF req[r].row.blob # None THEN documents[r].blob = r /\ r \in blobs
                      ELSE req[r].id \in DOMAIN SeedDocuments =>
                              /\ r \in DOMAIN contents
                              /\ contents[r] \in WrittenIn(req[r].id) \cup WrittenIn(r)
    BY DEF CopiesAreWhole
  <2>1. BlobCheck(r) /\ CopiedContent(r) /\ req[r].kind = "copy" /\ req[r].step = "done"
    BY DEF BlobsKnown, ContentsKnown, At
  <2>2. req[r].row.blob = None <=> req[r].blob = None
    BY <2>1 DEF BlobCheck, CopiesBlob, CopiedSteps
  <2>3. req[r].blob \in {None, r} /\ documents[r].blob = req[r].blob
    BY <2>1 DEF BlobCheck, KnowsBlob, Makers
  <2>4. documents[r].blob # None => documents[r].blob \in blobs
    BY DEF BlobsKnown, DocumentsHaveTheirBlob, Referenced
  <2> QED  BY <2>1, <2>2, <2>3, <2>4 DEF CopiedContent
<1> QED  BY <1>1, <1>2, InitContents, StateIsWhole, BlobsHold, PTL DEF Spec

(* Uploads and copies happen whole or, if what undoes them succeeds, not at *)
(* all: a failure leaves nothing, and a copy that is reported done has the  *)
(* blob of its source or what its source held.                              *)
THEOREM WholeOrNothing ==
    ASSUME CleanupWorks
    PROVE  Spec => []AllOrNothing
<1>1. FailuresLeaveNothing /\ CopiesAreWhole => AllOrNothing
  BY DEF AllOrNothing
<1> QED  BY <1>1, FailuresLeave, CopiesWhole, CleanupWorks, PTL

-----------------------------------------------------------------------------
(* Notifications                                                            *)

\* A note is of a report or a join that is done, and as it was reported.
NoteFields == {"recipient", "event", "key", "workspace", "document", "seq", "read"}
MadeBy(n, e, r, u) ==
    /\ n = <<r, u>> /\ req[r].step = "done" /\ req[r].kind \in {"accept", "report"}
    /\ e.event = Joined => req[r].kind = "accept"
    /\ e.event # Joined =>
          /\ req[r].kind = "report" /\ u \in req[r].to /\ e.event = req[r].event
          /\ e.document = req[r].document /\ e.workspace = req[r].workspace
NoteKnown(n) ==
    /\ DOMAIN notes[n] = NoteFields
    /\ notes[n].event \in Events \cup {Joined} /\ notes[n].key = DedupeKey(notes[n].event)
    /\ \E r \in Requests : MadeBy(n, notes[n], r, notes[n].recipient)
NotesKnown == \A n \in DOMAIN notes : NoteKnown(n)

\* A key tells the events of a type apart, and is not null.
LEMMA KeysTell ==
    ASSUME NEW e \in Events, NEW f \in Events \cup {Joined}
    PROVE  /\ DedupeKey(e) # None
           /\ SameEvent(f, e) <=> f.type = e.type /\ DedupeKey(f) = DedupeKey(e)
<1>1. Joined.type = "workspace_member_joined" /\ e.type # "workspace_member_joined"
  BY DEF Joined, Events
<1>2. CASE e.type = "thread_resolved"
  <2>1. DedupeKey(e) = <<e.thread, "resolved">> /\ e.thread \in Threads
    BY <1>2 DEF DedupeKey, Events
  <2>2. f.type = e.type => DedupeKey(f) = <<f.thread, "resolved">>
    BY <1>2 DEF DedupeKey
  <2> QED  BY <1>2, <2>1, <2>2, KeysAssumption DEF SameEvent
<1>3. CASE e.type \in {"comment_mention", "comment_reply"}
  <2>1. DedupeKey(e) = <<e.comment>> /\ e.comment \in Comments
    BY <1>3 DEF DedupeKey, Events
  <2>2. f.type = e.type => DedupeKey(f) = <<f.comment>>
    BY <1>3 DEF DedupeKey
  <2> QED  BY <1>3, <2>1, <2>2, KeysAssumption DEF SameEvent
<1> QED  BY <1>2, <1>3 DEF Events

\* The batch a step may insert: a join that is done, or a report that is done.
Batch(x) ==
    \/ /\ At(x, "accept", "notify") /\ UNCHANGED <<documents, workspaces>> /\ Go(x, "done")
       /\ Insert(x, req[x].to, Joined, req[x].invite.workspace, None)
    \/ /\ At(x, "report", "notify") /\ UNCHANGED <<documents, workspaces>> /\ Go(x, "done")
       /\ Insert(x, req[x].to, req[x].event, req[x].workspace, req[x].document)
NoteStays(n) == n \in DOMAIN notes' /\ (notes'[n] = notes[n] \/ notes'[n] = [notes[n] EXCEPT !.read = TRUE])

\* The notes a step keeps, those that go with their document or workspace,
\* and those it makes.
LEMMA NotesStep ==
    ASSUME Whole, NEW x \in Requests, Acts(x)
    PROVE  /\ \A n \in DOMAIN notes :
                \/ NoteStays(n)
                \/ /\ n \notin DOMAIN notes'
                   /\ \/ notes[n].document \notin DOMAIN documents'
                      \/ notes[n].workspace \notin DOMAIN workspaces'
           /\ DOMAIN notes' \subseteq DOMAIN notes \/ Batch(x)
<1>1. CASE UNCHANGED notes
  BY <1>1 DEF NoteStays
<1>2. ASSUME NEW S, NEW e, NEW w, NEW d, Insert(x, S, e, w, d), NEW n \in DOMAIN notes
      PROVE  NoteStays(n)
  BY <1>2, InsertedNotes DEF NoteStays
<1>3. CASE ~UNCHANGED notes /\ \E ok \in BOOLEAN : NotifyJoin(x, ok)
  <2>1. Batch(x)
    BY <1>3 DEF NotifyJoin, Batch, At, OnlyNotes
  <2> QED  BY <1>2, <2>1 DEF Batch
<1>4. CASE ~UNCHANGED notes /\ NotifyComment(x)
  <2>1. Batch(x)
    BY <1>4 DEF NotifyComment, Batch, At, OnlyNotes
  <2> QED  BY <1>2, <2>1 DEF Batch
<1>5. CASE \E u \in Users : \E ids, here : MarkRead(x, u, ids, here)
  BY <1>5 DEF MarkRead, NoteStays
<1>6. ASSUME NEW d, DeleteDocument(d)
      PROVE  /\ DOMAIN notes' \subseteq DOMAIN notes
             /\ \A n \in DOMAIN notes :
                  NoteStays(n) \/ (n \notin DOMAIN notes' /\ notes[n].document \notin DOMAIN documents')
  BY <1>6 DEF DeleteDocument, NotesOf, Less, NoteStays
<1>7. CASE RemoveDocument(x)
  <2>1. UNCHANGED notes \/ DeleteDocument(req[x].id)
    BY <1>7 DEF RemoveDocument
  <2> QED  BY <1>1, <1>6, <2>1
<1>8. CASE \E ok \in BOOLEAN : RollBack(x, ok)
  <2>1. UNCHANGED notes \/ DeleteDocument(x)
    BY <1>8 DEF RollBack
  <2> QED  BY <1>1, <1>6, <2>1
<1>9. CASE RemoveWorkspace(x)
  <2> DEFINE w == req[x].workspace
             docs == {d \in DOMAIN documents : documents[d].workspace = w}
             gone == Subtree({f \in DOMAIN folders : folders[f].workspace = w})
  <2>1. CASE UNCHANGED tables
    BY <1>1, <2>1 DEF tables
  <2>2. CASE /\ workspaces' = Less(workspaces, {w})
             /\ documents' = Unfiled(Less(documents, docs), gone)
             /\ notes' = Less(notes, {n \in DOMAIN notes : notes[n].workspace = w}
                                       \cup NotesOf(docs))
    <3>1. /\ DOMAIN documents' = DOMAIN documents \ docs
          /\ DOMAIN workspaces' = DOMAIN workspaces \ {w}
      BY <2>2 DEF Unfiled, Less
    <3> HIDE DEF gone, docs, w
    <3> QED  BY <2>2, <3>1 DEF Less, NotesOf, NoteStays
  <2> QED  BY <1>9, <2>1, <2>2, WorkspaceDeleteRows
<1> QED  BY <1>1, <1>3, <1>4, <1>5, <1>7, <1>8, <1>9, NotesChange

\* What a kept note says stays.
LEMMA KeptSays ==
    ASSUME NotesKnown, NEW n \in DOMAIN notes, NoteStays(n)
    PROVE  /\ n \in DOMAIN notes' /\ DOMAIN notes'[n] = NoteFields
           /\ notes'[n].recipient = notes[n].recipient /\ notes'[n].event = notes[n].event
           /\ notes'[n].key = notes[n].key /\ notes'[n].document = notes[n].document
           /\ notes'[n].workspace = notes[n].workspace
<1>1. PICK y : y = notes[n]
  OBVIOUS
<1>2. DOMAIN y = NoteFields
  BY <1>1 DEF NotesKnown, NoteKnown
<1> QED  BY <1>1, <1>2 DEF NoteStays, NoteFields

\* What a new note says.
LEMMA NewNoteSays ==
    ASSUME Whole, NEW x \in Requests, Acts(x), NEW n \in DOMAIN notes' \ DOMAIN notes
    PROVE  \E u \in Users :
             /\ n = <<x, u>> /\ DOMAIN notes'[n] = NoteFields
             /\ notes'[n].recipient = u /\ ~Clashes(u, notes'[n].event)
             /\ notes'[n].event \in Events \cup {Joined}
             /\ notes'[n].key = DedupeKey(notes'[n].event)
             /\ req'[x].step = "done" /\ req'[x].kind \in {"accept", "report"}
             /\ notes'[n].event = Joined => req'[x].kind = "accept"
             /\ notes'[n].event # Joined =>
                   /\ req'[x].kind = "report" /\ u \in req'[x].to /\ notes'[n].event = req'[x].event
                   /\ notes'[n].document = req'[x].document
                   /\ notes'[n].workspace = req'[x].workspace
<1>0. AllFormed /\ Batch(x)
  BY NotesStep DEF Whole, Sound
<1>1. \A u, e, w, d : LET m == Note(u, e, w, d)
                      IN  /\ DOMAIN m = NoteFields
                          /\ m.recipient = u /\ m.workspace = w /\ m.document = d
                          /\ m.event = e /\ m.key = DedupeKey(e)
  BY DEF Note, NoteFields
<1>2. CASE /\ At(x, "accept", "notify") /\ Go(x, "done")
           /\ Insert(x, req[x].to, Joined, req[x].invite.workspace, None)
  <2>1. req[x] # Idle /\ req[x].kind = "accept" /\ req[x].step = "notify"
    BY <1>2 DEF Idle, At
  <2>2. req'[x].step = "done" /\ req'[x].kind = "accept"
    BY <1>0, <1>2, <2>1, GoKeeps
  <2>3. PICK u \in req[x].to : /\ ~Clashes(u, Joined) /\ n = <<x, u>>
                               /\ notes'[n] = Note(u, Joined, req[x].invite.workspace, None)
    BY <1>2, InsertedNotes
  <2>4. u \in Users
    <3>1. req[x].to \in SUBSET Users
      BY <1>0, <2>1 DEF AllFormed, Formed, AcceptForms
    <3> QED  BY <2>3, <3>1
  <2> QED  BY <1>1, <2>2, <2>3, <2>4
<1>3. CASE /\ At(x, "report", "notify") /\ Go(x, "done")
           /\ Insert(x, req[x].to, req[x].event, req[x].workspace, req[x].document)
  <2>1. req[x] # Idle /\ req[x].kind = "report"
    BY <1>3 DEF Idle, At
  <2>2. DOMAIN req[x] = {"kind", "step", "user", "document", "to", "event", "workspace"}
    BY <1>0, <2>1, Knows
  <2>3. /\ req'[x].step = "done" /\ req'[x].kind = "report" /\ req'[x].to = req[x].to
        /\ req'[x].event = req[x].event /\ req'[x].document = req[x].document
        /\ req'[x].workspace = req[x].workspace
    BY <1>0, <1>3, <2>1, <2>2, GoKeeps
  <2>4. PICK u \in req[x].to :
          /\ ~Clashes(u, req[x].event) /\ n = <<x, u>>
          /\ notes'[n] = Note(u, req[x].event, req[x].workspace, req[x].document)
    BY <1>3, InsertedNotes
  <2>5. req[x].to \in SUBSET Users /\ req[x].event \in Events
    BY <1>0, <2>1 DEF AllFormed, Formed, NoteForms
  <2>6. req[x].event # Joined
    BY <2>5 DEF Events, Joined
  <2> QED  BY <1>1, <2>3, <2>4, <2>5, <2>6
<1> QED  BY <1>0, <1>2, <1>3 DEF Batch

\* A join or a report that is done does nothing more.
LEMMA DoneStays ==
    ASSUME Whole, NEW x \in Requests, Acts(x), NEW r \in Requests, req[r].step = "done",
           req[r].kind \in {"accept", "report"}
    PROVE  req'[r] = req[r]
<1>1. Stepped(x)
  BY ActsStepped DEF Whole, Sound
<1>2. r # x
  <2>1. CASE req[x].kind = "accept"
    <3>1. req[x].step # "done"
      BY <2>1, ActCases DEF ReadInvite, ReadExisting, Join, ReadOwners, NotifyJoin, At
    <3> QED  BY <3>1
  <2>2. CASE req[x].kind = "report"
    <3>1. req[x].step # "done"
      BY <2>2, ActCases DEF ReadReported, KeepMembers, NotifyComment, At
    <3> QED  BY <3>1
  <2> QED  BY <2>1, <2>2
<1> QED  BY <1>1, <1>2 DEF Stepped

LEMMA NotesStayKnown ==
    ASSUME Whole, NotesKnown, NEW x \in Requests, Acts(x)
    PROVE  NotesKnown'
<1> SUFFICES ASSUME NEW n \in DOMAIN notes'  PROVE NoteKnown(n)'
  BY DEF NotesKnown
<1>1. CASE n \notin DOMAIN notes
  BY <1>1, NewNoteSays DEF NoteKnown, MadeBy
<1>2. CASE n \in DOMAIN notes
  <2>1. NoteStays(n) /\ NoteKnown(n)
    BY <1>2, NotesStep DEF NotesKnown
  <2>2. /\ DOMAIN notes'[n] = NoteFields
        /\ notes'[n].recipient = notes[n].recipient /\ notes'[n].event = notes[n].event
        /\ notes'[n].key = notes[n].key /\ notes'[n].document = notes[n].document
        /\ notes'[n].workspace = notes[n].workspace
    BY <1>2, <2>1, KeptSays
  <2>3. PICK r \in Requests : MadeBy(n, notes[n], r, notes[n].recipient)
    BY <2>1 DEF NoteKnown
  <2>4. req'[r] = req[r]
    BY <2>3, DoneStays DEF MadeBy
  <2>5. MadeBy(n, notes[n], r, notes[n].recipient)'
    BY <2>2, <2>3, <2>4 DEF MadeBy
  <2> QED  BY <2>1, <2>2, <2>5 DEF NoteKnown
<1> QED  BY <1>1, <1>2

\* The unique index keeps a second note of an event out.
LEMMA AnnouncedOnceStays ==
    ASSUME Whole, NotesKnown, AnnouncedOnce, NEW x \in Requests, Acts(x)
    PROVE  AnnouncedOnce'
<1>1. NotesKnown'
  BY NotesStayKnown
<1> SUFFICES ASSUME NEW m \in DOMAIN notes', NEW n \in DOMAIN notes', m # n,
                    notes'[m].recipient = notes'[n].recipient,
                    notes'[m].event.type # "workspace_member_joined",
                    SameEvent(notes'[m].event, notes'[n].event)
             PROVE  FALSE
  BY DEF AnnouncedOnce
<1>2. /\ notes'[m].event \in Events /\ notes'[n].event \in Events
      /\ SameEvent(notes'[n].event, notes'[m].event)
  <2>1. /\ notes'[m].event \in Events \cup {Joined} /\ notes'[n].event \in Events \cup {Joined}
        /\ Joined.type = "workspace_member_joined"
        /\ notes'[m].event.type = notes'[n].event.type
    BY <1>1 DEF NotesKnown, NoteKnown, Joined, SameEvent
  <2> QED  BY <2>1 DEF SameEvent
\* A note of the event that was there already clashes with a new one.
<1>3. ASSUME NEW a \in DOMAIN notes' \ DOMAIN notes, NEW b \in DOMAIN notes',
             notes'[a].recipient = notes'[b].recipient, b \in DOMAIN notes,
             notes'[a].event \in Events, SameEvent(notes'[b].event, notes'[a].event)
      PROVE  FALSE
  <2>1. NoteStays(b) /\ NoteKnown(b)
    BY <1>3, NotesStep DEF NotesKnown
  <2>2. /\ notes'[b].recipient = notes[b].recipient /\ notes'[b].event = notes[b].event
        /\ notes[b].key = DedupeKey(notes[b].event) /\ notes[b].event \in Events \cup {Joined}
    BY <1>3, <2>1, KeptSays DEF NoteKnown
  <2>3. ~Clashes(notes'[a].recipient, notes'[a].event)
    BY <1>3, NewNoteSays
  <2>4. /\ DedupeKey(notes'[a].event) # None /\ notes[b].event.type = notes'[a].event.type
        /\ notes[b].key = DedupeKey(notes'[a].event)
    BY <1>3, <2>2, KeysTell
  <2> QED  BY <1>3, <2>2, <2>3, <2>4 DEF Clashes, Inbox
<1>4. CASE m \in DOMAIN notes /\ n \in DOMAIN notes
  <2>1. NoteStays(m) /\ NoteStays(n)
    BY <1>4, NotesStep
  <2> QED  BY <1>4, <2>1, KeptSays DEF AnnouncedOnce
<1>5. CASE m \notin DOMAIN notes /\ n \notin DOMAIN notes
  <2>1. m = <<x, notes'[m].recipient>> /\ n = <<x, notes'[n].recipient>>
    BY <1>5, NewNoteSays
  <2> QED  BY <2>1
<1> QED  BY <1>2, <1>3, <1>4, <1>5

\* A workspace or a document that has been deleted stays so.
LEMMA GoneStays ==
    ASSUME Whole, NEW x \in Requests, Acts(x)
    PROVE  /\ \A d \in MadeDocuments : d \notin DOMAIN documents => d \notin DOMAIN documents'
           /\ \A w \in MadeWorkspaces \cup {None} :
                 w \notin DOMAIN workspaces => w \notin DOMAIN workspaces'
<1>0. AllFormed /\ RowsMade /\ None \notin Requests
  BY NoneIsNoBlob DEF Whole, Sound
<1>1. \A d \in MadeDocuments : d \notin DOMAIN documents => d \notin DOMAIN documents'
  BY DocumentsStay
<1>2. ASSUME NEW w \in MadeWorkspaces \cup {None}, w \notin DOMAIN workspaces
      PROVE  w \notin DOMAIN workspaces'
  <2>1. CASE InsertWorkspace(x)
    <3>1. x \notin MadeWorkspaces
      BY <1>0, <2>1, MakesFirst DEF InsertWorkspace, At, MakesWorkspace
    <3>2. DOMAIN workspaces' \subseteq DOMAIN workspaces \cup {x}
      BY <2>1 DEF InsertWorkspace, Plus
    <3> QED  BY <1>0, <1>2, <3>1, <3>2
  <2>2. CASE RenameWorkspace(x)
    BY <1>2, <2>2 DEF RenameWorkspace
  <2>3. CASE RemoveWorkspace(x)
    <3>1. UNCHANGED workspaces \/ \E S : workspaces' = Less(workspaces, S)
      BY <2>3, WorkspaceDeleteRows DEF tables
    <3> QED  BY <1>2, <3>1 DEF Less
  <2> QED  BY <1>2, <2>1, <2>2, <2>3, WorkspacesChange
<1> QED  BY <1>1, <1>2

\* A report that no longer stands does not stand again.
LEMMA FallenStays ==
    ASSUME Whole, NEW x \in Requests, Acts(x), NEW r \in Requests, At(r, "report", "done"),
           ~Stands(r)
    PROVE  ~Stands(r)'
<1>1. req'[r] = req[r]
  BY DoneStays DEF At
<1>2. req[r].document \in MadeDocuments /\ req[r].workspace \in MadeWorkspaces \cup {None}
  BY DEF Whole, Sound, AllFormed, Formed, NoteForms, At
<1> QED  BY <1>1, <1>2, GoneStays DEF Stands

\* What ReportsReachMembers says of a report and a user.
Reached(r, u) ==
    Reported(r, u, req[r].event) =>
        \/ \E n \in Inbox(u) : SameEvent(notes[n].event, req[r].event)
        \/ \E x \in Requests : Reported(x, u, req[r].event) /\ ~Stands(x)

LEMMA ReportedStays ==
    ASSUME Whole, NEW x \in Requests, Acts(x), NEW r \in Requests, NEW u, NEW e, Reported(r, u, e)
    PROVE  Reported(r, u, e)' /\ req'[r] = req[r]
<1>1. req'[r] = req[r]
  BY DoneStays DEF Reported, At
<1> QED  BY <1>1 DEF Reported, At

LEMMA ReachedStays ==
    ASSUME Whole, NotesKnown, NEW x \in Requests, Acts(x), NEW r \in Requests,
           NEW u \in Users, Reached(r, u)
    PROVE  Reached(r, u)'
<1>0. AllFormed /\ Stepped(x) /\ DOMAIN req = Requests
  BY ActsStepped DEF Whole, Sound, AllFormed
<1>1. PICK e : e = req'[r].event
  OBVIOUS
<1> SUFFICES ASSUME Reported(r, u, e)'
             PROVE  \/ \E n \in Inbox(u)' : SameEvent(notes'[n].event, e)
                    \/ \E y \in Requests : Reported(y, u, e)' /\ ~Stands(y)'
  BY <1>1 DEF Reached, Reported, At
<1>2. e \in Events
  <2>1. Formed(req'[r], MadeWorkspaces, MadeFolders, MadeDocuments)
    BY <1>0 DEF Stepped, AllFormed
  <2> QED  BY <1>1, <2>1 DEF Reported, At, Formed, NoteForms
\* A note of the event stays, or its report does not stand any more.
<1>3. ASSUME NEW n \in Inbox(u), SameEvent(notes[n].event, e)
      PROVE  \/ \E m \in Inbox(u)' : SameEvent(notes'[m].event, e)
             \/ \E y \in Requests : Reported(y, u, e)' /\ ~Stands(y)'
  <2>0. n \in DOMAIN notes /\ notes[n].recipient = u /\ NoteKnown(n)
    BY DEF Inbox, NotesKnown
  <2>1. CASE NoteStays(n)
    BY <1>3, <2>0, <2>1, KeptSays DEF Inbox
  <2>2. CASE /\ n \notin DOMAIN notes'
             /\ \/ notes[n].document \notin DOMAIN documents'
                \/ notes[n].workspace \notin DOMAIN workspaces'
    <3>1. PICK y \in Requests : MadeBy(n, notes[n], y, u)
      BY <2>0 DEF NoteKnown
    <3>2. notes[n].event # Joined
      BY <1>2, <1>3 DEF SameEvent, Joined, Events
    <3>3. Reported(y, u, e)
      BY <1>3, <3>1, <3>2 DEF MadeBy, Reported, At
    <3>4. Reported(y, u, e)' /\ req'[y] = req[y]
      BY <3>3, ReportedStays
    <3>5. ~Stands(y)'
      BY <2>2, <3>1, <3>2, <3>4 DEF MadeBy, Stands
    <3> QED  BY <3>4, <3>5
  <2> QED  BY <2>0, <2>1, <2>2, NotesStep
<1>4. CASE Reported(r, u, req[r].event)
  <2>1. req'[r] = req[r] /\ e = req[r].event
    BY <1>1, <1>4, ReportedStays
  <2>2. CASE \E n \in Inbox(u) : SameEvent(notes[n].event, e)
    BY <1>3, <2>2
  <2>3. CASE \E y \in Requests : Reported(y, u, e) /\ ~Stands(y)
    <3>1. PICK y \in Requests : Reported(y, u, e) /\ ~Stands(y)
      BY <2>3
    <3> QED  BY <3>1, ReportedStays, FallenStays DEF Reported
  <2> QED  BY <1>4, <2>1, <2>2, <2>3 DEF Reached
<1>5. CASE ~Reported(r, u, req[r].event)
  <2>1. SameEvent(e, e)
    BY DEF SameEvent
  <2>2. r = x
    BY <1>0, <1>1, <1>5 DEF Stepped, Reported, At
  <2>3. req'[x].kind = "report" /\ req'[x].step = "done" /\ u \in req'[x].to
    BY <2>2 DEF Reported, At
  <2>4. req[x] # Idle /\ req[x].kind = "report"
    BY <1>0, <2>3, ActCases, ArrivalSteps DEF Stepped
  <2>5. DOMAIN req[x] = {"kind", "step", "user", "document", "to", "event", "workspace"}
    BY <1>0, <2>4, Knows
  <2>6. CASE NotifyComment(x)
    <3>1. At(x, "report", "notify") /\ (Go(x, "done") \/ Go(x, "failed"))
      BY <2>6 DEF NotifyComment
    <3>2. req'[x].to = req[x].to /\ req'[x].event = req[x].event
      BY <1>0, <2>4, <2>5, <3>1, GoKeeps
    <3>3. Go(x, "done")
      BY <1>0, <2>3, <2>4, <3>1, GoKeeps
    <3>4. Insert(x, req[x].to, req[x].event, req[x].workspace, req[x].document)
      <4>1. \/ Go(x, "done") /\ Insert(x, req[x].to, req[x].event, req[x].workspace, req[x].document)
            \/ Go(x, "failed")
        BY <2>6 DEF NotifyComment
      <4>2. ~Go(x, "failed")
        BY <1>0, <2>3, <2>4, GoKeeps
      <4> QED  BY <4>1, <4>2
    <3>5. e = req[x].event /\ u \in req[x].to
      BY <1>1, <2>2, <2>3, <3>2
    <3>6. CASE Clashes(u, e)
      <4>1. PICK n \in Inbox(u) : notes[n].event.type = e.type /\ notes[n].key = DedupeKey(e)
        BY <3>6 DEF Clashes
      <4>2. notes[n].event \in Events \cup {Joined} /\ notes[n].key = DedupeKey(notes[n].event)
        BY <4>1 DEF NotesKnown, NoteKnown, Inbox
      <4>3. SameEvent(notes[n].event, e)
        BY <1>2, <4>1, <4>2, KeysTell
      <4> QED  BY <1>3, <4>3
    <3>7. CASE <<x, u>> \in DOMAIN notes'
      <4>1. NotesKnown'
        BY NotesStayKnown
      <4>2. PICK n, y : /\ n = <<x, u>> /\ n \in DOMAIN notes' /\ y = notes'[n].recipient
        BY <3>7
      <4>3. NoteKnown(n)'
        BY <4>1, <4>2 DEF NotesKnown
      <4>4. PICK z \in Requests : MadeBy(n, notes[n], z, notes[n].recipient)'
        BY <4>3 DEF NoteKnown
      <4>5. n = <<z, y>>
        BY <4>2, <4>4 DEF MadeBy
      <4>6. z = x /\ y = u
        BY <4>2, <4>5
      <4>7. notes'[n].event = e
        BY <1>1, <2>2, <2>3, <4>4, <4>6 DEF MadeBy
      <4> QED  BY <2>1, <4>2, <4>6, <4>7 DEF Inbox
    <3> QED  BY <3>4, <3>5, <3>6, <3>7, InsertedNotes
  <2>7. CASE ReadReported(x) \/ KeepMembers(x)
    <3>1. CASE Go(x, "refused")
      BY <1>0, <2>3, <2>4, <3>1, GoKeeps
    <3>2. CASE ~Go(x, "refused")
      <4>1. PICK a, b :
              /\ a = documents[req[x].document].workspace
              /\ b = {v \in req[x].to : IsMember(req[x].workspace, v)}
        OBVIOUS
      <4>2. \/ req' = [req EXCEPT ![x].workspace = a, ![x].step = "members"]
            \/ req' = [req EXCEPT ![x].to = b, ![x].step = "notify"]
        BY <2>7, <3>2, <4>1 DEF ReadReported, KeepMembers, Go
      <4>3. req'[x].step \in {"members", "notify"}
        BY <1>0, <2>5, <4>2
      <4> QED  BY <2>3, <4>3
    <3> QED  BY <3>1, <3>2
  <2> QED  BY <2>4, <2>6, <2>7, ActCases
<1> QED  BY <1>4, <1>5

\* What the notifications rest on.
Announced ==
    /\ NotesKnown /\ AnnouncedOnce
    /\ \A r \in Requests, u \in Users : Reached(r, u)

LEMMA AnnouncedStays ==
    ASSUME Whole, Announced, [Next]_vars
    PROVE  Announced'
<1>1. CASE UNCHANGED dbVars
  <2>1. NotesKnown'
    BY <1>1 DEF dbVars, Announced, NotesKnown, NoteKnown, MadeBy
  <2>2. AnnouncedOnce'
    BY <1>1 DEF dbVars, Announced, AnnouncedOnce
  <2>3. ASSUME NEW r \in Requests, NEW u \in Users  PROVE Reached(r, u)'
    BY <1>1 DEF dbVars, Announced, Reached, Reported, At, Inbox, Stands
  <2> QED  BY <2>1, <2>2, <2>3 DEF Announced
<1>2. ASSUME NEW x \in Requests, Acts(x)
      PROVE  Announced'
  BY <1>2, NotesStayKnown, AnnouncedOnceStays, ReachedStays DEF Announced
<1> QED  BY <1>1, <1>2, NextCases

(* A comment, or a thread being resolved, is announced to each member named *)
(* once: the unique index keeps repetitions out, however reports interleave,*)
(* and no note of another comment takes its place.                          *)
THEOREM ToldOnce == Spec => []ToldExactlyOnce
<1>1. Init => Announced
  BY DEF Init, InitDatabase, Announced, NotesKnown, AnnouncedOnce, Reached, Reported, At, Idle
<1>2. Whole /\ Announced /\ [Next]_vars => Announced'
  BY AnnouncedStays
<1>3. Announced => ToldExactlyOnce
  BY DEF Announced, ToldExactlyOnce, ReportsReachMembers, Reached
<1> QED  BY <1>1, <1>2, <1>3, StateIsWhole, PTL DEF Spec

-----------------------------------------------------------------------------
(* Memberships                                                              *)

\* Whom to tell of is read once a membership has been made.
JoinedFirst == \A r \in Requests : At(r, "accept", "recipients") => req[r].joined
EndedFirst(w, u) == Cardinality(Removals(w, u)) + (IF IsMember(w, u) THEN 1 ELSE 0)
JoinsCounted ==
    \A w \in DOMAIN workspaces, u \in Users : Cardinality(Joins(w, u)) <= EndedFirst(w, u)

\* What a request to join knows at each statement.
LEMMA AcceptKnows ==
    ASSUME AllFormed, NEW r \in Requests, req[r].kind = "accept"
    PROVE  /\ req[r].step \in {"invite", "refused"} =>
                 DOMAIN req[r] = {"kind", "step", "user", "token"}
           /\ req[r].step \in {"existing", "create", "recipients"} =>
                 DOMAIN req[r] = {"kind", "step", "user", "invite", "joined"}
           /\ req[r].step = "notify" =>
                 DOMAIN req[r] = {"kind", "step", "user", "invite", "joined", "to"}
<1>1. AcceptForms(req[r], MadeWorkspaces)
  BY DEF AllFormed, Formed
<1> QED  BY <1>1 DEF AcceptForms

LEMMA JoinsGrow ==
    ASSUME Whole, JoinedFirst, NEW x \in Requests, Acts(x), NEW w, NEW u
    PROVE  \/ Joins(w, u)' \subseteq Joins(w, u)
           \/ /\ Joins(w, u)' \subseteq Joins(w, u) \cup {x} /\ Join(x)
              /\ ~IsMember(w, u) /\ IsMember(w, u)'
<1>0. AllFormed /\ Stepped(x) /\ DOMAIN req = Requests
  BY ActsStepped DEF Whole, Sound, AllFormed
<1>1. Joins(w, u)' \subseteq Joins(w, u) \cup {x}
  BY <1>0 DEF Stepped, Joins
<1> SUFFICES ASSUME x \in Joins(w, u)', x \notin Joins(w, u)
             PROVE  Join(x) /\ ~IsMember(w, u) /\ IsMember(w, u)'
  BY <1>1
<1>2. /\ req'[x].kind = "accept" /\ "joined" \in DOMAIN req'[x] /\ req'[x].joined
      /\ req'[x].user = u /\ req'[x].invite.workspace = w
  BY DEF Joins
<1>3. req[x] # Idle /\ req[x].kind = "accept"
  <2>1. CASE req[x] = Idle
    <3>1. PICK v \in Users : Asks(x, v)
      BY <2>1, ActCases
    <3>2. req'[x].step = "invite"
      BY <1>0, <1>2, <3>1, ArrivalSteps
    <3>3. AcceptForms(req'[x], MadeWorkspaces)
      BY <1>0 DEF Stepped, Formed
    <3> QED  BY <1>2, <3>2, <3>3 DEF AcceptForms
  <2> QED  BY <1>0, <1>2, <2>1 DEF Stepped
<1>4. ASSUME NEW s, Go(x, s)
      PROVE  req[x].step \notin {"existing", "create", "notify", "invite"}
  <2>1. /\ DOMAIN req'[x] = DOMAIN req[x]
        /\ \A y \in DOMAIN req[x] \ {"step"} : req'[x][y] = req[x][y]
    BY <1>0, <1>3, <1>4, GoKeeps
  <2>2. "joined" \in DOMAIN req[x]
    BY <1>2, <2>1
  <2>3. req[x].step \in {"existing", "create", "notify"} => {"user", "invite"} \subseteq DOMAIN req[x]
    BY <1>0, <1>3, AcceptKnows
  <2>4. req[x].step \in {"existing", "create", "notify"} => x \in Joins(w, u)
    BY <1>2, <1>3, <2>1, <2>2, <2>3 DEF Joins
  <2>5. req[x].step # "invite"
    BY <1>0, <1>3, <2>2, AcceptKnows
  <2> QED  BY <2>4, <2>5
<1>5. CASE \E expired \in BOOLEAN : ReadInvite(x, expired)
  <2>1. CASE Go(x, "refused")
    BY <1>4, <1>5, <2>1 DEF ReadInvite, At
  <2>2. CASE ~Go(x, "refused")
    <3>1. PICK v, i : v = req[x].user /\ i = invites[req[x].token]
      OBVIOUS
    <3>2. req' = [req EXCEPT ![x] = [kind |-> "accept", step |-> "existing", user |-> v,
                                     invite |-> i, joined |-> FALSE]]
      BY <1>5, <2>2, <3>1 DEF ReadInvite, Go
    <3>3. req'[x].joined = FALSE
      BY <1>0, <3>2
    <3> QED  BY <1>2, <3>3
  <2> QED  BY <2>1, <2>2
<1>6. CASE ReadExisting(x) \/ \E ok \in BOOLEAN : NotifyJoin(x, ok)
  BY <1>4, <1>6 DEF ReadExisting, NotifyJoin, At
<1>7. CASE ReadOwners(x)
  <2>1. At(x, "accept", "recipients") /\ req[x].joined
    BY <1>7 DEF ReadOwners, JoinedFirst
  <2>2. PICK v, i, S : v = req[x].user /\ i = req[x].invite /\ S = JoinRecipients(x)
    OBVIOUS
  <2>3. req' = [req EXCEPT ![x] = [kind |-> "accept", step |-> "notify", user |-> v,
                                   invite |-> i, joined |-> TRUE, to |-> S]]
    BY <1>0, <1>7, <2>2 DEF ReadOwners
  <2>4. req'[x].user = v /\ req'[x].invite = i
    BY <1>0, <2>3
  <2>5. "joined" \in DOMAIN req[x]
    BY <1>0, <2>1, AcceptKnows DEF At
  <2> QED  BY <1>2, <2>1, <2>2, <2>4, <2>5 DEF Joins, At
<1>8. CASE Join(x)
  <2>1. req[x].step = "create"
    BY <1>8 DEF Join, At
  <2>2. PICK v, i : v = req[x].user /\ i = req[x].invite
    OBVIOUS
  <2>3. /\ <<i.workspace, v>> \notin DOMAIN members
        /\ req' = [req EXCEPT ![x].step = "recipients", ![x].joined = TRUE]
        /\ <<i.workspace, v>> \in DOMAIN members'
    <3>1. ~Go(x, "done") /\ ~Go(x, "failed")
      BY <1>4, <2>1
    <3> QED  BY <1>8, <2>2, <3>1 DEF Join, Plus
  <2>4. DOMAIN req[x] = {"kind", "step", "user", "invite", "joined"}
    BY <1>0, <1>3, <2>1, AcceptKnows
  <2>5. req'[x].user = v /\ req'[x].invite = i
    BY <1>0, <2>2, <2>3, <2>4
  <2> QED  BY <1>2, <1>8, <2>3, <2>5 DEF IsMember
<1> QED  BY <1>3, <1>5, <1>6, <1>7, <1>8, ActCases

LEMMA JoinedFirstStays ==
    ASSUME Whole, JoinedFirst, NEW x \in Requests, Acts(x)
    PROVE  JoinedFirst'
<1>0. AllFormed /\ Stepped(x) /\ DOMAIN req = Requests
  BY ActsStepped DEF Whole, Sound, AllFormed
<1> SUFFICES ASSUME req'[x].kind = "accept", req'[x].step = "recipients"
             PROVE  req'[x].joined
  BY <1>0 DEF JoinedFirst, Stepped, At
<1>1. req[x] # Idle /\ req[x].kind = "accept"
  BY <1>0, ActCases, ArrivalSteps DEF Stepped
<1>2. ~\E s \in {"done", "failed", "create", "refused"} : Go(x, s)
  BY <1>0, <1>1, GoKeeps
<1>3. CASE \E expired \in BOOLEAN : ReadInvite(x, expired)
  <2>1. PICK v, i : v = req[x].user /\ i = invites[req[x].token]
    OBVIOUS
  <2>2. req' = [req EXCEPT ![x] = [kind |-> "accept", step |-> "existing", user |-> v,
                                   invite |-> i, joined |-> FALSE]]
    BY <1>2, <1>3, <2>1 DEF ReadInvite, Go
  <2>3. req'[x].step = "existing"
    BY <1>0, <2>2
  <2> QED  BY <2>3
<1>4. CASE ReadExisting(x) \/ \E ok \in BOOLEAN : NotifyJoin(x, ok)
  BY <1>2, <1>4 DEF ReadExisting, NotifyJoin
<1>5. CASE ReadOwners(x)
  <2>1. PICK v, i, S : v = req[x].user /\ i = req[x].invite /\ S = JoinRecipients(x)
    OBVIOUS
  <2>2. req' = [req EXCEPT ![x] = [kind |-> "accept", step |-> "notify", user |-> v,
                                   invite |-> i, joined |-> TRUE, to |-> S]]
    BY <1>0, <1>5, <2>1 DEF ReadOwners
  <2>3. req'[x].step = "notify"
    BY <1>0, <2>2
  <2> QED  BY <2>3
<1>6. CASE Join(x)
  <2>1. req[x].step = "create" /\ req' = [req EXCEPT ![x].step = "recipients", ![x].joined = TRUE]
    BY <1>2, <1>6 DEF Join, At
  <2>2. DOMAIN req[x] = {"kind", "step", "user", "invite", "joined"}
    BY <1>0, <1>1, <2>1, AcceptKnows
  <2>3. req'[x].joined = TRUE
    BY <1>0, <2>1, <2>2
  <2> QED  BY <2>3
<1> QED  BY <1>1, <1>3, <1>4, <1>5, <1>6, ActCases

\* A removal that is done stays so, and one that ends a membership counts.
LEMMA RemovalsGrow ==
    ASSUME Whole, NEW x \in Requests, Acts(x), NEW w, NEW u
    PROVE  /\ Removals(w, u) \subseteq Removals(w, u)'
           /\ IsMember(w, u) /\ ~IsMember(w, u)' /\ w \in DOMAIN workspaces' =>
                 x \in Removals(w, u)' \ Removals(w, u)
<1>0. AllFormed /\ Stepped(x) /\ DOMAIN req = Requests
  BY ActsStepped DEF Whole, Sound, AllFormed
<1>1. x \notin Removals(w, u)
  <2> SUFFICES ASSUME At(x, "removeMember", "done")  PROVE FALSE
    BY DEF Removals
  <2>1. AssertOwner(x) \/ FindMember(x) \/ RemoveMember(x)
    BY ActCases DEF At, Idle
  <2> QED  BY <2>1 DEF AssertOwner, FindMember, RemoveMember, At
<1>2. Removals(w, u) \subseteq Removals(w, u)'
  BY <1>0, <1>1 DEF Removals, Stepped, At
<1>3. ASSUME IsMember(w, u), ~IsMember(w, u)', w \in DOMAIN workspaces'
      PROVE  x \in Removals(w, u)'
  <2>1. <<w, u>> \in DOMAIN members /\ <<w, u>> \notin DOMAIN members'
    BY <1>3 DEF IsMember
  <2>2. CASE RemoveMember(x)
    <3>1. PICK m : m = <<req[x].workspace, req[x].target>>
      OBVIOUS
    <3>2. /\ At(x, "removeMember", "delete") /\ members' = Less(members, {m})
          /\ m \in DOMAIN members => Go(x, "done")
      BY <2>2, <3>1 DEF RemoveMember
    <3>3. m = <<w, u>> /\ Go(x, "done")
      BY <2>1, <3>2 DEF Less
    <3>4. req[x].kind = "removeMember" /\ req[x] # Idle
      BY <3>2 DEF At, Idle
    <3>5. {"workspace", "target"} \subseteq DOMAIN req[x]
      BY <1>0, <3>4, Knows
    <3>6. /\ req'[x].step = "done" /\ req'[x].kind = "removeMember"
          /\ req'[x].workspace = req[x].workspace /\ req'[x].target = req[x].target
      BY <1>0, <3>3, <3>4, <3>5, GoKeeps
    <3> QED  BY <3>1, <3>3, <3>6 DEF Removals, At
  <2>3. CASE RemoveWorkspace(x)
    <3>1. UNCHANGED tables \/ DeleteWorkspace(req[x].workspace)
      BY <2>3 DEF RemoveWorkspace
    <3>2. CASE DeleteWorkspace(req[x].workspace)
      <4>1. <<w, u>>[1] = req[x].workspace
        BY <2>1, <3>2 DEF DeleteWorkspace, Less
      <4> QED  BY <1>3, <3>2, <4>1 DEF DeleteWorkspace, Less
    <3> QED  BY <2>1, <3>1, <3>2 DEF tables
  <2> QED  BY <2>1, <2>2, <2>3, MembersChange DEF InsertOwner, Join, Plus
<1> QED  BY <1>1, <1>2, <1>3

\* Only finitely many requests have arrived.
LEMMA ArrivedStays ==
    ASSUME Whole, IsFiniteSet(Arrived), NEW x \in Requests, Acts(x)
    PROVE  IsFiniteSet(Arrived)'
<1>1. Arrived' \subseteq Arrived \cup {x}
  BY ActsStepped DEF Whole, Sound, Stepped, Arrived
<1>2. IsFiniteSet(Arrived \cup {x})
  BY FS_AddElement
<1> QED  BY <1>1, <1>2, FS_Subset

LEMMA JoinsFinite ==
    ASSUME IsFiniteSet(Arrived), NEW w, NEW u
    PROVE  /\ IsFiniteSet(Joins(w, u)) /\ Cardinality(Joins(w, u)) \in Nat
           /\ IsFiniteSet(Removals(w, u)) /\ Cardinality(Removals(w, u)) \in Nat
<1>1. Joins(w, u) \subseteq Arrived /\ Removals(w, u) \subseteq Arrived
  BY DEF Joins, Removals, At, Arrived, Idle
<1>2. IsFiniteSet(Joins(w, u)) /\ IsFiniteSet(Removals(w, u))
  BY <1>1, FS_Subset
<1> QED  BY <1>2, FS_CardinalityType

LEMMA JoinsStayCounted ==
    ASSUME Whole, JoinedFirst, JoinsCounted, IsFiniteSet(Arrived), IsFiniteSet(Arrived'),
           NEW x \in Requests, Acts(x)
    PROVE  JoinsCounted'
<1>0. AllFormed /\ RowsMade /\ Stepped(x)
  BY ActsStepped DEF Whole, Sound
<1> SUFFICES ASSUME NEW w \in DOMAIN workspaces', NEW u \in Users
             PROVE  Cardinality(Joins(w, u)') <= EndedFirst(w, u)'
  BY DEF JoinsCounted
<1> DEFINE J == Joins(w, u)
           K == Joins(w, u)'
           R == Removals(w, u)
           T == Removals(w, u)'
           m == IF IsMember(w, u) THEN 1 ELSE 0
           n == IF IsMember(w, u)' THEN 1 ELSE 0
<1>1. /\ IsFiniteSet(J) /\ Cardinality(J) \in Nat /\ IsFiniteSet(R) /\ Cardinality(R) \in Nat
  BY JoinsFinite
<1>2. /\ IsFiniteSet(K) /\ Cardinality(K) \in Nat /\ IsFiniteSet(T) /\ Cardinality(T) \in Nat
  <2>1. K \subseteq Arrived' /\ T \subseteq Arrived'
    BY DEF Joins, Removals, At, Arrived, Idle
  <2>2. IsFiniteSet(K) /\ IsFiniteSet(T)
    BY <2>1, FS_Subset
  <2> QED  BY <2>2, FS_CardinalityType
<1>3. \/ K \subseteq J
      \/ K \subseteq J \cup {x} /\ ~IsMember(w, u) /\ IsMember(w, u)'
  BY JoinsGrow
<1>4. R \subseteq T /\ (IsMember(w, u) /\ ~IsMember(w, u)' => x \in T \ R)
  BY RemovalsGrow
<1>5. Cardinality(J) <= Cardinality(R) + m
  <2>1. CASE w \in DOMAIN workspaces
    BY <2>1 DEF JoinsCounted, EndedFirst
  <2>2. CASE w \notin DOMAIN workspaces
    <3>1. w \notin MadeWorkspaces
      BY <2>2, GoneStays
    <3>2. ASSUME NEW r \in J  PROVE FALSE
      <4>1. /\ r \in Requests /\ req[r].kind = "accept" /\ "joined" \in DOMAIN req[r]
            /\ req[r].invite.workspace = w
        BY <3>2 DEF Joins
      <4>2. AcceptForms(req[r], MadeWorkspaces)
        BY <1>0, <4>1 DEF AllFormed, Formed
      <4>3. PICK q : q = req[r]
        OBVIOUS
      <4>4. q \notin [kind : {"accept"}, step : Steps, user : Users, token : Tokens]
        <5>1. ASSUME q \in [kind : {"accept"}, step : Steps, user : Users, token : Tokens]
              PROVE  DOMAIN q = {"kind", "step", "user", "token"}
          BY <5>1
        <5> QED  BY <4>1, <4>3, <5>1
      <4>5. q.invite \in InviteRow(MadeWorkspaces)
        BY <4>1, <4>2, <4>3, <4>4 DEF AcceptForms
      <4> QED  BY <3>1, <4>1, <4>3, <4>5 DEF InviteRow
    <3>3. Cardinality(J) = 0
      <4> HIDE DEF J
      <4>1. J = {}
        BY <3>2
      <4> QED  BY <4>1, FS_EmptySet
    <3> QED  BY <1>1, <3>3
  <2> QED  BY <2>1, <2>2
<1>6. EndedFirst(w, u)' = Cardinality(T) + n
  BY DEF EndedFirst
<1> HIDE DEF J, K, R, T
<1>7. Cardinality(R) <= Cardinality(T)
  BY <1>2, <1>4, FS_Subset
<1>8. CASE K \subseteq J
  <2>1. Cardinality(K) <= Cardinality(J)
    BY <1>1, <1>8, FS_Subset
  <2>2. CASE IsMember(w, u) /\ ~IsMember(w, u)'
    <3>1. R \cup {x} \in SUBSET T /\ x \notin R
      BY <1>4, <2>2
    <3>2. Cardinality(R \cup {x}) = Cardinality(R) + 1
      BY <1>1, <3>1, FS_AddElement
    <3>3. Cardinality(R \cup {x}) <= Cardinality(T)
      BY <1>2, <3>1, FS_Subset
    <3> QED  BY <1>1, <1>2, <1>5, <1>6, <2>1, <2>2, <3>2, <3>3 DEF K
  <2>3. CASE ~(IsMember(w, u) /\ ~IsMember(w, u)')
    BY <1>1, <1>2, <1>5, <1>6, <1>7, <2>1, <2>3 DEF K
  <2> QED  BY <2>2, <2>3
<1>9. CASE K \subseteq J \cup {x} /\ ~IsMember(w, u) /\ IsMember(w, u)'
  <2>1. IsFiniteSet(J \cup {x}) /\ Cardinality(J \cup {x}) \in {Cardinality(J), Cardinality(J) + 1}
    BY <1>1, FS_AddElement
  <2>2. Cardinality(K) <= Cardinality(J \cup {x})
    BY <1>9, <2>1, FS_Subset
  <2> QED  BY <1>1, <1>2, <1>5, <1>6, <1>7, <1>9, <2>1, <2>2 DEF K
<1> QED  BY <1>3, <1>8, <1>9

(* A membership is announced once: however many requests accept invites to  *)
(* a workspace at once, at most one makes the membership, and a removal has *)
(* to be done before another can.                                           *)
THEOREM JoinsNew == Spec => []JoinsAreNew
<1> DEFINE Inv == JoinedFirst /\ JoinsCounted /\ IsFiniteSet(Arrived)
<1>1. Init => Inv
  <2> SUFFICES ASSUME Init  PROVE Inv
    OBVIOUS
  <2>0. \A r \in Requests : req[r] = Idle
    BY DEF Init, InitDatabase
  <2>1. Arrived = {}
    BY <2>0 DEF Arrived
  <2>2. IsFiniteSet(Arrived)
    BY <2>1, FS_EmptySet
  <2>3. JoinedFirst
    BY <2>0 DEF JoinedFirst, At, Idle
  <2>4. ASSUME NEW w, NEW u  PROVE Cardinality(Joins(w, u)) <= EndedFirst(w, u)
    <3>1. Joins(w, u) = {} /\ Removals(w, u) = {}
      BY <2>0 DEF Joins, Removals, At, Idle
    <3>2. Cardinality(Joins(w, u)) = 0 /\ Cardinality(Removals(w, u)) = 0
      BY <3>1, FS_EmptySet
    <3> QED  BY <3>2 DEF EndedFirst
  <2> QED  BY <2>2, <2>3, <2>4 DEF JoinsCounted
<1>2. Whole /\ Inv /\ [Next]_vars => Inv'
  <2> SUFFICES ASSUME Whole, Inv, [Next]_vars  PROVE Inv'
    OBVIOUS
  <2>1. CASE UNCHANGED dbVars
    <3>1. UNCHANGED <<workspaces, members, req>>
      BY <2>1 DEF dbVars
    <3>2. JoinedFirst' /\ Arrived' = Arrived
      BY <3>1 DEF JoinedFirst, At, Arrived
    <3>3. \A w, u : /\ Joins(w, u)' = Joins(w, u) /\ Removals(w, u)' = Removals(w, u)
                    /\ IsMember(w, u)' = IsMember(w, u)
      BY <3>1 DEF Joins, Removals, At, IsMember
    <3>4. JoinsCounted'
      BY <3>1, <3>3 DEF JoinsCounted, EndedFirst
    <3> QED  BY <3>2, <3>4
  <2>2. ASSUME NEW x \in Requests, Acts(x)  PROVE Inv'
    <3>1. IsFiniteSet(Arrived')
      BY <2>2, ArrivedStays
    <3> QED  BY <2>2, <3>1, JoinedFirstStays, JoinsStayCounted
  <2> QED  BY <2>1, <2>2, NextCases
<1>3. Inv => JoinsAreNew
  <2> SUFFICES ASSUME Inv, NEW w \in DOMAIN workspaces, NEW u \in Users
               PROVE  Cardinality(Joins(w, u)) <= 1 + Cardinality(Removals(w, u))
    BY DEF JoinsAreNew
  <2>1. Cardinality(Joins(w, u)) <= EndedFirst(w, u)
    BY DEF JoinsCounted
  <2> QED  BY <2>1, JoinsFinite DEF EndedFirst
<1> HIDE DEF Inv
<1> QED  BY <1>1, <1>2, <1>3, StateIsWhole, PTL DEF Spec
=============================================================================
