----------------------------- MODULE MCBackend ------------------------------
(* Backend with two workspaces: w1, where f2 is below f1 and d1 (a file)   *)
(* and d2 (a sheet) are, and w2 with f3.  u1 owns both, u2 is a member of  *)
(* w1 and, by the invite i1, perhaps an owner of w2.                       *)
EXTENDS Backend, TLC

CONSTANTS u1, u2, w1, w2, i1, f1, f2, f3, d1, d2, b1, s1, s2

MCWorkspaces == w1 :> s1 @@ w2 :> s2
MCMembers == <<w1, u1>> :> "owner" @@ <<w2, u1>> :> "owner" @@ <<w1, u2>> :> "member"
MCInvites == i1 :> [workspace |-> w2, role |-> "owner", by |-> u1, expires |-> TRUE]
MCFolders ==
    f1 :> [workspace |-> w1, parent |-> None, author |-> u1] @@
    f2 :> [workspace |-> w1, parent |-> f1, author |-> u2] @@
    f3 :> [workspace |-> w2, parent |-> None, author |-> u1]
MCDocuments ==
    d1 :> [workspace |-> w1, folder |-> f2, author |-> u2, blob |-> b1] @@
    d2 :> [workspace |-> w1, folder |-> None, author |-> u1, blob |-> None]

\* The smallest place where there is something to notify of.
SmallWorkspaces == w1 :> s1
SmallMembers == <<w1, u1>> :> "owner" @@ <<w1, u2>> :> "member"
SmallDocuments == d2 :> MCDocuments[d2]
Empty == <<>>

Symmetry == Permutations(Requests)
=============================================================================
