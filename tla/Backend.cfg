SPECIFICATION Spec
CONSTANTS
    u1 = u1  u2 = u2  w1 = w1  w2 = w2  i1 = i1
    f1 = f1  f2 = f2  f3 = f3  d1 = d1  d2 = d2  b1 = b1  s1 = s1  s2 = s2
    None = None
    Pending = Pending
    Users = {u1, u2}
    Requests = {r1, r2, r3}
    Names = {s1}
    Faults = {"database", "storage", "yorkie"}
    Kinds = {"createWorkspace", "renameWorkspace", "removeWorkspace", "removeMember", "createInvite",
             "revokeInvite", "accept", "createFolder", "moveFolder", "deleteFolder",
             "create", "upload", "copy", "move", "delete", "edit", "report", "markRead"}
    Groups = {{"accept", "removeMember"}, {"copy", "delete"}}
    SeedWorkspaces <- MCWorkspaces
    SeedMembers <- MCMembers
    SeedInvites <- MCInvites
    SeedFolders <- MCFolders
    SeedDocuments <- MCDocuments
    Watchers = {}
    Comments = {c1, c2}
    Threads = {t1}
    MaxReadings = 0
    MaxMishaps = 0
SYMMETRY Symmetry
CHECK_DEADLOCK FALSE
INVARIANTS  AllOrNothing  JoinsAreNew
PROPERTIES  MovesKeepPlaces WorkspacesKeepAnOwner
