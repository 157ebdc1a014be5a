SPECIFICATION FairSpec
CONSTANTS
    u1 = u1  u2 = u2  w1 = w1  w2 = w2  i1 = i1
    f1 = f1  f2 = f2  f3 = f3  d1 = d1  d2 = d2  b1 = b1  s1 = s1  s2 = s2
    None = None
    Pending = Pending
    Users = {u1, u2}
    Requests = {r1, r2}
    Names = {s1}
    Faults = {"database"}
    Kinds = {"report", "markRead"}
    Groups = {{"report", "markRead"}}
    SeedWorkspaces <- SmallWorkspaces
    SeedMembers <- SmallMembers
    SeedInvites <- Empty
    SeedFolders <- Empty
    SeedDocuments <- SmallDocuments
    Watchers = {u1}
    Comments = {}
    Threads = {t1}
    MaxReadings = 2
    MaxMishaps = 1
CHECK_DEADLOCK FALSE
PROPERTIES NotificationsCatchUp
