SPECIFICATION Spec
CONSTANTS
    x1 = x1
    x2 = x2
    None = None
    Value = Value
    Height = Height
    Clients <- MCClients
    Commenters = {2}
    Seeds <- EmptySheets
    MaxRows = 2
    MaxBlock = 1
    MaxChanges = 2
INVARIANT EditsLandWhereTyped
CHECK_DEADLOCK FALSE
