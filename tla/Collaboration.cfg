SPECIFICATION Spec
CONSTANTS
    x1 = x1
    x2 = x2
    None = None
    Value = Value
    Height = Height
    Clients <- MCClients
    Commenters = {2}
    Seeds <- RichSheets
    MaxRows = 2
    MaxBlock = 2
    MaxChanges = 3
CHECK_DEADLOCK FALSE
INVARIANTS TypeOK 
PROPERTIES LocalChangesAreClean CommentsStayOnTheirRow
