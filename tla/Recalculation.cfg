SPECIFICATION FairSpec
CONSTANTS
    A1 = A1
    A2 = A2
    B1 = B1
    B2 = B2
    C1 = C1
    C2 = C2
    Other = Other
    None = None
    Blank = Blank
    Zero = Zero
    Number = Number
    Error = Error
    Cells <- MCCells
    Outside <- MCOutside
    Inputs <- MCInputs
    Selections <- MCSelections
    Orders <- MCOrders
    RemoteKinds = {"style", "outside", "edit"}
    MaxRemote = 2
    MaxShared = 2
CHECK_DEADLOCK FALSE
  
PROPERTIES ChangesAreShown FormulasCatchUp
