SPECIFICATION Spec
CONSTANTS
    A = A
    B = B
    Whole = Whole
    None = None
    Blank = Blank
    Dirty = Dirty
    Height = 3
    MaxUndo = 1
    Typed <- MCTyped
    Selections <- MCSelections
    Filters <- MCFilters
    Shown <- MCShown
PROPERTY ClearingReachesFormulas
CONSTRAINT Small
CHECK_DEADLOCK FALSE
