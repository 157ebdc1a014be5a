SPECIFICATION Spec
CONSTANTS
    RowId = {r1, r2, r3, r4}
    Values = {v1}
    Heights = {h1}
    ThreadIds = {t1}
    NoChart = NoChart
    MaxRows = 4
    MaxCells = 2
    MaxFormulas = 1
    MaxHeights = 1
    MaxHidden = 2
    MaxMerges = 2
    MaxRules = 1
    MaxFrozen = 2
    WithChart = TRUE
SYMMETRY Symmetry
CONSTRAINT MeetingKinds
CHECK_DEADLOCK FALSE
INVARIANTS TypeOK NoOrphans
PROPERTIES ThreadsLiveWithTheirRow ImplementsRowList ReferencesFollowRows 
