\* Two POSTs, a cap of two orders of three, one failure; the connection holds.
SPECIFICATION FlowSpec
SYMMETRY Symmetry
CONSTANTS
    None = None  i1 = i1  i2 = i2  i3 = i3  j1 = j1  j2 = j2
    Jobs = {j1, j2}
    Ids = {i1, i2, i3}  Pages <- PagesDef
    BULK_MAX_BATCH = 2
    MaxActs = 4  MaxLeaves = 1  MaxDrops = 0  MaxFailures = 1
INVARIANT SubmittedAsSeen
PROPERTY SelectionNotLost
CHECK_DEADLOCK FALSE
