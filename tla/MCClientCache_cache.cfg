\* A patch, a job and writes of others, three moves.
SPECIFICATION Spec
CONSTANTS
    None = None  p1 = p1
    Patches = {p1}
    MaxVersion = 2  MaxMoves = 3  MaxFailures = 1
INVARIANTS FreshAfterOwnWrite DetailShowsOwnPatch NothingLoadsUnseen
CHECK_DEADLOCK FALSE
