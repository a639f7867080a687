\* ARCHITECTURE 4.2 refuted: a PATCH holds the skipped row.
SPECIFICATION Spec
CONSTANTS
    o1 = o1  o2 = o2  o3 = o3  p1 = p1  p2 = p2  p3 = p3  c1 = c1  c2 = c2
    NoOne = NoOne
    OrderIds = {o1}
    Existing = {o1}
    InitStatus <- MCInitStatus
    Patches = {p1}
    Bodies <- MCShip
    Chunks = {c1}
    ChunkIds <- MCOneId
    ChunkAction <- MCApprove
    MayFail = FALSE
PROPERTY SkippedAlreadyApplied
