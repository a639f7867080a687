\* Two PATCHes against two overlapping chunks, with failures.
SPECIFICATION Spec
CONSTANTS
    o1 = o1  o2 = o2  o3 = o3  p1 = p1  p2 = p2  p3 = p3  c1 = c1  c2 = c2
    NoOne = NoOne
    OrderIds = {o1, o2, o3}
    Existing = {o1, o2}
    InitStatus <- MCInitStatus
    Patches = {p1, p2}
    Bodies <- MCBodies
    Chunks = {c1, c2}
    ChunkIds <- MCChunkIds
    ChunkAction <- MCApproveFlag
    MayFail = TRUE
INVARIANTS TypeOK HistoryMatches AnswerMatchesHistory ConflictOnlyWhenOvertaken
           HeldRowsCurrent ChunkAccounting EventsExplained
PROPERTIES CancelledUntouched LogSpec
SYMMETRY Symmetric
