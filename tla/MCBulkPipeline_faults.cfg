\* Two failing calls, two stops or kills, keys that expire or are flushed.
SPECIFICATION Spec
CONSTANTS
    NoJob = NoJob
    Jobs = {j1}
    ChunkSize = 2
    MaxBatch = 3
    MaxFaults = 2
    MaxStops = 2
    MayExpire = TRUE
    MayFlush = TRUE
INVARIANTS MirrorAccounting AnnouncedWhenSettled
           AcceptedIsKnown OneFaultSurvived
PROPERTY AcceptedFinishes
