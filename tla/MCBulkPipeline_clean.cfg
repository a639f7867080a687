\* Nothing fails: the pipeline against its promise.
SPECIFICATION Spec
CONSTANTS
    NoJob = NoJob
    Jobs = {j1, j2}
    ChunkSize = 2
    MaxBatch = 3
    MaxFaults = 0
    MaxStops = 0
    MayExpire = TRUE
    MayFlush = FALSE
PROPERTIES AnswersNeverRegress LifecycleSpec
