\* Two jobs, one lost connection, a poll that fails with its retry.
SPECIFICATION Spec
CONSTANTS
    None = None  j1 = j1  j2 = j2
    Jobs = {j1, j2}
    MaxDrops = 1  MaxFailures = 2
INVARIANTS SourceShared ToastTruth
PROPERTIES EventNotOutrun ToastLearns
CHECK_DEADLOCK FALSE
