CONSTANTS
    Ids = {1, 2, 3}
    Procs = {p1}
    Dims = {1, 2}
    BackfillBatch = 2
    ReembedBatch = 2
    MaxFailures = 3
SPECIFICATION Spec
INVARIANTS StampIsEarned BackupHolds RowsMatchHalls UnfailingOpenIsWhole
PROPERTIES OpenReturns
