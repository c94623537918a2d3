CONSTANTS
    Ids = {1, 2, 3}
    Procs = {p1}
    Dims = {1, 2}
    BackfillBatch = 2
    ReembedBatch = 2
    MaxFailures = 1
SPECIFICATION Spec
INVARIANTS OpenIsComplete
