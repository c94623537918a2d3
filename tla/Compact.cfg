CONSTANTS
    Ids = {i1, i2}
    Docs = {d1}
    Texts = {x1}
    Norm <- MCNorm
    Labels = {"none"}
    Extract <- MCExtract
    Wings = {w1}
    Srcs = {s1}
    Halls = {h1, diary}
    Archived = archived
    Clients = {compactor, c1}
    MaxTime = 2
    MaxResults = 0
    OverFetch = 2
    OverFetchMax = 3
    ExtractOnUpsert = FALSE
    TrackLastAccessed = FALSE
    None = None
    Never = Never
    Unfiltered = Unfiltered
    NoAnswer = NoAnswer
    Compactor = compactor
    ColdDays = 1
    MaxBatches = {0, 1}
    East = 0
    West = 1
    Offset <- MCOffset
    DefaultMaxBatch = 3
    CompactBatch = 1
    Protected = {diary}
    Actions = {"archive", "delete"}
SYMMETRY Symmetry
SPECIFICATION CompactSpec
PROPERTIES LonePassIsExact CompactIsCalls
