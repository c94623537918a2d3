CONSTANTS
    d1 = d1
    d2 = d2
    x1 = x1
    x2 = x2
    Ids = {i1, i2}
    Docs = {d1, d2}
    Texts = {x1, x2}
    Norm <- MCNorm
    Labels = {"none", "match"}
    Extract <- MCExtract
    Wings = {w1}
    Srcs = {s1, s2}
    Halls = {h1}
    Archived = archived
    Clients = {c1, c2}
    MaxTime = 1
    MaxResults = 1
    OverFetch = 2
    OverFetchMax = 2
    ExtractOnUpsert = TRUE
    TrackLastAccessed = TRUE
    None = None
    Never = Never
    Unfiltered = Unfiltered
    NoAnswer = NoAnswer
SYMMETRY Symmetry
SPECIFICATION Spec
INVARIANTS TablesAgree
PROPERTIES MergeKeepsPartitions ImplementsMap
