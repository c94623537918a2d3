CONSTANTS
    d1 = d1
    d2 = d2
    d3 = d3
    d4 = d4
    x1 = x1
    x2 = x2
    x3 = x3
    Ids = {1, 2, 3}
    Docs = {d1, d2, d3, d4}
    Texts = {x1, x2, x3}
    Norm <- MCNorm
    Labels = {"none", "match"}
    Extract <- MCExtract
    Wings = {w1}
    Srcs = {unknown}
    Halls = {h1}
    Archived = archived
    Clients = {deduper, c1}
    MaxTime = 0
    MaxResults = 3
    OverFetch = 2
    OverFetchMax = 3
    ExtractOnUpsert = TRUE
    TrackLastAccessed = TRUE
    None = None
    Never = Never
    Unfiltered = Unfiltered
    NoAnswer = NoAnswer
    Deduper = deduper
    MinCount = 2
    GroupPage = 2
    JudgeSlack = 1
    JudgeMax = 3
    IdText <- MCIdText
    Size <- MCSize
    ShortSize = 2
    Near <- MCNear
    NoSource = NoSource
    Unknown = unknown
VIEW View
SPECIFICATION DedupSpec
PROPERTIES LonePassLosesNothing
CONSTRAINT Bound
