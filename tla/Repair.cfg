CONSTANTS
    d1 = d1
    d2 = d2
    x1 = x1
    x2 = x2
    Ids = {1, 2}
    Docs = {d1}
    Texts = {x1, x2}
    Norm <- MCNorm
    Labels = {"none"}
    Extract <- MCExtract
    Wings = {w1}
    Srcs = {s1}
    Halls = {h1}
    Archived = archived
    Clients = {c1}
    MaxTime = 0
    MaxResults = 0
    OverFetch = 2
    OverFetchMax = 3
    ExtractOnUpsert = FALSE
    TrackLastAccessed = FALSE
    None = None
    Never = Never
    Unfiltered = Unfiltered
    NoAnswer = NoAnswer
    ScanPage = 2
    ProbeBatch = 1
    RebuildPage = 1
SPECIFICATION RepairSpec
PROPERTIES DriftNeverGrows AutoDeleteSparesLive LoneJobsAreSafe
