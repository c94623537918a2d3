CONSTANTS
    ann = ann
    bob = bob
    bobx = bobx
    anns = anns
    bobs = bobs
    c1 = c1
    c2 = c2
    c3 = c3
    h1 = h1
    h2 = h2
    a1 = a1
    diary = diary
    d1 = d1
    Names = {ann, bob, bobx}
    Ids = {anns, bobs}
    IdOf <- MCIdOf
    Predicates = {"knows"}
    Types = {"unknown"}
    Unknown = "unknown"
    Docs = {d1}
    FactsOf <- MCFactsOf
    Writers = {w}
    LastDay = 2
    MaxTriples = 2
    None = None
    Servers = {s1, s2}
    Contents = {c1, c2, c3}
    Heads = {h1, h2}
    HeadOf <- MCHeadOf
    Rooms = {r1, r2}
    Agents = {a1}
    DiaryOf <- MCDiaryOf
    Clean <- MCClean
    PageSize = 1
    LastSecond = 2
SPECIFICATION McpSpec
INVARIANTS OneActive QueriesAreWhole ExtractionFollows AckStands StatusAddsUp
PROPERTIES HistoryStands
CONSTRAINT Bound
SYMMETRY Symmetries
