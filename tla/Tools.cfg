SPECIFICATION ToolsSpec
CONSTANTS
    Keys = {go, ann}
    Kinds = {toolKind, personKind}
    Seeds = {go}
    ToolKind = toolKind
    Processes = {p1, p2}
    LastMoment = 2
    Missing = Missing
    Words = {w1, w2}
    CommonWords = {w1}
    Clients = {q1, q2}
    ProjectLists = {{}, {w2}}
    Researched = {w1}
    Answers = {"person", "unknown"}
    Absent = Absent
    s1 = s1 s2 = s2 s3 = s3
    Sessions = {s1, s2, s3}
    SanitizedID <- SanitizedIDValue
    SaveInterval = 2
    MaxMessages = 4
    t1 = t1 t2 = t2 t3 = t3 t4 = t4 t5 = t5 t6 = t6 f1 = f1 f2 = f2
    Stems = {f1, f2}
    Texts = {t1, t2, t3, t4, t5, t6}
    Preambles = {t5}
    Short = {t6}
    NameOf <- NameOfValue
    SafeStem <- SafeStemValue
    Transcripts <- TranscriptsValue
    MinSessions = 2
    NoFile = NoFile
    Callers = {c1, c2}
    Closers = {d1, d2}
    BatchSize <- BatchSizeValue
    MaxStrays = 1
    Nobody = Nobody
CONSTRAINT SharedAreShort
INVARIANTS MemoryIsTable PeopleAreKnown SessionsAreKept HelperIsOwn
PROPERTIES RowsAreSightings StopsAreCounted OwnersReturn
\* Sessions end, all is split, registries are closed.
CHECK_DEADLOCK FALSE
