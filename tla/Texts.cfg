SPECIFICATION TextsSpec
CONSTANTS
    ChunkSize = 4
    ChunkOverlap = 1
    MinChunkSize = 2
    ChunkedTexts <- ChunkedTextsValue
    n1 = n1 n2 = n2 n3 = n3 u1 = u1 u2 = u2 u3 = u3
    NoNode = NoNode
    FlatExports <- FlatExportsValue
    SlackExports <- SlackExportsValue
    ChatGPTExports <- ChatGPTExportsValue
    MaxAILines = 2
    MinChunkLines = 1
    ManyLines = 3
    GroupLines = 3
    Directories <- DirectoriesValue
    Files <- FilesValue
    SkipDirs = {"s"}
    SkipFilenames = {"m"}
    Unreadable = {"y"}
    Unfit <- UnfitValue
    RuleFiles <- RuleFilesValue
    IncludeLists <- IncludeListsValue
    r1 = r1 r2 = r2 r3 = r3 r4 = r4
    Rooms = {r1, r2, r3, r4, general}
    Wings = {w1, w2, w3}
    General = general
    StartRoom = r1
    WingMaps <- WingMapsValue
    HopLimits = {0, 2, 3}
    MaxResults = 3
    Documents <- DocumentsValue
    Passes <- PassesValue
    Capitalised = {"Anna", "Acme", "The", "River", "Docker"}
    Stopwords = {"The"}
    PlaceSuffixes = {"River"}
    Verbs = {"uses"}
    Scorings <- ScoringsValue
    NoSignal = "none"
    SubjectTypes = {"person", "project", "uncertain"}
    ObjectTypes = {"tool", "project", "uncertain"}
    MaxGap = 2
    Slots = {1, 2, 3, 4, 5, 6}
    PageSize = 2
    MaxChanges = 3
    Palaces <- PalacesValue
    Newcomers <- NewcomersValue
    BatchSize = 2
    MaxDrawers = 3
    MaxChars = 5
    TitleLine = 2
    RoomLine = 1
    MoreLine = 2
    MaxMoves = 2
    Alphabet = {"a", "b", "c", "d"}
    Tokens <- TokensValue
    Skipped <- SkippedValue
    Frequency <- FrequencyValue
    LongLength = 4
INVARIANTS TextIsInPieces ConversationIsKept RightFilesAreScanned WalkGoesByDistance FindingsAreInTheText
           LoopIsOffByOthersOnly StoryIsOfTheBest CorrectionsSettle
PROPERTIES LoopsEnd
\* Texts, walks and runs end.
CHECK_DEADLOCK FALSE
