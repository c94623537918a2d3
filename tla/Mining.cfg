CONSTANTS
    LastFile = 2
    LastVersion = 2
    MaxEdits = 3
    ChunksOf <- MCChunksOf
    RoomOf <- MCRoomOf
    Wings <- MCWings
    Miners = {m1, m2}
SPECIFICATION Spec
INVARIANTS OneVersion SkippedIsCurrent
PROPERTIES RunCovers RunEnds
CONSTRAINT Bound
