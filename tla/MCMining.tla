------------------------------ MODULE MCMining ------------------------------
EXTENDS Mining

\* A file grows, then shrinks to a chunk in another room.
MCChunksOf == <<2, 1>>
MCRoomOf == <<1, 2>>
MCWings == {1}

\* Two runs at once are about a single file; two files are mined by one run at
\* a time.
Bound == (\A m \in Miners : Working(m)) => disk[LastFile].version = 0
=============================================================================
