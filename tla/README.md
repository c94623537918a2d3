# go-palace in TLA+

A verification development beside the Go sources of `go-palace`, a memory store
for AI assistants: text "drawers" kept in SQLite with an embedding each, filed
by wing, hall and room, searched by meaning, compacted, deduplicated and
repaired. Paths below are relative to the repository.

## 1. Inventory

| component | state | operations | what is hard | what makes it correct |
|---|---|---|---|---|
| Drawer store `pkg/palace/{palace,drawer_ops,search,repair_ops}.go` | tables `drawers` and `drawers_vec`, one SQLite file in WAL mode | Upsert(Batch), Get, GetByIDs, Query, Delete, DeleteBatch, MergeAndDelete, ArchiveDrawers, TouchLastAccessed, ScanOrphans, DeleteOrphans | two tables per drawer; the shadow hall goes stale on archiving; the search filters after its KNN; a tracked Query writes in a second transaction; many processes open the file | the tables stay in step; the pair of them is a map of drawers; merges stay in a partition |
| Opening and migrating `pkg/palace/{palace,schema,migration,backup}.go` | schema, schema version, recorded dimension, backups | OpenWithOptions: DDL, backup, ALTER, backfill, DROP, CREATE, re-embed, stamp | no transaction around it: crashes, retries, two processes | an opened palace is complete and of the embedder's width; the old index is never lost |
| Compaction `pkg/palace/compact.go` | none of its own | Compact | scan, then batches, with other clients between; a cap; a stale cutoff; times compared as texts of several zones | cold drawers are taken, warm and protected ones are not |
| Repair `internal/repair`, `pkg/repair` | none of its own | ScanPalace, PruneCorrupt, RebuildIndex; Repair with AutoDelete | offset paging over a changing table, write-back of old rows, read errors | no drawer lost or changed; the index complete at the end |
| Entities table and Registry `pkg/entity` | table `entities`, two maps in each process | NewRegistry, Add, Merge, Lookup, EntityDelete, Close | two processes, one table; seeds that are not to be stored; writes that fail | counts and first sightings survive; memory shows the table |
| Deduplication `pkg/dedup` | none of its own | Run | a search over what is there now, about drawers read before | every drawer removed has a kept twin |
| Project miner `internal/miner` | files, their drawers | Mine, ScanProject, ChunkText | purge and insert are separate transactions; files change meanwhile; nested ignore rules; overlapping chunks | a mined file's drawers are those of one version of it, and what is skipped is current; the scan is git's; no text falls between chunks |
| Conversation miner `internal/convominer`, `internal/normalize` | as above | MineConvos, Normalize, ChunkExchanges | existence is the only check; a text written by one package is read back by the other | an exchange is one chunk and every exchange has one |
| Knowledge graph `pkg/kg` | tables `entities`, `triples` | AddEntity, AddTriple, Invalidate, Query*, Timeline | intervals, duplicates, names that share an id, extraction after commit | one active triple per fact; queries lose none; the past stays |
| Embedders `pkg/embed` | a Python helper process | New, Embed, Close | line protocol, hanging helper, a launcher in front of it | answers belong to their requests; Close returns and leaves nothing |
| MCP server `mcp` | a palace and a graph | tools over JSON-RPC | several servers on a palace; ids from prefixes of content; look-up and store in two calls; a status in pages | what a tool says was stored is stored |
| Hooks `internal/hooks` | a last_save file per session | session-start, stop, precompact | partial counts, concurrent stops, transcripts that shrink, kills between record and answer | a save every N messages |
| Splitter `internal/splitter` | files | Split | names that collide, rename after failure | no session lost |
| Legacy registry `internal/entity` | a JSON file | Seed, Lookup, Research, LearnFromText | load and save of the whole file | no entry lost |
| Read side `pkg/layers`, `pkg/searcher`, `internal/graph` | none | wake-up text, search text, traversal | a paged read that may break off, budgets, distances over a map that is walked in any order | the best is shown, the nearest first |
| Detection and spelling `pkg/entity/detector.go`, `internal/spellcheck` | none | Detect, SpellcheckUserText | passes that claim parts of a text; corrections of corrections | spans are disjoint; a second check changes nothing |
| Command line `cmd/mempalace` | none | compress, and calls of the packages above | offset paging over what it writes back | each drawer is compressed once |
| Text and glue `pkg/halls`, `pkg/normalize`, `pkg/extractor`, `pkg/config`, `pkg/sanitizer`, `internal/{dialect,room}`, `benchmarks` | none | parsing, scoring, printing | - | - |

How they interact: everything that stores or finds drawers goes through
`palace.Palace`. The miners, the MCP tools and the command line call its writes;
dedup, compaction and repair are long jobs that read through it, decide, and
write in later transactions; all of them may run in several processes over one
file, and SQLite's transactions are the only lock between them. The palace calls
the embedder (a pipeline in the process, or a helper process behind a mutex)
before it begins a transaction, and the knowledge graph after it has committed
one.

## 2. Modules

| module | role |
|---|---|
| `DrawerMap` | abstract: a palace is a map from ids to drawers, and a search answers from it |
| `PalaceStore` | the two tables and every call over them; implements `DrawerMap` |
| `PalaceMigration` | `OpenWithOptions` statement by statement |
| `PalaceRepair` | extends `PalaceStore`: both repair packages as one process `job` |
| `PalaceCompact` | extends `PalaceStore`: `Compact` as one process `pass` |
| `PalaceDedup` | extends `PalaceStore`: `dedup.Run` as one process `dedup` |
| `KnowledgeGraph` | `pkg/kg` and the extraction that follows a stored drawer |
| `McpServer` | extends `KnowledgeGraph`: the MCP tools of several servers over one palace and one graph |
| `Mining` | both miners over files that are edited meanwhile |
| `Chunking`, `ScanRules`, `Transcripts` | what a miner reads and how it cuts it |
| `EntityRegistry`, `LegacyRegistry` | the two registries of names |
| `EmbedHelper` | the embedder's helper process and its line protocol |
| `StopHook`, `Splitter` | the stop hook; the transcript splitter |
| `PalaceGraph`, `Layers`, `Compressing` | the walk over rooms; the essential story; the compress command |
| `EntityDetection`, `Spelling` | the claiming of spans and the triples around a verb; the corrections |
| `MC*` | values for TLC; `MCTools` and `MCTexts` put parts that share nothing side by side, one of them per behaviour |
| `PalaceStoreProofs`, `PalaceMigrationProofs`, `PalaceDedupProofs` | theorems about the module of that name |
| `PalaceUpkeepProofs` | theorems about `PalaceRepair` and `PalaceCompact` |
| `McpServerProofs` | theorems about `McpServer` and the `KnowledgeGraph` in it |
| `MiningProofs` | theorems about `Mining` and `Transcripts` |
| `ToolsProofs` | theorems about `EntityRegistry`, `LegacyRegistry`, `StopHook`, `Splitter` and `EmbedHelper` |
| `TextsProofs` | theorems about `Chunking`, `Compressing`, `Layers`, `PalaceGraph`, `EntityDetection`, `Spelling` and `ScanRules` |

A definition named "Mutant" in a comment is not part of a specification: it is a
plausible mistake, kept beside the definition it would replace. Substituting it
must break the property it is listed with in `PROJECT.json`.

### PalaceStore

`drawers` and `vecs` are the two tables, `None` where there is no row. A call is
one action because the code runs one SQL transaction per call, and a transaction
that fails changes nothing (`DbFails`, `EmbedFails`). The exception is `Query`
on a palace with `TrackLastAccessed`: it reads, returns its rows, and touches
them in a second transaction (`QueryTouch`) that may find them gone and whose
failure is only logged. `Normalize` and `Extract` are constants: arbitrary
functions. Which rows are nearest to a query depends on its text, so any subset
of the right size may be (`Nearest`); the archive and classification filters
come after it, as in the SQL. `now` is the wall clock, in ticks.

Left out: room and added_by (room is a partition key like wing, but no guard
looks at it), chunk_index, source_mtime, and metadata nothing reads back. Of the
metadata only `classifications` (one class that searches filter by) and
`last_accessed` are kept.

### PalaceMigration

The variables are what is in the file (`hasHall`, `hall`, `shape`, `width`,
`rows`, `version`, `dim`), the backups beside it, and for every process its
place in `OpenWithOptions` (`pc`) and its locals (`legacy`, `passed`, `page`).
Each statement that commits on its own is an action. `Fail` is a crash, a
statement that fails or an embedder that does: the file stays as it is and the
process may open it again. `Init` is a fresh file, any v0.1 file (with or
without a recorded dimension) or any v0.2 file. An open palace is used
(`Upsert`, `Delete`), so a half-migrated file also changes between attempts.

### PalaceRepair

The palace starts drifted: any set of drawers, shadow rows for any subset, and
possibly shadow rows without drawers, which is what the counterexamples of
`PalaceMigration` leave behind. The job lists by pages, probes by chunks, prunes
one drawer per transaction, and rebuilds page by page with a read and a write;
the other job scans orphans and deletes them later. Every job chooses when it
starts whether clients keep away while it runs (`alone`): what holds only then
is stated of those jobs, and the rest of all of them.

### PalaceCompact

`Scan` picks the cold drawers with the cutoff of that moment, at most `Cap` of
them in the order of `filed_at`, ties in any order; `Batch` archives or deletes
the next chunk. Both comparisons are of texts: `filed_at` is written in the local
zone (`drawer_ops.go:50`), the cutoff and `last_accessed` in UTC, so what orders
two of them is the clock they show. `Shown` is that clock, `Offset` the zone the
machine was in at each time, anywhere between `West` and `East`. The pass runs in a client of its own, `Compactor`, with the
other clients going on between its batches or, if it is `alone`, keeping away.

### PalaceDedup

The steps of a pass follow `Run`: `ListPage` reads the drawers by offset and at
the last page groups them (`GroupKey`, a source file that is empty counting as
"unknown"); `PickGroup` takes any group left, as a Go map is walked, reads its
drawers, drops the short ones and keeps the longest; `Judge` takes the next
longest and searches for it within wing and hall, and it is a duplicate if a
*kept* drawer is among the results and similar enough; then the losers go, in
one `MergeAndDelete` or by a `Delete` each. The items are judged as they were
read, while the search and the removal meet the palace of later. Which texts are
similar is a constant relation `Near`, not assumed transitive. Ids are numbers
in the order Get lists them (wing, room, source and chunk, which an id is computed
from), and have another order as texts, `IdText`, which decides between documents
of one length.
Failures to list a page end the pass, failures to read a group skip it, and a
failing search keeps the drawer, as in the code.

### KnowledgeGraph and McpServer

`entities` and `triples` are the two tables of `pkg/kg`; the foreign keys of the
schema are not enforced by SQLite as it is opened, so that a triple without its
entities is a state the tables allow and the joins of the queries would hide.
`IdOf` is EntityID, which is lossy: two of the names in the run share an id.
A writer stores a drawer (`StoreDrawer`), and only then adds what was found in
it, one `AddTriple` per step; `WriterCrashes` and an AddTriple that fails lose the
rest (`lost` remembers what). Days pass (`NextDay`), and callers give dates of
their own.

A `server` is free, adding a drawer, or counting for a status: the tools that
make one call are one action, `mempalace_add_drawer` is two (`AddLook`,
`AddStore`), `mempalace_status` is a count and a page after the other
(`StatusCount`, `StatusPage`). A drawer's id is its place and the head of its
content, and of a diary entry the second too. A server can crash between two
calls. `acked` and `sent` are history.

### Mining, Chunking, ScanRules, Transcripts

A run is a process of `Mining` with a step for every file operation or
transaction: Stat, Look (alreadyMined), Read, List, Purge (a Delete per step),
Store. Users edit and remove files between any two. A file is its `version`,
which is its mtime too, as every edit sets it. `spoiled` remembers the files two
runs had in hand at once and those whose drawers the palace failed to list: the
code makes no promise about them (see 4).

`Chunking` moves the window of ChunkText over a text of letters, blanks and
newlines. `ScanRules` walks a tree with `.gitignore` rules beside a definition of
what git does (`GitIgnores`). `Transcripts` follows an export through its reader (one
message, or one node of a ChatGPT mapping, per step), messagesToTranscript (the
lines of one message per step) and ChunkExchanges (one line per step, with the
chunk that is being made), so that its properties are about the three together:
which lines of which messages end in one chunk. A line of the transcript is its
kind, the message it is of and its place there. An entry of an export is whose it
is ("other" for a system message or a tool's) and what it says, which may be
nothing; `TakeEntry` makes a message of it or passes it over, and `taken` keeps
which entries were read and how many messages there were then, which ties the
messages to the export. A node of a ChatGPT mapping is "bare" if it has no message
at all: only such a node is preferred as the root, one with a system message is
not.

### EntityRegistry, LegacyRegistry, StopHook, Splitter, EmbedHelper

`EntityRegistry` has the table and, per process, the two maps; a write goes to
the table first and may fail. `disturbed` are the processes somebody else has
written past. `LegacyRegistry` has a JSON file that Save empties and then
writes (`Truncates`, `SaveEnds`); a process may die between. `Splitter` has the
files before, while and after a mega file is cut, and exports that arrive.

`StopHook` is a process per stop, with a step for each thing it does outside
itself: count (`StopCounts`, any part of what is there, as a line over a megabyte
or an error ends the scan and the partial count is taken), read the file
(`StopReads`), empty it and write it (`SaveOpens`, `SaveWrites`, either of which may
fail unnoticed), answer (`StopBlocks`, `StopPasses`). It may die before any of them
(`HookDies`), and the transcript grows or shrinks (`Speak`, `Shorten`) at any point.
What the true number of messages was is kept as history (`seen`, `ordered`,
`spoken`), so that the properties are not about what the hook believes.

`EmbedHelper` has the two pipes, the mutex, Python and, unless it was started
itself, the launcher `uv run` it is started by. The kill of `CloseKills` and of a
failed probe ends the process that was started; the wait for it (`CloseReaps`,
`ProbeReaps`) lasts until no process holds the pipes, as `cmd.Wait` reads stderr to
its end and no WaitDelay is set. A stray line, a death of either process at any
point and a helper that neither answers nor leaves are its faults.

### PalaceGraph, EntityDetection, Compressing, Layers, Spelling

Each is an algorithm run on every input of its bounds. Where the code ranges over
a Go map the model chooses any order. What words match an expression, what a
name scores and how frequent a word is are inputs; the control around them is
the code's. Of known words that are equally near and equally frequent, which the
word list has, `Spelling` takes any, the same one each time, as the code generates
its candidates in a fixed order. `Compressing` has another process that files and
deletes between pages, and so has `Layers`: `ReadBatch` takes a page by LIMIT and
OFFSET in the order of the slots drawers are filed in, `LoseBatch` is the error that
ends the read as the last page does, and only then `PickTop` and `Tell` make the
story of what is held. `used` is what the code counts of the text, `long` how long
the text is.

## 3. Runs

| run | checks | bounds | shows |
|---|---|---|---|
| `store` | TablesAgree, MergeKeepsPartitions, ImplementsMap | 2 ids, 2 documents, 2 sources, 2 clients, 2 times, 1 result, tracked | every sequence of calls, late touches, refinement of DrawerMap |
| `migration_crash` | StampIsEarned, BackupHolds, RowsMatchHalls, UnfailingOpenIsWhole, OpenReturns | 3 ids, 1 process, 3 failures, batches of 2 | crashes and retries; the migration is complete if nothing fails |
| `migration_crash_incomplete` | OpenIsComplete **violated** | 1 failure | half-filled index stamped as current |
| `repair` | DriftNeverGrows, AutoDeleteSparesLive, LoneJobsAreSafe | 2 ids, 1 client, pages of 1 and 2, reads that fail | jobs and clients interleaved, and jobs left alone |
| `repair_covers_shared` | RebuildCovers **violated** | as `repair` | offset paging skips a drawer |
| `compact` | LonePassIsExact, CompactIsCalls | 2 ids, 3 times of two zones, caps of 1 and of the default, a protected hall, batches of 1 | passes interleaved with a client, and passes left alone |
| `dedup` | LonePassLosesNothing | 3 ids, 4 documents (one short), similarity that is not transitive, one source, pages of 2, 2 clients | every group of three, judged, merged or deleted; chains of similar drawers |
| `mining` | OneVersion, SkippedIsCurrent, RunCovers, RunEnds | 2 files, 2 versions of 2 chunks and 1, 3 edits, 2 miners | runs, edits, crashes and failures interleaved |
| `mcp` | OneActive, QueriesAreWhole, ExtractionFollows, AckStands, StatusAddsUp, HistoryStands | 2 servers, 3 contents of 2 heads, 2 rooms, a diary, pages of 1; 3 names of 2 ids, 2 days, 2 triples, a writer | tools of servers that interleave and crash |
| `mcp_verbatim` | AckIsVerbatim **violated** | as `mcp` | a text that begins like a stored one is acknowledged and not stored |
| `tools` | MemoryIsTable, RowsAreSightings; PeopleAreKnown; StopsAreCounted; SessionsAreKept; HelperIsOwn, OwnersReturn | 2 processes each; 3 sessions, two of one identifier, 4 messages; 6 texts in 4 exports | five small machines, each alone |
| `texts` | TextIsInPieces; ConversationIsKept; RightFilesAreScanned; WalkGoesByDistance; FindingsAreInTheText; LoopIsOffByOthersOnly; StoryIsOfTheBest; CorrectionsSettle; LoopsEnd | see below | eight algorithms over every small input |

A property that names one thing of a component is often the conjunction of several
that are defined just above it, each with its own comment; its first conjunct is
the component's type invariant. PalaceStore, PalaceMigration, KnowledgeGraph with
McpServer, Mining and EntityRegistry have several properties that are run one by
one; their type invariants are proved (5) and not run again.

| property | parts | question |
|---|---|---|
| TablesAgree, MergeKeepsPartitions, ImplementsMap | | are a drawer and its index entry always two halves of one thing, and do all calls together behave like a map that is searched? |
| StampIsEarned, BackupHolds, RowsMatchHalls, UnfailingOpenIsWhole, OpenReturns | | after any failures, what may be relied on in a file that is stamped, half migrated or opened, and does Open return? |
| DriftNeverGrows, AutoDeleteSparesLive | | does any step make an orphan, or a pass delete a drawer that is none any more? |
| LoneJobsAreSafe | RepairTypeOK, RebuildKeepsContents, RebuildCoversAlone, PruneSparesReadable | does a job left alone change no drawer, prune none it could read and index them all? |
| LonePassIsExact | CompactTypeOK, CompactCovers, CompactSparesWarm, CompactTakesOldest | does a pass left alone take every cold drawer, the oldest first, and no warm or protected one, as far as times of two zones compare? |
| CompactIsCalls | | is a pass, however it is interleaved or fails, only calls of the palace? |
| LonePassLosesNothing | DedupTypeOK, DedupKeepsTwin, DedupKeepsMeta | does each drawer removed have a kept twin, and is its classification merged? |
| OneVersion, SkippedIsCurrent | | after any crash, is what is left of a file of one text, and is what the next run skips up to date? |
| RunCovers, RunEnds | | does a run that nobody disturbs leave every file current, and does every run end? |
| OneActive, QueriesAreWhole, HistoryStands | | is a fact active once, is no triple hidden by a join, does the past stay? |
| ExtractionFollows | | are extracted facts of committed drawers only, and each accounted for? |
| AckStands, AckIsVerbatim | | is what was acknowledged there, and word for word? |
| StatusAddsUp | | do the pages of a status add up to its total? |
| MemoryIsTable | | does a registry show the table? |
| RowsAreSightings | TableIsUserData, SightingsCount | are seeds kept out of the table and sightings counted? |
| PeopleAreKnown | LegacyTypeOK, ContextDecides, PeopleStay | is an ambiguous name always flagged, does a saved person stay? |
| StopsAreCounted | HookTypeOK, SavesAreEarned, SilenceIsShort | has every block SaveInterval messages of its own, whatever was read and whoever died, and is no stop let through with more? |
| SessionsAreKept | SplitterTypeOK, NoTextLost, BackupIsCut | is every exported text on disk somewhere, and what is in a backup also in pieces? |
| HelperIsOwn | EmbedTypeOK, AnswersAreOwn, CloseLeavesNoHelper | whose vectors does a caller get, and are helper and launcher gone after Close? |
| OwnersReturn | | do the constructor and Close return, unless a caller waits for an answer for ever or Python outlives its launcher? |
| TextIsInPieces | ChunkTypeOK, StretchesAreWhole, ChunksAreBounded | is every short stretch of text whole in a chunk, and are chunks small? |
| ConversationIsKept | TranscriptTypeOK, ChunksKeepToTheirExchange, EveryExchangeIsFiled, TwoAreToldApart, TalkIsTheExport | from export to chunks: every message once and in its place, one exchange each, all of them, with the right speakers? |
| RightFilesAreScanned | ScanTypeOK, PlainRulesAreGits, IncludedAreScanned | are the files git's, and those asked for by name in? |
| WalkGoesByDistance | GraphTypeOK, HopsAreShortest, NearestAreShown | are distances those of the graph in whatever order its map is walked, and is what is cut off the farthest? |
| FindingsAreInTheText | DetectionTypeOK, SpansAreDisjoint, PriorityHolds, TriplesAreSaid | is a word in one entity, of the first type that wants it, and does a triple stand around a verb? |
| LoopIsOffByOthersOnly | CompressingTypeOK, MissedWentDoubledCame | how many drawers can a shared compress miss or double? |
| StoryIsOfTheBest | LayersTypeOK, PagesAreOffByOthersOnly, StoryFits, RoomsShowTheirBest, StoryIsTheTop | how many drawers can the paged read miss or repeat, by how much does the text exceed the budget, and is the best of what was read shown? |
| CorrectionsSettle | SpellingTypeOK, ReplacementsAreNear, CheckingTwiceIsOnce, DistanceIsFewestEdits | is a replacement a near word, a second check without effect, the distance the distance? |
| LoopsEnd | ChunkingEnds, ReadingEnds, CompressingEnds | do the loops over a text, a cyclic export and a changing palace end? |

Why these bounds are enough to mean something: two drawers are what a partition,
a merge across two of them, a page boundary or a cap needs to go wrong, three
what a short batch after a full one does (`Migration*`); the page and batch
sizes are 1 or 2 so that full, short and empty last pages all occur. One result
lets the classification over-fetch (2) matter, since it looks at more rows than
are returned. Times run to 2 with a cutoff of 1 tick, so drawers are cold, warm,
and cold by filing but warm by use; at time 1 the machine is a tick west of UTC, so
that a drawer filed then is shown as old as one filed at 0 and taken before it is
cold; passes with a cap of 1 leave one of two cold drawers, passes with the default
none; three failures let a migration fail in the
middle of two retries. Ids are symmetric where their order is not used (`Store`,
`Compact`), clients and sources in `Store`, servers in `McpServer`; the symmetric
runs check no liveness. In `dedup` a state constraint (`Bound`) lets passes begin
only in palaces no tracked search has touched, and passes that others interleave
with go over two drawers only: the property is about passes left alone,
and what others do to a pass is the subject of DedupRefinesStore. Its `VIEW`
forgets `reply` and `answer`, on which no guard depends.

In `mining` a file shrinks from two chunks to one, in another room, so that a
purge has two steps to be cut between and old and new drawers have other ids; two
runs at once are about one file (`Bound`), as runs over different files meet in
nothing. In `mcp` two of the contents begin alike and two of the names share an
id, pages hold one drawer, and the graph and the drawers, which share nothing but
the servers' time, are explored apart (`Apart`) with two texts sent at most. In
`tools` one save of each of the sessions that share a file is explored
(`SharedAreShort`), and two saves of the session with a file of its own; its
hook meets every partial count, failed write and kill with 4 messages and an
interval of 2. In `texts`: texts of up to 9 characters with chunks of 4 and an
overlap of 1; exports of up to 5 messages of up to 3 lines, some with entries that
are no message, 4 Slack messages of 3 users, every ChatGPT mapping of 3 nodes of
four kinds, cycles included; two ignore rules out of
every form of rule, in one directory or two; every palace of 4 rooms and 3 wings;
documents of up to 5 words; 6 drawers in pages of 2 with 3 changes by others;
palaces of up to 4 drawers in 2 rooms, read in pages of 2 while others make 2 changes; words of up to 5 letters. Each was made as large
as it had to be for a mutant of each property to show, and then larger as time
allowed. Constants that bound the model and not the code are MaxTime,
MaxResults in `Store`, MaxFailures, LastVersion, MaxEdits, LastDay, MaxTriples,
LastSecond, LastMoment, MaxMessages, MaxStrays, MaxChanges and MaxMoves.

Fairness is assumed where the code runs by itself, and nowhere else:

- `WF(Open(p))` in `PalaceMigration` and `WF(Step(m))` in `Mining`: a process that
  has called a Go function keeps executing it. Starting, crashing, closing, editing
  and using are not fair. A run of `Mining` that fails ends too.
- `HelperFairness` in `EmbedHelper`: the goroutines of the program go on, its timers
  fire, and a closer that finds the mutex free again and again gets it (strong
  fairness), as sync.Mutex hands over to a waiter after a millisecond. Of Python and
  its launcher nothing is assumed: neither has to answer or to end. So OwnersReturn
  names the two ways in which an owner may not return: a caller that waits for a line
  for ever with the mutex Close needs, and a Python whose launcher is gone (see 4).
- `WF` of the loops of `Chunking`, `Transcripts` and `Compressing`, whose other
  process makes a bounded number of changes.

Deadlock is checked wherever the system never has to stop; in `tools` and `texts`
registries are closed, sessions end and algorithms terminate.

## 4. Findings

Runs marked "violated" are disagreements between the code and what it says of
itself; `PROJECT.json` quotes the lines. An interrupted v0.1 migration opens as a
complete palace with unsearchable drawers (and AutoDelete then deletes them);
RebuildIndex can skip drawers when others write; `mempalace_add_drawer` reports
success for a text it does not store, if another with the same first 100 bytes is
in the room.

More were met while modelling and have no run of their own. The properties of the
runs are stated so that they do not hide them: the condition that excludes one is
in the property or in a variable named for it.

Palace:

- With two processes and no failure at all, one that probes between the other's
  DROP and CREATE and the end of its re-embedding opens a half-filled index
  (`migration.go:45`; OpenIsComplete with two processes in `Procs`).
- A crash between the DDL and writeStoredDim leaves an index of one width, and the
  next embedder's dimension is recorded beside it (`palace.go:286`), where
  `palace.go:227` says a mismatch is rejected at Open.
- A read that fails gets a drawer pruned as corrupt (`internal/repair/repair.go:81`).
- Archived drawers use up the places of a KNN search (`search.go:80`) and the cap
  of Compact (`repair_ops.go:61`), so that nothing newer is ever compacted.
- `MaxBatch <= 0` becomes 1000, where `compact.go:49` says "no cap" (`Cap`).
- `repair_ops.go:58-61` says the order of times as texts is chronological. `filed_at`
  is written in the local zone and compared with a cutoff in UTC: west of Greenwich a
  drawer nobody has used is compacted up to the zone's offset too early, east of it
  too late, and of drawers filed in two zones (a summer time is enough) the capped
  pass may take the younger. SurelyCold and the `West` of CompactSparesWarm say how
  far.
- A rebuild files the shadow row of an archived drawer under the archive hall,
  where `compact_test.go:239` says it "never holds 'archived'".

Mining:

- If alreadyMined cannot read (`Look`, an error counts as no) on a file that is up
  to date, and the run then crashes half way through the purge, the drawers that
  are left carry the current mtime and the file is skipped for good, in part.
- Two runs over one file can leave chunks of two texts, or of half of one.
- A conversation that grew is never mined again. Mtimes are taken to differ for
  every edit: an edit that restores an older one is not seen.
- Chunks of transcripts keep 8 lines of an answer; what comes before the first ">"
  and after a "---" line is dropped, and a line of an answer that begins with ">"
  is taken for the user. Of a ChatGPT export only the first child of each node is
  read; of several roots with no message, whichever the map gives first. The
  conversations of a privacy export come one behind the other as one (`ReadFlat`), so
  that a last question is answered by the next conversation's first message.
- With negations and a trailing "**" the scan is not git's (`gitignore.go:20` says
  it matches git's documented semantics): `build/**` with `!build/keep` loses keep, `*.log` with
  `!keep/` mines `keep/a.log`. Including one file of a skipped directory by name
  lets the files beside it in.

Graph and tools:

- A drawer stored with AutoExtractKG whose process dies before its triples are
  added never gets them.
- `kg_add` cleans the names it is given (validateName); `kg_invalidate` and
  `kg_query` do not, so that a fact told under a name with odd characters cannot be
  ended under it.
- Two diary entries of a second whose texts begin alike are one.
- A status or a compress over a palace that changes counts or compresses too
  much or too little; a page that fails ends either without a word
  (`tools.go:669`, `main.go:746`). Compress writes back what it read, over what
  others wrote meanwhile, and a second compress compresses the summaries.
- Triples of one name with itself, and of names in two sentences within 30 bytes,
  are extracted.

Processes:

- One stray line on the helper's stdout, once it is ready, gives every later batch
  of the same length the answer of the batch before.
- `python_subprocess.go:262` says Close waits up to 5 seconds before force-killing.
  The five seconds begin when Close has a mutex that an Embed holds for as long as it
  reads, without a timeout, from a helper that hangs. The kill reaches `uv run` only,
  the default command, and the wait behind it goes on until Python has let go of
  stderr: a Python that hangs keeps Close, and the constructor after a probe that
  timed out, waiting for ever. TLC shows both when OwnersReturn is stated without its
  first disjunct.
- The stop hook empties and writes last_save before it answers: a hook that is killed
  between, or whose answer is lost, has recorded a save nobody was asked for, and the
  next SaveInterval messages pass in silence. A transcript line over a megabyte ends
  every later count at that line, so that the hook falls silent for good
  (`hooks.go:201` calls the partial count best-effort). SilenceIsShort is about hooks
  that read the whole transcript.
- A transcript that shrinks, or another session of the same identifier (all
  without one are "unknown"), keeps the stop hook silent; a last_save file that
  cannot be written makes it block every stop, and one that is empty, between the two
  halves of another session's save, counts as 0.
- A second export of the same name replaces the first's `.mega_backup`; sessions
  of the same name overwrite each other, and with sessions under ten lines and what
  comes before the first session they are then in the backup only.
- The legacy registry is written in place: a process that dies in Save leaves a
  file that loads as no registry, and the next Save makes that final. A failed
  lookup is cached as "unknown" for good. Only tests use this registry.

Texts:

- `detector.go:175` says Detect surfaces every recognised occurrence: the
  expression eats the blank between two capitalised words, so that the second can
  be missed, and a single word claims before the two-word name it begins
  (`detector.go:361` says the opposite).
- An error on a page ends the story's read as the last page does (`layers.go:76`):
  the wake-up text is of a part of the palace without a word, or, on the first page,
  says "No memories yet". A drawer deleted before the offset hides another.
- The budget of the story counts the lines of rooms and drawers; the title, the
  newlines between lines and "(more in L3 search)" come on top (`long`), and so does
  the room the text is cut in.
- The spell checker refuses corrections that swap letters twice, since the guard
  counts four edits.
- `dialect.go` cuts `clean[:3]` of names that may be shorter; the graph takes
  halls from metadata that only diary entries carry.

## 5. Proofs

TLC checks the instances above; TLAPS proves the following for every value of
the constants that satisfies the named ASSUMEs.

- **StoreTypes, StoreTablesAgree**: TypeOK and TablesAgree together are
  inductive. The lemmas follow the SQL: writing both rows (`PutRowsAgree`),
  deleting both (`DropRowsAgree`), and changing only a drawer's metadata or
  moving it to the archive (`MetadataAgree`) each keep the tables in agreement;
  every call is one of the three.
- **StoreMergeKeepsPartitions**: the guard of MergeAndDelete makes the winner
  stand for every partition a loser leaves.
- **StoreImplementsMap**: every step of PalaceStore is a step or a stutter of
  DrawerMap under `contents <- Contents`. TablesAgree is what makes the search
  over the shadow table an answer about the drawers: without it the join could
  drop a drawer, or show one of another wing.
- **MigrationTypes** for any set of processes; **MigrationBackupHolds,
  MigrationStampIsEarned, MigrationRowsMatchHalls** for one process that may
  fail any number of times. The three invariants are not inductive: the
  strengthening `MigrationInv` says where a process can be given what the file
  looks like (`PlaceInv`), that a page read earlier still matches its drawers
  (`PageInv`), that a legacy file still has its index (`LegacyInv`) and that a
  whole copy exists once the process is past the backup (`BackupInv`). With two
  processes some of this is false, see 4. `LeastId` and
  `ShortBatchIsAll` prove that a short batch was the last one.
- **RepairTypes, RepairDriftNeverGrows, RepairAutoDeleteSparesLive** from any
  drifted palace, with any interleaving.
- **CompactRefinesStore**: CompactSpec implies PalaceStore's Spec, from the
  invariant that a pass in its loop has drawers left (`PassInv`); hence
  **CompactTablesAgree**, and every other theorem about PalaceStore.
- **DedupRefinesStore**: DedupSpec implies PalaceStore's Spec, whatever other
  clients do between the steps of a pass. The invariant `DedupInv` adds to
  TypeOK what makes a pass's calls calls the palace can be asked for: ids and
  options of their types, and gathered metadata of the shape a merge takes,
  which rests on no `last_accessed` being in the future (`UsedPast`).
  `FirstIsItem` shows that judging longest first always has a next item, from
  `LeastNumber`. **DedupTablesAgree** and **DedupMergeKeepsPartitions** follow.
- **McpOneActive, McpQueriesAreWhole, McpExtractionFollows, McpHistoryStands** (with
  **McpTypes**), from the half of `McpInv` that is about the graph, `GraphInv`:
  every triple names entities that have rows (`EntitiesAreThere`), a writer's queue
  is of a committed drawer (`WritersFollow`), and each fact of one is in the table,
  queued or lost (`FactsAreSomewhere`). Two lemmas say what the calls do to the
  tables (`AddTripleAppends`, `InvalidateEnds`), and `AddTripleKeeps` that they keep
  the invariant whoever calls. QueriesAreWhole is not inductive: what is, is that
  no query could miss a row.
- **McpAckStands, McpStatusAddsUp** from the other half, `DrawersInv`: an
  acknowledged key is there, whatever is there was sent, and a count that was not
  disturbed knows the size of the palace (`CountIsRight`), which needs that the
  palace is finite.
- **RegistryMemoryIsTable, RegistryRowsAreSightings** (the latter from
  **RegistryTableIsUserData** and **RegistrySightingsCount**, with
  **RegistryTypes**): memory and table are equal for a process nobody has written
  past, and no row was last seen in the future (`SeenBefore`).
- **MiningOneVersion, MiningSkippedIsCurrent** (with **MiningTypes**), for any
  number of miners, files and versions. `MiningInv` says of each file nobody
  spoiled that its drawers are part of one batch and, if they are not all of it,
  that the file is in the hands of a run that is purging (`FileRight`); of a run
  that its purge list covers the drawers it has left (`HandRight`); and that two
  runs with one file have spoiled it. What carries SkippedIsCurrent is the order of
  the code: the mtime is read before the content, so that it is never newer.
- **MiningRunCovers**, also of the files of `MiningInv`: every file that a run left
  alone owes is still on its list, in its hand, or such that it would be skipped
  (`OweRight`), and nobody else is running (`AloneInv`).

What a job achieves that is left alone:

- **MigrationUnfailingOpenIsWhole**, for one process, as long as nothing has
  failed. `CleanInv` says when there is no index (`NoIndexInv`), that an index is
  whole but for what the cursor of the re-embedding has not passed (`WholeInv`,
  `CursorInv`), and whose width it has at which statement (`WidthInv`).
- **RepairLoneJobsAreSafe**: what a scan has listed is still there and what it
  calls bad it could not read (`ScanInv`); the drawers before a rebuild's offset
  are indexed (`ReadInv`, `FirstRows`), the page it holds is the next one and as
  stored (`WriteInv`), and a job that ended knows nothing more (`EndInv`). With
  clients between, ReadInv is false, which is the run `repair_covers_shared`.
- **CompactLonePassIsExact**, for any zones between West and East: what is left to
  do is there and cold, by the clock it shows, as it was picked (`TodoInv`), and what
  is cold and not yet archived is left to do, unless the cap stopped the scan
  (`CoverInv`). What shows as cold was filed less than West after the cutoff, and
  what was filed more than East before it shows as cold, which carries the promise
  from texts to times.
- **DedupLonePassLosesNothing**: between groups nothing is in hand (`RestInv`);
  the drawers listed are of the group they were listed in (`ListInv`); those in
  hand are there, as they were read, in one of items, kept and losers, and once
  there is a winner it is kept (`HandInv`). Every loser was found near a kept one
  that is at least as long.

The processes of their own:

- **LegacyPeopleAreKnown**: in the file and in every memory the people whose names
  are common words are flagged (`FlagsInv`); what was saved is in memory and file while one
  process at a time uses the registry (`LoneInv`, `careless`).
- **HookStopsAreCounted**, for any sessions and interval, partial counts and deaths:
  no count exceeds what was there (`CountInv`); for a session that has its file to
  itself the file never says more than there was when a block was last decided
  (`FileInv`), from which SilenceIsShort follows, and as long as every save was
  recorded it says at least SaveInterval for each block, the one on its way included
  (`PaidInv`, of each stage of the save one part), from which SavesAreEarned follows.
- **SplitterSessionsAreKept**: every exported text is in a file or its backup, as
  long as no name was exported again (`TextsInv`); of the file being cut each
  session is in a piece or still to be cut (`CutInv`, `JobInv`).
- **EmbedHelperIsOwn**, for any number of callers and closers and any death of the
  helper or its launcher: who holds the mutex is in a call (`MutexInv`), the pipes are
  empty between calls as long as there was no stray line (`PipeInv`), what can happen
  before the helper is ready and that a constructor that failed left none
  (`LifeInv`), and who waits when it is closed (`CloseInv`).

The algorithms. Each invariant says what the loop has done of its input so far:

- **ChunkedTextIsInPieces**, for every text, size and overlap: `ChunkInv`, with
  where a piece may begin (`PieceOrder`): by the window's start, or with nothing
  but blanks before it.
- **CompressLoopIsOffByOthersOnly**: `CompressInv` counts: no more drawers were
  missed than others deleted and none more doubled than others filed
  (`CountsRight`).
- **WakeUpStoryIsOfTheBest**, for any palace, page size and changes meanwhile: of the
  drawers that stay, those behind the offset and not read are as many as went, and
  those read and not behind it, or twice, as many as came (`PagesInv`: one drawer
  less before the offset moves one across it); what is told and what is due are
  together the top of what was read, in one order, and the text is longer than the
  budget by what `SizesRight` says (`LayersInv`).
- **TraverseGoesByDistance**, for every palace and every order of its map: the
  queue is ordered by distance and reaches one hop beyond its head at most
  (`QueueIsRight`), and the neighbours of what left it are visited (`TakenIsDone`);
  when it is empty the visited rooms are the ball of maxHops. The ball is a
  recursive function of the radius, of which single steps are unfolded.
- **DetectedIsInTheText**: an earlier rule has taken what it found or something
  of a rank before it has (`RanksKept`, `NoneIsLost`), and of names that overlap
  the one that begins first is taken (`NamesKept`).
- **CorrectedTextSettles**, for every dictionary: what the checker accepts it
  accepts again (`SpellingInv`), as a correction is a known word and a known word
  is left alone. Of the distance: neighbouring cells of its table differ by one at
  most, an edit of a word changes a cell by one at most, and a cell of k has k
  edits that lead there; so it is the fewest edits.
- **ScannedAreTheRightFiles**, for every tree and every set of rules: what the walk
  has passed is cut off, taken or left as it should be (`ScanInv`), and where the
  rules are plain, a pattern that matchParts finds lies on a beginning of the
  path, which is what git asks.
- **ConversationStaysKept**, for every export, cyclic mappings included: every
  message is that of one entry that was read and stands right behind that of the entry
  before (`TakenInv`, with how many messages there were at each entry), of a Slack
  channel what the roles are (`ReadInv`); that every line of the messages written is
  there once and in order (`WriteInv`), that the chunk being made is of one exchange
  (`CutInv`), and, if no message has a line that looks like a question or a rule
  (`IsPlain`), that the exchanges that are over are filed, each in a chunk of its own,
  in order (`FileInv`).

The theorems assume of the constants what the modules assume by name, and no
more: finite sets, positive sizes, dictionaries of nonempty words, transcripts
of texts that begin a session, ignore rules that are parsed lines, palaces with one
drawer to a slot. Symmetry and small inputs are of
the runs only.

Only model-checked: liveness (OpenReturns, RunEnds, OwnersReturn, LoopsEnd and its
parts), which with ENABLED is out of the prover's reach. Every safety property
that a passing run checks is the statement of a theorem above. Where an argument
needs an induction over data (the distance, the balls, the matcher), it is cut
into one step of a recursive function, and the induction is over the numbers of
an invariant or by well-founded minimal counterexample; the library's induction
theorems, which take an operator, cannot be used.

## 6. Plan

Every component of the inventory that has state or an algorithm of its own is
modelled, and every safety property proved. What is left, in order:

1. Theorems that need fewer conditions than "left alone": which of the promises
   of a lone repair, compaction or dedup pass survive clients that only read or
   only add.
2. In `PalaceDedup`, drawers without a source, which share a group with those of
   source "unknown" and are of another partition: delete mode crosses the two,
   merge mode refuses them.

## 7. Not modelled

- Configuration, sanitizing of queries, rooms by keyword, the AAAK dialect, the
  scores of halls and names, printing and flags: functions of a text or a file
  without state, whose correctness is that of tables of words.
- `internal/spellcheck/wordlist.go`, more than half of the lines of the
  repository, is a list of words; `Spelling` takes any dictionary.
- The ONNX embedder, a third-party pipeline, and the benchmark driver.
- The tunnels and the statistics of the palace graph, the layers L0, L2 and L3, the
  searcher and the read-only MCP tools: each formats one answer of a call that is
  modelled.
- The "general" mode of the conversation miner and the legacy detector, which
  classify by keywords.
- Fractions of a second in times kept as texts (RFC3339Nano drops trailing zeros, so
  that "...:00.5Z" sorts before "...:00Z"): two times of one second and one zone are
  taken for the same or for ordered. The zones, by which two times can be compared
  wrongly by hours, are in `PalaceCompact`; the store's other comparisons are of
  texts in UTC.
- Rows of the entities table that do not parse, which NewRegistry skips
  (`registry.go:47`): nothing in the code writes one.
- Helpers with stray lines (AnswersAreOwn is of those without), negated ignore rules
  and a trailing "**" (PlainRulesAreGits is of the others): the model has them, the
  code promises nothing that would hold, and 4 says what happens.
