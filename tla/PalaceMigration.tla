--------------------------- MODULE PalaceMigration ---------------------------
(***************************************************************************)
(* palace.OpenWithOptions: opening a palace file that may be fresh, of the *)
(* v0.1 schema (drawers_vec without hall), or later.  The migration is a   *)
(* row of statements that commit one by one, so a crash or an embedder     *)
(* that fails leaves the file between two of them, and the next open, or   *)
(* another process opening the same file, starts from what it finds.       *)
(*                                                                         *)
(* Ids are numbered in the order of their text.  Documents and embeddings  *)
(* are left out: every re-embedded row holds the embedding of its drawer.  *)
(***************************************************************************)
EXTENDS Integers, FiniteSets

CONSTANTS
    Ids,            \* drawer ids, in order
    Procs,          \* processes that open the file
    Dims,           \* embedder dimensions
    BackfillBatch,  \* backfillHalls batch, 500
    ReembedBatch,   \* reembedAll batch, 100
    MaxFailures     \* bound of crashes and failed steps

Halls == {"", "detected"}       \* the hall column before and after Detect
Unset == 0                      \* no embedding_dim in palace_meta
Current == 3                    \* schemaVersionCurrent

ASSUME MigrationAssumption ==
    /\ Ids \subseteq Nat \ {0} /\ IsFiniteSet(Ids)
    /\ Dims \subseteq Nat \ {0}
    /\ BackfillBatch \in Nat \ {0} /\ ReembedBatch \in Nat \ {0}
    /\ MaxFailures \in Nat

VARIABLES
    origin,     \* the file before the first open: its schema and its drawers
    drawers,    \* ids in table drawers
    hasHall,    \* column drawers.hall exists
    hall,       \* id |-> its hall
    shape,      \* table drawers_vec: "none", "legacy" or "current"
    width,      \* float[width] of its DDL
    rows,       \* id |-> hall of its row in drawers_vec, or "none"
    version,    \* palace_meta.schema_version, 0 if unset
    dim,        \* palace_meta.embedding_dim
    backups,    \* copies of the file
    pc,         \* what each process is about to do
    emb,        \* dimension of the embedder it passed to Open
    legacy,     \* its answer of hasLegacyVecTable
    passed,     \* ids up to reembedAll's cursor lastID
    page,       \* the rows reembedAll has read: id |-> hall, or "none"
    failures

file == <<origin, drawers, hasHall, hall, shape, width, rows, version, dim, backups>>
vars == <<file, pc, emb, legacy, passed, page, failures>>

Steps == {"closed", "ddl", "decide", "backup", "alter", "backfill", "drop",
          "create", "read", "insert", "stamp", "readdim", "writedim", "open"}

TypeOK ==
    /\ origin \in [schema : {"fresh", "v1", "v2"}, drawers : SUBSET Ids]
    /\ drawers \in SUBSET Ids
    /\ hasHall \in BOOLEAN
    /\ hall \in [Ids -> Halls]
    /\ shape \in {"none", "legacy", "current"}
    /\ width \in Dims \cup {Unset}
    /\ rows \in [Ids -> Halls \cup {"none"}]
    /\ version \in {0, 2, Current}
    /\ dim \in Dims \cup {Unset}
    /\ backups \in SUBSET [indexed : SUBSET Ids, whole : BOOLEAN]
    /\ pc \in [Procs -> Steps]
    /\ emb \in [Procs -> Dims]
    /\ legacy \in [Procs -> BOOLEAN]
    /\ passed \in [Procs -> SUBSET Ids]
    /\ page \in [Procs -> [Ids -> Halls \cup {"none"}]]
    /\ failures \in 0..MaxFailures

NoRows == [i \in Ids |-> "none"]

Indexed == {i \in Ids : rows[i] # "none"}

\* No file yet.
FreshFile ==
    /\ origin = [schema |-> "fresh", drawers |-> {}]
    /\ drawers = {} /\ hasHall = FALSE /\ hall = [i \in Ids |-> ""]
    /\ shape = "none" /\ width = Unset /\ rows = NoRows
    /\ version = 0 /\ dim = Unset

\* A file the v0.1 program left; it may not have recorded its dimension
\* (schema.go:92).
V1File ==
    /\ origin = [schema |-> "v1", drawers |-> drawers]
    /\ hasHall = FALSE /\ hall = [i \in Ids |-> ""]
    /\ shape = "legacy" /\ width \in Dims
    /\ rows = [i \in Ids |-> IF i \in drawers THEN "" ELSE "none"]
    /\ version = 0 /\ dim \in {width, Unset}

\* A file the v0.2 program left.
V2File ==
    /\ origin = [schema |-> "v2", drawers |-> drawers]
    /\ hasHall = TRUE /\ hall = [i \in Ids |-> "detected"]
    /\ shape = "current" /\ width \in Dims
    /\ rows = [i \in Ids |-> IF i \in drawers THEN "detected" ELSE "none"]
    /\ version = 2 /\ dim = width

Init ==
    /\ drawers \in SUBSET Ids
    /\ FreshFile \/ V1File \/ V2File
    /\ backups = {}
    /\ pc = [p \in Procs |-> "closed"]
    /\ emb \in [Procs -> Dims]
    /\ legacy = [p \in Procs |-> FALSE]
    /\ passed = [p \in Procs |-> {}]
    /\ page = [p \in Procs |-> NoRows]
    /\ failures = 0

Goto(p, s) == pc' = [pc EXCEPT ![p] = s]

\* The n drawers with the least ids in S, or all of them.
FirstOf(S, n) == {i \in S : Cardinality({j \in S : j < i}) < n}

-----------------------------------------------------------------------------
(* Open, step by step. *)

\* Open is called; its first look at the file is hasLegacyVecTable.
Probe(p) ==
    /\ pc[p] = "closed"
    /\ \E d \in Dims : emb' = [emb EXCEPT ![p] = d]
    /\ legacy' = [legacy EXCEPT ![p] = (shape = "legacy")]
    /\ Goto(p, "ddl")
    /\ UNCHANGED <<file, passed, page, failures>>

\* schemaStatements: each creates only what does not exist.
Ddl(p) ==
    /\ pc[p] = "ddl"
    /\ hasHall' = (hasHall \/ origin.schema = "fresh")
    /\ IF shape = "none"
       THEN shape' = "current" /\ width' = emb[p] /\ rows' = NoRows
       ELSE UNCHANGED <<shape, width, rows>>
    /\ Goto(p, "decide")
    /\ UNCHANGED <<origin, drawers, hall, version, dim, backups,
                   emb, legacy, passed, page, failures>>

\* The schema version gate, the early dimension check and the branch.
Decide(p) ==
    /\ pc[p] = "decide"
    /\ \/ version >= Current /\ Goto(p, "readdim")
       \/ version < Current /\ dim \notin {Unset, emb[p]} /\ Goto(p, "closed")
       \/ /\ version < Current /\ dim \in {Unset, emb[p]}
          /\ Goto(p, IF legacy[p] THEN "backup" ELSE "stamp")
    /\ UNCHANGED <<file, emb, legacy, passed, page, failures>>

Snapshot(whole) == [indexed |-> Indexed, whole |-> whole]

\* Mutant: a copy that exists is taken for a good one.
BackupOnce(p) ==
    /\ pc[p] = "backup"
    /\ backups' = IF backups = {} THEN {Snapshot(TRUE)} ELSE backups
    /\ Goto(p, "alter")
    /\ UNCHANGED <<origin, drawers, hasHall, hall, shape, width, rows, version, dim,
                   emb, legacy, passed, page, failures>>

\* createBackup copies the file and then its WAL to a name not taken yet.  The
\* copy may be torn if another process checkpoints the WAL meanwhile.
Backup(p) ==
    /\ pc[p] = "backup"
    /\ \E whole \in {TRUE} \cup {pc[q] = "closed" : q \in Procs \ {p}} :
         backups' = backups \cup {Snapshot(whole)}
    /\ Goto(p, "alter")
    /\ UNCHANGED <<origin, drawers, hasHall, hall, shape, width, rows, version, dim,
                   emb, legacy, passed, page, failures>>

\* ADD COLUMN hall, if columnExists does not find it.
Alter(p) ==
    /\ pc[p] = "alter"
    /\ hasHall' = TRUE
    /\ Goto(p, "backfill")
    /\ UNCHANGED <<origin, drawers, hall, shape, width, rows, version, dim, backups,
                   emb, legacy, passed, page, failures>>

\* Mutant: halls.Detect may answer the empty hall.
BackfillNothing(p) ==
    LET batch == FirstOf({i \in drawers : hall[i] = ""}, BackfillBatch)
    IN  /\ pc[p] = "backfill"
        /\ Goto(p, IF Cardinality(batch) < BackfillBatch THEN "drop" ELSE "backfill")
        /\ UNCHANGED <<file, emb, legacy, passed, page, failures>>

\* Mutant: a full batch is taken for the last.
BackfillOneBatch(p) ==
    LET batch == FirstOf({i \in drawers : hall[i] = ""}, BackfillBatch)
    IN  /\ pc[p] = "backfill"
        /\ hall' = [i \in Ids |-> IF i \in batch THEN "detected" ELSE hall[i]]
        /\ Goto(p, IF Cardinality(batch) <= BackfillBatch THEN "drop" ELSE "backfill")
        /\ UNCHANGED <<origin, drawers, hasHall, shape, width, rows, version, dim,
                       backups, emb, legacy, passed, page, failures>>

\* One batch of backfillHalls; a short one is the last.
Backfill(p) ==
    LET batch == FirstOf({i \in drawers : hall[i] = ""}, BackfillBatch)
    IN  /\ pc[p] = "backfill"
        /\ hall' = [i \in Ids |-> IF i \in batch THEN "detected" ELSE hall[i]]
        /\ Goto(p, IF Cardinality(batch) < BackfillBatch THEN "drop" ELSE "backfill")
        /\ UNCHANGED <<origin, drawers, hasHall, shape, width, rows, version, dim,
                       backups, emb, legacy, passed, page, failures>>

Drop(p) ==
    /\ pc[p] = "drop"
    /\ shape' = "none" /\ width' = Unset /\ rows' = NoRows
    /\ Goto(p, "create")
    /\ UNCHANGED <<origin, drawers, hasHall, hall, version, dim, backups,
                   emb, legacy, passed, page, failures>>

\* CREATE without IF NOT EXISTS fails if another process was faster.
Create(p) ==
    /\ pc[p] = "create"
    /\ IF shape = "none"
       THEN /\ shape' = "current" /\ width' = emb[p] /\ rows' = NoRows
            /\ Goto(p, "read")
       ELSE Goto(p, "closed") /\ UNCHANGED <<shape, width, rows>>
    /\ passed' = [passed EXCEPT ![p] = {}]
    /\ UNCHANGED <<origin, drawers, hasHall, hall, version, dim, backups,
                   emb, legacy, page, failures>>

\* Mutant: the rows are read without their halls.
ReembedReadNoHall(p) ==
    LET batch == FirstOf(drawers \ passed[p], ReembedBatch)
    IN  /\ pc[p] = "read"
        /\ page' = [page EXCEPT ![p] = [i \in Ids |-> IF i \in batch THEN "" ELSE "none"]]
        /\ Goto(p, IF batch = {} THEN "stamp" ELSE "insert")
        /\ UNCHANGED <<file, emb, legacy, passed, failures>>

\* Mutant: the loop ends on a full batch.
ReembedInsertOneBatch(p) ==
    LET batch == {i \in Ids : page[p][i] # "none"}
    IN  /\ pc[p] = "insert"
        /\ rows' = [i \in Ids |-> IF i \in batch THEN "detected" ELSE rows[i]]
        /\ Goto(p, IF Cardinality(batch) <= ReembedBatch THEN "stamp" ELSE "read")
        /\ page' = [page EXCEPT ![p] = NoRows]
        /\ UNCHANGED <<origin, drawers, hasHall, hall, shape, width, version, dim,
                       backups, emb, legacy, passed, failures>>

\* reembedAll reads a batch past its cursor, and embeds it outside any
\* transaction.
ReembedRead(p) ==
    LET batch == FirstOf(drawers \ passed[p], ReembedBatch)
    IN  /\ pc[p] = "read"
        /\ page' = [page EXCEPT ![p] = [i \in Ids |-> IF i \in batch THEN hall[i] ELSE "none"]]
        /\ Goto(p, IF batch = {} THEN "stamp" ELSE "insert")
        /\ UNCHANGED <<file, emb, legacy, passed, failures>>

\* It inserts the batch in one transaction, which fails on a row that exists,
\* on a table that is gone and on a vector of the wrong length.
ReembedInsert(p) ==
    LET batch == {i \in Ids : page[p][i] # "none"}
    IN  /\ pc[p] = "insert"
        /\ IF shape = "current" /\ width = emb[p] /\ batch \cap Indexed = {}
           THEN /\ rows' = [i \in Ids |-> IF i \in batch THEN page[p][i] ELSE rows[i]]
                /\ passed' = [passed EXCEPT ![p] = {j \in Ids : \E i \in batch : j <= i}]
                /\ Goto(p, IF Cardinality(batch) < ReembedBatch THEN "stamp" ELSE "read")
           ELSE Goto(p, "closed") /\ UNCHANGED <<rows, passed>>
        /\ page' = [page EXCEPT ![p] = NoRows]
        /\ UNCHANGED <<origin, drawers, hasHall, hall, shape, width, version, dim,
                       backups, emb, legacy, failures>>

Stamp(p) ==
    /\ pc[p] = "stamp"
    /\ version' = Current
    /\ Goto(p, "readdim")
    /\ UNCHANGED <<origin, drawers, hasHall, hall, shape, width, rows, dim, backups,
                   emb, legacy, passed, page, failures>>

ReadDim(p) ==
    /\ pc[p] = "readdim"
    /\ Goto(p, CASE dim = Unset -> "writedim"
                 [] dim = emb[p] -> "open"
                 [] OTHER -> "closed")
    /\ UNCHANGED <<file, emb, legacy, passed, page, failures>>

WriteDim(p) ==
    /\ pc[p] = "writedim"
    /\ dim' = emb[p]
    /\ Goto(p, "open")
    /\ UNCHANGED <<origin, drawers, hasHall, hall, shape, width, rows, version, backups,
                   emb, legacy, passed, page, failures>>

Open(p) ==
    \/ Ddl(p) \/ Decide(p) \/ Backup(p) \/ Alter(p) \/ Backfill(p) \/ Drop(p)
    \/ Create(p) \/ ReembedRead(p) \/ ReembedInsert(p) \/ Stamp(p)
    \/ ReadDim(p) \/ WriteDim(p)

-----------------------------------------------------------------------------
(* Failures, and what an open palace does. *)

\* The process dies, a statement fails or the embedder does.  A copy of the
\* file under way stays behind torn.
Fail(p) ==
    /\ pc[p] \notin {"closed", "open"}
    /\ failures < MaxFailures
    /\ failures' = failures + 1
    /\ backups' = IF pc[p] = "backup" THEN backups \cup {Snapshot(FALSE)} ELSE backups
    /\ page' = [page EXCEPT ![p] = NoRows]
    /\ Goto(p, "closed")
    /\ UNCHANGED <<origin, drawers, hasHall, hall, shape, width, rows, version, dim,
                   emb, legacy, passed>>

Close(p) ==
    /\ pc[p] = "open"
    /\ Goto(p, "closed")
    /\ UNCHANGED <<file, emb, legacy, passed, page, failures>>

\* UpsertBatch of one drawer, by a caller that names a hall or by one that
\* does not.  The insert into drawers_vec fails, and the transaction with it,
\* if the table is of another width.
Upsert(p, i, h) ==
    /\ pc[p] = "open"
    /\ shape = "current" /\ width = emb[p]
    /\ drawers' = drawers \cup {i}
    /\ hall' = [hall EXCEPT ![i] = h]
    /\ rows' = [rows EXCEPT ![i] = h]
    /\ UNCHANGED <<origin, hasHall, shape, width, version, dim, backups,
                   pc, emb, legacy, passed, page, failures>>

Delete(p, i) ==
    /\ pc[p] = "open"
    /\ shape = "current"
    /\ drawers' = drawers \ {i}
    /\ rows' = [rows EXCEPT ![i] = "none"]
    /\ UNCHANGED <<origin, hasHall, hall, shape, width, version, dim, backups,
                   pc, emb, legacy, passed, page, failures>>

Use(p) == \E i \in Ids : Delete(p, i) \/ \E h \in Halls : Upsert(p, i, h)

Next == \E p \in Procs : Probe(p) \/ Open(p) \/ Fail(p) \/ Close(p) \/ Use(p)

\* A process that has started to open the palace runs on.
Spec == Init /\ [][Next]_vars /\ \A p \in Procs : WF_vars(Open(p))

-----------------------------------------------------------------------------
(* Properties. *)

\* However often the migration crashed and was retried, a palace stamped with
\* the current version has the current tables, and no drawer is without a hall
\* when the stamp is about to be written (the order of migrateToV2's steps).
StampIsEarned ==
    /\ version = Current => hasHall /\ shape = "current"
    /\ \A p \in Procs : pc[p] = "stamp" =>
         hasHall /\ shape = "current" /\ \A i \in drawers : hall[i] # ""

\* The v0.1 index is dropped only when a whole copy of it is on disk, under a
\* name no later attempt writes over (createBackup before DROP TABLE).
BackupHolds ==
    origin.schema = "v1" /\ shape # "legacy" =>
      \E b \in backups : b.whole /\ b.indexed = origin.drawers

\* A drawer in the index is filed there under the hall it has in its own row,
\* whichever attempt at the migration indexed it (Backfill before ReembedRead).
RowsMatchHalls ==
    shape = "current" => \A i \in drawers \cap Indexed : rows[i] = hall[i]

\* Open rejects an embedder the index was not made for ("a mismatch is rejected
\* at Open so callers don't discover it via a cryptic sqlite-vec BLOB-length
\* error on first insert", palace.go:226-228).
OpenHasWidth ==
    \A p \in Procs : pc[p] = "open" => shape = "current" /\ width = emb[p]

\* Every call of Open returns: backfillHalls and reembedAll run out of rows
\* ("each batch shrinks toward zero", migration.go:227).
OpenReturns ==
    \A p \in Procs : pc[p] \notin {"closed", "open"} ~> pc[p] \in {"closed", "open"}

\* Open yields a palace in which every drawer is in the index ("re-embeds
\* every drawer", CHANGELOG.md:13).
OpenIsComplete ==
    \A p \in Procs : pc[p] = "open" => drawers \subseteq Indexed

\* As long as no attempt failed, the palace Open yields is complete and of the
\* embedder's width, whatever file it began with: the cursor of reembedAll
\* passes over no drawer, and no dimension is taken on trust.
UnfailingOpenIsWhole == failures = 0 => OpenIsComplete /\ OpenHasWidth
=============================================================================
