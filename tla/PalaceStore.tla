----------------------------- MODULE PalaceStore -----------------------------
(***************************************************************************)
(* pkg/palace: the drawer store.  A drawer lives in two tables of one      *)
(* SQLite file, a row of drawers and a shadow row of drawers_vec that      *)
(* carries its embedding and its partition keys.  Every call of the        *)
(* package runs one SQL transaction over both, so a call is one action     *)
(* here, except a tracked Query, which reads and then writes in a second   *)
(* transaction.  A transaction that fails is rolled back as a whole.       *)
(*                                                                         *)
(* Left out: room and added_by (room is a partition key handled like wing, *)
(* but no guard looks at it), chunk_index, source_mtime, and the parts of  *)
(* metadata_json nothing reads back.                                       *)
(***************************************************************************)
EXTENDS Integers, FiniteSets

CONSTANTS
    Ids,                \* drawer ids
    Docs,               \* verbatim documents
    Texts,              \* what normalize.Normalize makes of them
    Norm,               \* [Docs -> Texts]
    Labels,             \* classifications a search tells apart; "none" is no list
    Extract,            \* [Docs -> Labels], what extractor.Extract finds
    Wings, Srcs,        \* wings and source files
    Halls, Archived,    \* halls callers file under, and halls.HallArchived
    Clients,            \* goroutines and processes with the palace open
    MaxTime,            \* bound of the clock
    MaxResults,         \* bound of NResults
    OverFetch,          \* classificationOverFetchMultiplier
    OverFetchMax,       \* classificationOverFetchMax
    ExtractOnUpsert,    \* PalaceOptions
    TrackLastAccessed,
    None, Never, Unfiltered, NoAnswer

AllHalls == Halls \cup {Archived}
Times == 0..MaxTime

Row == [doc : Docs, wing : Wings, hall : AllHalls, src : Srcs,
        label : Labels, filed : Times, used : Times \cup {Never}]

VecRow == [emb : Texts, wing : Wings, hall : AllHalls, src : Srcs]

\* Of metadata_json.$.classifications only this is kept: absent ("none"), or a
\* list that holds ("match") or lacks ("other") the class searches filter by.
ASSUME StoreAssumption ==
    /\ "none" \in Labels
    /\ Norm \in [Docs -> Texts]
    /\ Extract \in [Docs -> Labels]
    /\ IsFiniteSet(Ids)
    /\ Archived \notin Halls
    /\ None \notin Row /\ None \notin VecRow
    /\ None \notin [doc : Docs, wing : Wings, hall : AllHalls, src : Srcs]
    /\ Never \notin Nat
    /\ Unfiltered \notin Wings /\ Unfiltered \notin AllHalls
    /\ MaxTime \in Nat /\ MaxResults \in Nat
    /\ OverFetch \in Nat \ {0} /\ OverFetchMax \in Nat \ {0}
    /\ ExtractOnUpsert \in BOOLEAN /\ TrackLastAccessed \in BOOLEAN

VARIABLES
    drawers,    \* table drawers: id |-> row or None
    vecs,       \* table drawers_vec: id |-> row or None
    now,        \* wall clock
    pending,    \* client |-> ids its Query still has to touch
    reply,      \* outcome of the last call
    answer      \* what the last call returned if it was a Query

tables == <<drawers, vecs>>
vars == <<drawers, vecs, now, pending, reply, answer>>

Outcomes == {"ok", "merged", "not_found", "cross_partition", "embedder", "db"}

Options == [n : 1..MaxResults, wing : Wings \cup {Unfiltered},
            hall : AllHalls \cup {Unfiltered}, label : {"none", "match"}]

TypeOK ==
    /\ drawers \in [Ids -> Row \cup {None}]
    /\ vecs \in [Ids -> VecRow \cup {None}]
    /\ now \in Times
    /\ pending \in [Clients -> SUBSET Ids]
    /\ reply \in Outcomes
    /\ answer \in [opts : Options, ids : SUBSET Ids] \cup {NoAnswer}

Init ==
    /\ drawers = [i \in Ids |-> None]
    /\ vecs = [i \in Ids |-> None]
    /\ now = 0
    /\ pending = [c \in Clients |-> {}]
    /\ reply = "ok"
    /\ answer = NoAnswer

-----------------------------------------------------------------------------
(* Rows and the statements that write them. *)

Present == {i \in Ids : drawers[i] # None}
Indexed == {i \in Ids : vecs[i] # None}

Lesser(a, b) == IF a <= b THEN a ELSE b

\* A metadata key set over an older value, unless the newer map lacks it.
Overlay(old, new, absent) == IF new = absent THEN old ELSE new

\* The row upsertOne stores for a caller's drawer r.
Stored(r) ==
    [r EXCEPT !.label = IF ExtractOnUpsert
                        THEN Overlay(r.label, Extract[r.doc], "none")
                        ELSE r.label]

\* The shadow row upsertOne stores beside it.
VecOf(r) == [emb |-> Norm[r.doc], wing |-> r.wing, hall |-> r.hall, src |-> r.src]

\* INSERT .. ON CONFLICT and vec delete-then-insert for every drawer of b.
PutRows(b) ==
    /\ drawers' = [i \in Ids |-> IF i \in DOMAIN b THEN Stored(b[i]) ELSE drawers[i]]
    /\ vecs' = [i \in Ids |-> IF i \in DOMAIN b THEN VecOf(b[i]) ELSE vecs[i]]

\* Mutant: the shadow rows are forgotten.
DropDrawersOnly(S) ==
    /\ drawers' = [i \in Ids |-> IF i \in S THEN None ELSE drawers[i]]
    /\ UNCHANGED vecs

\* DELETE .. WHERE id IN S in both tables.
DropRows(S) ==
    /\ drawers' = [i \in Ids |-> IF i \in S THEN None ELSE drawers[i]]
    /\ vecs' = [i \in Ids |-> IF i \in S THEN None ELSE vecs[i]]

\* json_set(metadata_json, '$.last_accessed', now) on the ids that exist.
TouchRows(S) ==
    drawers' = [i \in Ids |-> IF i \in S \cap Present
                              THEN [drawers[i] EXCEPT !.used = now]
                              ELSE drawers[i]]

-----------------------------------------------------------------------------
(* Calls.  A client whose Query still has to touch its results is busy. *)

Idle(c) == pending[c] = {}

Return(r) ==
    /\ reply' = r
    /\ answer' = NoAnswer
    /\ UNCHANGED <<now, pending>>

\* The drawers a caller files now; write-backs of rows read earlier are the
\* business of the modules that extend this one.
NewDrawers == [doc : Docs, wing : Wings, hall : Halls, src : Srcs,
               label : {"none"}, filed : {now}, used : {Never}]

UpsertBatch(c, b) ==
    /\ Idle(c)
    /\ PutRows(b)
    /\ Return("ok")

Delete(c, i) ==
    /\ Idle(c)
    /\ DropRows({i})
    /\ Return(IF i \in Present THEN "ok" ELSE "not_found")

DeleteBatch(c, S) ==
    /\ Idle(c)
    /\ DropRows(S)
    /\ Return("ok")

ArchiveDrawers(c, S) ==
    /\ Idle(c)
    /\ drawers' = [i \in Ids |-> IF i \in S \cap Present
                                 THEN [drawers[i] EXCEPT !.hall = Archived]
                                 ELSE drawers[i]]
    /\ UNCHANGED vecs
    /\ Return("ok")

TouchLastAccessed(c, S) ==
    /\ Idle(c)
    /\ TouchRows(S)
    /\ UNCHANGED vecs
    /\ Return("ok")

\* Mutant: the partition guard compares wing and hall only.
PartitionNoSource(r) == <<r.wing, r.hall>>

Partition(r) == <<r.wing, r.hall, r.src>>

\* The metadata maps a caller merges: keys it leaves out are "none" and Never.
MergedMeta == [label : Labels, used : 0..now \cup {Never}]

Merge(r, meta) ==
    [r EXCEPT !.label = Overlay(r.label, meta.label, "none"),
              !.used = Overlay(r.used, meta.used, Never)]

MergeAndDelete(c, winner, losers, meta) ==
    LET found == (losers \ {winner}) \cap Present
        Alike(i) == Partition(drawers[i]) = Partition(drawers[winner])
    IN  /\ Idle(c)
        /\ \/ /\ winner \notin Present
              /\ UNCHANGED tables
              /\ Return("not_found")
           \/ /\ winner \in Present
              /\ \E i \in found : ~Alike(i)
              /\ UNCHANGED tables
              /\ Return("cross_partition")
           \/ /\ winner \in Present
              /\ \A i \in found : Alike(i)
              /\ drawers' = [i \in Ids |->
                               IF i \in found THEN None
                               ELSE IF i = winner THEN Merge(drawers[i], meta)
                               ELSE drawers[i]]
              /\ vecs' = [i \in Ids |-> IF i \in found THEN None ELSE vecs[i]]
              /\ Return("merged")

\* Embed fails, or returns the wrong number of vectors or the wrong
\* dimension: UpsertBatch and Query give up before they touch the database.
EmbedFails(c) ==
    /\ Idle(c)
    /\ UNCHANGED tables
    /\ Return("embedder")

\* A statement or the commit of any call fails and the call rolls back.
DbFails(c) ==
    /\ Idle(c)
    /\ UNCHANGED tables
    /\ Return("db")

-----------------------------------------------------------------------------
(* Query.  The KNN search of sqlite-vec sees only drawers_vec; the join    *)
(* with drawers, the archive filter and the classification filter come     *)
(* after it.  Which rows are nearest depends on the query text, so any     *)
(* subset of the right size may be.                                        *)

InScope(o) == {i \in Indexed : /\ o.wing \in {Unfiltered, vecs[i].wing}
                               /\ o.hall \in {Unfiltered, vecs[i].hall}}

\* The k of the KNN search.
Reach(o) == IF o.label = "none" THEN o.n ELSE Lesser(o.n * OverFetch, OverFetchMax)

Nearest(o) == {S \in SUBSET InScope(o) :
                 Cardinality(S) = Lesser(Reach(o), Cardinality(InScope(o)))}

\* Mutant: the archive filter looks at the shadow row's hall.
JoinedOnShadow(o, S) ==
    {i \in S \cap Present : /\ vecs[i].hall # Archived
                           /\ o.label \in {"none", drawers[i].label}}

Joined(o, S) == {i \in S \cap Present : /\ drawers[i].hall # Archived
                                        /\ o.label \in {"none", drawers[i].label}}

\* The trim back to NResults.
Trimmed(o, J) == {A \in SUBSET J : Cardinality(A) = Lesser(o.n, Cardinality(J))}

Results(o) == UNION {Trimmed(o, Joined(o, S)) : S \in Nearest(o)}

Query(c, o) ==
    /\ Idle(c)
    /\ \E A \in Results(o) :
         /\ answer' = [opts |-> o, ids |-> A]
         /\ pending' = [pending EXCEPT ![c] = IF TrackLastAccessed THEN A ELSE {}]
    /\ reply' = "ok"
    /\ UNCHANGED <<drawers, vecs, now>>

\* The second transaction of a tracked Query.  Its failure is only logged.
QueryTouch(c) ==
    /\ ~Idle(c)
    /\ TouchRows(pending[c]) \/ UNCHANGED drawers
    /\ pending' = [pending EXCEPT ![c] = {}]
    /\ answer' = NoAnswer
    /\ UNCHANGED <<vecs, now, reply>>

Tick ==
    /\ now < MaxTime
    /\ now' = now + 1
    /\ answer' = NoAnswer
    /\ UNCHANGED <<drawers, vecs, pending, reply>>

-----------------------------------------------------------------------------
Call(c) ==
    \/ \E S \in (SUBSET Ids) \ {{}} : \/ \E b \in [S -> NewDrawers] : UpsertBatch(c, b)
                                    \/ DeleteBatch(c, S)
                                    \/ ArchiveDrawers(c, S)
                                    \/ TouchLastAccessed(c, S)
    \/ \E i \in Ids : Delete(c, i)
    \/ \E i \in Ids, S \in SUBSET Ids, m \in MergedMeta : MergeAndDelete(c, i, S, m)
    \/ \E o \in Options : Query(c, o)
    \/ QueryTouch(c)
    \/ EmbedFails(c)
    \/ DbFails(c)

Next == Tick \/ \E c \in Clients : Call(c)

Spec == Init /\ [][Next]_vars

-----------------------------------------------------------------------------
(* Properties. *)

\* A drawer and its shadow row exist together, the shadow row carries the
\* drawer's partition and the embedding of the text it stores now, and only
\* archiving may leave it on another hall (ArchiveDrawers, repair_ops.go:98).
TablesAgree ==
    \A i \in Ids :
      /\ i \in Present <=> i \in Indexed
      /\ i \in Present =>
           /\ vecs[i].emb = Norm[drawers[i].doc]
           /\ vecs[i].wing = drawers[i].wing
           /\ vecs[i].src = drawers[i].src
           /\ vecs[i].hall # drawers[i].hall => drawers[i].hall = Archived

Partitions == {<<drawers[i].wing, drawers[i].hall, drawers[i].src>> : i \in Present}

\* MergeAndDelete never empties a (wing, hall, source_file) partition, whatever
\* losers the caller names: a merge that removes drawers keeps one drawer of
\* every partition that had any ("Dedup MUST NOT cross partition boundaries",
\* palace.go:53).
MergeKeepsPartitions == [][reply' = "merged" => Partitions' = Partitions]_vars

\* What DrawerMap knows of a row.
DrawerOf(r) == [doc |-> r.doc, wing |-> r.wing, hall |-> r.hall, src |-> r.src]

Contents == [i \in Ids |-> IF drawers[i] = None THEN None ELSE DrawerOf(drawers[i])]

Map == INSTANCE DrawerMap WITH contents <- Contents

\* The palace implements the map of drawers it promises: what the calls store,
\* remove and archive is what a user of DrawerMap sees, and every answer of a
\* search, computed from the shadow table, is one DrawerMap allows.
ImplementsMap == Map!MapSpec
=============================================================================
