----------------------------- MODULE PalaceRepair -----------------------------
(***************************************************************************)
(* The repair jobs over a palace other clients may be using: the pass of   *)
(* internal/repair behind `mempalace repair` (scan, prune, rebuild) and    *)
(* the AutoDelete pass of pkg/repair (scan orphans, delete orphans).  A    *)
(* job reads, decides, and writes in later transactions; between any two   *)
(* the clients of PalaceStore run.  The palace it starts from may have     *)
(* drifted: a migration that was cut short leaves drawers without shadow   *)
(* rows (see PalaceMigration), one that raced leaves shadow rows without   *)
(* drawers.                                                                *)
(*                                                                         *)
(* Ids are numbered in the order Get lists them (wing, room, source_file,  *)
(* chunk_index, from which an id is computed).                             *)
(***************************************************************************)
EXTENDS PalaceStore

CONSTANTS
    ScanPage,       \* page of ScanPalace, 1000
    ProbeBatch,     \* batch of its probe, 100
    RebuildPage     \* page of RebuildIndex, 100

ASSUME RepairAssumption ==
    /\ Ids \subseteq Nat
    /\ ScanPage \in Nat \ {0} /\ ProbeBatch \in Nat \ {0} /\ RebuildPage \in Nat \ {0}

VARIABLE job    \* the repair process

Resting == {"idle", "done", "failed"}
Working == {"list", "probe", "prune", "read", "write", "orphans"}

\* alone: clients keep away while it runs; ids: what the job has listed; bad:
\* what it found wrong with them (vecOrphans for the orphan pass); unread: those
\* it could not read; page: the drawers it has read, id |-> row.
Job == [step : Resting \cup Working, alone : BOOLEAN, offset : 0..Cardinality(Ids),
        ids : SUBSET Ids, bad : SUBSET Ids, unread : SUBSET Ids,
        page : [Ids -> Row \cup {None}]]

NoPage == [i \in Ids |-> None]

\* No job runs: what it knew is gone, but for how it ended.
JobEnded(step) == [step |-> step, alone |-> FALSE, offset |-> 0, ids |-> {},
                bad |-> {}, unread |-> {}, page |-> NoPage]

repairVars == <<vars, job>>

RepairTypeOK == TypeOK /\ job \in Job

Orphans == (Present \ Indexed) \cup (Indexed \ Present)

\* A palace whose tables have drifted apart.
DriftedInit ==
    /\ now = 0
    /\ drawers \in [Ids -> NewDrawers \cup {None}]
    /\ \E S \in SUBSET Ids : \E r \in NewDrawers :
         vecs = [i \in Ids |-> IF i \in S THEN None
                               ELSE VecOf(IF drawers[i] = None THEN r ELSE drawers[i])]
    /\ pending = [c \in Clients |-> {}]
    /\ reply = "ok"
    /\ answer = NoAnswer
    /\ job = JobEnded("idle")

\* Get with LIMIT n OFFSET k.
Slice(k, n) ==
    {i \in Present : Cardinality({j \in Present : j < i}) \in k..(k + n - 1)}

-----------------------------------------------------------------------------
(* internal/repair. *)

StartRepair ==
    /\ job.step \in Resting
    /\ \E alone \in BOOLEAN : job' = [job EXCEPT !.step = "list", !.alone = alone]
    /\ UNCHANGED vars

ListPage ==
    LET found == Slice(job.offset, ScanPage)
    IN  /\ job.step = "list"
        /\ job' = [job EXCEPT !.step = IF Cardinality(found) < ScanPage
                                       THEN "probe" ELSE "list",
                              !.ids = @ \cup found,
                              !.offset = @ + Cardinality(found)]
        /\ UNCHANGED vars

\* GetByIDs on a chunk; if the chunk cannot be read, on its ids one by one, and
\* then an id whose row cannot be read counts as bad.
Probe ==
    /\ job.step = "probe"
    /\ \/ /\ job.ids = {}
          /\ job' = [job EXCEPT !.step = "prune"]
       \/ \E chunk \in (SUBSET job.ids) \ {{}} :
            /\ Cardinality(chunk) <= ProbeBatch
            /\ \E unread \in SUBSET chunk :
                 job' = [job EXCEPT !.ids = @ \ chunk, !.unread = @ \cup unread,
                                    !.bad = @ \cup (chunk \ Present) \cup unread]
    /\ UNCHANGED vars

\* PruneCorrupt: a Delete for each bad id, whose failure is only logged.
Prune ==
    /\ job.step = "prune"
    /\ \/ /\ job.bad = {}
          /\ job' = [job EXCEPT !.step = "read", !.offset = 0]
          /\ UNCHANGED tables
       \/ \E i \in job.bad :
            /\ DropRows({i}) \/ UNCHANGED tables
            /\ job' = [job EXCEPT !.bad = @ \ {i}]
    /\ UNCHANGED <<now, pending, reply, answer>>

\* RebuildIndex reads the next page.
ReadPage ==
    LET found == Slice(job.offset, RebuildPage)
    IN  /\ job.step = "read"
        /\ job' = IF found = {} THEN JobEnded("done")
                  ELSE [job EXCEPT
                          !.step = "write",
                          !.page = [i \in Ids |-> IF i \in found THEN drawers[i] ELSE None]]
        /\ UNCHANGED vars

Paged == {i \in Ids : job.page[i] # None}

\* Mutant: a full page is taken for the last.
WritePageLast ==
    /\ job.step = "write"
    /\ PutRows([i \in Paged |-> job.page[i]])
    /\ job' = IF Cardinality(Paged) <= RebuildPage THEN JobEnded("done")
              ELSE [job EXCEPT !.step = "read", !.page = NoPage]
    /\ UNCHANGED <<now, pending, reply, answer>>

\* It writes the page back as it was read.
WritePage ==
    /\ job.step = "write"
    /\ PutRows([i \in Paged |-> job.page[i]])
    /\ job' = IF Cardinality(Paged) < RebuildPage THEN JobEnded("done")
              ELSE [job EXCEPT !.step = "read", !.offset = @ + Cardinality(Paged),
                               !.page = NoPage]
    /\ UNCHANGED <<now, pending, reply, answer>>

-----------------------------------------------------------------------------
(* pkg/repair with ModeAutoDelete. *)

ScanOrphans ==
    /\ job.step \in Resting
    /\ Orphans # {}
    /\ job' = [job EXCEPT !.step = "orphans", !.ids = Present \ Indexed,
                          !.bad = Indexed \ Present]
    /\ UNCHANGED vars

\* Mutant: the orphans are deleted as they were scanned.
DeleteOrphansUnchecked ==
    /\ job.step = "orphans"
    /\ drawers' = [i \in Ids |-> IF i \in job.ids THEN None ELSE drawers[i]]
    /\ vecs' = [i \in Ids |-> IF i \in job.bad THEN None ELSE vecs[i]]
    /\ job' = JobEnded("done")
    /\ UNCHANGED <<now, pending, reply, answer>>

\* The scan is run again inside the write transaction, and what is no longer
\* an orphan is left alone.
DeleteOrphans ==
    /\ job.step = "orphans"
    /\ drawers' = [i \in Ids |-> IF i \in job.ids \cap (Present \ Indexed)
                                 THEN None ELSE drawers[i]]
    /\ vecs' = [i \in Ids |-> IF i \in job.bad \cap (Indexed \ Present)
                              THEN None ELSE vecs[i]]
    /\ job' = JobEnded("done")
    /\ UNCHANGED <<now, pending, reply, answer>>

-----------------------------------------------------------------------------
\* A read, the embedder or a transaction fails, and the pass ends there.
JobFails ==
    /\ job.step \in Working
    /\ job' = JobEnded("failed")
    /\ UNCHANGED vars

JobNext ==
    \/ StartRepair \/ ListPage \/ Probe \/ Prune \/ ReadPage \/ WritePage
    \/ ScanOrphans \/ DeleteOrphans \/ JobFails

ClientNext ==
    /\ ~job.alone
    /\ Next
    /\ UNCHANGED job

RepairNext == JobNext \/ ClientNext

RepairSpec == DriftedInit /\ [][RepairNext]_repairVars

-----------------------------------------------------------------------------
(* Properties. *)

\* No call of the package and no job makes a new orphan, in whatever drifted
\* state it finds the palace: drift only shrinks.
DriftNeverGrows == [][Orphans' \subseteq Orphans]_repairVars

\* An AutoDelete pass never deletes a drawer that has its shadow row when the
\* transaction runs, though it was an orphan when scanned ("to avoid WAL races
\* where a concurrent writer inserts a matching row", repair_ops.go:277).
AutoDeleteSparesLive ==
    [][job.step = "orphans" /\ job'.step = "done" =>
         \A i \in Present \cap Indexed : drawers'[i] = drawers[i] /\ vecs'[i] = vecs[i]]_repairVars

\* A rebuild that runs alone leaves every drawer as the last call before it did
\* ("re-upserts them to force re-embedding", internal/repair/repair.go:135).
RebuildKeepsContents ==
    [][job.step = "write" /\ job.alone => Contents' = Contents]_repairVars

\* A rebuild that ends well has given every drawer its shadow row ("rebuild
\* forces re-embedding of all drawers", internal/repair/repair.go:6).
RebuildCovers ==
    [][job.step \in {"read", "write"} /\ job'.step = "done" => Present' \subseteq Indexed']_repairVars

\* A rebuild that runs alone and ends well does so, in however many pages.
RebuildCoversAlone ==
    [][job.alone /\ job.step \in {"read", "write"} /\ job'.step = "done" =>
         Present' \subseteq Indexed']_repairVars

\* Pruning after a scan that ran alone deletes no drawer but those the scan
\* could not read.
PruneSparesReadable ==
    [][job.step = "prune" /\ job.alone =>
         \A i \in Present \ job.unread : drawers'[i] = drawers[i]]_repairVars

\* What a job may count on when clients keep away: it changes no drawer, deletes
\* none it could read, and a rebuild that ends well has indexed them all
\* (internal/repair/repair.go:64-179).
LoneJobsAreSafe ==
    []RepairTypeOK /\ RebuildKeepsContents /\ RebuildCoversAlone /\ PruneSparesReadable
=============================================================================
