---------------------------- MODULE PalaceCompact ----------------------------
(***************************************************************************)
(* Palace.Compact over a palace other clients may be using: one SELECT     *)
(* picks the cold drawers, then batches of them are archived or deleted,   *)
(* each in a transaction of its own and none looking at the drawers again. *)
(* An error ends the pass with the batches before it done.                 *)
(* Times are kept as text and compared as text: filed_at in the local zone *)
(* of the day it was written, last_accessed and the cutoff in UTC. What    *)
(* orders two texts is the clock they show; that two times of one second   *)
(* may be ordered by their fractions' length is left out.                  *)
(***************************************************************************)
EXTENDS PalaceStore, Sequences

CONSTANTS
    Compactor,      \* the client the pass runs in
    ColdDays,       \* CompactOptions.ColdDays, in ticks of the clock
    MaxBatches,     \* the CompactOptions.MaxBatch passes are run with
    DefaultMaxBatch,    \* what a MaxBatch <= 0 becomes, 1000
    CompactBatch,   \* drawers per transaction, 100
    Protected,      \* CompactOptions.ProtectedHalls
    Actions,        \* the CompactActions passes are run with
    East, West,     \* how far ahead of UTC, and behind it, a zone can be
    Offset          \* how far the local zone is from UTC at each time: a summer
                    \* time or a journey changes it

ASSUME CompactAssumption ==
    /\ Compactor \in Clients
    /\ ColdDays \in Nat \ {0} /\ MaxBatches \subseteq Int
    /\ DefaultMaxBatch \in Nat \ {0} /\ CompactBatch \in Nat \ {0}
    /\ Protected \subseteq AllHalls
    /\ Actions \subseteq {"archive", "delete"}
    /\ East \in Nat /\ West \in Nat
    /\ Offset \in [Times -> (-West)..East]

VARIABLE pass   \* the Compact that runs

compactVars == <<vars, pass>>

\* alone: the other clients keep away while it runs; before: the cutoff;
\* cap: the LIMIT; picked: SelectedIDs; todo: the part of it not handled yet.
Pass == [step : {"rest", "batch", "failed"}, action : {"archive", "delete"},
         alone : BOOLEAN, before : Int, cap : Nat, picked : SUBSET Ids, todo : Seq(Ids)]

CompactTypeOK == TypeOK /\ pass \in Pass

\* No pass runs: what it knew is gone, but for how it ended.
Ended(step) == [step |-> step, action |-> "archive", alone |-> FALSE,
                before |-> 0, cap |-> 0, picked |-> {}, todo |-> <<>>]

CompactInit == Init /\ pass = Ended("rest")

-----------------------------------------------------------------------------
(* ColdDrawerIDs. *)

\* The clock filed_at shows to one who takes it for UTC.
Shown(r) == r.filed + Offset[r.filed]

\* Mutant: only filed_at is compared with the cutoff.
ColdByFiling(r, before) ==
    /\ Shown(r) < before
    /\ r.hall \notin Protected

\* last_accessed, or filed_at where there is none, reads less than the cutoff.
IsCold(r, before) ==
    /\ Overlay(Shown(r), r.used, Never) < before
    /\ r.hall \notin Protected

Cold(before) == {i \in Present : IsCold(drawers[i], before)}

Cap(max) == IF max <= 0 THEN DefaultMaxBatch ELSE max

\* The orders in which S may come out of ORDER BY filed_at.
ByFiling(S) ==
    {s \in [1..Cardinality(S) -> S] :
       \A a, b \in DOMAIN s :
         a < b => s[a] # s[b] /\ Shown(drawers[s[a]]) <= Shown(drawers[s[b]])}

-----------------------------------------------------------------------------
\* A dry run, and a scan that finds nothing, ends here and changes nothing.
Scan ==
    /\ pass.step # "batch"
    /\ \E action \in Actions, alone \in BOOLEAN, max \in MaxBatches :
         \E s \in ByFiling(Cold(now - ColdDays)) :
           LET picks == SubSeq(s, 1, Lesser(Cap(max), Len(s)))
           IN  /\ picks # <<>>
               /\ pass' = [step |-> "batch", action |-> action, alone |-> alone,
                           before |-> now - ColdDays, cap |-> Cap(max),
                           picked |-> {picks[k] : k \in DOMAIN picks},
                           todo |-> picks]
    /\ UNCHANGED vars

Chunk == SubSeq(pass.todo, 1, Lesser(CompactBatch, Len(pass.todo)))
ChunkIds == {Chunk[k] : k \in DOMAIN Chunk}

\* The loop skips what this transaction handled.
Advance(n) ==
    pass' = IF Len(pass.todo) <= n THEN Ended("rest")
            ELSE [pass EXCEPT !.todo = SubSeq(@, n + 1, Len(@))]

\* Mutant: archiving moves the shadow rows to the archive's partition, not the
\* drawers.
BatchRepartitions ==
    /\ pass.step = "batch"
    /\ IF pass.action = "archive"
       THEN /\ vecs' = [i \in Ids |-> IF i \in ChunkIds /\ vecs[i] # None
                                      THEN [vecs[i] EXCEPT !.hall = Archived]
                                      ELSE vecs[i]]
            /\ UNCHANGED drawers
            /\ Return("ok")
       ELSE DeleteBatch(Compactor, ChunkIds)
    /\ Advance(CompactBatch)

Batch ==
    /\ pass.step = "batch"
    /\ IF pass.action = "archive" THEN ArchiveDrawers(Compactor, ChunkIds)
                                  ELSE DeleteBatch(Compactor, ChunkIds)
    /\ Advance(CompactBatch)

\* The count, the SELECT or a transaction fails.
PassFails ==
    /\ DbFails(Compactor)
    /\ pass' = Ended("failed")

\* What the other clients do; the clock runs on.
Others ==
    /\ \/ Tick
       \/ /\ ~pass.alone
          /\ \E c \in Clients \ {Compactor} : Call(c)
    /\ UNCHANGED pass

CompactNext == Scan \/ Batch \/ PassFails \/ Others

CompactSpec == CompactInit /\ [][CompactNext]_compactVars

-----------------------------------------------------------------------------
(* Properties. *)

\* Unused since before the cutoff, whichever zone it was filed in.
SurelyCold(r, before) ==
    /\ Overlay(r.filed + East, r.used, Never) < before
    /\ r.hall \notin Protected

\* A pass that runs alone, ends well and was not stopped by its cap leaves no
\* drawer where a search would find it that went unused since before its cutoff
\* ("Compact scans cold drawers and archives or deletes them per opts",
\* compact.go:73); one filed less than a zone's distance before the cutoff and
\* never used may stay.
CompactCovers ==
    [][/\ pass.step = "batch" /\ pass'.step = "rest"
       /\ pass.alone /\ Cardinality(pass.picked) < pass.cap
       => \A i \in Present' : SurelyCold(drawers'[i], pass.before) =>
            pass.action = "archive" /\ drawers'[i].hall = Archived]_compactVars

\* A pass that runs alone leaves every drawer used since its cutoff, every one
\* filed more than a zone's distance after it, and every protected one, as it is
\* ("guard against deleting longform memory", repair_ops.go:50), though the clock
\* runs on between its batches.
CompactSparesWarm ==
    [][pass.step = "batch" /\ pass.alone =>
         \A i \in Present :
           drawers'[i] # drawers[i] =>
             /\ drawers[i].used # Never => drawers[i].used < pass.before
             /\ drawers[i].used = Never => drawers[i].filed < pass.before + West
             /\ drawers[i].hall \notin Protected]_compactVars

\* What a capped pass leaves for the next was filed no earlier than anything it
\* takes, as far as one zone wrote both ("compact naturally targets the oldest",
\* repair_ops.go:54).
CompactTakesOldest ==
    [][pass.step # "batch" /\ pass'.step = "batch" =>
         \A i \in pass'.picked, k \in Present \ pass'.picked :
           /\ SurelyCold(drawers[k], pass'.before)
           /\ Offset[drawers[i].filed] = Offset[drawers[k].filed]
           => drawers[i].filed <= drawers[k].filed]_compactVars

\* Whatever a pass does, however its batches interleave with other clients and
\* wherever it fails, is what calls of the palace could have done: the promises
\* of PalaceStore stand (compact.go:109-131).
CompactIsCalls == Spec

\* A pass that runs alone takes what is cold, all of it and the oldest first, and
\* nothing that was used since or is protected, as far as texts of several zones
\* can tell (compact.go:73-133, repair_ops.go:42-95).
LonePassIsExact ==
    /\ []CompactTypeOK
    /\ CompactCovers /\ CompactSparesWarm /\ CompactTakesOldest
=============================================================================
