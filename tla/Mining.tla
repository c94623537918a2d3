------------------------------- MODULE Mining -------------------------------
(***************************************************************************)
(* The two miners, internal/miner and internal/convominer, over files that *)
(* are edited and removed while runs of them go on, overlap, fail and      *)
(* crash. A run is a loop over the files it scanned. The project miner     *)
(* stats a file, looks whether its drawers carry that mtime, reads it,     *)
(* purges its drawers one by one and inserts the new ones; the             *)
(* conversation miner takes any drawer for a sign that the file is done.   *)
(* A dry run reads files and calls no palace, and is left out.             *)
(***************************************************************************)
EXTENDS Integers, FiniteSets, FiniteSetsExt

CONSTANTS
    LastFile,       \* files are 1..LastFile, in the order they are mined
    LastVersion,    \* bounds how often a file is edited
    MaxEdits,       \* bounds how often all of them are
    ChunksOf,       \* ChunksOf[v]: how many chunks version v is cut in
    RoomOf,         \* RoomOf[v]: the room its content is detected to be in
    Wings,          \* wings a run may file in; wings and rooms are ordered
    Miners

ASSUME MiningAssumption ==
    /\ LastFile \in Nat \ {0} /\ LastVersion \in Nat \ {0} /\ MaxEdits \in Nat
    /\ ChunksOf \in [1..LastVersion -> Nat] /\ RoomOf \in [1..LastVersion -> Nat]
    /\ Wings \subseteq Nat /\ Wings # {}

VARIABLES
    disk,       \* each file: is it there, and the version it has or last had
    drawers,    \* the drawers in the palace
    run,        \* each miner's run
    spoiled     \* history: files two runs had in hand at once, or whose
                \* drawers the palace failed to list

vars == <<disk, drawers, run, spoiled>>

Files == 1..LastFile
Versions == 1..LastVersion
Modes == {"project", "convos"}

\* An edit sets the mtime, so that the version stands for it; 0 is what the
\* conversation miner records.
Drawer == [file : Files, wing : Wings, room : Nat, index : Nat,
           version : Versions, mtime : 0..LastVersion]

Steps == {"rest", "failed", "stat", "look", "read", "list", "purge", "store"}

\* file: in hand, with its mtime and version; todo: the files left after it;
\* owes: the versions of the files a run that is alone scanned and could read,
\* else 0; purge: drawers still to delete.
Run == [step : Steps, mode : Modes, wing : Wings, alone : BOOLEAN,
        file : Files, todo : SUBSET Files, owes : [Files -> 0..LastVersion],
        mtime : 0..LastVersion, version : 0..LastVersion, purge : SUBSET Drawer]

Ended(step) ==
    [step |-> step, mode |-> "project", wing |-> CHOOSE w \in Wings : TRUE,
     alone |-> FALSE, file |-> 1, todo |-> {}, owes |-> [f \in Files |-> 0],
     mtime |-> 0, version |-> 0, purge |-> {}]

MiningTypeOK ==
    /\ disk \in [Files -> [there : BOOLEAN, version : 0..LastVersion]]
    /\ drawers \subseteq Drawer
    /\ run \in [Miners -> Run]
    /\ spoiled \subseteq Files

Init ==
    /\ disk = [f \in Files |-> [there |-> FALSE, version |-> 0]]
    /\ drawers = {}
    /\ run = [m \in Miners |-> Ended("rest")]
    /\ spoiled = {}

-----------------------------------------------------------------------------
(* The palace, as the miners use it. *)

DrawersOf(f) == {d \in drawers : d.file = f}

\* Get orders by wing, room, source_file and chunk_index.
Before(d, e) ==
    \/ d.wing < e.wing
    \/ d.wing = e.wing /\ d.room < e.room
    \/ d.wing = e.wing /\ d.room = e.room /\ d.index < e.index

IsFirst(d, S) == d \in S /\ \A e \in S \ {d} : Before(d, e)

\* ComputeDrawerID: the wing, the room, and a hash of source and index.
SameId(d, e) == /\ d.file = e.file /\ d.wing = e.wing
                /\ d.room = e.room /\ d.index = e.index

\* The drawers made of version v of f, all with the mtime the run recorded.
Batch(f, w, v, mtime) ==
    {[file |-> f, wing |-> w, room |-> RoomOf[v], index |-> i,
      version |-> v, mtime |-> mtime] : i \in 0..(ChunksOf[v] - 1)}

\* UpsertBatch: one transaction, replacing drawers that have the id.
Upserted(new) == {d \in drawers : ~\E e \in new : SameId(d, e)} \union new

\* The mtime check of the project miner: Get with Limit 1.
AlreadyMined(f, mtime) == \E d \in DrawersOf(f) : IsFirst(d, DrawersOf(f)) /\ d.mtime = mtime

-----------------------------------------------------------------------------
(* The files. *)

Edits == MapThenSumSet(LAMBDA g : disk[g].version, Files)

Edit(f) ==
    /\ disk[f].version < LastVersion /\ Edits < MaxEdits
    /\ disk' = [disk EXCEPT ![f] = [there |-> TRUE, version |-> @.version + 1]]
    /\ UNCHANGED <<drawers, run, spoiled>>

Unlink(f) ==
    /\ disk[f].there
    /\ disk' = [disk EXCEPT ![f].there = FALSE]
    /\ UNCHANGED <<drawers, run, spoiled>>

-----------------------------------------------------------------------------
(* A run. *)

Idle(r) == r.step \in {"rest", "failed"}
Working(m) == ~Idle(run[m])
FileOf(m) == run[m].file

\* Files two runs r have in hand.
Overlaps(r) ==
    {f \in Files : \E m, n \in Miners :
       m # n /\ \A k \in {m, n} : ~Idle(r[k]) /\ r[k].file = f}

\* m goes on with r, having met the files lost without an answer about them.
Proceeds(m, r, lost) ==
    /\ run' = [run EXCEPT ![m] = r]
    /\ spoiled' = spoiled \union Overlaps(run') \union lost
    /\ UNCHANGED disk

\* The same, with the palace unchanged.
Becomes(m, r) == Proceeds(m, r, {}) /\ UNCHANGED drawers

FirstStep(mode) == IF mode = "project" THEN "stat" ELSE "look"

TurnTo(r, f) ==
    [r EXCEPT !.step = FirstStep(r.mode), !.file = f, !.todo = @ \ {f},
              !.mtime = 0, !.version = 0, !.purge = {}]

\* The next file, or the end of the run.
NextFile(m, r) ==
    IF r.todo = {} THEN Proceeds(m, Ended("rest"), {})
    ELSE \E f \in r.todo : (\A g \in r.todo : f <= g) /\ Proceeds(m, TurnTo(r, f), {})

Skip(m, r) == NextFile(m, r) /\ UNCHANGED drawers

\* The scan, in order and cut at opts.Limit. A run that is alone keeps others
\* from starting.
Start(m, mode, wing, alone, limit) ==
    LET scan == {f \in Files : disk[f].there}
        todo == {f \in scan : limit = 0 \/ Cardinality({g \in scan : g <= f}) <= limit}
    IN  /\ ~Working(m)
        /\ \A n \in Miners : ~run[n].alone /\ (alone => ~Working(n))
        /\ Skip(m, [Ended("rest") EXCEPT
                      !.mode = mode, !.wing = wing, !.alone = alone, !.todo = todo,
                      !.owes = [f \in Files |-> IF alone /\ f \in todo
                                                THEN disk[f].version ELSE 0]])

\* os.Stat.
Stat(m) ==
    /\ run[m].step = "stat"
    /\ IF disk[FileOf(m)].there
       THEN Becomes(m, [run[m] EXCEPT !.step = "look", !.mtime = disk[FileOf(m)].version])
       ELSE Skip(m, run[m])

\* Mutant: the project miner too takes any drawer for a sign the file is done.
LookByExistence(m) ==
    /\ run[m].step = "look"
    /\ IF DrawersOf(FileOf(m)) # {}
       THEN Skip(m, run[m]) ELSE Becomes(m, [run[m] EXCEPT !.step = "read"])

\* alreadyMined, which takes an error for a no: the conversation miner then
\* inserts over what is there, and the project miner purges drawers that are up
\* to date, so that a crash leaves some that pass for all.
Look(m) ==
    /\ run[m].step = "look"
    /\ LET f == FileOf(m)
           done == IF run[m].mode = "project" THEN AlreadyMined(f, run[m].mtime)
                                              ELSE DrawersOf(f) # {}
       IN  \/ IF done THEN Skip(m, run[m]) ELSE Becomes(m, [run[m] EXCEPT !.step = "read"])
           \/ Proceeds(m, [run[m] EXCEPT !.step = "read"], {f}) /\ UNCHANGED drawers

\* Normalize, and the cutting in chunks. A file that is gone, unreadable or too
\* short is skipped with its old drawers left in place.
Read(m) ==
    /\ run[m].step = "read"
    /\ LET d == disk[FileOf(m)]
       IN  \/ Skip(m, [run[m] EXCEPT !.owes[FileOf(m)] = 0])
           \/ /\ d.there /\ ChunksOf[d.version] > 0
              /\ Becomes(m, [run[m] EXCEPT
                   !.version = d.version,
                   !.step = IF run[m].mode = "project" THEN "list" ELSE "store"])

\* The drawers to purge. If they cannot be listed none is purged.
List(m) ==
    /\ run[m].step = "list"
    /\ \/ Becomes(m, [run[m] EXCEPT !.step = "purge", !.purge = DrawersOf(FileOf(m))])
       \/ Proceeds(m, [run[m] EXCEPT !.step = "store"], {FileOf(m)}) /\ UNCHANGED drawers

\* The run ends where it is, with an error.
Abort(m) == Becomes(m, Ended("failed"))

\* Mutant: the purge stops short of the last drawer.
PurgeShort(m) ==
    /\ run[m].step = "purge"
    /\ IF Cardinality(run[m].purge) <= 1 THEN Becomes(m, [run[m] EXCEPT !.step = "store"])
       ELSE \E d \in run[m].purge :
              /\ IsFirst(d, run[m].purge)
              /\ IF \E e \in drawers : SameId(d, e)
                 THEN /\ drawers' = {e \in drawers : ~SameId(d, e)}
                      /\ Proceeds(m, [run[m] EXCEPT !.purge = @ \ {d}], {})
                 ELSE Abort(m)

\* Mutant: a drawer that is gone already leaves the purge where it is.
PurgeInsists(m) ==
    /\ run[m].step = "purge"
    /\ IF run[m].purge = {} THEN Becomes(m, [run[m] EXCEPT !.step = "store"])
       ELSE \E d \in run[m].purge :
              /\ IsFirst(d, run[m].purge)
              /\ drawers' = {e \in drawers : ~SameId(d, e)}
              /\ Proceeds(m, IF \E e \in drawers : SameId(d, e)
                             THEN [run[m] EXCEPT !.purge = @ \ {d}] ELSE run[m], {})

\* Delete of the next drawer, which fails if another run has deleted it.
Purge(m) ==
    /\ run[m].step = "purge"
    /\ IF run[m].purge = {} THEN Becomes(m, [run[m] EXCEPT !.step = "store"])
       ELSE \E d \in run[m].purge :
              /\ IsFirst(d, run[m].purge)
              /\ IF \E e \in drawers : SameId(d, e)
                 THEN /\ drawers' = {e \in drawers : ~SameId(d, e)}
                      /\ Proceeds(m, [run[m] EXCEPT !.purge = @ \ {d}], {})
                 ELSE Abort(m)

\* Mutant: the mtime is the one the file has when its drawers are stored.
StoreRestats(m) ==
    /\ run[m].step = "store"
    /\ drawers' = Upserted(Batch(FileOf(m), run[m].wing, run[m].version,
                                 disk[FileOf(m)].version))
    /\ NextFile(m, run[m])

\* UpsertBatch of the chunks, with the mtime of the stat.
Store(m) ==
    /\ run[m].step = "store"
    /\ drawers' = Upserted(Batch(FileOf(m), run[m].wing, run[m].version, run[m].mtime))
    /\ NextFile(m, run[m])

\* The run crashes, or a Delete or an UpsertBatch fails.
Crash(m) ==
    /\ Working(m)
    /\ Abort(m)

Step(m) == Stat(m) \/ Look(m) \/ Read(m) \/ List(m) \/ Purge(m) \/ Store(m)

Next ==
    \/ \E f \in Files : Edit(f) \/ Unlink(f)
    \/ \E m \in Miners :
         \/ \E mode \in Modes, wing \in Wings, alone \in BOOLEAN, limit \in 0..LastFile :
              Start(m, mode, wing, alone, limit)
         \/ Step(m) \/ Crash(m)

Spec == Init /\ [][Next]_vars /\ \A m \in Miners : WF_vars(Step(m))

-----------------------------------------------------------------------------
(* Properties. *)

\* What is left of a file that no two runs had in hand is of one version, one
\* wing and one mtime, whatever crashed half way through a purge
\* (miner.go:170-203).
OneVersion ==
    \A f \in Files \ spoiled : \E w \in Wings, v \in Versions, t \in 0..LastVersion :
        t <= v /\ DrawersOf(f) \subseteq Batch(f, w, v, t)

\* A file the next run of the project miner would skip has the drawers of the
\* version that is on disk, all of them and no other ("re-mining a project
\* skips unchanged files", miner.go:244): an mtime read before the content, a
\* crash and an edit at any point only ever lead to a file being mined again.
SkippedIsCurrent ==
    \A f \in Files \ spoiled :
        disk[f].there /\ AlreadyMined(f, disk[f].version)
          => \E w \in Wings : DrawersOf(f) = Batch(f, w, disk[f].version, disk[f].version)

\* A run that is alone and comes to its end handled every file it scanned: one
\* that did not change and has text is skipped by the next run
\* (miner.go:117-209).
RunCovers ==
    [][\A m \in Miners :
         Working(m) /\ run'[m].step = "rest" /\ run[m].mode = "project"
         => \A f \in Files \ spoiled' :
              /\ run[m].owes[f] # 0 /\ run[m].owes[f] = disk[f].version
              /\ disk[f].there /\ (run[m].step = "read" => f # FileOf(m))
              => AlreadyMined(f, disk[f].version)']_vars

\* A run that has started ends, however others and editors get in its way.
RunEnds == \A m \in Miners : Working(m) ~> ~Working(m)
=============================================================================
