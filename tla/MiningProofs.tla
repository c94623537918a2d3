---------------------------- MODULE MiningProofs ----------------------------
(***************************************************************************)
(* Mining for any number of files, versions, wings and miners: whatever    *)
(* crashes, fails or is edited half way, a file that one run at a time has *)
(* in hand ends up with the drawers of one version, and with all of them   *)
(* if it is ever skipped. And for a conversation of any length: its        *)
(* speakers and exchanges are kept from the export to the chunks.          *)
(***************************************************************************)
EXTENDS Mining, Transcripts, FiniteSetTheorems, WellFoundedInduction, TLAPS

-----------------------------------------------------------------------------
(* The invariant. *)

\* What a run knows of the file it has in hand was true of it once.
RunRight(r) ==
    /\ \A d \in r.purge : d.file = r.file
    /\ ~Idle(r) =>
         /\ r.mtime <= disk[r.file].version /\ r.version <= disk[r.file].version
         /\ r.mode = "convos" => r.mtime = 0 /\ r.step \in {"look", "read", "store"}
         /\ r.step \in {"list", "purge", "store"} => r.version \in Versions /\ r.mtime <= r.version

\* The drawers of the file in hand: none newer than the mtime the run has, all
\* older once it has looked, among those to purge, and none when it stores.
HandRight(r) ==
    ~Idle(r) /\ r.file \notin spoiled =>
        /\ r.mode = "project" /\ r.step # "stat" =>
             \A d \in DrawersOf(r.file) : d.mtime <= r.mtime
        /\ r.mode = "project" /\ r.step \in {"read", "list", "purge"} =>
             \A d \in DrawersOf(r.file) : d.mtime < r.mtime
        /\ r.step = "purge" => DrawersOf(r.file) \subseteq r.purge
        /\ r.step = "store" \/ (r.mode = "convos" /\ r.step = "read") => DrawersOf(r.file) = {}

\* The drawers of a file are a batch, or what a purge has left of one that is
\* out of date.
FileRight(f) ==
    DrawersOf(f) # {} =>
        \E w \in Wings, v \in Versions, t \in 0..LastVersion :
            /\ t <= v /\ v <= disk[f].version
            /\ DrawersOf(f) \subseteq Batch(f, w, v, t)
            /\ DrawersOf(f) = Batch(f, w, v, t) \/ t < disk[f].version

MiningInv ==
    /\ MiningTypeOK
    /\ \A f \in Files : disk[f].there => disk[f].version \in Versions
    /\ Overlaps(run) \subseteq spoiled
    /\ \A m \in Miners : RunRight(run[m]) /\ HandRight(run[m])
    /\ \A f \in Files \ spoiled : FileRight(f)

-----------------------------------------------------------------------------
(* Lemmas about the parts. *)

\* Of the drawers of a batch one comes first in the order of Get.
LEMMA LeastNat ==
  ASSUME NEW T, T \subseteq Nat, T # {}
  PROVE  \E x \in T : \A y \in T : x <= y
<1> DEFINE Less == {ss \in Nat \X Nat : ss[1] < ss[2]}
<1>1. IsWellFoundedOn(Less, Nat)
  BY NatLessThanWellFounded, Zenon DEF OpToRel
<1>2. \A x, y \in Nat : x < y => <<x, y>> \in Less
  OBVIOUS
<1> HIDE DEF Less
<1>3. PICK x \in T : \A y \in T : ~(<<y, x>> \in Less)
  BY <1>1, WFMin, Zenon
<1>4. ASSUME NEW y \in T PROVE x <= y
  <2>1. ~(<<y, x>> \in Less)
    BY <1>3
  <2>2. y \in Nat /\ x \in Nat
    OBVIOUS
  <2>3. ~(y < x)
    BY <1>2, <2>1, <2>2, Zenon
  <2> QED BY <2>2, <2>3
<1> QED BY <1>4

LEMMA BatchIsTyped ==
  ASSUME NEW f \in Files, NEW w \in Wings, NEW v \in Versions, NEW t \in 0..LastVersion
  PROVE  /\ Batch(f, w, v, t) \subseteq Drawer
         /\ \A d \in Batch(f, w, v, t) :
              d.file = f /\ d.wing = w /\ d.room = RoomOf[v] /\ d.version = v /\ d.mtime = t
         /\ \A d, e \in Batch(f, w, v, t) : d.index = e.index => d = e
<1>1. ChunksOf[v] \in Nat /\ RoomOf[v] \in Nat
  BY MiningAssumption DEF Versions
<1>2. \A i \in 0..(ChunksOf[v] - 1) : i \in Nat
  BY <1>1
<1> QED BY <1>1, <1>2 DEF Batch, Drawer

LEMMA FirstOfBatch ==
  ASSUME NEW f \in Files, NEW w \in Wings, NEW v \in Versions, NEW t \in 0..LastVersion,
         NEW S, S \subseteq Batch(f, w, v, t), S # {}
  PROVE  \E d \in S : IsFirst(d, S)
<1> DEFINE T == {d.index : d \in S}
<1>1. /\ \A d \in S : d \in Drawer /\ d.wing = w /\ d.room = RoomOf[v]
      /\ \A d, e \in S : d.index = e.index => d = e
  BY BatchIsTyped
<1>2. T \subseteq Nat /\ T # {}
  BY <1>1 DEF Drawer
<1>3. PICK x \in T : \A y \in T : x <= y
  <2> HIDE DEF T
  <2> QED BY <1>2, LeastNat
<1>4. PICK d \in S : d.index = x
  OBVIOUS
<1>5. ASSUME NEW e \in S \ {d} PROVE Before(d, e)
  <2>1. e.index \in Nat /\ x \in Nat
    BY <1>2
  <2>2. x <= e.index /\ e.index # x
    BY <1>1, <1>3, <1>4
  <2>3. d.index < e.index
    BY <2>1, <2>2, <1>4
  <2> QED BY <2>3, <1>1 DEF Before
<1> QED BY <1>5 DEF IsFirst

\* A look that finds no drawer of the mtime says so of all of them.
LEMMA NotMinedIsOlder ==
  ASSUME MiningTypeOK, NEW f \in Files, FileRight(f), NEW mtime \in 0..LastVersion,
         ~AlreadyMined(f, mtime), \A d \in DrawersOf(f) : d.mtime <= mtime
  PROVE  \A d \in DrawersOf(f) : d.mtime < mtime
<1> SUFFICES ASSUME DrawersOf(f) # {} PROVE \A d \in DrawersOf(f) : d.mtime < mtime
  OBVIOUS
<1>1. PICK w \in Wings, v \in Versions, t \in 0..LastVersion : DrawersOf(f) \subseteq Batch(f, w, v, t)
  BY DEF FileRight
<1>2. PICK d \in DrawersOf(f) : IsFirst(d, DrawersOf(f))
  BY <1>1, FirstOfBatch
<1>3. d.mtime = t /\ \A e \in DrawersOf(f) : e.mtime = t
  BY <1>1, BatchIsTyped
<1>4. t # mtime
  BY <1>2, <1>3 DEF AlreadyMined
<1>5. t <= mtime
  BY <1>3
<1>6. t < mtime
  BY <1>4, <1>5
<1> QED BY <1>3, <1>6

\* The drawers of other files stay when one's are replaced.
LEMMA UpsertedOthers ==
  ASSUME NEW f \in Files, NEW w \in Wings, NEW v \in Versions, NEW t \in 0..LastVersion,
         MiningTypeOK, drawers' = Upserted(Batch(f, w, v, t))
  PROVE  /\ drawers' \subseteq Drawer
         /\ \A g \in Files \ {f} : DrawersOf(g)' = DrawersOf(g)
         /\ DrawersOf(f) = {} => DrawersOf(f)' = Batch(f, w, v, t)
<1>1. Batch(f, w, v, t) \subseteq Drawer /\ \A d \in Batch(f, w, v, t) : d.file = f
  BY BatchIsTyped
<1> QED BY <1>1 DEF MiningTypeOK, Upserted, SameId, DrawersOf

\* A step of m that gives it r and changes the drawers of its own file at most.
LEMMA StepKeeps ==
  ASSUME MiningInv, NEW m \in Miners, NEW r \in Run, NEW lost \in SUBSET Files,
         Proceeds(m, r, lost), drawers' \subseteq Drawer,
         \A f \in Files : DrawersOf(f)' = DrawersOf(f) \/ (Working(m) /\ f = run[m].file),
         RunRight(r), HandRight(r)',
         \A f \in Files \ spoiled' : Working(m) /\ f = run[m].file => FileRight(f)'
  PROVE  MiningInv'
<1>1. /\ run' = [run EXCEPT ![m] = r] /\ disk' = disk
      /\ spoiled' = spoiled \union Overlaps(run') \union lost
  BY DEF Proceeds
<1>2. run \in [Miners -> Run]
  BY DEF MiningInv, MiningTypeOK
<1>3. run' \in [Miners -> Run] /\ run'[m] = r /\ \A n \in Miners \ {m} : run'[n] = run[n]
  BY <1>1, <1>2
<1>4. MiningTypeOK'
  BY <1>1, <1>3 DEF MiningInv, MiningTypeOK, Overlaps
<1>8. \A f \in Files : disk'[f].there => disk'[f].version \in Versions
  BY <1>1 DEF MiningInv
<1>5. Overlaps(run)' \subseteq spoiled'
  BY <1>1 DEF Overlaps
<1>6. ASSUME NEW n \in Miners PROVE RunRight(run[n])' /\ HandRight(run[n])'
  <2>1. CASE n = m
    BY <2>1, <1>1, <1>3 DEF RunRight, HandRight
  <2>2. CASE n # m
    <3>1. run'[n] = run[n] /\ RunRight(run[n]) /\ HandRight(run[n]) /\ run[n].file \in Files
      BY <2>2, <1>2, <1>3 DEF MiningInv, Run
    <3>2. RunRight(run[n])'
      BY <3>1, <1>1 DEF RunRight
    <3>3. HandRight(run[n])'
      <4> SUFFICES ASSUME ~Idle(run[n]), run[n].file \notin spoiled' PROVE HandRight(run[n])'
        BY <3>1 DEF HandRight
      <4>1. run[n].file \notin spoiled
        BY <1>1
      <4>2. ~(Working(m) /\ run[m].file = run[n].file)
        BY <4>1, <3>1, <2>2 DEF MiningInv, Overlaps, Working
      <4>3. DrawersOf(run[n].file)' = DrawersOf(run[n].file)
        BY <4>2, <3>1
      <4> QED BY <4>1, <4>3, <3>1 DEF HandRight
    <3> QED BY <3>2, <3>3
  <2> QED BY <2>1, <2>2
<1>7. ASSUME NEW f \in Files \ spoiled' PROVE FileRight(f)'
  <2>1. f \notin spoiled
    BY <1>1
  <2>2. CASE Working(m) /\ f = run[m].file
    BY <2>2
  <2>3. CASE ~(Working(m) /\ f = run[m].file)
    <3>1. FileRight(f) /\ DrawersOf(f)' = DrawersOf(f)
      BY <2>1, <2>3 DEF MiningInv
    <3> QED BY <3>1, <1>1 DEF FileRight, Batch
  <2> QED BY <2>2, <2>3
<1> QED BY <1>4, <1>5, <1>6, <1>7, <1>8 DEF MiningInv

-----------------------------------------------------------------------------
(* One lemma per step of a run. *)

\* What an ended run, or one that turns to its next file, knows is nothing.
LEMMA EndedIsRight ==
  ASSUME NEW step \in {"rest", "failed"}, NEW lost
  PROVE  Ended(step) \in Run /\ RunRight(Ended(step)) /\ HandRight(Ended(step))'
<1>1. (CHOOSE w \in Wings : TRUE) \in Wings
  BY MiningAssumption
<1>2. Ended(step) \in Run
  BY <1>1, MiningAssumption DEF Ended, Run, Steps, Modes, Files
<1> QED BY <1>2 DEF Ended, RunRight, HandRight, Idle

LEMMA TurnedIsRight ==
  ASSUME MiningTypeOK, NEW r \in Run, NEW f \in r.todo
  PROVE  TurnTo(r, f) \in Run /\ RunRight(TurnTo(r, f)) /\ HandRight(TurnTo(r, f))'
<1> DEFINE q == TurnTo(r, f)
<1>1. r.mode \in Modes /\ r.todo \subseteq Files /\ f \in Files
  BY DEF Run
<1>2. FirstStep(r.mode) \in {"stat", "look"} /\ (FirstStep(r.mode) = "stat" <=> r.mode = "project")
  BY <1>1 DEF FirstStep, Modes
<1>3. 0 \in 0..LastVersion
  BY MiningAssumption
<1>4. /\ q \in Run
      /\ q.step = FirstStep(r.mode) /\ q.mode = r.mode /\ q.file = f /\ q.purge = {}
      /\ q.mtime = 0 /\ q.version = 0
  BY <1>1, <1>2, <1>3 DEF TurnTo, Run, Steps
<1>5. disk[f].version \in 0..LastVersion
  BY <1>1 DEF MiningTypeOK
<1> HIDE DEF q
<1>6. RunRight(q)
  BY <1>1, <1>2, <1>4, <1>5 DEF RunRight, Modes
<1>7. HandRight(q)'
  BY <1>1, <1>2, <1>4 DEF HandRight, Modes
<1> QED BY <1>4, <1>6, <1>7 DEF q

LEMMA NextFileKeeps ==
  ASSUME MiningInv, NEW m \in Miners, NEW r \in Run, NextFile(m, r), drawers' \subseteq Drawer,
         \A f \in Files : DrawersOf(f)' = DrawersOf(f) \/ (Working(m) /\ f = run[m].file),
         \A f \in Files \ spoiled' : Working(m) /\ f = run[m].file => FileRight(f)'
  PROVE  MiningInv'
<1>1. CASE r.todo = {}
  <2>1. Proceeds(m, Ended("rest"), {})
    BY <1>1 DEF NextFile
  <2>2. Ended("rest") \in Run /\ RunRight(Ended("rest")) /\ HandRight(Ended("rest"))'
    BY EndedIsRight
  <2> QED BY <2>1, <2>2, StepKeeps
<1>2. CASE r.todo # {}
  <2>1. PICK f \in r.todo : Proceeds(m, TurnTo(r, f), {})
    BY <1>2 DEF NextFile
  <2>2. TurnTo(r, f) \in Run /\ RunRight(TurnTo(r, f)) /\ HandRight(TurnTo(r, f))'
    BY TurnedIsRight DEF MiningInv
  <2> QED BY <2>1, <2>2, StepKeeps
<1> QED BY <1>1, <1>2

\* A step that leaves the drawers alone.
LEMMA QuietStepKeeps ==
  ASSUME MiningInv, NEW m \in Miners, NEW r \in Run, NEW lost \in SUBSET Files,
         Proceeds(m, r, lost), UNCHANGED drawers, RunRight(r), HandRight(r)'
  PROVE  MiningInv'
<1>1. spoiled \subseteq spoiled' /\ disk' = disk
  BY DEF Proceeds
<1>2. \A f \in Files : DrawersOf(f)' = DrawersOf(f)
  BY DEF DrawersOf
<1>3. \A f \in Files \ spoiled' : FileRight(f)'
  BY <1>1, <1>2 DEF MiningInv, FileRight, Batch
<1>4. drawers' \subseteq Drawer
  BY DEF MiningInv, MiningTypeOK
<1> QED BY <1>2, <1>3, <1>4, StepKeeps

LEMMA SkipKeeps ==
  ASSUME MiningInv, NEW m \in Miners, NEW r \in Run, Skip(m, r)
  PROVE  MiningInv'
<1>1. \A f \in Files : DrawersOf(f)' = DrawersOf(f)
  BY DEF Skip, DrawersOf
<1>2. spoiled \subseteq spoiled' /\ disk' = disk
  BY DEF Skip, NextFile, Proceeds
<1>3. \A f \in Files \ spoiled' : FileRight(f)'
  BY <1>1, <1>2 DEF MiningInv, FileRight, Batch
<1>4. drawers' \subseteq Drawer /\ NextFile(m, r)
  BY DEF Skip, MiningInv, MiningTypeOK
<1> QED BY <1>1, <1>3, <1>4, NextFileKeeps

LEMMA AbortKeeps ==
  ASSUME MiningInv, NEW m \in Miners, Abort(m)
  PROVE  MiningInv'
<1>1. Ended("failed") \in Run /\ RunRight(Ended("failed")) /\ HandRight(Ended("failed"))'
  BY EndedIsRight
<1> QED BY <1>1, QuietStepKeeps DEF Abort, Becomes

LEMMA StartKeeps ==
  ASSUME MiningInv, NEW m \in Miners, NEW mode \in Modes, NEW wing \in Wings,
         NEW alone \in BOOLEAN, NEW limit \in 0..LastFile, Start(m, mode, wing, alone, limit)
  PROVE  MiningInv'
<1> DEFINE scan == {f \in Files : disk[f].there}
           todo == {f \in scan : limit = 0 \/ Cardinality({g \in scan : g <= f}) <= limit}
           owes == [f \in Files |-> IF alone /\ f \in todo THEN disk[f].version ELSE 0]
           r == [Ended("rest") EXCEPT !.mode = mode, !.wing = wing, !.alone = alone,
                                      !.todo = todo, !.owes = owes]
<1>1. todo \subseteq Files
  OBVIOUS
<1>2. owes \in [Files -> 0..LastVersion]
  BY MiningAssumption DEF MiningInv, MiningTypeOK
<1>3. Skip(m, r)
  BY DEF Start
<1> HIDE DEF todo, owes
<1>4. r \in Run
  BY <1>1, <1>2, EndedIsRight DEF Run
<1> HIDE DEF r
<1> QED BY <1>3, <1>4, SkipKeeps

LEMMA StatKeeps ==
  ASSUME MiningInv, NEW m \in Miners, Stat(m)
  PROVE  MiningInv'
<1>1. run[m] \in Run /\ RunRight(run[m]) /\ HandRight(run[m]) /\ run[m].step = "stat"
  BY DEF Stat, MiningInv, MiningTypeOK
<1>2. PICK f \in Files : f = run[m].file
  BY <1>1 DEF Run
<1>3. disk[f].version \in 0..LastVersion
  BY DEF MiningInv, MiningTypeOK
<1>4. CASE disk[f].there
  <2>1. [run[m] EXCEPT !.step = "look", !.mtime = disk[f].version] \in Run
    BY <1>1, <1>3 DEF Run, Steps
  <2>2. PICK r \in Run : r = [run[m] EXCEPT !.step = "look", !.mtime = disk[f].version]
    BY <2>1
  <2>3. /\ r.step = "look" /\ r.mtime = disk[f].version /\ r.file = f
        /\ r.mode = run[m].mode /\ r.purge = run[m].purge /\ r.version = run[m].version
    BY <1>1, <1>2, <2>2 DEF Run
  <2>4. ~Idle(run[m]) /\ run[m].mode = "project"
    BY <1>1 DEF Idle, RunRight, Run, Modes
  <2>5. Becomes(m, r)
    BY <1>2, <1>4, <2>2 DEF Stat, FileOf
  <2>6. /\ UNCHANGED <<drawers, disk>> /\ spoiled \subseteq spoiled' /\ Proceeds(m, r, {})
    BY <2>5 DEF Becomes, Proceeds
  <2>7. RunRight(r)
    BY <1>1, <1>2, <1>3, <2>3, <2>4 DEF RunRight
  <2>8. HandRight(r)'
    <3> SUFFICES ASSUME f \notin spoiled' PROVE \A d \in DrawersOf(f) : d.mtime <= disk[f].version
      BY <2>3, <2>4, <2>6 DEF HandRight, DrawersOf
    <3>1. FileRight(f)
      BY <2>6 DEF MiningInv
    <3> SUFFICES ASSUME NEW d \in DrawersOf(f) PROVE d.mtime <= disk[f].version
      OBVIOUS
    <3>2. PICK w \in Wings, v \in Versions, t \in 0..LastVersion :
            t <= v /\ v <= disk[f].version /\ DrawersOf(f) \subseteq Batch(f, w, v, t)
      BY <3>1 DEF FileRight
    <3>3. d.mtime = t /\ v \in Int
      BY <3>2, BatchIsTyped DEF Versions
    <3> QED BY <3>2, <3>3, <1>3
  <2> QED BY <2>6, <2>7, <2>8, QuietStepKeeps
<1>5. CASE ~disk[f].there
  BY <1>1, <1>2, <1>5, SkipKeeps DEF Stat, FileOf
<1> QED BY <1>4, <1>5

LEMMA LookKeeps ==
  ASSUME MiningInv, NEW m \in Miners, Look(m)
  PROVE  MiningInv'
<1>1. run[m] \in Run /\ RunRight(run[m]) /\ HandRight(run[m]) /\ run[m].step = "look"
  BY DEF Look, MiningInv, MiningTypeOK
<1>2. PICK f \in Files : f = run[m].file
  BY <1>1 DEF Run
<1>3. [run[m] EXCEPT !.step = "read"] \in Run
  BY <1>1 DEF Run, Steps
<1>4. PICK r \in Run : r = [run[m] EXCEPT !.step = "read"]
  BY <1>3
<1>5. /\ r.step = "read" /\ r.mode = run[m].mode /\ r.file = f /\ r.purge = run[m].purge
      /\ r.mtime = run[m].mtime /\ r.version = run[m].version /\ r.mode \in Modes
  BY <1>1, <1>2, <1>4 DEF Run
<1>6. RunRight(r)
  BY <1>1, <1>2, <1>5 DEF RunRight, Idle
<1> DEFINE done == IF run[m].mode = "project" THEN AlreadyMined(f, run[m].mtime)
                                              ELSE DrawersOf(f) # {}
<1>7. CASE done /\ Skip(m, run[m])
  BY <1>1, <1>7, SkipKeeps
<1>8. CASE ~done /\ Becomes(m, r)
  <2>1. Proceeds(m, r, {}) /\ UNCHANGED drawers /\ spoiled \subseteq spoiled'
    BY <1>8 DEF Becomes, Proceeds
  <2>2. HandRight(r)'
    <3> SUFFICES ASSUME f \notin spoiled'
                 PROVE  /\ r.mode = "project" => \A d \in DrawersOf(f) : d.mtime < run[m].mtime
                        /\ r.mode = "project" => \A d \in DrawersOf(f) : d.mtime <= run[m].mtime
                        /\ r.mode = "convos" => DrawersOf(f) = {}
      BY <1>5, <2>1 DEF HandRight, DrawersOf
    <3>1. FileRight(f) /\ f \notin spoiled
      BY <2>1 DEF MiningInv
    <3>2. CASE r.mode = "project"
      <4>1. \A d \in DrawersOf(f) : d.mtime <= run[m].mtime
        BY <1>1, <1>2, <1>5, <3>1, <3>2 DEF HandRight, Idle
      <4>2. run[m].mtime \in 0..LastVersion /\ MiningTypeOK
        BY <1>1 DEF Run, MiningInv
      <4>3. ~AlreadyMined(f, run[m].mtime)
        BY <1>5, <1>8, <3>2
      <4>4. \A d \in DrawersOf(f) : d.mtime < run[m].mtime
        BY <3>1, <4>1, <4>2, <4>3, NotMinedIsOlder
      <4> QED BY <3>2, <4>1, <4>4
    <3>3. CASE r.mode = "convos"
      BY <1>5, <1>8, <3>3
    <3> QED BY <3>2, <3>3, <1>5 DEF Modes
  <2> QED BY <2>1, <2>2, <1>6, QuietStepKeeps
<1>9. CASE Proceeds(m, r, {f}) /\ UNCHANGED drawers
  <2>1. HandRight(r)'
    BY <1>5, <1>9 DEF HandRight, Proceeds
  <2> QED BY <1>6, <1>9, <2>1, QuietStepKeeps
<1> QED BY <1>2, <1>4, <1>7, <1>8, <1>9 DEF Look, FileOf

LEMMA ReadKeeps ==
  ASSUME MiningInv, NEW m \in Miners, Read(m)
  PROVE  MiningInv'
<1>1. run[m] \in Run /\ RunRight(run[m]) /\ HandRight(run[m]) /\ run[m].step = "read"
  BY DEF Read, MiningInv, MiningTypeOK
<1>2. PICK f \in Files : f = run[m].file
  BY <1>1 DEF Run
<1>3. CASE Skip(m, [run[m] EXCEPT !.owes[f] = 0])
  <2>1. run[m].owes \in [Files -> 0..LastVersion] /\ 0 \in 0..LastVersion
    BY <1>1, MiningAssumption DEF Run
  <2>2. [run[m].owes EXCEPT ![f] = 0] \in [Files -> 0..LastVersion]
    BY <2>1
  <2>3. [run[m] EXCEPT !.owes = [run[m].owes EXCEPT ![f] = 0]] \in Run
    BY <1>1, <2>2 DEF Run
  <2> QED BY <1>3, <2>3, SkipKeeps
<1>4. CASE /\ disk[f].there
           /\ Becomes(m, [run[m] EXCEPT
                !.version = disk[f].version,
                !.step = IF run[m].mode = "project" THEN "list" ELSE "store"])
  <2>1. disk[f].version \in Versions /\ disk[f].version \in 0..LastVersion
    BY <1>4 DEF MiningInv, MiningTypeOK
  <2>2. [run[m] EXCEPT !.version = disk[f].version,
                       !.step = IF run[m].mode = "project" THEN "list" ELSE "store"] \in Run
    BY <1>1, <2>1 DEF Run, Steps
  <2>3. PICK r \in Run :
          r = [run[m] EXCEPT !.version = disk[f].version,
                             !.step = IF run[m].mode = "project" THEN "list" ELSE "store"]
    BY <2>2
  <2>4. /\ r.step = IF run[m].mode = "project" THEN "list" ELSE "store"
        /\ r.mode = run[m].mode /\ r.file = f /\ r.purge = run[m].purge
        /\ r.mtime = run[m].mtime /\ r.version = disk[f].version /\ r.mode \in Modes
    BY <1>1, <1>2, <2>3 DEF Run
  <2>5. Proceeds(m, r, {}) /\ UNCHANGED drawers /\ spoiled \subseteq spoiled'
    BY <1>4, <2>3 DEF Becomes, Proceeds
  <2>6. RunRight(r)
    BY <1>1, <1>2, <2>1, <2>4 DEF RunRight, Idle, Versions, Modes
  <2>7. HandRight(r)'
    BY <1>1, <1>2, <2>4, <2>5 DEF HandRight, Idle, DrawersOf, Modes
  <2> QED BY <2>5, <2>6, <2>7, QuietStepKeeps
<1> QED BY <1>2, <1>3, <1>4 DEF Read, FileOf

LEMMA ListKeeps ==
  ASSUME MiningInv, NEW m \in Miners, List(m)
  PROVE  MiningInv'
<1>1. run[m] \in Run /\ RunRight(run[m]) /\ HandRight(run[m]) /\ run[m].step = "list"
  BY DEF List, MiningInv, MiningTypeOK
<1>2. PICK f \in Files : f = run[m].file
  BY <1>1 DEF Run
<1>3. run[m].mode = "project"
  BY <1>1 DEF RunRight, Idle, Run, Modes
<1>4. CASE Becomes(m, [run[m] EXCEPT !.step = "purge", !.purge = DrawersOf(f)])
  <2>1. DrawersOf(f) \subseteq Drawer /\ \A d \in DrawersOf(f) : d.file = f
    BY DEF DrawersOf, MiningInv, MiningTypeOK
  <2>2. [run[m] EXCEPT !.step = "purge", !.purge = DrawersOf(f)] \in Run
    BY <1>1, <2>1 DEF Run, Steps
  <2>3. PICK r \in Run : r = [run[m] EXCEPT !.step = "purge", !.purge = DrawersOf(f)]
    BY <2>2
  <2>4. /\ r.step = "purge" /\ r.mode = "project" /\ r.file = f /\ r.purge = DrawersOf(f)
        /\ r.mtime = run[m].mtime /\ r.version = run[m].version
    BY <1>1, <1>2, <1>3, <2>3 DEF Run
  <2>5. Proceeds(m, r, {}) /\ UNCHANGED drawers /\ spoiled \subseteq spoiled'
    BY <1>4, <2>3 DEF Becomes, Proceeds
  <2>6. RunRight(r)
    BY <1>1, <1>2, <2>1, <2>4 DEF RunRight, Idle
  <2>7. HandRight(r)'
    BY <1>1, <1>2, <1>3, <2>4, <2>5 DEF HandRight, Idle, DrawersOf
  <2> QED BY <2>5, <2>6, <2>7, QuietStepKeeps
<1>5. CASE Proceeds(m, [run[m] EXCEPT !.step = "store"], {f}) /\ UNCHANGED drawers
  <2>1. [run[m] EXCEPT !.step = "store"] \in Run
    BY <1>1 DEF Run, Steps
  <2>2. PICK r \in Run : r = [run[m] EXCEPT !.step = "store"]
    BY <2>1
  <2>3. /\ r.step = "store" /\ r.mode = "project" /\ r.file = f /\ r.purge = run[m].purge
        /\ r.mtime = run[m].mtime /\ r.version = run[m].version
    BY <1>1, <1>2, <1>3, <2>2 DEF Run
  <2>4. RunRight(r)
    BY <1>1, <1>2, <2>3 DEF RunRight, Idle
  <2>5. HandRight(r)'
    BY <1>5, <2>3 DEF HandRight, Proceeds
  <2> QED BY <1>5, <2>2, <2>4, <2>5, QuietStepKeeps
<1> QED BY <1>2, <1>4, <1>5 DEF List, FileOf

\* What is left while a purge goes on is out of date.
LEMMA PurgeKeeps ==
  ASSUME MiningInv, NEW m \in Miners, Purge(m)
  PROVE  MiningInv'
<1>1. run[m] \in Run /\ RunRight(run[m]) /\ HandRight(run[m]) /\ run[m].step = "purge"
  BY DEF Purge, MiningInv, MiningTypeOK
<1>2. PICK f \in Files : f = run[m].file
  BY <1>1 DEF Run
<1>3. run[m].mode = "project" /\ Working(m)
  BY <1>1 DEF RunRight, Idle, Working, Run, Modes
<1>4. CASE run[m].purge = {} /\ Becomes(m, [run[m] EXCEPT !.step = "store"])
  <2>1. [run[m] EXCEPT !.step = "store"] \in Run
    BY <1>1 DEF Run, Steps
  <2>2. PICK r \in Run : r = [run[m] EXCEPT !.step = "store"]
    BY <2>1
  <2>3. /\ r.step = "store" /\ r.mode = "project" /\ r.file = f /\ r.purge = {}
        /\ r.mtime = run[m].mtime /\ r.version = run[m].version
    BY <1>1, <1>2, <1>3, <1>4, <2>2 DEF Run
  <2>4. Proceeds(m, r, {}) /\ UNCHANGED drawers /\ spoiled \subseteq spoiled'
    BY <1>4, <2>2 DEF Becomes, Proceeds
  <2>5. RunRight(r)
    BY <1>1, <1>2, <2>3 DEF RunRight, Idle
  <2>6. HandRight(r)'
    BY <1>1, <1>2, <1>3, <1>4, <2>3, <2>4 DEF HandRight, Idle, DrawersOf
  <2> QED BY <2>4, <2>5, <2>6, QuietStepKeeps
<1>5. ASSUME NEW d \in run[m].purge, drawers' = {e \in drawers : ~SameId(d, e)},
             Proceeds(m, [run[m] EXCEPT !.purge = run[m].purge \ {d}], {})
      PROVE  MiningInv'
  <2>1. [run[m] EXCEPT !.purge = run[m].purge \ {d}] \in Run
    BY <1>1 DEF Run
  <2>2. PICK r \in Run : r = [run[m] EXCEPT !.purge = run[m].purge \ {d}]
    BY <2>1
  <2>3. /\ r.step = "purge" /\ r.mode = "project" /\ r.file = f /\ r.purge = run[m].purge \ {d}
        /\ r.mtime = run[m].mtime /\ r.version = run[m].version
    BY <1>1, <1>2, <1>3, <2>2 DEF Run
  <2>4. d.file = f /\ disk' = disk /\ spoiled \subseteq spoiled'
    BY <1>1, <1>2, <1>5 DEF RunRight, Proceeds
  <2>5. /\ drawers' \subseteq Drawer
        /\ \A g \in Files : DrawersOf(g)' = DrawersOf(g) \/ g = f
        /\ DrawersOf(f)' \subseteq DrawersOf(f) \ {d}
    BY <1>5, <2>4 DEF DrawersOf, SameId, MiningInv, MiningTypeOK
  <2>6. RunRight(r)
    BY <1>1, <1>2, <2>3 DEF RunRight, Idle
  <2>7. HandRight(r)'
    BY <1>1, <1>2, <1>3, <2>3, <2>4, <2>5 DEF HandRight, Idle
  <2>8. f \notin spoiled' => FileRight(f)'
    <3> SUFFICES ASSUME f \notin spoiled, DrawersOf(f)' # {}
                 PROVE  \E w \in Wings, v \in Versions, t \in 0..LastVersion :
                          /\ t <= v /\ v <= disk[f].version
                          /\ DrawersOf(f)' \subseteq Batch(f, w, v, t)
                          /\ t < disk[f].version
      BY <2>4 DEF FileRight, Batch
    <3>1. PICK w \in Wings, v \in Versions, t \in 0..LastVersion :
            t <= v /\ v <= disk[f].version /\ DrawersOf(f) \subseteq Batch(f, w, v, t)
      BY <2>5 DEF MiningInv, FileRight
    <3>2. PICK e \in DrawersOf(f) : TRUE
      BY <2>5
    <3>3. e.mtime = t
      BY <3>1, <3>2, BatchIsTyped
    <3>4. e.mtime < run[m].mtime /\ run[m].mtime <= disk[f].version
      BY <1>1, <1>2, <1>3, <3>2 DEF HandRight, RunRight, Idle
    <3>5. run[m].mtime \in Int /\ disk[f].version \in Int
      BY <1>1 DEF Run, MiningInv, MiningTypeOK
    <3> QED BY <2>5, <3>1, <3>3, <3>4, <3>5
  <2>9. Proceeds(m, r, {})
    BY <1>5, <2>2
  <2> QED BY <1>2, <1>3, <2>5, <2>6, <2>7, <2>8, <2>9, StepKeeps
<1>6. CASE Abort(m)
  BY <1>6, AbortKeeps
<1> QED BY <1>4, <1>5, <1>6 DEF Purge

LEMMA StoreKeeps ==
  ASSUME MiningInv, NEW m \in Miners, Store(m)
  PROVE  MiningInv'
<1>1. run[m] \in Run /\ RunRight(run[m]) /\ HandRight(run[m]) /\ run[m].step = "store"
  BY DEF Store, MiningInv, MiningTypeOK
<1>2. PICK f \in Files : f = run[m].file
  BY <1>1 DEF Run
<1>3. Working(m)
  BY <1>1 DEF Working, Idle
<1>4. /\ run[m].wing \in Wings /\ run[m].version \in Versions /\ run[m].mtime \in 0..LastVersion
      /\ run[m].mtime <= run[m].version /\ run[m].version <= disk[f].version
  BY <1>1, <1>2 DEF Run, RunRight, Idle
<1>5. PICK w \in Wings, v \in Versions, t \in 0..LastVersion :
        w = run[m].wing /\ v = run[m].version /\ t = run[m].mtime
  BY <1>4
<1>6. drawers' = Upserted(Batch(f, w, v, t)) /\ NextFile(m, run[m])
  BY <1>2, <1>5 DEF Store, FileOf
<1>7. /\ drawers' \subseteq Drawer
      /\ \A g \in Files \ {f} : DrawersOf(g)' = DrawersOf(g)
      /\ DrawersOf(f) = {} => DrawersOf(f)' = Batch(f, w, v, t)
  BY <1>6, UpsertedOthers DEF MiningInv
<1>8. disk' = disk /\ spoiled \subseteq spoiled'
  BY <1>6 DEF NextFile, Proceeds
<1>9. f \notin spoiled' => FileRight(f)'
  <2> SUFFICES ASSUME f \notin spoiled' PROVE FileRight(f)'
    OBVIOUS
  <2>1. DrawersOf(f)' = Batch(f, w, v, t)
    BY <1>1, <1>2, <1>7, <1>8 DEF HandRight, Idle
  <2> QED BY <1>4, <1>5, <1>8, <2>1 DEF FileRight, Batch
<1> QED BY <1>1, <1>2, <1>3, <1>6, <1>7, <1>9, NextFileKeeps

LEMMA EditKeeps ==
  ASSUME MiningInv, NEW f \in Files, Edit(f) \/ Unlink(f)
  PROVE  MiningInv'
<1>1. /\ UNCHANGED <<drawers, run, spoiled>>
      /\ disk' \in [Files -> [there : BOOLEAN, version : 0..LastVersion]]
      /\ \A g \in Files : /\ disk[g].version <= disk'[g].version
                          /\ disk'[g].there => disk'[g].version \in Versions
  <2>1. disk \in [Files -> [there : BOOLEAN, version : 0..LastVersion]] /\ LastVersion \in Nat
    BY MiningAssumption DEF MiningInv, MiningTypeOK
  <2>2. CASE Edit(f)
    <3>1. disk[f].version \in 0..LastVersion /\ disk[f].version < LastVersion
      BY <2>1, <2>2 DEF Edit
    <3>2. disk' = [disk EXCEPT ![f] = [there |-> TRUE, version |-> disk[f].version + 1]]
      BY <2>2 DEF Edit
    <3>3. disk[f].version + 1 \in Versions
      BY <2>1, <3>1 DEF Versions
    <3> QED BY <2>1, <2>2, <3>1, <3>2, <3>3 DEF Edit, MiningInv, Versions
  <2>3. CASE Unlink(f)
    <3>1. disk' = [disk EXCEPT ![f].there = FALSE] /\ UNCHANGED <<drawers, run, spoiled>>
      BY <2>3 DEF Unlink
    <3>2. /\ disk' \in [Files -> [there : BOOLEAN, version : 0..LastVersion]]
          /\ \A g \in Files : disk'[g].version = disk[g].version
          /\ \A g \in Files : disk'[g].there => disk[g].there
      BY <2>1, <3>1
    <3>3. \A g \in Files : disk[g].version \in 0..LastVersion
      BY <2>1
    <3> QED BY <3>1, <3>2, <3>3 DEF MiningInv
  <2> QED BY <2>2, <2>3
<1>2. \A g \in Files : disk[g].version \in Int /\ disk'[g].version \in Int
  BY <1>1 DEF MiningInv, MiningTypeOK
<1>3. MiningTypeOK' /\ Overlaps(run)' \subseteq spoiled'
  BY <1>1 DEF MiningInv, MiningTypeOK, Overlaps
<1>4. ASSUME NEW m \in Miners PROVE RunRight(run[m])' /\ HandRight(run[m])'
  <2>1. /\ run[m] \in Run /\ run[m].file \in Files /\ run[m].mtime \in Int /\ run[m].version \in Int
        /\ RunRight(run[m]) /\ HandRight(run[m])
    BY DEF MiningInv, MiningTypeOK, Run
  <2>2. RunRight(run[m])'
    BY <1>1, <1>2, <2>1 DEF RunRight
  <2>3. HandRight(run[m])'
    BY <1>1, <2>1 DEF HandRight, DrawersOf
  <2> QED BY <2>2, <2>3
<1>5. ASSUME NEW g \in Files \ spoiled' PROVE FileRight(g)'
  <2>1. FileRight(g) /\ DrawersOf(g)' = DrawersOf(g)
    BY <1>1 DEF MiningInv, DrawersOf
  <2> QED BY <1>1, <1>2, <2>1 DEF FileRight, Batch, Versions
<1> QED BY <1>1, <1>3, <1>4, <1>5 DEF MiningInv

-----------------------------------------------------------------------------
(* The theorems. *)

THEOREM MiningInvariant == Spec => []MiningInv
<1>1. Init => MiningInv
  <2> SUFFICES ASSUME Init PROVE MiningInv
    OBVIOUS
  <2>1. MiningTypeOK
    BY EndedIsRight, MiningAssumption DEF Init, MiningTypeOK
  <2>2. Overlaps(run) \subseteq spoiled
    BY DEF Init, Overlaps, Ended, Idle
  <2>3. \A m \in Miners : RunRight(run[m]) /\ HandRight(run[m])
    BY DEF Init, Ended, RunRight, HandRight, Idle
  <2>4. \A f \in Files : FileRight(f) /\ ~disk[f].there
    BY DEF Init, FileRight, DrawersOf
  <2> QED BY <2>1, <2>2, <2>3, <2>4 DEF MiningInv
<1>2. MiningInv /\ [Next]_vars => MiningInv'
  <2> SUFFICES ASSUME MiningInv, [Next]_vars PROVE MiningInv'
    OBVIOUS
  <2>1. CASE \E f \in Files : Edit(f) \/ Unlink(f)
    BY <2>1, EditKeeps
  <2>2. CASE \E m \in Miners : \E mode \in Modes, wing \in Wings, alone \in BOOLEAN, limit \in 0..LastFile :
               Start(m, mode, wing, alone, limit)
    BY <2>2, StartKeeps
  <2>3. CASE \E m \in Miners : Step(m)
    BY <2>3, StatKeeps, LookKeeps, ReadKeeps, ListKeeps, PurgeKeeps, StoreKeeps DEF Step
  <2>4. CASE \E m \in Miners : Crash(m)
    BY <2>4, AbortKeeps DEF Crash
  <2>5. CASE UNCHANGED vars
    <3>1. UNCHANGED <<disk, drawers, run, spoiled>>
      BY <2>5 DEF vars
    <3>2. MiningTypeOK' /\ Overlaps(run)' \subseteq spoiled'
      BY <3>1 DEF MiningInv, MiningTypeOK, Overlaps
    <3>3. \A m \in Miners : RunRight(run[m])' /\ HandRight(run[m])'
      BY <3>1 DEF MiningInv, RunRight, HandRight, DrawersOf
    <3>4. \A f \in Files \ spoiled' : FileRight(f)'
      BY <3>1 DEF MiningInv, FileRight, DrawersOf, Batch
    <3> QED BY <3>1, <3>2, <3>3, <3>4 DEF MiningInv
  <2> QED BY <2>1, <2>2, <2>3, <2>4, <2>5 DEF Next
<1> QED BY <1>1, <1>2, PTL DEF Spec

\* The disk, the palace and the runs stay well typed.
THEOREM MiningTypes == Spec => []MiningTypeOK
<1>1. MiningInv => MiningTypeOK
  BY DEF MiningInv
<1> QED BY <1>1, MiningInvariant, PTL

\* What a crash or a failure leaves of a file is of one version, as long as no
\* two runs had it in hand and no list of its drawers failed (miner.go:170-203).
THEOREM MiningOneVersion == Spec => []OneVersion
<1>1. MiningInv => OneVersion
  <2> SUFFICES ASSUME MiningInv, NEW f \in Files \ spoiled
               PROVE  \E w \in Wings, v \in Versions, t \in 0..LastVersion :
                        t <= v /\ DrawersOf(f) \subseteq Batch(f, w, v, t)
    BY DEF OneVersion
  <2>1. CASE DrawersOf(f) = {}
    <3>1. 1 \in Versions /\ 0 \in 0..LastVersion /\ 0 <= 1 /\ Wings # {}
      BY MiningAssumption DEF Versions
    <3> QED BY <2>1, <3>1
  <2>2. CASE DrawersOf(f) # {}
    BY <2>2 DEF MiningInv, FileRight
  <2> QED BY <2>1, <2>2
<1> QED BY <1>1, MiningInvariant, PTL

\* A file the next run skips has all the drawers of what is on disk, and no
\* other (miner.go:119-168, 244).
THEOREM MiningSkippedIsCurrent == Spec => []SkippedIsCurrent
<1>1. MiningInv => SkippedIsCurrent
  <2> SUFFICES ASSUME MiningInv, NEW f \in Files \ spoiled, disk[f].there,
                      AlreadyMined(f, disk[f].version)
               PROVE  \E w \in Wings : DrawersOf(f) = Batch(f, w, disk[f].version, disk[f].version)
    BY DEF SkippedIsCurrent
  <2>1. PICK d \in DrawersOf(f) : d.mtime = disk[f].version
    BY DEF AlreadyMined
  <2>2. PICK w \in Wings, v \in Versions, t \in 0..LastVersion :
          /\ t <= v /\ v <= disk[f].version
          /\ DrawersOf(f) \subseteq Batch(f, w, v, t)
          /\ DrawersOf(f) = Batch(f, w, v, t) \/ t < disk[f].version
    BY <2>1 DEF MiningInv, FileRight
  <2>3. t = disk[f].version
    BY <2>1, <2>2, BatchIsTyped
  <2>4. disk[f].version \in Int /\ v \in Int /\ v = t
    BY <2>2, <2>3 DEF MiningInv, MiningTypeOK, Versions
  <2> QED BY <2>2, <2>3, <2>4
<1> QED BY <1>1, MiningInvariant, PTL

-----------------------------------------------------------------------------
(* A run that is alone covers what it scanned.                             *)

\* A run that is alone is the only one.
AloneInv ==
    \A m \in Miners : run[m].alone => ~Idle(run[m]) /\ \A n \in Miners \ {m} : Idle(run[n])

\* The run scanned f, and f has not changed since.
Due(r, f) == r.owes[f] # 0 /\ r.owes[f] = disk[f].version /\ disk[f].there

\* Every file a run owes it has still to turn to, or has in hand, or would skip.
OweRight(r) ==
    /\ \A f \in Files : r.owes[f] <= disk[f].version /\ (r.owes[f] # 0 => r.alone)
    /\ r.mode = "project" /\ r.step # "stat" => r.owes[r.file] <= r.mtime
    /\ r.step \in {"list", "purge", "store"} => ChunksOf[r.version] > 0
    /\ r.mode = "project" =>
         \A f \in Files \ spoiled :
           Due(r, f) => f \in r.todo \/ f = r.file \/ AlreadyMined(f, r.owes[f])

OweInv == AloneInv /\ \A m \in Miners : ~Idle(run[m]) => OweRight(run[m])

\* A file whose drawers stay is skipped as before.
LEMMA MinedStays ==
  ASSUME NEW f, NEW o, DrawersOf(f)' = DrawersOf(f), AlreadyMined(f, o)
  PROVE  AlreadyMined(f, o)'
BY DEF AlreadyMined, IsFirst, Before

\* A step of m that gives it r, with clients that are not alone owing nothing.
LEMMA OweStep ==
  ASSUME MiningInv, OweInv, NEW m \in Miners, NEW r \in Run, NEW lost, Proceeds(m, r, lost),
         Idle(r) => ~r.alone,
         \/ Working(m) /\ (r.alone => run[m].alone)
         \/ \A n \in Miners : ~run[n].alone /\ (r.alone => Idle(run[n])),
         ~Idle(r) => OweRight(r)'
  PROVE  OweInv'
<1>1. run \in [Miners -> Run] /\ disk' = disk /\ spoiled \subseteq spoiled'
  BY DEF MiningInv, MiningTypeOK, Proceeds
<1>2. run'[m] = r /\ \A n \in Miners \ {m} : run'[n] = run[n]
  BY <1>1 DEF Proceeds
<1>3. \A n \in Miners \ {m} : ~Idle(run[n]) => ~run[n].alone
  BY DEF OweInv, AloneInv, Working
<1>4. \A n \in Miners \ {m} : ~run[n].alone /\ (r.alone => Idle(run[n]))
  BY <1>3 DEF OweInv, AloneInv
<1>5. AloneInv'
  BY <1>2, <1>4 DEF AloneInv, Idle
<1>6. ASSUME NEW n \in Miners, ~Idle(run[n])' PROVE OweRight(run[n])'
  <2>1. CASE n = m
    BY <1>2, <1>6, <2>1 DEF OweRight, Due, Idle
  <2>2. CASE n # m
    <3>1. run'[n] = run[n] /\ ~run[n].alone /\ ~Idle(run[n]) /\ run[n] \in Run
      BY <1>1, <1>2, <1>4, <1>6, <2>2 DEF Idle
    <3>2. OweRight(run[n])
      BY <3>1 DEF OweInv
    <3>3. \A f \in Files : run[n].owes[f] = 0
      BY <3>1, <3>2 DEF OweRight
    <3> QED
      BY <1>1, <3>1, <3>2, <3>3 DEF OweRight, Due
  <2> QED
    BY <2>1, <2>2
<1> QED
  BY <1>5, <1>6 DEF OweInv

\* Turning to the next file, with nothing owed but what is left or done.
LEMMA OweNext ==
  ASSUME MiningInv, OweInv, NEW m \in Miners, NEW r \in Run, NextFile(m, r),
         \/ Working(m) /\ (r.alone => run[m].alone)
         \/ \A n \in Miners : ~run[n].alone /\ (r.alone => Idle(run[n])),
         \A f \in Files : r.owes[f] <= disk[f].version /\ (r.owes[f] # 0 => r.alone),
         r.mode = "project" =>
           \A f \in Files \ spoiled' : Due(r, f) => f \in r.todo \/ AlreadyMined(f, r.owes[f])'
  PROVE  OweInv'
<1>1. CASE r.todo = {}
  <2>1. Proceeds(m, Ended("rest"), {})
    BY <1>1 DEF NextFile
  <2>2. PICK e \in Run : e = Ended("rest")
    BY EndedIsRight
  <2>3. Idle(e) /\ ~e.alone
    BY <2>2 DEF Ended, Idle
  <2> QED
    BY <2>1, <2>2, <2>3, OweStep
<1>2. CASE r.todo # {}
  <2>1. PICK f \in r.todo : Proceeds(m, TurnTo(r, f), {})
    BY <1>2 DEF NextFile
  <2>2. PICK q \in Run : q = TurnTo(r, f)
    BY TurnedIsRight DEF MiningInv
  <2>3. /\ q.mode = r.mode /\ q.file = f /\ q.todo = r.todo \ {f} /\ q.owes = r.owes
        /\ q.alone = r.alone /\ q.step \in {"stat", "look"}
        /\ q.mode = "project" => q.step = "stat"
    BY <2>2 DEF TurnTo, Run, FirstStep
  <2>4. disk' = disk
    BY <2>1 DEF Proceeds
  <2>5. OweRight(q)'
    BY <2>3, <2>4 DEF OweRight, Due
  <2>6. ~Idle(q)
    BY <2>3 DEF Idle
  <2> QED
    BY <2>1, <2>2, <2>3, <2>5, <2>6, OweStep
<1> QED
  BY <1>1, <1>2

\* What is owed of the files a run is done with, when it turns from one of them.
LEMMA DoneIsMined ==
  ASSUME MiningInv, OweInv, NEW m \in Miners, ~Idle(run[m]), run[m].mode = "project",
         NEW f \in Files \ spoiled', spoiled \subseteq spoiled',
         Due(run[m], f), NEW o, o = run[m].owes[f],
         \/ Stat(m) /\ ~disk[FileOf(m)].there /\ UNCHANGED drawers
         \/ Look(m) /\ AlreadyMined(FileOf(m), run[m].mtime) /\ UNCHANGED drawers
         \/ Read(m) /\ f # FileOf(m) /\ UNCHANGED drawers
         \/ Store(m)
  PROVE  f \in run[m].todo \/ AlreadyMined(f, o)'
<1>1. run[m] \in Run /\ RunRight(run[m]) /\ HandRight(run[m]) /\ OweRight(run[m])
  BY DEF MiningInv, MiningTypeOK, OweInv
<1>2. f \in run[m].todo \/ f = run[m].file \/ AlreadyMined(f, o)
  BY <1>1 DEF OweRight
<1>3. /\ run[m].owes[f] = o /\ o = disk[f].version /\ disk[f].there
      /\ run[m].mtime \in Int /\ o \in Int /\ run[m].version \in Int
  BY <1>1 DEF Due, Run, MiningInv, MiningTypeOK
<1>4. CASE f # run[m].file
  <2>1. DrawersOf(f)' = DrawersOf(f)
    <3>1. CASE UNCHANGED drawers
      BY <3>1 DEF DrawersOf
    <3>2. CASE Store(m)
      <4>1. PICK g \in Files, w \in Wings, v \in Versions, t \in 0..LastVersion :
              /\ g = run[m].file /\ w = run[m].wing /\ v = run[m].version /\ t = run[m].mtime
        BY <1>1, <3>2 DEF Run, RunRight, Idle, Store
      <4>2. drawers' = Upserted(Batch(g, w, v, t))
        BY <3>2, <4>1 DEF Store, FileOf
      <4> QED
        BY <1>4, <4>1, <4>2, UpsertedOthers DEF MiningInv
    <3> QED
      BY <3>1, <3>2
  <2> QED
    BY <1>2, <1>4, <2>1, MinedStays
<1>5. CASE f = run[m].file
  <2>1. run[m].step # "stat" => o <= run[m].mtime /\ run[m].mtime <= o
    BY <1>1, <1>3, <1>5 DEF OweRight, RunRight
  <2>2. CASE Look(m) /\ AlreadyMined(FileOf(m), run[m].mtime) /\ UNCHANGED drawers
    <3>1. run[m].mtime = o
      BY <1>3, <2>1, <2>2 DEF Look
    <3>2. DrawersOf(f)' = DrawersOf(f) /\ AlreadyMined(f, o)
      BY <1>5, <2>2, <3>1 DEF DrawersOf, FileOf
    <3> QED
      BY <3>2, MinedStays
  <2>3. CASE Store(m)
    <3>1. PICK w \in Wings, v \in Versions, t \in 0..LastVersion :
            w = run[m].wing /\ v = run[m].version /\ t = run[m].mtime
      BY <1>1, <2>3 DEF Run, RunRight, Idle, Store
    <3>2. drawers' = Upserted(Batch(f, w, v, t))
      BY <1>5, <2>3, <3>1 DEF Store, FileOf
    <3>3. DrawersOf(f) = {}
      BY <1>1, <1>5, <2>3 DEF HandRight, Store
    <3>4. DrawersOf(f)' = Batch(f, w, v, t)
      BY <3>2, <3>3, UpsertedOthers DEF MiningInv
    <3>5. t = o
      BY <1>3, <2>1, <2>3, <3>1 DEF Store
    <3>6. ChunksOf[v] > 0 /\ ChunksOf[v] \in Nat
      BY <1>1, <2>3, <3>1, MiningAssumption DEF OweRight, Store, Versions
    <3>7. Batch(f, w, v, t) # {}
      <4>1. 0 \in 0..(ChunksOf[v] - 1)
        BY <3>6
      <4> QED
        BY <4>1 DEF Batch
    <3> DEFINE B == Batch(f, w, v, t)
    <3>8. PICK d \in B : IsFirst(d, B)
      BY <3>7, FirstOfBatch
    <3>9. d.mtime = o
      BY <3>5, <3>8, BatchIsTyped
    <3>10. B' = B
      BY DEF Batch
    <3>11. \E e \in DrawersOf(f)' : IsFirst(e, DrawersOf(f)') /\ e.mtime = o
      BY <3>4, <3>8, <3>9
    <3> QED
      BY <3>11 DEF AlreadyMined, IsFirst, Before
  <2> QED
    BY <1>3, <1>5, <2>2, <2>3 DEF FileOf
<1> QED
  BY <1>4, <1>5

\* A step that goes on with the file in hand.
LEMMA OweOn ==
  ASSUME MiningInv, OweInv, NEW m \in Miners, Working(m), NEW r \in Run, NEW lost,
         Proceeds(m, r, lost), ~Idle(r),
         r.alone = run[m].alone, r.owes = run[m].owes, r.mode = run[m].mode,
         r.todo = run[m].todo, r.file = run[m].file,
         \A f \in Files : DrawersOf(f)' = DrawersOf(f) \/ f = r.file,
         r.mode = "project" /\ r.step # "stat" => r.owes[r.file] <= r.mtime,
         r.step \in {"list", "purge", "store"} => ChunksOf[r.version] > 0
  PROVE  OweInv'
<1>1. disk' = disk /\ spoiled \subseteq spoiled'
  BY DEF Proceeds
<1>2. OweRight(run[m])
  BY DEF OweInv, Working
<1>3. ASSUME NEW f \in Files \ spoiled', r.mode = "project", Due(r, f)
      PROVE  f \in r.todo \/ f = r.file \/ AlreadyMined(f, r.owes[f])'
  <2>1. Due(run[m], f)
    BY <1>3 DEF Due
  <2>2. f \in r.todo \/ f = r.file \/ AlreadyMined(f, r.owes[f])
    BY <1>1, <1>2, <1>3, <2>1 DEF OweRight
  <2> QED
    BY <2>2, MinedStays
<1>4. OweRight(r)'
  BY <1>1, <1>2, <1>3 DEF OweRight, Due
<1> QED
  BY <1>4, OweStep

LEMMA StatOwes ==
  ASSUME MiningInv, OweInv, NEW m \in Miners, Stat(m)
  PROVE  OweInv'
<1>1. run[m] \in Run /\ run[m].step = "stat" /\ ~Idle(run[m]) /\ OweRight(run[m])
      /\ run[m].mode = "project"
  BY DEF Stat, MiningInv, MiningTypeOK, OweInv, Idle, RunRight, Run, Modes
<1>2. PICK f \in Files : f = run[m].file
  BY <1>1 DEF Run
<1>3. CASE disk[f].there
  <2>1. disk[f].version \in 0..LastVersion
    BY DEF MiningInv, MiningTypeOK
  <2>2. [run[m] EXCEPT !.step = "look", !.mtime = disk[f].version] \in Run
    BY <1>1, <2>1 DEF Run, Steps
  <2>3. PICK r \in Run : r = [run[m] EXCEPT !.step = "look", !.mtime = disk[f].version]
    BY <2>2
  <2>4. /\ r.step = "look" /\ r.mtime = disk[f].version /\ r.file = f
        /\ r.alone = run[m].alone /\ r.owes = run[m].owes /\ r.mode = run[m].mode
        /\ r.todo = run[m].todo
    BY <1>1, <1>2, <2>3 DEF Run
  <2>5. Proceeds(m, r, {}) /\ UNCHANGED drawers
    BY <1>2, <1>3, <2>3 DEF Stat, FileOf, Becomes
  <2>6. r.owes[f] <= r.mtime
    BY <1>1, <2>4 DEF OweRight
  <2> QED
    BY <1>1, <1>2, <2>4, <2>5, <2>6, OweOn DEF Working, Idle, DrawersOf
<1>4. CASE ~disk[f].there
  <2>1. PICK r \in Run : r = run[m]
    BY <1>1
  <2>2. NextFile(m, r) /\ UNCHANGED drawers
    BY <1>2, <1>4, <2>1 DEF Stat, FileOf, Skip
  <2>3. spoiled \subseteq spoiled'
    BY <2>2 DEF NextFile, Proceeds
  <2>4. ASSUME NEW g \in Files \ spoiled', Due(r, g)
        PROVE  g \in r.todo \/ AlreadyMined(g, r.owes[g])'
    BY <1>1, <1>2, <1>4, <2>1, <2>2, <2>3, <2>4, DoneIsMined DEF FileOf
  <2> QED
    BY <1>1, <2>1, <2>2, <2>4, OweNext DEF OweRight, Working
<1> QED
  BY <1>3, <1>4

LEMMA LookOwes ==
  ASSUME MiningInv, OweInv, NEW m \in Miners, Look(m)
  PROVE  OweInv'
<1>1. run[m] \in Run /\ run[m].step = "look" /\ ~Idle(run[m]) /\ OweRight(run[m])
  BY DEF Look, MiningInv, MiningTypeOK, OweInv, Idle
<1>2. PICK f \in Files : f = run[m].file
  BY <1>1 DEF Run
<1>3. CASE \E lost : Proceeds(m, [run[m] EXCEPT !.step = "read"], lost) /\ UNCHANGED drawers
  <2>1. [run[m] EXCEPT !.step = "read"] \in Run
    BY <1>1 DEF Run, Steps
  <2>2. PICK r \in Run : r = [run[m] EXCEPT !.step = "read"]
    BY <2>1
  <2>3. /\ r.step = "read" /\ r.mtime = run[m].mtime /\ r.file = run[m].file
        /\ r.alone = run[m].alone /\ r.owes = run[m].owes /\ r.mode = run[m].mode
        /\ r.todo = run[m].todo
    BY <1>1, <2>2 DEF Run
  <2>4. PICK lost : Proceeds(m, r, lost) /\ UNCHANGED drawers
    BY <1>3, <2>2
  <2>5. r.mode = "project" => r.owes[r.file] <= r.mtime
    BY <1>1, <2>3 DEF OweRight
  <2> QED
    BY <1>1, <2>3, <2>4, <2>5, OweOn DEF Working, Idle, DrawersOf
<1>4. CASE /\ Skip(m, run[m])
           /\ IF run[m].mode = "project" THEN AlreadyMined(f, run[m].mtime)
                                         ELSE DrawersOf(f) # {}
  <2>1. PICK r \in Run : r = run[m]
    BY <1>1
  <2>2. NextFile(m, r) /\ UNCHANGED drawers
    BY <1>4, <2>1 DEF Skip
  <2>3. spoiled \subseteq spoiled'
    BY <2>2 DEF NextFile, Proceeds
  <2>4. ASSUME NEW g \in Files \ spoiled', r.mode = "project", Due(r, g)
        PROVE  g \in r.todo \/ AlreadyMined(g, r.owes[g])'
    BY <1>1, <1>2, <1>4, <2>1, <2>2, <2>3, <2>4, DoneIsMined DEF FileOf
  <2> QED
    BY <1>1, <2>1, <2>2, <2>4, OweNext DEF OweRight, Working
<1> QED
  BY <1>2, <1>3, <1>4 DEF Look, FileOf, Becomes

LEMMA ReadOwes ==
  ASSUME MiningInv, OweInv, NEW m \in Miners, Read(m)
  PROVE  OweInv'
<1>1. run[m] \in Run /\ run[m].step = "read" /\ ~Idle(run[m]) /\ OweRight(run[m])
  BY DEF Read, MiningInv, MiningTypeOK, OweInv, Idle
<1>2. PICK f \in Files : f = run[m].file
  BY <1>1 DEF Run
<1>3. CASE Skip(m, [run[m] EXCEPT !.owes[f] = 0])
  <2>1. run[m].owes \in [Files -> 0..LastVersion] /\ 0 \in 0..LastVersion
    BY <1>1, MiningAssumption DEF Run
  <2>2. [run[m] EXCEPT !.owes = [run[m].owes EXCEPT ![f] = 0]] \in Run
    BY <1>1, <2>1 DEF Run
  <2>3. PICK r \in Run : r = [run[m] EXCEPT !.owes = [run[m].owes EXCEPT ![f] = 0]]
    BY <2>2
  <2>4. /\ r.mode = run[m].mode /\ r.alone = run[m].alone /\ r.todo = run[m].todo
        /\ r.owes[f] = 0 /\ \A g \in Files \ {f} : r.owes[g] = run[m].owes[g]
    BY <1>1, <2>1, <2>3 DEF Run
  <2>5. NextFile(m, r) /\ UNCHANGED drawers
    BY <1>3, <2>3 DEF Skip
  <2>6. spoiled \subseteq spoiled'
    BY <2>5 DEF NextFile, Proceeds
  <2>7. ASSUME NEW g \in Files \ spoiled', r.mode = "project", Due(r, g)
        PROVE  g \in r.todo \/ AlreadyMined(g, r.owes[g])'
    <3>1. g # f /\ Due(run[m], g) /\ r.owes[g] = run[m].owes[g]
      BY <2>4, <2>7 DEF Due
    <3> QED
      BY <1>1, <1>2, <2>4, <2>5, <2>6, <2>7, <3>1, DoneIsMined DEF FileOf
  <2>8. \A g \in Files : r.owes[g] <= disk[g].version /\ (r.owes[g] # 0 => r.alone)
    <3>1. \A g \in Files : disk[g].version \in Nat
      BY MiningAssumption DEF MiningInv, MiningTypeOK
    <3> QED
      BY <1>1, <2>4, <3>1 DEF OweRight
  <2> QED
    BY <1>1, <2>4, <2>5, <2>7, <2>8, OweNext DEF Working
<1>4. CASE /\ disk[f].there /\ ChunksOf[disk[f].version] > 0
           /\ Becomes(m, [run[m] EXCEPT
                !.version = disk[f].version,
                !.step = IF run[m].mode = "project" THEN "list" ELSE "store"])
  <2>1. disk[f].version \in 0..LastVersion
    BY DEF MiningInv, MiningTypeOK
  <2>2. [run[m] EXCEPT !.version = disk[f].version,
                       !.step = IF run[m].mode = "project" THEN "list" ELSE "store"] \in Run
    BY <1>1, <2>1 DEF Run, Steps
  <2>3. PICK r \in Run :
          r = [run[m] EXCEPT !.version = disk[f].version,
                             !.step = IF run[m].mode = "project" THEN "list" ELSE "store"]
    BY <2>2
  <2>4. /\ r.step \in {"list", "store"} /\ r.mtime = run[m].mtime /\ r.file = run[m].file
        /\ r.alone = run[m].alone /\ r.owes = run[m].owes /\ r.mode = run[m].mode
        /\ r.todo = run[m].todo /\ r.version = disk[f].version
    BY <1>1, <2>3 DEF Run
  <2>5. Proceeds(m, r, {}) /\ UNCHANGED drawers
    BY <1>4, <2>3 DEF Becomes
  <2>6. r.mode = "project" => r.owes[r.file] <= r.mtime
    BY <1>1, <2>4 DEF OweRight
  <2> QED
    BY <1>1, <1>4, <2>4, <2>5, <2>6, OweOn DEF Working, Idle, DrawersOf
<1> QED
  BY <1>2, <1>3, <1>4 DEF Read, FileOf

LEMMA ListOwes ==
  ASSUME MiningInv, OweInv, NEW m \in Miners, List(m)
  PROVE  OweInv'
<1>1. run[m] \in Run /\ run[m].step = "list" /\ ~Idle(run[m]) /\ OweRight(run[m])
  BY DEF List, MiningInv, MiningTypeOK, OweInv, Idle
<1>2. DrawersOf(FileOf(m)) \subseteq Drawer
  BY DEF DrawersOf, MiningInv, MiningTypeOK
<1>3. \E r \in Run : \E lost :
        /\ Proceeds(m, r, lost) /\ UNCHANGED drawers
        /\ r.step \in {"purge", "store"} /\ r.mtime = run[m].mtime /\ r.file = run[m].file
        /\ r.alone = run[m].alone /\ r.owes = run[m].owes /\ r.mode = run[m].mode
        /\ r.todo = run[m].todo /\ r.version = run[m].version
  <2>1. CASE Becomes(m, [run[m] EXCEPT !.step = "purge", !.purge = DrawersOf(FileOf(m))])
    <3>1. [run[m] EXCEPT !.step = "purge", !.purge = DrawersOf(FileOf(m))] \in Run
      BY <1>1, <1>2 DEF Run, Steps
    <3>2. PICK r \in Run : r = [run[m] EXCEPT !.step = "purge", !.purge = DrawersOf(FileOf(m))]
      BY <3>1
    <3>3. Proceeds(m, r, {}) /\ UNCHANGED drawers
      BY <2>1, <3>2 DEF Becomes
    <3>4. /\ r.step = "purge" /\ r.mtime = run[m].mtime /\ r.file = run[m].file
          /\ r.alone = run[m].alone /\ r.owes = run[m].owes /\ r.mode = run[m].mode
          /\ r.todo = run[m].todo /\ r.version = run[m].version
      BY <1>1, <3>2 DEF Run
    <3> QED
      BY <3>3, <3>4
  <2>2. CASE Proceeds(m, [run[m] EXCEPT !.step = "store"], {FileOf(m)}) /\ UNCHANGED drawers
    <3>1. [run[m] EXCEPT !.step = "store"] \in Run
      BY <1>1 DEF Run, Steps
    <3>2. PICK r \in Run : r = [run[m] EXCEPT !.step = "store"]
      BY <3>1
    <3>3. Proceeds(m, r, {FileOf(m)}) /\ UNCHANGED drawers
      BY <2>2, <3>2
    <3>4. /\ r.step = "store" /\ r.mtime = run[m].mtime /\ r.file = run[m].file
          /\ r.alone = run[m].alone /\ r.owes = run[m].owes /\ r.mode = run[m].mode
          /\ r.todo = run[m].todo /\ r.version = run[m].version
      BY <1>1, <3>2 DEF Run
    <3> QED
      BY <3>3, <3>4
  <2> QED
    BY <2>1, <2>2 DEF List
<1>4. PICK r \in Run : \E lost :
        /\ Proceeds(m, r, lost) /\ UNCHANGED drawers
        /\ r.step \in {"purge", "store"} /\ r.mtime = run[m].mtime /\ r.file = run[m].file
        /\ r.alone = run[m].alone /\ r.owes = run[m].owes /\ r.mode = run[m].mode
        /\ r.todo = run[m].todo /\ r.version = run[m].version
  BY <1>3
<1>5. /\ r.mode = "project" => r.owes[r.file] <= r.mtime
      /\ ChunksOf[r.version] > 0
  BY <1>1, <1>4 DEF OweRight
<1> QED
  BY <1>1, <1>4, <1>5, OweOn DEF Working, Idle, DrawersOf

LEMMA AbortOwes ==
  ASSUME MiningInv, OweInv, NEW m \in Miners, Working(m), Abort(m)
  PROVE  OweInv'
<1>1. PICK e \in Run : e = Ended("failed")
  BY EndedIsRight
<1>2. Idle(e) /\ ~e.alone /\ Proceeds(m, e, {})
  BY <1>1 DEF Ended, Idle, Abort, Becomes
<1> QED
  BY <1>1, <1>2, OweStep

LEMMA PurgeOwes ==
  ASSUME MiningInv, OweInv, NEW m \in Miners, Purge(m)
  PROVE  OweInv'
<1>1. run[m] \in Run /\ run[m].step = "purge" /\ ~Idle(run[m]) /\ OweRight(run[m])
      /\ RunRight(run[m])
  BY DEF Purge, MiningInv, MiningTypeOK, OweInv, Idle
<1>2. ASSUME NEW r \in Run, Proceeds(m, r, {}), r.step \in {"purge", "store"},
             r.mtime = run[m].mtime, r.file = run[m].file,
             r.alone = run[m].alone, r.owes = run[m].owes, r.mode = run[m].mode,
             r.todo = run[m].todo, r.version = run[m].version,
             \A f \in Files : DrawersOf(f)' = DrawersOf(f) \/ f = run[m].file
      PROVE  OweInv'
  <2>1. /\ r.mode = "project" => r.owes[r.file] <= r.mtime
        /\ ChunksOf[r.version] > 0
    BY <1>1, <1>2 DEF OweRight
  <2> QED
    BY <1>1, <1>2, <2>1, OweOn DEF Working, Idle
<1>3. CASE Becomes(m, [run[m] EXCEPT !.step = "store"])
  <2>1. [run[m] EXCEPT !.step = "store"] \in Run
    BY <1>1 DEF Run, Steps
  <2>2. PICK r \in Run : r = [run[m] EXCEPT !.step = "store"]
    BY <2>1
  <2>3. /\ Proceeds(m, r, {}) /\ UNCHANGED drawers
    BY <1>3, <2>2 DEF Becomes
  <2>4. /\ r.step = "store" /\ r.mtime = run[m].mtime /\ r.file = run[m].file
        /\ r.alone = run[m].alone /\ r.owes = run[m].owes /\ r.mode = run[m].mode
        /\ r.todo = run[m].todo /\ r.version = run[m].version
    BY <1>1, <2>2 DEF Run
  <2> QED
    BY <1>2, <2>3, <2>4 DEF DrawersOf
<1>4. ASSUME NEW d \in run[m].purge, drawers' = {e \in drawers : ~SameId(d, e)},
             Proceeds(m, [run[m] EXCEPT !.purge = run[m].purge \ {d}], {})
      PROVE  OweInv'
  <2>1. [run[m] EXCEPT !.purge = run[m].purge \ {d}] \in Run
    BY <1>1 DEF Run
  <2>2. PICK r \in Run : r = [run[m] EXCEPT !.purge = run[m].purge \ {d}]
    BY <2>1
  <2>3. Proceeds(m, r, {})
    BY <1>4, <2>2
  <2>4. /\ r.step = "purge" /\ r.mtime = run[m].mtime /\ r.file = run[m].file
        /\ r.alone = run[m].alone /\ r.owes = run[m].owes /\ r.mode = run[m].mode
        /\ r.todo = run[m].todo /\ r.version = run[m].version
    BY <1>1, <2>2 DEF Run
  <2>5. d.file = run[m].file
    BY <1>1 DEF RunRight
  <2>6. \A f \in Files : DrawersOf(f)' = DrawersOf(f) \/ f = run[m].file
    BY <1>4, <2>5 DEF DrawersOf, SameId
  <2> QED
    BY <1>2, <2>3, <2>4, <2>6
<1>5. CASE Abort(m)
  BY <1>1, <1>5, AbortOwes DEF Working
<1> QED
  BY <1>3, <1>4, <1>5 DEF Purge

LEMMA StoreOwes ==
  ASSUME MiningInv, OweInv, NEW m \in Miners, Store(m)
  PROVE  OweInv'
<1>1. run[m] \in Run /\ run[m].step = "store" /\ ~Idle(run[m]) /\ OweRight(run[m])
  BY DEF Store, MiningInv, MiningTypeOK, OweInv, Idle
<1>2. PICK r \in Run : r = run[m]
  BY <1>1
<1>3. NextFile(m, r)
  BY <1>2 DEF Store
<1>4. spoiled \subseteq spoiled'
  BY <1>3 DEF NextFile, Proceeds
<1>5. ASSUME NEW g \in Files \ spoiled', r.mode = "project", Due(r, g)
      PROVE  g \in r.todo \/ AlreadyMined(g, r.owes[g])'
  BY <1>1, <1>2, <1>4, <1>5, DoneIsMined
<1> QED
  BY <1>1, <1>2, <1>3, <1>5, OweNext DEF OweRight, Working

\* A run starts owing what it has still to turn to.
LEMMA StartOwes ==
  ASSUME MiningInv, OweInv, NEW m \in Miners, NEW mode \in Modes, NEW wing \in Wings,
         NEW alone \in BOOLEAN, NEW limit \in 0..LastFile, Start(m, mode, wing, alone, limit)
  PROVE  OweInv'
<1> DEFINE scan == {f \in Files : disk[f].there}
           todo == {f \in scan : limit = 0 \/ Cardinality({g \in scan : g <= f}) <= limit}
           owes == [f \in Files |-> IF alone /\ f \in todo THEN disk[f].version ELSE 0]
           q == [Ended("rest") EXCEPT !.mode = mode, !.wing = wing, !.alone = alone,
                                      !.todo = todo, !.owes = owes]
<1>1. todo \subseteq Files
  OBVIOUS
<1>2. owes \in [Files -> 0..LastVersion]
  BY MiningAssumption DEF MiningInv, MiningTypeOK
<1>3. Skip(m, q)
  BY DEF Start
<1>4. \A f \in Files : /\ owes[f] # 0 => alone /\ f \in todo
                       /\ owes[f] <= disk[f].version
  <2>1. \A f \in Files : disk[f].version \in Nat
    BY MiningAssumption DEF MiningInv, MiningTypeOK
  <2> HIDE DEF todo
  <2> QED
    BY <2>1
<1> HIDE DEF todo, owes
<1>5. q \in Run /\ q.todo = todo /\ q.owes = owes /\ q.alone = alone
  BY <1>1, <1>2, EndedIsRight DEF Run
<1>6. PICK r \in Run : r = q
  BY <1>5
<1> HIDE DEF q
<1>7. NextFile(m, r)
  BY <1>3, <1>6 DEF Skip
<1>8. \A n \in Miners : ~run[n].alone /\ (r.alone => Idle(run[n]))
  BY <1>5, <1>6 DEF Start, Working
<1>9. \A f \in Files : /\ r.owes[f] <= disk[f].version
                       /\ r.owes[f] # 0 => r.alone /\ f \in r.todo
  BY <1>4, <1>5, <1>6
<1> QED
  BY <1>7, <1>8, <1>9, OweNext DEF Due

\* An edit leaves a run owing no more than before.
LEMMA EditOwes ==
  ASSUME MiningInv, OweInv, NEW g \in Files, Edit(g) \/ Unlink(g)
  PROVE  OweInv'
<1>1. run' = run /\ drawers' = drawers /\ spoiled' = spoiled
  BY DEF Edit, Unlink
<1>2. disk \in [Files -> [there : BOOLEAN, version : 0..LastVersion]]
  BY DEF MiningInv, MiningTypeOK
<1>3. \A f \in Files : /\ disk[f].version \in Int /\ disk'[f].version \in Int
                       /\ disk[f].version <= disk'[f].version
                       /\ disk'[f].version = disk[f].version /\ disk'[f].there => disk[f].there
  <2>1. CASE Edit(g)
    <3>1. disk' = [disk EXCEPT ![g] = [there |-> TRUE, version |-> disk[g].version + 1]]
      BY <2>1 DEF Edit
    <3> QED
      BY <1>2, <3>1
  <2>2. CASE Unlink(g)
    <3>1. disk' = [disk EXCEPT ![g].there = FALSE]
      BY <2>2 DEF Unlink
    <3> QED
      BY <1>2, <3>1
  <2> QED
    BY <2>1, <2>2
<1>4. ASSUME NEW m \in Miners, ~Idle(run[m]) PROVE OweRight(run[m])'
  <2>1. OweRight(run[m]) /\ run[m] \in Run
    BY <1>4 DEF OweInv, MiningInv, MiningTypeOK
  <2>2. \A f \in Files : run[m].owes[f] \in Int
    BY <2>1 DEF Run
  <2>3. \A f \in Files : Due(run[m], f)' => Due(run[m], f)
    <3> SUFFICES ASSUME NEW f \in Files, Due(run[m], f)' PROVE Due(run[m], f)
      OBVIOUS
    <3>1. /\ run[m].owes[f] # 0 /\ run[m].owes[f] = disk'[f].version /\ disk'[f].there
          /\ run[m].owes[f] <= disk[f].version
      BY <1>1, <2>1 DEF Due, OweRight
    <3>2. disk[f].version = disk'[f].version
      BY <1>3, <2>2, <3>1
    <3> QED
      BY <1>3, <3>1, <3>2 DEF Due
  <2>4. \A f \in Files : AlreadyMined(f, run[m].owes[f])' <=> AlreadyMined(f, run[m].owes[f])
    BY <1>1 DEF AlreadyMined, DrawersOf, IsFirst, Before
  <2>5. \A f \in Files : run[m].owes[f] <= disk'[f].version
    <3> SUFFICES ASSUME NEW f \in Files PROVE run[m].owes[f] <= disk'[f].version
      OBVIOUS
    <3>1. run[m].owes[f] <= disk[f].version /\ disk[f].version <= disk'[f].version
          /\ run[m].owes[f] \in Int /\ disk[f].version \in Int /\ disk'[f].version \in Int
      BY <1>3, <2>1, <2>2 DEF OweRight
    <3> QED
      BY <3>1
  <2> QED
    BY <1>1, <2>1, <2>3, <2>4, <2>5 DEF OweRight
<1> QED
  BY <1>1, <1>4 DEF OweInv, AloneInv

THEOREM MiningOwes == Spec => []OweInv
<1>1. Init => OweInv
  BY DEF Init, OweInv, AloneInv, Ended, Idle
<1>2. MiningInv /\ OweInv /\ [Next]_vars => OweInv'
  <2> SUFFICES ASSUME MiningInv, OweInv, [Next]_vars PROVE OweInv'
    OBVIOUS
  <2>1. CASE \E f \in Files : Edit(f) \/ Unlink(f)
    BY <2>1, EditOwes
  <2>2. CASE \E m \in Miners : \E mode \in Modes, wing \in Wings, alone \in BOOLEAN, limit \in 0..LastFile :
               Start(m, mode, wing, alone, limit)
    BY <2>2, StartOwes
  <2>3. CASE \E m \in Miners : Step(m)
    BY <2>3, StatOwes, LookOwes, ReadOwes, ListOwes, PurgeOwes, StoreOwes DEF Step
  <2>4. CASE \E m \in Miners : Crash(m)
    BY <2>4, AbortOwes DEF Crash
  <2>5. CASE UNCHANGED vars
    <3>1. UNCHANGED <<disk, drawers, run, spoiled>>
      BY <2>5 DEF vars
    <3> QED
      BY <3>1 DEF OweInv, AloneInv, OweRight, Due, AlreadyMined, DrawersOf, IsFirst, Before
  <2> QED BY <2>1, <2>2, <2>3, <2>4, <2>5 DEF Next
<1> QED BY <1>1, <1>2, MiningInvariant, PTL DEF Spec

\* A run that is alone and comes to its end leaves no file it scanned, and found
\* text in, to be mined again if it has not changed, whatever edits, failures and
\* files that vanish it met on its way (miner.go:117-209).
THEOREM MiningRunCovers == Spec => RunCovers
<1>1. ASSUME MiningInv, OweInv, Next, NEW m \in Miners,
             Working(m), run'[m].step = "rest", run[m].mode = "project",
             NEW f \in Files \ spoiled', Due(run[m], f), run[m].step = "read" => f # FileOf(m)
      PROVE  AlreadyMined(f, disk[f].version)'
  <2>1. run \in [Miners -> Run] /\ run[m] \in Run /\ ~Idle(run[m])
    BY <1>1 DEF MiningInv, MiningTypeOK, Working
  <2>2. ASSUME NEW n \in Miners, n # m, NEW r, NEW lost, Proceeds(n, r, lost) PROVE FALSE
    BY <1>1, <2>1, <2>2 DEF Proceeds, Idle
  <2>3. ASSUME NEW r, NEW lost, Proceeds(m, r, lost), r.step # "rest" PROVE FALSE
    BY <1>1, <2>1, <2>3 DEF Proceeds
  <2>4. ASSUME NEW r \in Run, NextFile(m, r)
        PROVE  r.todo = {} /\ disk' = disk /\ spoiled \subseteq spoiled'
    <3>1. r.todo = {}
      <4> SUFFICES ASSUME r.todo # {} PROVE FALSE
        OBVIOUS
      <4>1. PICK g \in r.todo : Proceeds(m, TurnTo(r, g), {})
        BY <2>4 DEF NextFile
      <4>2. TurnTo(r, g).step # "rest"
        BY <2>4 DEF TurnTo, FirstStep, Run
      <4> QED
        BY <2>3, <4>1, <4>2
    <3> QED
      BY <2>4, <3>1 DEF NextFile, Proceeds
  <2>5. ASSUME NEW r \in Run, NextFile(m, r), r.todo = run[m].todo,
               \/ Stat(m) /\ ~disk[FileOf(m)].there /\ UNCHANGED drawers
               \/ Look(m) /\ AlreadyMined(FileOf(m), run[m].mtime) /\ UNCHANGED drawers
               \/ Read(m) /\ f # FileOf(m) /\ UNCHANGED drawers
               \/ Store(m)
        PROVE  AlreadyMined(f, disk[f].version)'
    <3>1. run[m].todo = {} /\ disk' = disk /\ spoiled \subseteq spoiled'
      BY <2>4, <2>5
    <3>2. \A o : o = run[m].owes[f] => f \in run[m].todo \/ AlreadyMined(f, o)'
      BY <1>1, <2>1, <2>5, <3>1, DoneIsMined
    <3>3. disk'[f].version = run[m].owes[f]
      BY <1>1, <3>1 DEF Due
    <3>4. PICK o : o = disk'[f].version
      OBVIOUS
    <3>5. AlreadyMined(f, o)'
      BY <3>1, <3>2, <3>3, <3>4
    <3> QED
      BY <3>4, <3>5 DEF AlreadyMined
  <2>6. ASSUME NEW n \in Miners, n # m, NEW r, NextFile(n, r) PROVE FALSE
    BY <2>2, <2>6 DEF NextFile
  <2>7. CASE \E g \in Files : Edit(g) \/ Unlink(g)
    BY <1>1, <2>1, <2>7 DEF Edit, Unlink, Idle
  <2>8. CASE \E n \in Miners : \E mode \in Modes, wing \in Wings, alone \in BOOLEAN, limit \in 0..LastFile :
               Start(n, mode, wing, alone, limit)
    <3>1. PICK n \in Miners, mode \in Modes, wing \in Wings, alone \in BOOLEAN, limit \in 0..LastFile :
               Start(n, mode, wing, alone, limit)
      BY <2>8
    <3>2. n # m /\ \E r : NextFile(n, r)
      BY <1>1, <3>1 DEF Start, Skip
    <3> QED
      BY <2>6, <3>2
  <2>9. ASSUME NEW n \in Miners, n # m, Step(n) \/ Crash(n) PROVE FALSE
    <3>1. PICK r, lost : NextFile(n, r) \/ Proceeds(n, r, lost)
      BY <2>9 DEF Step, Stat, Look, Read, List, Purge, Store, Crash, Abort, Becomes, Skip
    <3>2. CASE NextFile(n, r)
      BY <2>6, <2>9, <3>2
    <3>3. CASE Proceeds(n, r, lost)
      BY <2>2, <2>9, <3>3
    <3> QED
      BY <3>1, <3>2, <3>3
  <2>10. ~Abort(m)
    <3>1. Ended("failed").step # "rest"
      BY DEF Ended
    <3> QED
      BY <2>3, <3>1 DEF Abort, Becomes
  <2>11. CASE Stat(m)
    <3>1. CASE ~disk[FileOf(m)].there
      BY <2>1, <2>5, <2>11, <3>1 DEF Stat, Skip
    <3>2. CASE disk[FileOf(m)].there
      <4>1. [run[m] EXCEPT !.step = "look", !.mtime = disk[FileOf(m)].version].step = "look"
        BY <2>1 DEF Run
      <4> QED
        BY <2>3, <2>11, <3>2, <4>1 DEF Stat, Becomes
    <3> QED
      BY <3>1, <3>2
  <2>12. CASE Look(m)
    <3>1. [run[m] EXCEPT !.step = "read"].step = "read"
      BY <2>1 DEF Run
    <3>2. AlreadyMined(FileOf(m), run[m].mtime) /\ NextFile(m, run[m]) /\ UNCHANGED drawers
      BY <1>1, <2>3, <2>12, <3>1 DEF Look, Becomes, Skip
    <3> QED
      BY <2>1, <2>5, <2>12, <3>2
  <2>13. CASE Read(m)
    <3>1. [run[m] EXCEPT !.version = disk[FileOf(m)].version, !.step = "list"].step = "list"
      BY <2>1 DEF Run
    <3>2. Skip(m, [run[m] EXCEPT !.owes[FileOf(m)] = 0])
      BY <1>1, <2>3, <2>13, <3>1 DEF Read, Becomes
    <3>3. run[m].owes \in [Files -> 0..LastVersion] /\ 0 \in 0..LastVersion
      BY <2>1, MiningAssumption DEF Run
    <3>4. [run[m] EXCEPT !.owes = [run[m].owes EXCEPT ![FileOf(m)] = 0]] \in Run
      BY <2>1, <3>3 DEF Run
    <3>5. PICK r \in Run : r = [run[m] EXCEPT !.owes = [run[m].owes EXCEPT ![FileOf(m)] = 0]]
      BY <3>4
    <3>6. r.todo = run[m].todo
      BY <2>1, <3>5 DEF Run
    <3>7. NextFile(m, r) /\ UNCHANGED drawers
      BY <3>2, <3>5 DEF Skip
    <3>8. f # FileOf(m)
      BY <1>1, <2>13 DEF Read
    <3> QED
      BY <2>5, <2>13, <3>6, <3>7, <3>8
  <2>14. CASE List(m)
    <3>1. /\ [run[m] EXCEPT !.step = "store"].step = "store"
          /\ [run[m] EXCEPT !.step = "purge", !.purge = DrawersOf(FileOf(m))].step = "purge"
      BY <2>1 DEF Run
    <3> QED
      BY <2>3, <2>14, <3>1 DEF List, Becomes
  <2>15. CASE Purge(m)
    <3>1. [run[m] EXCEPT !.step = "store"].step = "store"
      BY <2>1 DEF Run
    <3>2. \A d : [run[m] EXCEPT !.purge = run[m].purge \ {d}].step = "purge"
      BY <2>1, <2>15 DEF Run, Purge
    <3> QED
      BY <2>3, <2>10, <2>15, <3>1, <3>2 DEF Purge, Becomes
  <2>16. CASE Store(m)
    BY <2>1, <2>5, <2>16 DEF Store
  <2>17. CASE Crash(m)
    BY <2>10, <2>17 DEF Crash
  <2> QED
    BY <1>1, <2>7, <2>8, <2>9, <2>11, <2>12, <2>13, <2>14, <2>15, <2>16, <2>17 DEF Next, Step
<1> DEFINE Covers ==
      \A m \in Miners :
         Working(m) /\ run'[m].step = "rest" /\ run[m].mode = "project"
         => \A f \in Files \ spoiled' :
              /\ run[m].owes[f] # 0 /\ run[m].owes[f] = disk[f].version
              /\ disk[f].there /\ (run[m].step = "read" => f # FileOf(m))
              => AlreadyMined(f, disk[f].version)'
<1>2. MiningInv /\ OweInv /\ [Next]_vars => [Covers]_vars
  BY <1>1 DEF Due
<1> QED
  BY <1>2, MiningInvariant, MiningOwes, PTL DEF Spec, RunCovers

-----------------------------------------------------------------------------
(* Conversations. The readers.                                             *)

\* A set of numbers that is not empty has a least one.
LEMMA LeastOf ==
  ASSUME NEW S \in SUBSET Nat, S # {}
  PROVE  \E k \in S : \A m \in Nat : m < k => m \notin S
<1>1. PICK k \in S : \A m \in S : ~(<<m, k>> \in OpToRel(<, Nat))
  BY NatLessThanWellFounded, WFMin
<1> QED BY <1>1 DEF OpToRel

\* A set of numbers that is not empty has the least one as its minimum.
LEMMA SmallestOf ==
  ASSUME NEW S \in SUBSET Nat, S # {}
  PROVE  Min(S) \in S /\ \A m \in S : Min(S) <= m
<1>1. PICK n \in S : \A i \in Nat : i < n => i \notin S
  BY LeastOf
<1>2. \A m \in S : n <= m
  BY <1>1
<1> QED BY <1>2 DEF Min

\* A set of numbers within bounds that is not empty has a largest one.
LEMMA LargestOf ==
  ASSUME NEW b \in Nat, NEW S \in SUBSET (0..b), S # {}
  PROVE  Max(S) \in S /\ \A m \in S : m <= Max(S)
<1> DEFINE T == {m \in Nat : b - m \in S}
<1>1. ASSUME NEW x \in S PROVE b - x \in T /\ x \in Nat
  <2>1. x \in Nat /\ b - x \in Nat /\ b - (b - x) = x
    OBVIOUS
  <2> QED BY <2>1
<1>2. T \in SUBSET Nat /\ T # {}
  BY <1>1
<1>3. PICK k \in T : \A i \in Nat : i < k => i \notin T
  <2> HIDE DEF T
  <2> QED BY <1>2, LeastOf
<1>4. ASSUME NEW m \in S PROVE b - k >= m
  <2>1. ~(b - m < k) /\ b - m \in Nat /\ m \in Nat /\ k \in Nat
    BY <1>1, <1>3
  <2> QED BY <2>1
<1>5. \E x \in S : \A y \in S : x >= y
  BY <1>3, <1>4
<1> QED BY <1>5 DEF Max

\* The kinds of lines.
Kinds == {"text", "quote", "rule", "blank"}

\* What is read keeps to the export: TalkIsTheExport so far, and behind what was
\* read last is what is read next.
TakenInv ==
    /\ \A n \in DOMAIN taken : n \in DOMAIN export /\ taken[n] \in 0..Len(talk)
    /\ \A i \in DOMAIN talk : \E n \in DOMAIN taken : IsMessage(n) /\ taken[n] = i
    /\ \A n \in DOMAIN taken : IsMessage(n) =>
         taken[n] > 0 /\ talk[taken[n]] = [role |-> RoleOf(n), text |-> TextOf(n)]
    /\ \A m, n \in DOMAIN taken : IsMessage(m) /\ IsMessage(n) /\ taken[m] = taken[n] => m = n
    /\ \A n \in DOMAIN taken : NextOf(n) \in DOMAIN taken =>
         \/ taken[NextOf(n)] = taken[n] + (IF IsMessage(NextOf(n)) THEN 1 ELSE 0)
         \/ form = "chatgpt" /\ taken[NextOf(n)] <= taken[n]
    /\ \A n \in DOMAIN taken :
         NextOf(n) \in DOMAIN taken \/ (NextOf(n) = at /\ taken[n] = Len(talk))
    /\ at \in Beginnings \/ Beginnings \cap DOMAIN taken # {}
    /\ form # "chatgpt" => \A n \in DOMAIN taken : n < at

\* What the readers keep: of two users the second is not what the first is, and
\* the messages are the export's.
ReadInv ==
    /\ form \in {"flat", "slack", "chatgpt"}
    /\ form = "flat" => export \in FlatExports /\ at \in Nat \ {0}
    /\ form = "slack" => export \in SlackExports /\ at \in Nat \ {0}
    /\ form = "chatgpt" => export \in ChatGPTExports
    /\ talk \in Seq(Message)
    /\ IsFiniteSet(DOMAIN roles) /\ \A u \in DOMAIN roles : roles[u] \in {"user", "assistant"}
    /\ form = "slack" =>
         /\ \A u \in DOMAIN roles :
              DOMAIN roles = {u} => /\ roles[u] = "user" /\ Len(talk) > 0
                                    /\ talk[Len(talk)].role = "user"
         /\ \A u, v \in DOMAIN roles : u # v /\ DOMAIN roles = {u, v} => roles[u] # roles[v]
         /\ \A n \in DOMAIN taken : export[n] \in DOMAIN roles
    /\ TakenInv

\* Nothing is read at first.
LEMMA ReadInit == TranscriptInit => ReadInv
<1> SUFFICES ASSUME TranscriptInit PROVE ReadInv
  OBVIOUS
<1>1. roles = <<>> /\ talk = <<>> /\ taken = <<>> /\ DOMAIN roles = {} /\ DOMAIN taken = {}
  BY DEF TranscriptInit
<1>2. at \in Beginnings /\ (form = "chatgpt" => export \in ChatGPTExports)
  BY DEF TranscriptInit, Roots, Beginnings
<1>3. /\ form \in {"flat", "slack", "chatgpt"}
      /\ form = "flat" => export \in FlatExports /\ at \in Nat \ {0}
      /\ form = "slack" => export \in SlackExports /\ at \in Nat \ {0}
  BY DEF TranscriptInit
<1>4. talk \in Seq(Message) /\ DOMAIN talk = {}
  BY <1>1
<1>5. TakenInv
  BY <1>1, <1>2, <1>4 DEF TakenInv
<1> QED BY <1>1, <1>2, <1>3, <1>4, <1>5, FS_EmptySet DEF ReadInv

\* A message is what an entry of one of the two becomes.
LEMMA MessageOf ==
  ASSUME ReadInv, NEW n \in DOMAIN export, IsMessage(n)
  PROVE  [role |-> RoleOf(n), text |-> TextOf(n)] \in Message
<1>1. RoleOf(n) \in {"user", "assistant"} /\ TextOf(n) # <<>>
  BY DEF IsMessage
<1>2. TextOf(n) \in Text
  <2>1. CASE form = "flat"
    <3>1. export \in Seq(Entry)
      BY <2>1, TranscriptAssumption DEF ReadInv
    <3>2. export[n] \in Entry
      BY <3>1
    <3> QED BY <3>2, <2>1 DEF Entry, TextOf
  <2>2. CASE form # "flat"
    BY <2>2 DEF TextOf, Text
  <2> QED BY <2>1, <2>2
<1> QED BY <1>1, <1>2 DEF Message

\* An entry taken is behind those before it, whatever reader takes it, when the
\* roles of these stay.
LEMMA EntryIsTaken ==
  ASSUME ReadInv, TakeEntry, at \in DOMAIN export, at \notin DOMAIN taken,
         form' = form, export' = export, at' = NextOf(at),
         \A n \in DOMAIN taken \cup {at} : RoleOf(n)' = RoleOf(n)
  PROVE  TakenInv' /\ talk' \in Seq(Message)
<1>1. PICK z \in {0, 1} : z = IF IsMessage(at) THEN 1 ELSE 0
  OBVIOUS
<1>2. PICK r : r = [role |-> RoleOf(at), text |-> TextOf(at)]
  OBVIOUS
<1>3. talk \in Seq(Message) /\ (z = 1 => r \in Message) /\ Len(talk) \in Nat /\ TakenInv
  BY <1>1, <1>2, MessageOf DEF ReadInv
<1>4. /\ talk' \in Seq(Message) /\ Len(talk') = Len(talk) + z
      /\ \A i \in 1..Len(talk) : talk'[i] = talk[i]
      /\ z = 1 => talk'[Len(talk) + 1] = r
  <2>1. CASE z = 1
    <3>1. talk' = Append(talk, r) /\ r \in Message
      BY <2>1, <1>1, <1>2, <1>3 DEF TakeEntry
    <3> QED BY <3>1, <2>1, <1>3
  <2>2. CASE z = 0
    <3>1. talk' = talk
      BY <2>2, <1>1 DEF TakeEntry
    <3> QED BY <3>1, <2>2, <1>3
  <2> QED BY <2>1, <2>2
<1>5. /\ DOMAIN taken' = DOMAIN taken \cup {at} /\ taken'[at] = Len(talk) + z
      /\ \A n \in DOMAIN taken : taken'[n] = taken[n] /\ n # at
  BY <1>4 DEF TakeEntry
<1>6. /\ \A n \in DOMAIN taken' : /\ RoleOf(n)' = RoleOf(n) /\ TextOf(n)' = TextOf(n)
                                  /\ IsMessage(n)' <=> IsMessage(n)
      /\ \A n : NextOf(n)' = NextOf(n)
  <2>1. ASSUME NEW n \in DOMAIN taken'
        PROVE  RoleOf(n)' = RoleOf(n) /\ TextOf(n)' = TextOf(n) /\ (IsMessage(n)' <=> IsMessage(n))
    <3>1. RoleOf(n)' = RoleOf(n) /\ TextOf(n)' = TextOf(n)
      BY <1>5 DEF TextOf
    <3> QED BY <3>1 DEF IsMessage
  <2> QED BY <2>1 DEF NextOf
<1>7. \A n \in DOMAIN taken : n \in DOMAIN export /\ taken[n] \in 0..Len(talk)
  BY <1>3 DEF TakenInv
<1>8. \A n \in DOMAIN taken' : n \in DOMAIN export' /\ taken'[n] \in 0..Len(talk')
  BY <1>3, <1>4, <1>5, <1>7
<1>9. DOMAIN talk = 1..Len(talk) /\ DOMAIN talk' = 1..(Len(talk) + z)
  BY <1>3, <1>4
<1>10. ASSUME NEW i \in DOMAIN talk' PROVE \E n \in DOMAIN taken' : IsMessage(n)' /\ taken'[n] = i
  <2>1. CASE i \in DOMAIN talk
    <3>1. PICK n \in DOMAIN taken : IsMessage(n) /\ taken[n] = i
      BY <2>1, <1>3 DEF TakenInv
    <3> QED BY <3>1, <1>5, <1>6
  <2>2. CASE i \notin DOMAIN talk
    <3>1. i = Len(talk) + 1 /\ z = 1
      BY <2>2, <1>3, <1>9
    <3> QED BY <3>1, <1>1, <1>5, <1>6
  <2> QED BY <2>1, <2>2
<1>11. ASSUME NEW n \in DOMAIN taken', IsMessage(n)'
       PROVE  taken'[n] > 0 /\ talk'[taken'[n]] = [role |-> RoleOf(n)', text |-> TextOf(n)']
  <2>1. CASE n = at
    <3>1. z = 1
      BY <2>1, <1>1, <1>6, <1>11
    <3>2. taken'[n] = Len(talk) + 1 /\ talk'[taken'[n]] = r
      BY <3>1, <2>1, <1>4, <1>5
    <3> QED BY <3>2, <2>1, <1>2, <1>3, <1>6
  <2>2. CASE n # at
    <3>1. n \in DOMAIN taken /\ taken'[n] = taken[n] /\ IsMessage(n) /\ taken[n] \in 0..Len(talk)
      BY <2>2, <1>5, <1>6, <1>7, <1>11
    <3>2. taken[n] > 0 /\ talk[taken[n]] = [role |-> RoleOf(n), text |-> TextOf(n)]
      BY <3>1, <1>3 DEF TakenInv
    <3>3. talk'[taken[n]] = talk[taken[n]]
      BY <3>1, <3>2, <1>3, <1>4
    <3> QED BY <3>1, <3>2, <3>3, <1>6
  <2> QED BY <2>1, <2>2
<1>12. ASSUME NEW m \in DOMAIN taken', NEW n \in DOMAIN taken',
              IsMessage(m)', IsMessage(n)', taken'[m] = taken'[n]
       PROVE  m = n
  <2>1. IsMessage(m) /\ IsMessage(n)
    BY <1>6, <1>12
  <2>2. CASE m \in DOMAIN taken /\ n \in DOMAIN taken
    BY <2>1, <2>2, <1>3, <1>5, <1>12 DEF TakenInv
  <2>3. CASE m = at /\ n # at
    <3>1. z = 1 /\ taken'[n] = taken[n] /\ taken[n] \in 0..Len(talk) /\ taken'[m] = Len(talk) + 1
      BY <2>1, <2>3, <1>1, <1>5, <1>7
    <3> QED BY <3>1, <1>3, <1>12
  <2>4. CASE n = at /\ m # at
    <3>1. z = 1 /\ taken'[m] = taken[m] /\ taken[m] \in 0..Len(talk) /\ taken'[n] = Len(talk) + 1
      BY <2>1, <2>4, <1>1, <1>5, <1>7
    <3> QED BY <3>1, <1>3, <1>12
  <2> QED BY <2>2, <2>3, <2>4, <1>5
<1>13. ASSUME NEW n \in DOMAIN taken', NEW c \in DOMAIN taken', c = NextOf(n)
       PROVE  \/ taken'[c] = taken'[n] + (IF IsMessage(c)' THEN 1 ELSE 0)
              \/ form' = "chatgpt" /\ taken'[c] <= taken'[n]
  <2>1. form' = form
    OBVIOUS
  <2>2. IsMessage(c)' <=> IsMessage(c)
    BY <1>6
  <2>3. CASE n = at
    <3>1. taken'[c] <= taken'[n]
      <4>1. c = at \/ (taken'[c] = taken[c] /\ taken[c] \in 0..Len(talk))
        BY <1>5, <1>7
      <4> QED BY <4>1, <2>3, <1>3, <1>5
    <3>2. form = "chatgpt"
      <4> SUFFICES ASSUME form # "chatgpt" PROVE FALSE
        OBVIOUS
      <4>1. at \in Nat /\ c = at + 1 /\ \A m \in DOMAIN taken : m < at
        BY <1>13, <2>3, <1>3 DEF ReadInv, TakenInv, NextOf
      <4>2. c # at /\ ~(c < at)
        BY <4>1
      <4> QED BY <4>1, <4>2, <1>5
    <3> QED BY <3>1, <3>2, <2>1
  <2>4. CASE n # at /\ c = at
    <3>1. n \in DOMAIN taken /\ c \notin DOMAIN taken
      BY <2>4, <1>5
    <3>2. taken[n] = Len(talk) /\ taken'[n] = taken[n]
      BY <3>1, <1>13, <1>3, <1>5 DEF TakenInv
    <3>3. taken'[c] = taken'[n] + z /\ z = IF IsMessage(c)' THEN 1 ELSE 0
      BY <3>2, <2>2, <2>4, <1>1, <1>5
    <3> QED BY <3>3
  <2>5. CASE n # at /\ c # at
    <3>1. /\ n \in DOMAIN taken /\ c \in DOMAIN taken
          /\ taken'[n] = taken[n] /\ taken'[c] = taken[c]
      BY <2>5, <1>5
    <3>2. \/ taken[c] = taken[n] + (IF IsMessage(c) THEN 1 ELSE 0)
          \/ form = "chatgpt" /\ taken[c] <= taken[n]
      BY <3>1, <1>13, <1>3 DEF TakenInv
    <3> QED BY <3>1, <3>2, <2>1, <2>2
  <2> QED BY <2>3, <2>4, <2>5
<1>14. ASSUME NEW n \in DOMAIN taken'
       PROVE  NextOf(n) \in DOMAIN taken' \/ (NextOf(n) = at' /\ taken'[n] = Len(talk'))
  <2>1. CASE n = at
    BY <2>1, <1>4, <1>5
  <2>2. CASE n # at
    BY <2>2, <1>3, <1>5 DEF TakenInv
  <2> QED BY <2>1, <2>2
<1>15. Beginnings' = Beginnings /\ Beginnings \cap DOMAIN taken' # {}
  <2>1. Beginnings' = Beginnings
    BY DEF Beginnings
  <2> QED BY <2>1, <1>3, <1>5 DEF TakenInv
<1>16. form # "chatgpt" => \A n \in DOMAIN taken' : n < at'
  <2> SUFFICES ASSUME form # "chatgpt", NEW n \in DOMAIN taken' PROVE n < at'
    OBVIOUS
  <2>1. at \in Nat /\ at' = at + 1 /\ (n \in DOMAIN taken => n < at /\ n \in DOMAIN export)
    BY <1>3 DEF ReadInv, TakenInv, NextOf
  <2>2. DOMAIN export \subseteq Nat
    BY TranscriptAssumption DEF ReadInv
  <2> QED BY <2>1, <2>2, <1>5
<1>17. form' # "chatgpt" => \A n \in DOMAIN taken' : n < at'
  BY <1>16
<1> QED BY <1>4, <1>6, <1>8, <1>10, <1>11, <1>12, <1>13, <1>14, <1>15, <1>17 DEF TakenInv

\* Entries as they come.
LEMMA ReadFlatStep == ASSUME ReadInv, ReadFlat PROVE ReadInv'
<1>1. /\ form = "flat" /\ at <= Len(export) /\ TakeEntry /\ at' = at + 1
      /\ form' = form /\ export' = export /\ roles' = roles
  BY DEF ReadFlat
<1>2. export \in Seq(Entry) /\ at \in Nat \ {0} /\ TakenInv
  BY <1>1, TranscriptAssumption DEF ReadInv
<1>3. at \in DOMAIN export /\ at \notin DOMAIN taken
  BY <1>1, <1>2 DEF TakenInv
<1>4. at' = NextOf(at) /\ \A n \in DOMAIN taken \cup {at} : RoleOf(n)' = RoleOf(n)
  BY <1>1 DEF NextOf, RoleOf
<1>5. TakenInv' /\ talk' \in Seq(Message)
  BY <1>1, <1>3, <1>4, EntryIsTaken
<1> QED BY <1>1, <1>2, <1>5 DEF ReadInv

\* A second user gets the role the first one has not.
LEMMA ReadSlackStep == ASSUME ReadInv, ReadSlack PROVE ReadInv'
<1>1. PICK u : u = export[at]
  OBVIOUS
<1>2. PICK r : r = SlackRole(u)
  OBVIOUS
<1>3. /\ form = "slack" /\ at <= Len(export) /\ at' = at + 1 /\ TakeEntry
      /\ roles' = [v \in DOMAIN roles \cup {u} |-> SlackRole(v)]
      /\ form' = form /\ export' = export
  BY <1>1, <1>2 DEF ReadSlack
<1>4. /\ talk \in Seq(Message) /\ IsFiniteSet(DOMAIN roles) /\ at \in Nat \ {0}
      /\ \A v \in DOMAIN roles : roles[v] \in {"user", "assistant"}
      /\ export \in SlackExports /\ TakenInv
      /\ \A n \in DOMAIN taken : export[n] \in DOMAIN roles
  BY <1>3 DEF ReadInv
<1>5. r \in {"user", "assistant"} /\ (u \in DOMAIN roles => r = roles[u])
  BY <1>2, <1>4 DEF SlackRole
<1>6. RoleOf(at) = r /\ IsMessage(at)
  BY <1>1, <1>2, <1>3, <1>5 DEF RoleOf, TextOf, IsMessage
<1>7. at \in DOMAIN export /\ at \notin DOMAIN taken
  <2>1. DOMAIN export = 1..Len(export)
    BY <1>4, TranscriptAssumption
  <2> QED BY <2>1, <1>3, <1>4 DEF TakenInv
<1>8. /\ DOMAIN roles' = DOMAIN roles \cup {u} /\ roles'[u] = r
      /\ \A v \in DOMAIN roles : roles'[v] = roles[v]
  BY <1>2, <1>3 DEF SlackRole
<1>a. \A n \in DOMAIN taken \cup {at} : export[n] \in DOMAIN roles' /\ RoleOf(n)' = RoleOf(n)
  <2>1. ASSUME NEW v \in DOMAIN roles' PROVE SlackRole(v)' = roles'[v] /\ SlackRole(v) = roles'[v]
    BY <1>2, <1>3, <1>8 DEF SlackRole
  <2>2. ASSUME NEW n \in DOMAIN taken \cup {at} PROVE export[n] \in DOMAIN roles' /\ RoleOf(n)' = RoleOf(n)
    <3>1. export[n] \in DOMAIN roles' /\ export'[n] = export[n]
      BY <1>1, <1>3, <1>4, <1>8
    <3>2. SlackRole(export[n])' = SlackRole(export[n])
      BY <3>1, <2>1, <1>3
    <3> QED BY <3>1, <3>2, <1>3 DEF RoleOf
  <2> QED BY <2>2
<1>b. at' = NextOf(at)
  BY <1>3 DEF NextOf
<1>c. TakenInv' /\ talk' \in Seq(Message)
  BY <1>3, <1>7, <1>a, <1>b, EntryIsTaken
<1>d. Len(talk') = Len(talk) + 1 /\ Len(talk') > 0 /\ talk'[Len(talk')].role = r
  <2>1. PICK m \in Message : m = [role |-> RoleOf(at), text |-> TextOf(at)]
    BY <1>6, <1>7, MessageOf
  <2>2. talk' = Append(talk, m) /\ m.role = r
    BY <2>1, <1>3, <1>6 DEF TakeEntry
  <2>3. Len(talk') = Len(talk) + 1 /\ talk'[Len(talk) + 1] = m /\ Len(talk) \in Nat
    BY <2>2, <1>4
  <2> QED BY <2>2, <2>3
<1>9. IsFiniteSet(DOMAIN roles') /\ \A v \in DOMAIN roles' : roles'[v] \in {"user", "assistant"}
  BY <1>4, <1>5, <1>8, FS_AddElement
<1>10. ASSUME NEW v \in DOMAIN roles', DOMAIN roles' = {v} PROVE roles'[v] = "user" /\ r = "user"
  <2>1. v = u
    BY <1>8, <1>10
  <2>2. CASE u \in DOMAIN roles
    <3>1. DOMAIN roles = {u}
      BY <2>1, <2>2, <1>8, <1>10
    <3> QED BY <3>1, <2>1, <2>2, <1>3, <1>5, <1>8 DEF ReadInv
  <2>3. CASE u \notin DOMAIN roles
    <3>1. DOMAIN roles = {}
      BY <2>1, <2>3, <1>8, <1>10
    <3> QED BY <3>1, <2>1, <1>2, <1>8 DEF SlackRole
  <2> QED BY <2>2, <2>3
<1>11. ASSUME NEW v \in DOMAIN roles', NEW w \in DOMAIN roles', v # w, DOMAIN roles' = {v, w}
       PROVE  roles'[v] # roles'[w]
  <2>1. CASE u \in DOMAIN roles
    <3>1. DOMAIN roles = {v, w} /\ roles'[v] = roles[v] /\ roles'[w] = roles[w]
      BY <2>1, <1>8, <1>11
    <3> QED BY <3>1, <1>3, <1>11 DEF ReadInv
  <2>2. CASE u \notin DOMAIN roles
    <3>1. PICK x : DOMAIN roles = {x} /\ {v, w} = {x, u} /\ x # u
      BY <2>2, <1>8, <1>11
    <3>2. roles[x] = "user" /\ talk[Len(talk)].role = "user" /\ DOMAIN roles # {}
      BY <3>1, <1>3 DEF ReadInv
    <3>3. r = "assistant"
      BY <3>2, <2>2, <1>2 DEF SlackRole
    <3>4. roles'[x] = "user" /\ roles'[u] = "assistant"
      BY <3>1, <3>2, <3>3, <1>8
    <3> QED BY <3>1, <3>4, <1>11
  <2> QED BY <2>1, <2>2
<1>12. at' \in Nat \ {0} /\ form' = "slack" /\ export' \in SlackExports
  BY <1>3, <1>4
<1>13. \A n \in DOMAIN taken' : export'[n] \in DOMAIN roles'
  <2>1. DOMAIN taken' = DOMAIN taken \cup {at}
    BY <1>3 DEF TakeEntry
  <2> QED BY <2>1, <1>3, <1>a
<1> QED BY <1>9, <1>10, <1>11, <1>12, <1>13, <1>c, <1>d DEF ReadInv

\* The walk goes on to a node it has not visited.
LEMMA FollowStep == ASSUME ReadInv, FollowFirstChild PROVE ReadInv'
<1>1. /\ form = "chatgpt" /\ at \in DOMAIN export /\ at \notin DOMAIN taken /\ TakeEntry
      /\ at' = export[at].child /\ form' = form /\ export' = export /\ roles' = roles
  BY DEF FollowFirstChild, WalkOn
<1>2. at' = NextOf(at) /\ \A n \in DOMAIN taken \cup {at} : RoleOf(n)' = RoleOf(n)
  BY <1>1 DEF NextOf, RoleOf
<1>3. TakenInv' /\ talk' \in Seq(Message)
  BY <1>1, <1>2, EntryIsTaken
<1> QED BY <1>1, <1>3 DEF ReadInv

\* What is read stays read while it is written and cut.
LEMMA SameReading == ASSUME ReadInv, UNCHANGED readingVars PROVE ReadInv'
<1>1. /\ form' = form /\ export' = export /\ at' = at /\ taken' = taken
      /\ roles' = roles /\ talk' = talk
  BY DEF readingVars
<1>2. \A n : RoleOf(n)' = RoleOf(n) /\ TextOf(n)' = TextOf(n)
  BY <1>1 DEF RoleOf, TextOf, SlackRole
<1>3. (\A n : IsMessage(n)' <=> IsMessage(n)) /\ \A n : NextOf(n)' = NextOf(n)
  BY <1>1, <1>2 DEF IsMessage, NextOf
<1>4. Beginnings' = Beginnings
  BY <1>1 DEF Beginnings
<1>5. TakenInv'
  BY <1>1, <1>2, <1>3, <1>4 DEF ReadInv, TakenInv
<1> QED BY <1>1, <1>5 DEF ReadInv

\* Two sets, one of two users and one of their roles.
LEMMA TwoOf ==
  ASSUME NEW S, IsFiniteSet(S), Cardinality(S) = 2
  PROVE  \E u, v : u # v /\ S = {u, v}
<1>1. PICK u : u \in S
  BY FS_EmptySet
<1>2. PICK T : T = S \ {u}
  OBVIOUS
<1>3. IsFiniteSet(T) /\ Cardinality(T) = 1
  BY <1>1, <1>2, FS_RemoveElement
<1>4. PICK v : T = {v}
  BY <1>3, FS_Singleton
<1> QED BY <1>1, <1>2, <1>4

\* Two different things are two.
LEMMA SizeOfTwo ==
  ASSUME NEW u, NEW v, u # v
  PROVE  IsFiniteSet({u, v}) /\ Cardinality({u, v}) = 2
<1>1. IsFiniteSet({u}) /\ Cardinality({u}) = 1
  BY FS_Singleton
<1>2. {u, v} = {u} \cup {v} /\ v \notin {u}
  OBVIOUS
<1> QED BY <1>1, <1>2, FS_AddElement

\* What an export has at its beginning, and that it is read to its end.
LEMMA ExportIsRead ==
  ASSUME ReadInv, IsRead
  PROVE  /\ DOMAIN export # {} => Beginnings \cap DOMAIN taken # {}
         /\ \A n \in DOMAIN taken : NextOf(n) \in DOMAIN export => NextOf(n) \in DOMAIN taken
<1>1. TakenInv
  BY DEF ReadInv
<1>2. CASE form = "chatgpt"
  <2>1. at \notin DOMAIN export \/ at \in DOMAIN taken
    BY <1>2 DEF IsRead, WalkOn
  <2>2. Beginnings \subseteq DOMAIN export
    BY <1>2 DEF Beginnings
  <2> QED BY <2>1, <2>2, <1>1 DEF TakenInv
<1>3. CASE form # "chatgpt"
  <2>1. at > Len(export) /\ DOMAIN export = 1..Len(export) /\ at \in Nat /\ Len(export) \in Nat
    BY <1>3, TranscriptAssumption DEF IsRead, ReadInv
  <2>2. Beginnings = {1} /\ at \notin DOMAIN export
    BY <2>1, <1>3 DEF Beginnings
  <2>3. DOMAIN export # {} => at # 1
    BY <2>1
  <2> QED BY <2>2, <2>3, <1>1 DEF TakenInv
<1> QED BY <1>2, <1>3

\* So two users are told apart, and the messages are the export's.
LEMMA ReadersKeep ==
  ASSUME ReadInv
  PROVE  TwoAreToldApart /\ TalkIsTheExport
<1>1. TwoAreToldApart
  <2> SUFFICES ASSUME form = "slack", Cardinality(DOMAIN roles) = 2
               PROVE  Cardinality({roles[u] : u \in DOMAIN roles}) = 2
    BY DEF TwoAreToldApart
  <2>1. IsFiniteSet(DOMAIN roles)
    BY DEF ReadInv
  <2>2. PICK u, v : u # v /\ DOMAIN roles = {u, v}
    BY <2>1, TwoOf
  <2>3. roles[u] # roles[v]
    BY <2>2 DEF ReadInv
  <2>4. {roles[w] : w \in DOMAIN roles} = {roles[u], roles[v]}
    BY <2>2
  <2> QED BY <2>3, <2>4, SizeOfTwo
<1>2. TalkIsTheExport
  BY ExportIsRead DEF ReadInv, TakenInv, TalkIsTheExport
<1> QED BY <1>1, <1>2

-----------------------------------------------------------------------------
(* The text that is written of the messages.                               *)

\* A line of a message, and the kind its writing gives it.
KindOf(msgs, i, j) == IF msgs[i].role = "user" /\ j = 1 THEN "quote" ELSE msgs[i].text[j]
IsOf(msgs, line, i, j) == line.of = i /\ line.place = j /\ line.kind = KindOf(msgs, i, j)

\* What is written of so many messages: every line of theirs, once and in order,
\* with a blank one before a question.
WrittenInv(msgs, n, s) ==
    /\ \A k \in 1..Len(s) :
         \/ s[k] = BlankLine
         \/ \E i \in 1..n : \E j \in DOMAIN msgs[i].text : IsOf(msgs, s[k], i, j)
    /\ \A i \in 1..n : \A j \in DOMAIN msgs[i].text :
         \E k \in 1..Len(s) : s[k].of = i /\ s[k].place = j
    /\ \A k, l \in 1..Len(s) :
         k < l /\ s[k].of # 0 /\ s[l].of # 0 =>
           s[k].of < s[l].of \/ (s[k].of = s[l].of /\ s[k].place < s[l].place)
    /\ \A k \in 2..Len(s) :
         s[k].of # 0 /\ s[k].place = 1 /\ msgs[s[k].of].role = "user" => s[k - 1].kind = "blank"

WriteInv ==
    /\ lines \in Seq(Line) /\ written \in 0..Len(talk) /\ (written > 0 => IsRead)
    /\ WrittenInv(talk, written, lines)
    /\ written = 0 => lines = <<>>
    /\ written > 0 => Len(lines) > 0 /\ (IsAnswered(written) \/ lines[Len(lines)].kind = "blank")

\* What a message is.
LEMMA MessageIs ==
  ASSUME talk \in Seq(Message), NEW i \in 1..Len(talk)
  PROVE  /\ talk[i].role \in {"user", "assistant"} /\ talk[i].text \in Seq(Kinds)
         /\ Len(talk[i].text) \in Nat \ {0} /\ DOMAIN talk[i].text = 1..Len(talk[i].text)
         /\ \A j \in DOMAIN talk[i].text : talk[i].text[j] \in Kinds /\ KindOf(talk, i, j) \in Kinds
<1>1. talk[i] \in Message
  OBVIOUS
<1>2. talk[i].role \in {"user", "assistant"} /\ talk[i].text \in Seq(Kinds) \ {<<>>}
  BY <1>1 DEF Message, Text, Kinds
<1>3. PICK t \in Seq(Kinds) \ {<<>>} : t = talk[i].text
  BY <1>2
<1>4. Len(t) \in Nat \ {0} /\ DOMAIN t = 1..Len(t) /\ \A j \in DOMAIN t : t[j] \in Kinds
  BY <1>3
<1> QED BY <1>2, <1>3, <1>4 DEF KindOf, Kinds

\* Two sequences of lines, one behind the other.
LEMMA JoinIs ==
  ASSUME NEW u \in Seq(Line), NEW v \in Seq(Line)
  PROVE  /\ u \o v \in Seq(Line) /\ Len(u \o v) = Len(u) + Len(v)
         /\ \A k \in 1..Len(u) : (u \o v)[k] = u[k]
         /\ \A k \in 1..Len(v) : (u \o v)[Len(u) + k] = v[k]
  OBVIOUS

\* A message's lines, in order.
LEMMA LinesOfIs ==
  ASSUME talk \in Seq(Message), NEW i \in 1..Len(talk), NEW m \in Nat, m = Len(talk[i].text)
  PROVE  /\ LinesOf(i) \in Seq(Line) /\ Len(LinesOf(i)) = m
         /\ \A j \in 1..m : IsOf(talk, LinesOf(i)[j], i, j)
<1>1. /\ talk[i].text \in Seq(Kinds) /\ DOMAIN talk[i].text = 1..m
      /\ \A j \in 1..m : talk[i].text[j] \in Kinds /\ KindOf(talk, i, j) \in Kinds
  BY MessageIs
<1>2. PICK s : s = [j \in 1..m |-> [kind |-> KindOf(talk, i, j), of |-> i, place |-> j]]
  OBVIOUS
<1>3. s = LinesOf(i)
  BY <1>1, <1>2 DEF LinesOf, KindOf
<1>4. \A j \in 1..m : s[j] \in Line /\ IsOf(talk, s[j], i, j)
  BY <1>1, <1>2 DEF Line, Kinds, IsOf
<1>a. s \in [1..m -> Line]
  BY <1>2, <1>4
<1>5. s \in Seq(Line) /\ Len(s) = m
  BY <1>a
<1> QED BY <1>3, <1>4, <1>5

\* Nothing is written at first.
LEMMA WriteInit == TranscriptInit => WriteInv
<1> SUFFICES ASSUME TranscriptInit PROVE WriteInv
  OBVIOUS
<1>1. talk = <<>> /\ written = 0 /\ lines = <<>>
  BY DEF TranscriptInit
<1>2. Len(lines) = 0 /\ lines \in Seq(Line) /\ Len(talk) = 0
  BY <1>1
<1> QED BY <1>1, <1>2 DEF WriteInv, WrittenInv

\* A reader that reads is not done.
LEMMA NotYetRead == ASSUME ReadInv, ReadFlat \/ ReadSlack \/ FollowFirstChild PROVE ~IsRead
<1>1. CASE ReadFlat
  <2>1. form = "flat" /\ at <= Len(export) /\ at \in Nat /\ Len(export) \in Nat
    BY <1>1, TranscriptAssumption DEF ReadFlat, ReadInv
  <2> QED BY <2>1 DEF IsRead
<1>2. CASE ReadSlack
  <2>1. form = "slack" /\ at <= Len(export) /\ at \in Nat /\ Len(export) \in Nat
    BY <1>2, TranscriptAssumption DEF ReadSlack, ReadInv
  <2> QED BY <2>1 DEF IsRead
<1>3. CASE FollowFirstChild
  BY <1>3 DEF FollowFirstChild, IsRead
<1> QED BY <1>1, <1>2, <1>3

\* While it is read nothing is written.
LEMMA ReadThenWrite ==
  ASSUME ReadInv, WriteInv, ReadFlat \/ ReadSlack \/ FollowFirstChild, talk' \in Seq(Message), talk \in Seq(Message)
  PROVE  WriteInv'
<1>1. ~IsRead
  BY NotYetRead
<1>2. written = 0 /\ lines = <<>>
  BY <1>1 DEF WriteInv
<1>3. written' = 0 /\ lines' = <<>>
  BY <1>2 DEF ReadFlat, ReadSlack, FollowFirstChild, writingVars
<1>4. Len(lines') = 0 /\ lines' \in Seq(Line)
  BY <1>3
<1>5. Len(talk') \in Nat
  OBVIOUS
<1> QED BY <1>3, <1>4, <1>5 DEF WriteInv, WrittenInv

\* A message's lines come behind those of the earlier ones, a question's behind
\* a blank line.
LEMMA WriteStep == ASSUME ReadInv, WriteInv, MessagesToTranscript PROVE WriteInv'
<1>1. PICK i : i = written + 1
  OBVIOUS
<1>2. /\ IsRead /\ written < Len(talk) /\ written' = i /\ lines' = lines \o LinesOf(i) \o EndOf(i)
      /\ talk' = talk /\ form' = form /\ at' = at /\ export' = export /\ taken' = taken
  BY <1>1 DEF MessagesToTranscript, readingVars
<1>3. /\ talk \in Seq(Message) /\ lines \in Seq(Line) /\ written \in Nat /\ i \in 1..Len(talk) /\ i \in Nat
      /\ WrittenInv(talk, written, lines)
  BY <1>1, <1>2 DEF ReadInv, WriteInv
<1>4. PICK n, m \in Nat : n = Len(lines) /\ m = Len(talk[i].text)
  BY <1>3, MessageIs
<1>5. m > 0 /\ DOMAIN talk[i].text = 1..m
  BY <1>3, <1>4, MessageIs
<1>6. PICK s \in Seq(Line) : s = LinesOf(i) /\ Len(s) = m /\ \A j \in 1..m : IsOf(talk, s[j], i, j)
  BY <1>3, <1>4, LinesOfIs
<1>7. PICK e \in Seq(Line) : e = EndOf(i)
  <2>1. BlankLine \in Line
    BY DEF BlankLine, Line
  <2>2. <<BlankLine>> \in Seq(Line) /\ <<>> \in Seq(Line)
    BY <2>1
  <2> QED BY <2>2 DEF EndOf
<1>8. PICK z \in {0, 1} : Len(e) = z /\ (z = 1 => e[1] = BlankLine) /\ (z = 0 => IsAnswered(i))
  BY <1>7 DEF EndOf
<1>9. PICK t : t = lines'
  OBVIOUS
<1>10. /\ t \in Seq(Line) /\ Len(t) = n + m + z
       /\ \A k \in 1..n : t[k] = lines[k]
       /\ \A j \in 1..m : t[n + j] = s[j]
       /\ z = 1 => t[n + m + 1] = BlankLine
  <2>1. t = (lines \o s) \o e
    BY <1>2, <1>6, <1>7, <1>9
  <2>2. PICK u : u = lines \o s
    OBVIOUS
  <2>3. /\ u \in Seq(Line) /\ Len(u) = n + m
        /\ \A k \in 1..n : u[k] = lines[k]
        /\ \A j \in 1..m : u[n + j] = s[j]
    <3>1. lines \in Seq(Line) /\ s \in Seq(Line)
      BY <1>3
    <3>2. /\ lines \o s \in Seq(Line) /\ Len(lines \o s) = Len(lines) + Len(s)
          /\ \A k \in 1..Len(lines) : (lines \o s)[k] = lines[k]
          /\ \A k \in 1..Len(s) : (lines \o s)[Len(lines) + k] = s[k]
      BY <3>1, JoinIs
    <3> QED BY <3>2, <2>2, <1>4, <1>6
  <2>4. n + m \in Nat
    OBVIOUS
  <2>6. /\ t \in Seq(Line) /\ Len(t) = n + m + z
        /\ \A k \in 1..(n + m) : t[k] = u[k]
        /\ \A k \in 1..z : t[n + m + k] = e[k]
    <3>1. u \in Seq(Line) /\ e \in Seq(Line)
      BY <2>3
    <3>2. /\ u \o e \in Seq(Line) /\ Len(u \o e) = Len(u) + Len(e)
          /\ \A k \in 1..Len(u) : (u \o e)[k] = u[k]
          /\ \A k \in 1..Len(e) : (u \o e)[Len(u) + k] = e[k]
      BY <3>1, JoinIs
    <3> QED BY <3>2, <2>1, <2>2, <2>3, <1>8
  <2>7. \A k \in 1..(n + m) : t[k] = u[k]
    BY <2>6
  <2>8. z = 1 => t[n + m + 1] = BlankLine
    BY <2>6, <1>8
  <2>9. \A k \in 1..n : t[k] = lines[k]
    BY <2>3, <2>7
  <2>10. ASSUME NEW j \in 1..m PROVE t[n + j] = s[j]
    <3>1. n + j \in 1..(n + m)
      OBVIOUS
    <3> QED BY <3>1, <2>3, <2>7
  <2> QED BY <2>6, <2>8, <2>9, <2>10
<1>11. ASSUME NEW k \in 1..(n + m + z)
       PROVE  \/ k \in 1..n
              \/ \E j \in 1..m : k = n + j
              \/ z = 1 /\ k = n + m + 1
  <2>1. CASE k \in (n + 1)..(n + m)
    <3>1. k - n \in 1..m /\ k = n + (k - n)
      BY <2>1
    <3> QED BY <3>1
  <2> QED BY <2>1
<1>12. ASSUME NEW k \in 1..(n + m + z)
       PROVE  \/ k \in 1..n /\ t[k] = lines[k]
              \/ \E j \in 1..m : k = n + j /\ IsOf(talk, t[k], i, j)
              \/ k = n + m + 1 /\ t[k] = BlankLine
  BY <1>6, <1>10, <1>11
<1>13. \A k \in 1..n : lines[k] = BlankLine \/
          \E h \in 1..written : \E j \in DOMAIN talk[h].text : IsOf(talk, lines[k], h, j)
  BY <1>3, <1>4 DEF WrittenInv
<1>14. BlankLine.of = 0 /\ BlankLine.kind = "blank"
  BY DEF BlankLine
<1>15. \A k \in 1..n : lines[k].of = 0 \/ lines[k].of \in 1..written
  BY <1>13, <1>14 DEF IsOf
<1>16. \A h \in 1..i : h \in 1..written \/ h = i
  BY <1>1, <1>3
<1>17. 1..written \subseteq 1..i /\ i \in 1..i /\ ~(i \in 1..written)
  BY <1>1, <1>3
<1>18. ASSUME NEW k \in 1..(n + m + z)
       PROVE  t[k] = BlankLine \/ \E h \in 1..i : \E j \in DOMAIN talk[h].text : IsOf(talk, t[k], h, j)
  BY <1>5, <1>12, <1>13, <1>17
<1>19. ASSUME NEW h \in 1..i, NEW j \in DOMAIN talk[h].text
       PROVE  \E k \in 1..(n + m + z) : t[k].of = h /\ t[k].place = j
  <2>1. CASE h \in 1..written
    <3>1. PICK k \in 1..n : lines[k].of = h /\ lines[k].place = j
      BY <2>1, <1>3, <1>4 DEF WrittenInv
    <3>2. k \in 1..(n + m + z)
      OBVIOUS
    <3> QED BY <3>1, <3>2, <1>10
  <2>2. CASE h = i
    <3>1. j \in 1..m
      BY <2>2, <1>5
    <3>2. n + j \in 1..(n + m + z) /\ t[n + j] = s[j] /\ IsOf(talk, s[j], i, j)
      BY <3>1, <1>6, <1>10
    <3> QED BY <3>2, <2>2 DEF IsOf
  <2> QED BY <2>1, <2>2, <1>16
<1>20. ASSUME NEW k \in 1..(n + m + z), NEW l \in 1..(n + m + z), k < l, t[k].of # 0, t[l].of # 0
       PROVE  t[k].of < t[l].of \/ (t[k].of = t[l].of /\ t[k].place < t[l].place)
  <2>1. ~(k = n + m + 1 /\ t[k] = BlankLine) /\ ~(l = n + m + 1 /\ t[l] = BlankLine)
    BY <1>14, <1>20
  <2>2. CASE k \in 1..n /\ l \in 1..n
    <3>1. t[k] = lines[k] /\ t[l] = lines[l] /\ k \in 1..Len(lines) /\ l \in 1..Len(lines)
      BY <2>2, <1>4, <1>10
    <3> QED BY <3>1, <1>3, <1>20 DEF WrittenInv
  <2>3. CASE k \in 1..n /\ l \notin 1..n
    <3>1. t[k].of \in 1..written
      BY <2>3, <1>10, <1>15, <1>20
    <3>2. t[l].of = i
      BY <2>1, <2>3, <1>12 DEF IsOf
    <3> QED BY <3>1, <3>2, <1>1, <1>3
  <2>4. CASE k \notin 1..n
    <3>1. PICK a \in 1..m : k = n + a /\ IsOf(talk, t[k], i, a)
      BY <2>1, <2>4, <1>12
    <3>2. l \notin 1..n
      BY <2>4, <1>20
    <3>3. PICK b \in 1..m : l = n + b /\ IsOf(talk, t[l], i, b)
      BY <2>1, <3>2, <1>12
    <3>4. a < b
      BY <3>1, <3>3, <1>20
    <3> QED BY <3>1, <3>3, <3>4 DEF IsOf
  <2> QED BY <2>2, <2>3, <2>4
<1>21. ASSUME NEW k \in 2..(n + m + z), t[k].of # 0, t[k].place = 1, talk[t[k].of].role = "user"
       PROVE  t[k - 1].kind = "blank"
  <2>1. k \in 1..(n + m + z) /\ k - 1 \in 1..(n + m + z)
    OBVIOUS
  <2>2. CASE k \in 1..n
    <3>1. k \in 2..Len(lines) /\ k - 1 \in 1..n
      BY <2>2, <1>4
    <3>2. t[k] = lines[k] /\ t[k - 1] = lines[k - 1]
      BY <2>2, <3>1, <1>10
    <3> QED BY <3>1, <3>2, <1>3, <1>21 DEF WrittenInv
  <2>3. CASE k \notin 1..n
    <3>1. ~(k = n + m + 1 /\ t[k] = BlankLine)
      BY <1>14, <1>21
    <3>2. PICK j \in 1..m : k = n + j /\ IsOf(talk, t[k], i, j)
      BY <3>1, <2>1, <2>3, <1>12
    <3>3. j = 1 /\ talk[i].role = "user"
      BY <3>2, <1>21 DEF IsOf
    <3>4. n > 0 /\ k - 1 = n /\ k - 1 \in 1..n
      BY <3>2, <3>3
    <3>5. written > 0
      BY <3>4, <1>3, <1>4 DEF WriteInv
    <3>6. ~IsAnswered(written)
      BY <3>3, <1>1 DEF IsAnswered
    <3>7. lines[n].kind = "blank"
      BY <3>5, <3>6, <1>4 DEF WriteInv
    <3> QED BY <3>4, <3>7, <1>10
  <2> QED BY <2>2, <2>3
<1>22. WrittenInv(talk, i, t)
  <2>1. Len(t) = n + m + z
    BY <1>10
  <2> QED BY <2>1, <1>18, <1>19, <1>20, <1>21 DEF WrittenInv
<1>23. Len(t) > 0 /\ (IsAnswered(i) \/ t[Len(t)].kind = "blank")
  <2>1. CASE z = 1
    BY <2>1, <1>10, <1>14
  <2>2. CASE z = 0
    BY <2>2, <1>5, <1>8, <1>10
  <2> QED BY <2>1, <2>2
<1>24. WrittenInv(talk', written', lines')
  BY <1>2, <1>9, <1>22
<1>25. IsRead' /\ written' \in 0..Len(talk') /\ written' # 0
  BY <1>2, <1>3 DEF IsRead, WalkOn
<1>26. Len(lines') > 0 /\ (IsAnswered(written)' \/ lines'[Len(lines')].kind = "blank")
  BY <1>2, <1>9, <1>23 DEF IsAnswered
<1> QED BY <1>9, <1>10, <1>24, <1>25, <1>26 DEF WriteInv

-----------------------------------------------------------------------------
(* The chunks: none mixes two exchanges.                                   *)

\* What a line of the transcript is.
LEMMA LineIs ==
  ASSUME ReadInv, WriteInv, NEW k \in 1..Len(lines)
  PROVE  /\ lines[k] \in Line /\ lines[k].of \in Nat /\ lines[k].place \in Nat
         /\ lines[k].of = 0 => lines[k].kind = "blank"
         /\ lines[k].of # 0 =>
              /\ lines[k].of \in 1..written /\ lines[k].of \in 1..Len(talk)
              /\ lines[k].place \in DOMAIN talk[lines[k].of].text
              /\ lines[k].kind = KindOf(talk, lines[k].of, lines[k].place)
<1>1. lines \in Seq(Line) /\ written \in 0..Len(talk) /\ Len(talk) \in Nat
  BY DEF WriteInv, ReadInv
<1>2. lines[k] \in Line
  BY <1>1
<1>3. lines[k].of \in Nat /\ lines[k].place \in Nat
  BY <1>2 DEF Line
<1>4. lines[k] = BlankLine \/ \E i \in 1..written : \E j \in DOMAIN talk[i].text : IsOf(talk, lines[k], i, j)
  BY DEF WriteInv, WrittenInv
<1>5. CASE lines[k] = BlankLine
  <2>1. lines[k].of = 0 /\ lines[k].kind = "blank"
    BY <1>5 DEF BlankLine
  <2> QED BY <2>1, <1>2, <1>3
<1>6. CASE \E i \in 1..written : \E j \in DOMAIN talk[i].text : IsOf(talk, lines[k], i, j)
  <2>1. PICK i \in 1..written : \E j \in DOMAIN talk[i].text : IsOf(talk, lines[k], i, j)
    BY <1>6
  <2>2. PICK j \in DOMAIN talk[i].text : IsOf(talk, lines[k], i, j)
    BY <2>1
  <2>3. lines[k].of = i /\ lines[k].place = j /\ lines[k].kind = KindOf(talk, i, j)
    BY <2>2 DEF IsOf
  <2>4. i # 0 /\ i \in 1..Len(talk)
    BY <1>1
  <2> QED BY <2>3, <2>4, <1>2, <1>3
<1> QED BY <1>4, <1>5, <1>6

\* Between two lines of different exchanges there is a question, with a blank
\* line before it.
LEMMA QuestionBetween ==
  ASSUME ReadInv, WriteInv, IsWritten, NEW k \in 1..Len(lines), NEW l \in 1..Len(lines), k < l,
         lines[k].of # 0, lines[l].of # 0, QuestionOf(lines[k].of) # QuestionOf(lines[l].of)
  PROVE  \E m \in (k + 1)..l : lines[m].kind = "quote" /\ lines[m - 1].kind = "blank"
<1>1. PICK a, b \in 1..written : a = lines[k].of /\ b = lines[l].of
  BY LineIs
<1>2. a <= b /\ written \in Nat /\ 1..written \subseteq 1..Len(talk) /\ talk \in Seq(Message)
  BY <1>1 DEF WriteInv, WrittenInv, ReadInv
<1>3. PICK i : i \in (a + 1)..b /\ talk[i].role = "user"
  <2>1. QuestionOf(a) \subseteq QuestionOf(b)
    BY <1>2 DEF QuestionOf
  <2>2. PICK i : i \in QuestionOf(b) /\ i \notin QuestionOf(a)
    BY <2>1, <1>1
  <2>3. i \in 1..b /\ talk[i].role = "user" /\ i \notin 1..a
    BY <2>2 DEF QuestionOf
  <2>4. i \in (a + 1)..b
    BY <2>3, <1>1, <1>2
  <2> QED BY <2>3, <2>4
<1>4. i \in 1..written /\ i \in 1..Len(talk)
  BY <1>1, <1>2, <1>3
<1>5. 1 \in DOMAIN talk[i].text
  BY <1>2, <1>4, MessageIs
<1>6. PICK m \in 1..Len(lines) : lines[m].of = i /\ lines[m].place = 1
  BY <1>4, <1>5 DEF WriteInv, WrittenInv
<1>7. lines[l].place >= 1 /\ lines[l].place \in Nat /\ lines[k].place \in Nat
  <2>1. lines[l].place \in DOMAIN talk[b].text /\ b \in 1..Len(talk)
    BY <1>1, LineIs
  <2>2. DOMAIN talk[b].text = 1..Len(talk[b].text)
    BY <2>1, <1>2, MessageIs
  <2> QED BY <2>1, <2>2, LineIs
<1>8. i # 0 /\ Len(lines) \in Nat
  BY <1>3, <1>4 DEF WriteInv
<1>9. ~(m <= k)
  <2>1. SUFFICES ASSUME m <= k PROVE FALSE
    OBVIOUS
  <2>2. m # k
    BY <1>1, <1>3, <1>6
  <2>3. m < k
    BY <2>1, <2>2
  <2>4. lines[m].of < lines[k].of \/ (lines[m].of = lines[k].of /\ lines[m].place < lines[k].place)
    BY <2>3, <1>6, <1>8 DEF WriteInv, WrittenInv
  <2> QED BY <2>4, <1>1, <1>3, <1>6
<1>10. ~(m > l)
  <2>1. SUFFICES ASSUME m > l PROVE FALSE
    OBVIOUS
  <2>2. lines[l].of < lines[m].of \/ (lines[l].of = lines[m].of /\ lines[l].place < lines[m].place)
    BY <2>1, <1>6, <1>8 DEF WriteInv, WrittenInv
  <2> QED BY <2>2, <1>1, <1>3, <1>6, <1>7
<1>11. m \in (k + 1)..l /\ m \in 2..Len(lines)
  BY <1>9, <1>10
<1>12. lines[m].kind = "quote"
  <2>1. lines[m].kind = KindOf(talk, i, 1)
    BY <1>6, <1>8, LineIs
  <2> QED BY <2>1, <1>3 DEF KindOf
<1>13. lines[m - 1].kind = "blank"
  BY <1>3, <1>6, <1>8, <1>11 DEF WriteInv, WrittenInv
<1> QED BY <1>11, <1>12, <1>13

\* In a long text of one paragraph there is no second exchange.
LEMMA LongIsOneExchange ==
  ASSUME ReadInv, WriteInv, IsWritten, IsLong, NEW k \in 1..Len(lines), NEW l \in 1..Len(lines), k < l,
         lines[k].kind # "blank", lines[l].kind # "blank"
  PROVE  QuestionOf(lines[k].of) = QuestionOf(lines[l].of)
<1> SUFFICES ASSUME QuestionOf(lines[k].of) # QuestionOf(lines[l].of) PROVE FALSE
  OBVIOUS
<1>1. lines \in Seq(Line) /\ Len(lines) \in Nat /\ DOMAIN lines = 1..Len(lines)
  BY DEF WriteInv
<1>2. lines[k].of # 0 /\ lines[l].of # 0
  BY LineIs
<1>3. PICK m \in (k + 1)..l : lines[m].kind = "quote" /\ lines[m - 1].kind = "blank"
  BY <1>2, QuestionBetween
<1>4. PICK S : S = {i \in 1..Len(lines) : lines[i].kind # "blank"}
  OBVIOUS
<1>5. Paragraphs = {i \in S : i - 1 \notin S}
  BY <1>1, <1>4 DEF Paragraphs, Where
<1>6. S \in SUBSET Nat /\ k \in S /\ m \in S /\ m - 1 \notin S
  BY <1>1, <1>3, <1>4
<1>7. PICK s \in S : \A i \in Nat : i < s => i \notin S
  BY <1>6, LeastOf
<1>8. s <= k /\ s \in Nat /\ s # m
  BY <1>3, <1>6, <1>7
<1>9. s - 1 \notin S
  <2>1. s - 1 \in Nat /\ s - 1 < s
    BY <1>4, <1>8
  <2> QED BY <2>1, <1>7
<1>10. {s, m} \subseteq Paragraphs
  BY <1>5, <1>6, <1>7, <1>9
<1>11. IsFiniteSet(Paragraphs) /\ Cardinality(Paragraphs) \in Nat
  <2>1. IsFiniteSet(1..Len(lines))
    BY <1>1, FS_Interval
  <2>2. Paragraphs \in SUBSET (1..Len(lines))
    BY <1>4, <1>5
  <2>3. IsFiniteSet(Paragraphs)
    BY <2>1, <2>2, FS_Subset
  <2> QED BY <2>3, FS_CardinalityType
<1>12. Cardinality({s, m}) = 2 /\ Cardinality({s, m}) <= Cardinality(Paragraphs)
  BY <1>8, <1>10, <1>11, SizeOfTwo, FS_Subset
<1> QED BY <1>11, <1>12 DEF IsLong

\* The lines of a chunk are of one exchange.
SameExchange(c) == \A a, b \in 1..Len(c) : QuestionOf(c[a].of) = QuestionOf(c[b].of)

\* Behind a line of the chunk being made there is nothing yet that ends it.
CutInv ==
    /\ ~IsWritten => cut = 0 /\ chunk = <<>> /\ filed = <<>>
    /\ cut \in 0..Len(lines) /\ chunk \in Seq(Line) /\ filed \in Seq(Seq(Line))
    /\ \A a \in 1..Len(chunk) : \E k \in 1..cut :
         /\ chunk[a] = lines[k] /\ lines[k].kind # "blank"
         /\ IsConversation => \A m \in (k + 1)..cut : lines[m].kind # "quote"
         /\ ~IsConversation /\ ~IsLong => \A m \in (k + 1)..cut : lines[m].kind # "blank"
    /\ \A n \in 1..Len(filed) : SameExchange(filed[n])

\* So the chunk being made is of one exchange.
LEMMA OpenIsOneExchange ==
  ASSUME ReadInv, WriteInv, CutInv, IsWritten
  PROVE  SameExchange(chunk)
<1>1. cut \in 0..Len(lines) /\ Len(lines) \in Nat
  BY DEF CutInv, WriteInv
<1>2. ASSUME NEW k \in 1..cut, NEW l \in 1..cut, k < l, lines[k].kind # "blank", lines[l].kind # "blank",
             IsConversation => \A m \in (k + 1)..cut : lines[m].kind # "quote",
             ~IsConversation /\ ~IsLong => \A m \in (k + 1)..cut : lines[m].kind # "blank"
      PROVE  QuestionOf(lines[k].of) = QuestionOf(lines[l].of)
  <2>1. k \in 1..Len(lines) /\ l \in 1..Len(lines)
    BY <1>1
  <2>2. lines[k].of # 0 /\ lines[l].of # 0
    BY <2>1, <1>2, LineIs
  <2>3. CASE IsConversation \/ ~IsLong
    <3> SUFFICES ASSUME QuestionOf(lines[k].of) # QuestionOf(lines[l].of) PROVE FALSE
      OBVIOUS
    <3>1. PICK m \in (k + 1)..l : lines[m].kind = "quote" /\ lines[m - 1].kind = "blank"
      BY <2>1, <2>2, <1>2, QuestionBetween
    <3>2. m \in (k + 1)..cut
      BY <3>1, <1>1
    <3>3. ~IsConversation /\ ~IsLong
      BY <3>1, <3>2, <1>2, <2>3
    <3>4. m - 1 # k /\ m - 1 \in (k + 1)..cut
      BY <3>1, <3>2, <1>1, <1>2
    <3> QED BY <3>1, <3>3, <3>4, <1>2
  <2>4. CASE ~IsConversation /\ IsLong
    BY <2>1, <2>4, <1>2, LongIsOneExchange
  <2> QED BY <2>3, <2>4
<1>3. ASSUME NEW a \in 1..Len(chunk), NEW b \in 1..Len(chunk)
      PROVE  QuestionOf(chunk[a].of) = QuestionOf(chunk[b].of)
  <2>1. PICK k \in 1..cut :
           /\ chunk[a] = lines[k] /\ lines[k].kind # "blank"
           /\ IsConversation => \A m \in (k + 1)..cut : lines[m].kind # "quote"
           /\ ~IsConversation /\ ~IsLong => \A m \in (k + 1)..cut : lines[m].kind # "blank"
    BY DEF CutInv
  <2>2. PICK l \in 1..cut :
           /\ chunk[b] = lines[l] /\ lines[l].kind # "blank"
           /\ IsConversation => \A m \in (l + 1)..cut : lines[m].kind # "quote"
           /\ ~IsConversation /\ ~IsLong => \A m \in (l + 1)..cut : lines[m].kind # "blank"
    BY DEF CutInv
  <2>3. k < l \/ l < k \/ k = l
    OBVIOUS
  <2>4. CASE k < l
    BY <2>1, <2>2, <2>4, <1>2
  <2>5. CASE l < k
    BY <2>1, <2>2, <2>5, <1>2
  <2> QED BY <2>1, <2>2, <2>3, <2>4, <2>5
<1> QED BY <1>3 DEF SameExchange

\* What filing a chunk does to those filed.
LEMMA FileIs ==
  ASSUME filed \in Seq(Seq(Line)), NEW c \in Seq(Line), FileChunk(c)
  PROVE  /\ filed' \in Seq(Seq(Line)) /\ Len(filed') >= Len(filed) /\ Len(filed') \in Nat
         /\ \A n \in 1..Len(filed) : filed'[n] = filed[n]
         /\ \A n \in 1..Len(filed') : n \in 1..Len(filed) \/ (n = Len(filed) + 1 /\ filed'[n] = c /\ Len(c) > MinChunkLines)
         /\ Len(c) > MinChunkLines => Len(filed) + 1 \in 1..Len(filed') /\ filed'[Len(filed) + 1] = c
<1>1. PICK f \in Seq(Seq(Line)) : f = filed
  OBVIOUS
<1>2. PICK g : g = filed'
  OBVIOUS
<1>3. PICK n \in Nat : n = Len(f)
  BY <1>1
<1>4. CASE Len(c) > MinChunkLines
  <2>1. g = Append(f, c)
    BY <1>1, <1>2, <1>4 DEF FileChunk
  <2>2. /\ g \in Seq(Seq(Line)) /\ Len(g) = n + 1 /\ g[n + 1] = c
        /\ \A k \in 1..n : g[k] = f[k]
    BY <2>1, <1>3
  <2> QED BY <2>2, <1>1, <1>2, <1>3, <1>4
<1>5. CASE ~(Len(c) > MinChunkLines)
  <2>1. g = f
    BY <1>1, <1>2, <1>5 DEF FileChunk
  <2> QED BY <2>1, <1>1, <1>2, <1>3, <1>5
<1> QED BY <1>4, <1>5

\* Before the whole text is written nothing is cut.
LEMMA NothingIsCut ==
  ASSUME CutInv, ~IsWritten, UNCHANGED cuttingVars, lines' \in Seq(Line)
  PROVE  CutInv'
<1>1. cut' = 0 /\ chunk' = <<>> /\ filed' = <<>>
  BY DEF CutInv, cuttingVars
<1>2. Len(chunk') = 0 /\ Len(filed') = 0 /\ Len(lines') \in Nat /\ chunk' \in Seq(Line) /\ filed' \in Seq(Seq(Line))
  BY <1>1
<1> QED BY <1>1, <1>2 DEF CutInv

\* A line that ends the chunk files it; another one is put behind it.
LEMMA CutLineStep == ASSUME ReadInv, WriteInv, CutInv, CutLine PROVE CutInv'
<1>1. PICK i : i = cut + 1
  OBVIOUS
<1>2. PICK c : c = IF EndsBefore(i) THEN <<>> ELSE chunk
  OBVIOUS
<1>3. /\ IsWritten /\ cut < Len(lines) /\ cut' = i
      /\ chunk' = IF Takes(c, i) THEN Append(c, lines[i]) ELSE c
      /\ IF EndsBefore(i) THEN FileChunk(chunk) ELSE filed' = filed
      /\ lines' = lines /\ written' = written /\ talk' = talk
  BY <1>1, <1>2 DEF CutLine, readingVars, writingVars
<1>4. /\ i \in 1..Len(lines) /\ Len(lines) \in Nat /\ lines[i] \in Line /\ cut \in Nat
      /\ chunk \in Seq(Line) /\ filed \in Seq(Seq(Line)) /\ c \in Seq(Line)
  <2>1. cut \in 0..Len(lines) /\ Len(lines) \in Nat
    BY DEF CutInv, WriteInv
  <2>2. i \in 1..Len(lines) /\ cut \in Nat
    BY <2>1, <1>1, <1>3
  <2>3. lines[i] \in Line
    BY <2>2, LineIs
  <2>4. chunk \in Seq(Line) /\ filed \in Seq(Seq(Line)) /\ <<>> \in Seq(Line)
    BY DEF CutInv
  <2> QED BY <2>1, <2>2, <2>3, <2>4, <1>2
<1>5. (IsWritten <=> IsWritten') /\ (IsConversation <=> IsConversation') /\ (IsLong <=> IsLong')
  BY <1>3 DEF IsWritten, IsConversation, IsLong, Paragraphs, Where
<1>6. /\ chunk' \in Seq(Line)
      /\ \A a \in 1..Len(chunk') : (a \in 1..Len(c) /\ chunk'[a] = c[a]) \/ (chunk'[a] = lines[i] /\ lines[i].kind # "blank")
  <2>1. CASE Takes(c, i)
    <3>1. chunk' = Append(c, lines[i]) /\ lines[i].kind # "blank"
      BY <2>1, <1>3 DEF Takes
    <3>2. /\ Append(c, lines[i]) \in Seq(Line) /\ Len(Append(c, lines[i])) = Len(c) + 1 /\ Len(c) \in Nat
          /\ \A a \in 1..Len(c) : Append(c, lines[i])[a] = c[a]
          /\ Append(c, lines[i])[Len(c) + 1] = lines[i]
      BY <1>4
    <3> QED BY <3>1, <3>2
  <2>2. CASE ~Takes(c, i)
    BY <2>2, <1>3, <1>4
  <2> QED BY <2>1, <2>2
<1>7. ASSUME NEW a \in 1..Len(chunk')
      PROVE  \E k \in 1..i :
               /\ chunk'[a] = lines[k] /\ lines[k].kind # "blank"
               /\ IsConversation => \A m \in (k + 1)..i : lines[m].kind # "quote"
               /\ ~IsConversation /\ ~IsLong => \A m \in (k + 1)..i : lines[m].kind # "blank"
  <2>1. CASE chunk'[a] = lines[i] /\ lines[i].kind # "blank"
    <3>1. i \in 1..i /\ (i + 1)..i = {}
      BY <1>4
    <3> QED BY <3>1, <2>1
  <2>2. CASE a \in 1..Len(c) /\ chunk'[a] = c[a]
    <3>1. ~EndsBefore(i) /\ c = chunk
      BY <2>2, <1>2
    <3>2. PICK k \in 1..cut :
            /\ chunk[a] = lines[k] /\ lines[k].kind # "blank"
            /\ IsConversation => \A m \in (k + 1)..cut : lines[m].kind # "quote"
            /\ ~IsConversation /\ ~IsLong => \A m \in (k + 1)..cut : lines[m].kind # "blank"
      BY <2>2, <3>1 DEF CutInv
    <3>3. /\ IsConversation => lines[i].kind # "quote"
          /\ ~IsConversation /\ ~IsLong => lines[i].kind # "blank"
      BY <3>1 DEF EndsBefore
    <3>4. k \in 1..i /\ \A m \in (k + 1)..i : m \in (k + 1)..cut \/ m = i
      BY <1>1, <1>4
    <3> QED BY <2>2, <3>1, <3>2, <3>3, <3>4
  <2> QED BY <2>1, <2>2, <1>6
<1>8. filed' \in Seq(Seq(Line)) /\ \A n \in 1..Len(filed') : SameExchange(filed'[n])
  <2>1. SameExchange(chunk) /\ \A n \in 1..Len(filed) : SameExchange(filed[n])
    BY <1>3, OpenIsOneExchange DEF CutInv
  <2>2. CASE EndsBefore(i)
    <3>1. FileChunk(chunk)
      BY <2>2, <1>3
    <3>2. /\ filed' \in Seq(Seq(Line)) /\ \A n \in 1..Len(filed) : filed'[n] = filed[n]
          /\ \A n \in 1..Len(filed') : n \in 1..Len(filed) \/ (n = Len(filed) + 1 /\ filed'[n] = chunk /\ Len(chunk) > MinChunkLines)
      BY <3>1, <1>4, FileIs
    <3> QED BY <3>2, <2>1
  <2>3. CASE ~EndsBefore(i)
    BY <2>1, <2>3, <1>3, <1>4
  <2> QED BY <2>2, <2>3
<1>10. \A n \in 1..Len(filed') : (SameExchange(filed[n]))'
  <2>1. \A n \in 1..Len(filed') : \A a, b \in 1..Len(filed'[n]) : QuestionOf(filed'[n][a].of) = QuestionOf(filed'[n][b].of)
    BY <1>8 DEF SameExchange
  <2> QED BY <2>1, <1>3 DEF SameExchange, QuestionOf
<1>11. \A a \in 1..Len(chunk') : \E k \in 1..cut' :
          /\ chunk'[a] = lines'[k] /\ lines'[k].kind # "blank"
          /\ IsConversation' => \A m \in (k + 1)..cut' : lines'[m].kind # "quote"
          /\ ~IsConversation' /\ ~IsLong' => \A m \in (k + 1)..cut' : lines'[m].kind # "blank"
  BY <1>3, <1>5, <1>7
<1>12. IsWritten' /\ cut' \in 0..Len(lines')
  BY <1>3, <1>4, <1>5
<1> QED BY <1>6, <1>8, <1>10, <1>11, <1>12 DEF CutInv

\* The last chunk is filed at the end of the text.
LEMMA CutLastStep == ASSUME ReadInv, WriteInv, CutInv, CutLast PROVE CutInv'
<1>1. /\ IsWritten /\ FileChunk(chunk) /\ chunk' = <<>> /\ cut' = cut
      /\ lines' = lines /\ written' = written /\ talk' = talk
  BY DEF CutLast, readingVars, writingVars
<1>2. chunk \in Seq(Line) /\ filed \in Seq(Seq(Line)) /\ cut \in 0..Len(lines)
  BY DEF CutInv
<1>3. IsWritten <=> IsWritten'
  BY <1>1 DEF IsWritten
<1>4. /\ filed' \in Seq(Seq(Line)) /\ \A n \in 1..Len(filed) : filed'[n] = filed[n]
      /\ \A n \in 1..Len(filed') : n \in 1..Len(filed) \/ (n = Len(filed) + 1 /\ filed'[n] = chunk /\ Len(chunk) > MinChunkLines)
  BY <1>1, <1>2, FileIs
<1>5. \A n \in 1..Len(filed') : SameExchange(filed'[n])
  BY <1>1, <1>4, OpenIsOneExchange DEF CutInv
<1>6. \A n \in 1..Len(filed') : (SameExchange(filed[n]))'
  <2>1. \A n \in 1..Len(filed') : \A a, b \in 1..Len(filed'[n]) : QuestionOf(filed'[n][a].of) = QuestionOf(filed'[n][b].of)
    BY <1>5 DEF SameExchange
  <2> QED BY <2>1, <1>1 DEF SameExchange, QuestionOf
<1>7. Len(chunk') = 0 /\ chunk' \in Seq(Line)
  BY <1>1
<1> QED BY <1>1, <1>2, <1>3, <1>4, <1>6, <1>7 DEF CutInv

-----------------------------------------------------------------------------
(* Every exchange is filed.                                                *)

\* No message has a line that looks like a question or a rule, and three are
\* questions.
Questions == {i \in DOMAIN talk : talk[i].role = "user"}
IsPlain ==
    /\ Cardinality(Questions) >= 3
    /\ \A i \in 1..Len(talk) : \A j \in DOMAIN talk[i].text : talk[i].text[j] \in {"text", "blank"}

\* Of such a conversation: a ">" is where a question begins, no line comes twice,
\* and the questions are in order.
PlainLines(s) ==
    /\ \A k \in 1..Len(s) : s[k].kind \in {"text", "blank", "quote"}
    /\ \A k, l \in 1..Len(s) : k < l /\ s[k].kind = "quote" /\ s[l].kind = "quote" => s[k].of < s[l].of
    /\ \A k, l \in 1..Len(s) :
         k < l /\ s[k].kind # "blank" /\ s[l].kind # "blank" =>
            <<s[k].of, s[k].place>> # <<s[l].of, s[l].place>>

\* What is heard behind a line, up to another one; that no question is among
\* it; and the chunk of a question and of what is heard.
Heard(s, p, e) == {<<s[k].of, s[k].place>> : k \in {h \in (p + 1)..e : s[h].kind # "blank"}}
NoQuestion(s, p, e) == \A m \in (p + 1)..e : s[m].kind # "quote"
SizeOf(s, p, e) ==
    1 + (IF Cardinality(Heard(s, p, e)) < MaxAILines THEN Cardinality(Heard(s, p, e)) ELSE MaxAILines)
IsChunkOf(c, s, p, e) ==
    /\ Len(c) = SizeOf(s, p, e) /\ c[1] = s[p]
    /\ \A a \in 2..Len(c) : <<c[a].of, c[a].place>> \in Heard(s, p, e)

\* Of the first n lines: the chunk being made is of the last question, those
\* filed are of earlier ones, in order, and every exchange that is over is filed.
FiledInv(s, n, c, f) ==
    /\ c = <<>> => n = Len(s) \/ \A p \in 1..n : s[p].kind # "quote"
    /\ c # <<>> => \E p \in 1..n : s[p].kind = "quote" /\ NoQuestion(s, p, n) /\ IsChunkOf(c, s, p, n)
    /\ \A g \in 1..Len(f) : \E p \in 1..n :
         /\ s[p].kind = "quote" /\ f[g][1] = s[p]
         /\ c # <<>> => ~NoQuestion(s, p, n)
    /\ \A g, h \in 1..Len(f) : g < h => f[g][1].of < f[h][1].of
    /\ \A p \in 1..n : \A e \in p..n :
         /\ s[p].kind = "quote" /\ NoQuestion(s, p, e) /\ SizeOf(s, p, e) > MinChunkLines
         /\ IF e = n THEN n = Len(s) /\ c = <<>> ELSE s[e + 1].kind = "quote"
         => \E g \in 1..Len(f) : IsChunkOf(f[g], s, p, e)

FileInv == IsWritten /\ IsPlain => FiledInv(lines, cut, chunk, filed)

\* Of no lines no chunk is owed.
LEMMA NothingIsFiled == ASSUME NEW s PROVE FiledInv(s, 0, <<>>, <<>>)
<1>1. Len(<<>>) = 0
  OBVIOUS
<1> QED BY <1>1 DEF FiledInv

\* So it is with what is written of such a conversation, which is cut by its
\* exchanges.
LEMMA PlainIs ==
  ASSUME ReadInv, WriteInv, IsWritten, IsPlain
  PROVE  /\ PlainLines(lines) /\ IsConversation
         /\ \A k \in 1..Len(lines) :
              lines[k].kind = "quote" => lines[k].of # 0 /\ talk[lines[k].of].role = "user" /\ lines[k].place = 1
         /\ \A q \in Questions : \E k \in 1..Len(lines) :
              lines[k].of = q /\ lines[k].place = 1 /\ lines[k].kind = "quote"
<1>1. talk \in Seq(Message) /\ Len(talk) \in Nat /\ DOMAIN talk = 1..Len(talk) /\ written = Len(talk)
  BY DEF ReadInv, IsWritten
<1>2. lines \in Seq(Line) /\ Len(lines) \in Nat /\ DOMAIN lines = 1..Len(lines)
  BY DEF WriteInv
<1>3. ASSUME NEW k \in 1..Len(lines)
      PROVE  /\ lines[k].kind \in {"text", "blank", "quote"}
             /\ lines[k].kind # "blank" => lines[k].of # 0
             /\ lines[k].kind = "quote" => lines[k].of # 0 /\ talk[lines[k].of].role = "user" /\ lines[k].place = 1
  <2>1. CASE lines[k].of = 0
    BY <2>1, LineIs
  <2>2. CASE lines[k].of # 0
    <3>1. PICK i, j : i = lines[k].of /\ j = lines[k].place
      OBVIOUS
    <3>2. i \in 1..Len(talk) /\ j \in DOMAIN talk[i].text /\ lines[k].kind = KindOf(talk, i, j)
      BY <2>2, <3>1, LineIs
    <3>3. talk[i].text[j] \in {"text", "blank"}
      BY <3>2 DEF IsPlain
    <3> QED BY <2>2, <3>1, <3>2, <3>3 DEF KindOf
  <2> QED BY <2>1, <2>2
<1>4. ASSUME NEW k \in 1..Len(lines), NEW l \in 1..Len(lines), k < l,
             lines[k].kind # "blank", lines[l].kind # "blank"
      PROVE  \/ lines[k].of < lines[l].of
             \/ lines[k].of = lines[l].of /\ lines[k].place < lines[l].place
  BY <1>3, <1>4 DEF WriteInv, WrittenInv
<1>5. \A k \in 1..Len(lines) : lines[k].of \in Nat /\ lines[k].place \in Nat
  BY LineIs
<1>6. ASSUME NEW k \in 1..Len(lines), NEW l \in 1..Len(lines), k < l, lines[k].kind = "quote", lines[l].kind = "quote"
      PROVE  lines[k].of < lines[l].of
  <2>1. lines[k].place = 1 /\ lines[l].place = 1
    BY <1>3, <1>6
  <2> QED BY <2>1, <1>4, <1>6
<1>7. PlainLines(lines)
  <2>1. ASSUME NEW k \in 1..Len(lines), NEW l \in 1..Len(lines), k < l, lines[k].kind # "blank", lines[l].kind # "blank"
        PROVE  <<lines[k].of, lines[k].place>> # <<lines[l].of, lines[l].place>>
    <3>1. PICK a, b, d, e \in Nat : a = lines[k].of /\ b = lines[k].place /\ d = lines[l].of /\ e = lines[l].place
      BY <1>5
    <3>2. a < d \/ (a = d /\ b < e)
      BY <3>1, <2>1, <1>4
    <3>3. a # d \/ b # e
      BY <3>2
    <3> QED BY <3>1, <3>3
  <2> QED BY <2>1, <1>3, <1>6 DEF PlainLines
<1>8. ASSUME NEW q \in Questions
      PROVE  \E k \in 1..Len(lines) : lines[k].of = q /\ lines[k].place = 1 /\ lines[k].kind = "quote"
  <2>1. q \in 1..Len(talk) /\ talk[q].role = "user" /\ q # 0
    BY <1>1 DEF Questions
  <2>2. 1 \in DOMAIN talk[q].text
    BY <2>1, <1>1, MessageIs
  <2>3. PICK k \in 1..Len(lines) : lines[k].of = q /\ lines[k].place = 1
    BY <2>1, <2>2, <1>1 DEF WriteInv, WrittenInv
  <2>4. lines[k].kind = KindOf(talk, q, 1)
    BY <2>1, <2>3, LineIs
  <2> QED BY <2>1, <2>3, <2>4 DEF KindOf
<1>9. IsConversation
  <2>1. PICK W : W = {k \in 1..Len(lines) : lines[k].kind = "quote"}
    OBVIOUS
  <2>2. Where({"quote"}) = W
    BY <1>2, <2>1 DEF Where
  <2>3. PICK f : f = [q \in Questions |-> CHOOSE k \in 1..Len(lines) : lines[k].of = q /\ lines[k].place = 1 /\ lines[k].kind = "quote"]
    OBVIOUS
  <2>4. \A q \in Questions : f[q] \in 1..Len(lines) /\ lines[f[q]].of = q /\ lines[f[q]].kind = "quote"
    BY <1>8, <2>3
  <2>5. \A q \in Questions : f[q] \in W
    BY <2>1, <2>4
  <2>a. f \in [Questions -> W]
    BY <2>3, <2>5
  <2>b. ASSUME NEW q \in Questions, NEW r \in Questions, f[q] = f[r] PROVE q = r
    BY <2>4, <2>b
  <2>6. f \in Injection(Questions, W)
    BY <2>a, <2>b DEF Injection, IsInjective
  <2>7. IsFiniteSet(W)
    <3>1. IsFiniteSet(1..Len(lines)) /\ W \in SUBSET (1..Len(lines))
      BY <1>2, <2>1, FS_Interval
    <3> QED BY <3>1, FS_Subset
  <2>8. Cardinality(Questions) <= Cardinality(W) /\ Cardinality(W) \in Nat /\ Cardinality(Questions) \in Nat
    BY <2>6, <2>7, FS_Injection, FS_CardinalityType
  <2> QED BY <2>2, <2>8 DEF IsPlain, IsConversation
<1> QED BY <1>3, <1>7, <1>8, <1>9

\* What is heard grows by the line that is not blank.
LEMMA HeardIs ==
  ASSUME NEW s \in Seq(Line), PlainLines(s), NEW p \in 1..Len(s), NEW n \in Nat, n >= p, n <= Len(s)
  PROVE  /\ IsFiniteSet(Heard(s, p, n)) /\ Cardinality(Heard(s, p, n)) \in Nat
         /\ n = p => Heard(s, p, n) = {}
         /\ n < Len(s) /\ s[n + 1].kind = "blank" => Heard(s, p, n + 1) = Heard(s, p, n)
         /\ n < Len(s) /\ s[n + 1].kind # "blank" =>
              /\ Heard(s, p, n + 1) = Heard(s, p, n) \cup {<<s[n + 1].of, s[n + 1].place>>}
              /\ Cardinality(Heard(s, p, n + 1)) = Cardinality(Heard(s, p, n)) + 1
<1>1. PICK K : K = {h \in (p + 1)..n : s[h].kind # "blank"}
  OBVIOUS
<1>2. PICK H : H = Heard(s, p, n)
  OBVIOUS
<1>3. H = {<<s[k].of, s[k].place>> : k \in K}
  BY <1>1, <1>2 DEF Heard
<1>4. IsFiniteSet(K)
  BY <1>1, FS_Interval, FS_Subset
<1>5. IsFiniteSet(H) /\ Cardinality(H) \in Nat
  <2>1. PICK f : f = [k \in K |-> <<s[k].of, s[k].place>>]
    OBVIOUS
  <2>2. f \in Surjection(K, H)
    BY <1>3, <2>1 DEF Surjection
  <2> QED BY <2>2, <1>4, FS_Surjection, FS_CardinalityType
<1>6. n = p => H = {}
  <2>1. n = p => K = {}
    BY <1>1
  <2> QED BY <2>1, <1>3
<1>7. PICK K2 : K2 = {h \in (p + 1)..(n + 1) : s[h].kind # "blank"}
  OBVIOUS
<1>8. Heard(s, p, n + 1) = {<<s[k].of, s[k].place>> : k \in K2}
  BY <1>7 DEF Heard
<1>9. s[n + 1].kind = "blank" => K2 = K
  BY <1>1, <1>7
<1>10. s[n + 1].kind # "blank" => K2 = K \cup {n + 1}
  BY <1>1, <1>7
<1>11. ASSUME n < Len(s), s[n + 1].kind # "blank" PROVE <<s[n + 1].of, s[n + 1].place>> \notin H
  <2>1. \A k \in K : k \in 1..Len(s) /\ k < n + 1 /\ s[k].kind # "blank"
    BY <1>1
  <2>2. n + 1 \in 1..Len(s)
    BY <1>11
  <2> QED BY <2>1, <2>2, <1>3, <1>11 DEF PlainLines
<1>12. s[n + 1].kind # "blank" => Heard(s, p, n + 1) = H \cup {<<s[n + 1].of, s[n + 1].place>>}
  BY <1>3, <1>8, <1>10
<1>13. n < Len(s) /\ s[n + 1].kind # "blank" => Cardinality(Heard(s, p, n + 1)) = Cardinality(H) + 1
  BY <1>5, <1>11, <1>12, FS_AddElement
<1> QED BY <1>2, <1>3, <1>5, <1>6, <1>8, <1>9, <1>12, <1>13

\* The chunk being made is of a later question than those filed, and when it is
\* filed the last exchange is.
LEMMA OpenIsFiled ==
  ASSUME NEW s \in Seq(Line), PlainLines(s), NEW n \in 0..Len(s), NEW c \in Seq(Line),
         NEW f \in Seq(Seq(Line)), NEW g \in Seq(Seq(Line)), FiledInv(s, n, c, f),
         \A k \in 1..Len(f) : g[k] = f[k], Len(g) >= Len(f),
         \A k \in 1..Len(g) : k \in 1..Len(f) \/ (k = Len(f) + 1 /\ g[k] = c /\ Len(c) > MinChunkLines),
         Len(c) > MinChunkLines => Len(f) + 1 \in 1..Len(g) /\ g[Len(f) + 1] = c
  PROVE  /\ \A h \in 1..Len(g) : \E p \in 1..n : s[p].kind = "quote" /\ g[h][1] = s[p]
         /\ \A h, k \in 1..Len(g) : h < k => g[h][1].of < g[k][1].of
         /\ \A p \in 1..n :
              /\ c # <<>> /\ s[p].kind = "quote" /\ NoQuestion(s, p, n) /\ SizeOf(s, p, n) > MinChunkLines
              => \E h \in 1..Len(g) : IsChunkOf(g[h], s, p, n)
         /\ \A p \in 1..n : \A e \in p..n :
              /\ s[p].kind = "quote" /\ NoQuestion(s, p, e) /\ SizeOf(s, p, e) > MinChunkLines
              /\ e # n /\ s[e + 1].kind = "quote"
              => \E h \in 1..Len(g) : IsChunkOf(g[h], s, p, e)
<1>1. Len(s) \in Nat /\ Len(f) \in Nat /\ Len(g) \in Nat /\ MinChunkLines \in Nat /\ n \in Nat
  BY TranscriptAssumption
<1>2. Len(c) > MinChunkLines => c # <<>>
  BY <1>1
<1>3. c # <<>> => \E p \in 1..n : s[p].kind = "quote" /\ NoQuestion(s, p, n) /\ IsChunkOf(c, s, p, n)
  BY DEF FiledInv
<1>4. ASSUME NEW k \in 1..Len(f)
      PROVE  \E p \in 1..n : s[p].kind = "quote" /\ f[k][1] = s[p] /\ (c # <<>> => ~NoQuestion(s, p, n))
  BY DEF FiledInv
<1>5. ASSUME NEW h \in 1..Len(g)
      PROVE  \E p \in 1..n : s[p].kind = "quote" /\ g[h][1] = s[p]
  <2>1. CASE h \in 1..Len(f)
    BY <2>1, <1>4
  <2>2. CASE h = Len(f) + 1 /\ g[h] = c /\ Len(c) > MinChunkLines
    BY <2>2, <1>2, <1>3 DEF IsChunkOf
  <2> QED BY <2>1, <2>2
<1>6. ASSUME NEW h \in 1..Len(g), NEW k \in 1..Len(g), h < k
      PROVE  g[h][1].of < g[k][1].of
  <2>1. CASE k \in 1..Len(f)
    <3>1. h \in 1..Len(f)
      BY <2>1, <1>1, <1>6
    <3>2. f[h][1].of < f[k][1].of
      BY <2>1, <3>1, <1>6 DEF FiledInv
    <3> QED BY <2>1, <3>1, <3>2
  <2>2. CASE k = Len(f) + 1 /\ g[k] = c /\ Len(c) > MinChunkLines
    <3>1. h \in 1..Len(f)
      BY <2>2, <1>1, <1>6
    <3>2. PICK p \in 1..n : s[p].kind = "quote" /\ f[h][1] = s[p] /\ ~NoQuestion(s, p, n)
      BY <2>2, <3>1, <1>2, <1>4
    <3>3. PICK q \in 1..n : s[q].kind = "quote" /\ NoQuestion(s, q, n) /\ IsChunkOf(c, s, q, n)
      BY <2>2, <1>2, <1>3
    <3>4. PICK m \in (p + 1)..n : s[m].kind = "quote"
      BY <3>2 DEF NoQuestion
    <3>5. ~(m \in (q + 1)..n)
      BY <3>3, <3>4 DEF NoQuestion
    <3>c. p \in Nat /\ q \in Nat /\ n \in Nat
      BY <1>1
    <3>a. p \in Nat /\ q \in Nat /\ m \in Nat /\ p < m /\ m <= n
      BY <3>c, m \in (p + 1)..n
    <3>b. m <= q
      BY <3>5, <3>a
    <3>6. p < q /\ p \in 1..Len(s) /\ q \in 1..Len(s)
      BY <3>a, <3>b, <1>1
    <3>7. s[p].of < s[q].of
      BY <3>2, <3>3, <3>6 DEF PlainLines
    <3>8. g[h] = f[h] /\ c[1] = s[q]
      BY <3>1, <3>3 DEF IsChunkOf
    <3> QED BY <2>2, <3>2, <3>7, <3>8
  <2> QED BY <2>1, <2>2
<1>7. ASSUME NEW p \in 1..n, c # <<>>, s[p].kind = "quote", NoQuestion(s, p, n), SizeOf(s, p, n) > MinChunkLines
      PROVE  \E h \in 1..Len(g) : IsChunkOf(g[h], s, p, n)
  <2>1. PICK q \in 1..n : s[q].kind = "quote" /\ NoQuestion(s, q, n) /\ IsChunkOf(c, s, q, n)
    BY <1>3, <1>7
  <2>2. p = q
    <3>1. ~(p \in (q + 1)..n) /\ ~(q \in (p + 1)..n)
      BY <1>7, <2>1 DEF NoQuestion
    <3> QED BY <3>1, <1>1
  <2>3. Len(c) > MinChunkLines
    BY <2>1, <2>2, <1>7 DEF IsChunkOf
  <2> QED BY <2>1, <2>2, <2>3
<1>8. ASSUME NEW p \in 1..n, NEW e \in p..n, s[p].kind = "quote", NoQuestion(s, p, e),
             SizeOf(s, p, e) > MinChunkLines, e # n, s[e + 1].kind = "quote"
      PROVE  \E h \in 1..Len(g) : IsChunkOf(g[h], s, p, e)
  <2>1. PICK h \in 1..Len(f) : IsChunkOf(f[h], s, p, e)
    BY <1>8 DEF FiledInv
  <2>2. h \in 1..Len(g) /\ g[h] = f[h]
    BY <1>1
  <2> QED BY <2>1, <2>2
<1> QED BY <1>5, <1>6, <1>7, <1>8

\* A question closes the chunk and opens its own.
LEMMA QuestionIsCut ==
  ASSUME NEW s \in Seq(Line), PlainLines(s), NEW n \in 0..Len(s), n < Len(s), NEW c \in Seq(Line),
         NEW f \in Seq(Seq(Line)), NEW g \in Seq(Seq(Line)), FiledInv(s, n, c, f),
         \A k \in 1..Len(f) : g[k] = f[k], Len(g) >= Len(f),
         \A k \in 1..Len(g) : k \in 1..Len(f) \/ (k = Len(f) + 1 /\ g[k] = c /\ Len(c) > MinChunkLines),
         Len(c) > MinChunkLines => Len(f) + 1 \in 1..Len(g) /\ g[Len(f) + 1] = c,
         s[n + 1].kind = "quote"
  PROVE  FiledInv(s, n + 1, <<s[n + 1]>>, g)
<1>1. PICK i : i = n + 1
  OBVIOUS
<1>2. /\ Len(s) \in Nat /\ i \in 1..Len(s) /\ n \in Nat /\ i \in Nat /\ s[i] \in Line /\ MaxAILines \in Nat
      /\ 1..i = 1..n \cup {i}
  BY <1>1, TranscriptAssumption
<1>3. PICK d : d = <<s[i]>>
  OBVIOUS
<1>4. d # <<>> /\ Len(d) = 1 /\ d[1] = s[i]
  BY <1>3
<1>5. s[i].kind = "quote" /\ NoQuestion(s, i, i) /\ IsChunkOf(d, s, i, i)
  <2>1. Heard(s, i, i) = {} /\ Cardinality(Heard(s, i, i)) = 0
    BY <1>2, HeardIs, FS_EmptySet
  <2>2. SizeOf(s, i, i) = 1
    BY <2>1, <1>2 DEF SizeOf
  <2>3. (i + 1)..i = {} /\ 2..1 = {}
    BY <1>2
  <2> QED BY <2>2, <2>3, <1>1, <1>4 DEF NoQuestion, IsChunkOf
<1>6. ASSUME NEW h \in 1..Len(g)
      PROVE  \E p \in 1..i : s[p].kind = "quote" /\ g[h][1] = s[p] /\ ~NoQuestion(s, p, i)
  <2>1. PICK p \in 1..n : s[p].kind = "quote" /\ g[h][1] = s[p]
    BY OpenIsFiled
  <2>2. i \in (p + 1)..i /\ p \in 1..i
    BY <1>1, <1>2
  <2> QED BY <2>1, <2>2, <1>5 DEF NoQuestion
<1>7. \A h, k \in 1..Len(g) : h < k => g[h][1].of < g[k][1].of
  BY OpenIsFiled
<1>8. ASSUME NEW p \in 1..i, NEW e \in p..i, s[p].kind = "quote", NoQuestion(s, p, e),
             SizeOf(s, p, e) > MinChunkLines, IF e = i THEN i = Len(s) /\ d = <<>> ELSE s[e + 1].kind = "quote"
      PROVE  \E h \in 1..Len(g) : IsChunkOf(g[h], s, p, e)
  <2>1. e # i /\ s[e + 1].kind = "quote"
    BY <1>4, <1>8
  <2>2. p \in 1..n /\ e \in p..n
    BY <2>1, <1>1, <1>2
  <2>3. CASE e # n
    BY <2>1, <2>2, <2>3, <1>8, OpenIsFiled
  <2>4. CASE e = n
    <3>1. c # <<>>
      BY <2>2, <1>2, <1>8 DEF FiledInv
    <3> QED BY <3>1, <2>2, <2>4, <1>8, OpenIsFiled
  <2> QED BY <2>3, <2>4
<1>9. FiledInv(s, i, d, g)
  <2>1. \E p \in 1..i : s[p].kind = "quote" /\ NoQuestion(s, p, i) /\ IsChunkOf(d, s, p, i)
    BY <1>2, <1>5
  <2> QED BY <2>1, <1>4, <1>6, <1>7, <1>8 DEF FiledInv
<1> QED BY <1>1, <1>3, <1>9

\* Of what follows a question the first lines are taken.
LEMMA AnswerIsCut ==
  ASSUME NEW s \in Seq(Line), PlainLines(s), NEW n \in 0..Len(s), n < Len(s), NEW c \in Seq(Line),
         NEW f \in Seq(Seq(Line)), FiledInv(s, n, c, f), s[n + 1].kind # "quote", NEW d \in Seq(Line),
         d = IF s[n + 1].kind # "blank" /\ c # <<>> /\ Len(c) <= MaxAILines THEN Append(c, s[n + 1]) ELSE c
  PROVE  FiledInv(s, n + 1, d, f)
<1>1. PICK i : i = n + 1
  OBVIOUS
<1>2. /\ Len(s) \in Nat /\ i \in 1..Len(s) /\ n \in Nat /\ i \in Nat /\ s[i] \in Line /\ MaxAILines \in Nat
      /\ 1..i = 1..n \cup {i}
  BY <1>1, TranscriptAssumption
<1>3. PICK z \in Nat : z = Len(c)
  OBVIOUS
<1>4. /\ Append(c, s[i]) \in Seq(Line) /\ Len(Append(c, s[i])) = z + 1
      /\ \A a \in 1..z : Append(c, s[i])[a] = c[a]
      /\ Append(c, s[i])[z + 1] = s[i]
  BY <1>2, <1>3
<1>5. c = <<>> <=> d = <<>>
  <2>1. Append(c, s[i]) # <<>>
    <3>1. Len(Append(c, s[i])) # 0 /\ Len(<<>>) = 0
      BY <1>4
    <3> QED BY <3>1
  <2> QED BY <2>1, <1>1
<1>6. \A p \in 1..n : NoQuestion(s, p, i) <=> NoQuestion(s, p, n)
  <2>1. ASSUME NEW p \in 1..n PROVE (p + 1)..i = (p + 1)..n \cup {i}
    BY <1>1, <1>2
  <2> QED BY <2>1, <1>1 DEF NoQuestion
<1>7. ASSUME NEW p \in 1..n, IsChunkOf(c, s, p, n), c # <<>>
      PROVE  IsChunkOf(d, s, p, i)
  <2>1. PICK H, K : H = Heard(s, p, n) /\ K = Heard(s, p, i)
    OBVIOUS
  <2>2. PICK a, b : a = Cardinality(H) /\ b = Cardinality(K)
    OBVIOUS
  <2>3. p \in 1..Len(s) /\ n >= p /\ n <= Len(s)
    BY <1>2
  <2>4. /\ a \in Nat
        /\ s[i].kind = "blank" => K = H
        /\ s[i].kind # "blank" => K = H \cup {<<s[i].of, s[i].place>>} /\ b = a + 1
    BY <2>1, <2>2, <2>3, <1>1, HeardIs
  <2>5. /\ z = 1 + (IF a < MaxAILines THEN a ELSE MaxAILines) /\ c[1] = s[p]
        /\ \A k \in 2..z : <<c[k].of, c[k].place>> \in H
    BY <2>1, <2>2, <1>3, <1>7 DEF IsChunkOf, SizeOf
  <2>6. Len(d) = 1 + (IF b < MaxAILines THEN b ELSE MaxAILines) /\ d[1] = s[p]
        /\ \A k \in 2..Len(d) : <<d[k].of, d[k].place>> \in K
    <3>1. CASE s[i].kind = "blank"
      BY <3>1, <2>2, <2>4, <2>5, <1>1, <1>3
    <3>2. CASE s[i].kind # "blank" /\ z <= MaxAILines
      <4>1. d = Append(c, s[i])
        BY <3>2, <1>1, <1>3, <1>7
      <4>2. a < MaxAILines /\ z = 1 + a
        BY <3>2, <2>4, <2>5, <1>2
      <4>3. Len(d) = 1 + (IF b < MaxAILines THEN b ELSE MaxAILines)
        BY <4>1, <4>2, <3>2, <2>4, <1>2, <1>4
      <4>4. d[1] = s[p]
        BY <4>1, <4>2, <2>4, <2>5, <1>4
      <4>5. ASSUME NEW k \in 2..Len(d) PROVE <<d[k].of, d[k].place>> \in K
        <5>1. k \in 2..z \/ k = z + 1
          BY <4>1, <1>4
        <5>2. CASE k \in 2..z
          <6>1. d[k] = c[k]
            BY <5>2, <4>1, <1>4
          <6> QED BY <6>1, <5>2, <2>4, <2>5, <3>2
        <5>3. CASE k = z + 1
          BY <5>3, <4>1, <1>4, <2>4, <3>2
        <5> QED BY <5>1, <5>2, <5>3
      <4> QED BY <4>3, <4>4, <4>5
    <3>3. CASE s[i].kind # "blank" /\ ~(z <= MaxAILines)
      <4>1. d = c
        BY <3>3, <1>1, <1>3
      <4>2. ~(a < MaxAILines) /\ ~(b < MaxAILines)
        BY <3>3, <2>4, <2>5, <1>2
      <4> QED BY <4>1, <4>2, <3>3, <2>4, <2>5, <1>3
    <3> QED BY <3>1, <3>2, <3>3
  <2> QED BY <2>1, <2>2, <2>6 DEF IsChunkOf, SizeOf
<1>8. d = <<>> => \A p \in 1..i : s[p].kind # "quote"
  BY <1>1, <1>2, <1>5 DEF FiledInv
<1>9. d # <<>> => \E p \in 1..i : s[p].kind = "quote" /\ NoQuestion(s, p, i) /\ IsChunkOf(d, s, p, i)
  <2>1. SUFFICES ASSUME d # <<>>
                 PROVE  \E p \in 1..i : s[p].kind = "quote" /\ NoQuestion(s, p, i) /\ IsChunkOf(d, s, p, i)
    OBVIOUS
  <2>2. PICK p \in 1..n : s[p].kind = "quote" /\ NoQuestion(s, p, n) /\ IsChunkOf(c, s, p, n)
    BY <2>1, <1>5 DEF FiledInv
  <2> QED BY <2>1, <2>2, <1>2, <1>5, <1>6, <1>7
<1>10. ASSUME NEW h \in 1..Len(f)
       PROVE  \E p \in 1..i : s[p].kind = "quote" /\ f[h][1] = s[p] /\ (d # <<>> => ~NoQuestion(s, p, i))
  <2>1. PICK p \in 1..n : s[p].kind = "quote" /\ f[h][1] = s[p] /\ (c # <<>> => ~NoQuestion(s, p, n))
    BY DEF FiledInv
  <2> QED BY <2>1, <1>2, <1>5, <1>6
<1>11. ASSUME NEW p \in 1..i, NEW e \in p..i, s[p].kind = "quote", NoQuestion(s, p, e),
              SizeOf(s, p, e) > MinChunkLines, IF e = i THEN i = Len(s) /\ d = <<>> ELSE s[e + 1].kind = "quote"
       PROVE  \E h \in 1..Len(f) : IsChunkOf(f[h], s, p, e)
  <2>1. e # i
    BY <1>8, <1>11
  <2>2. e # n /\ p \in 1..n /\ e \in p..n
    BY <2>1, <1>1, <1>2, <1>11
  <2> QED BY <2>1, <2>2, <1>11 DEF FiledInv
<1>12. \A h, k \in 1..Len(f) : h < k => f[h][1].of < f[k][1].of
  BY DEF FiledInv
<1>13. FiledInv(s, i, d, f)
  BY <1>8, <1>9, <1>10, <1>11, <1>12 DEF FiledInv
<1> QED BY <1>1, <1>13

\* The end of the text closes the last chunk.
LEMMA LastIsCut ==
  ASSUME NEW s \in Seq(Line), PlainLines(s), NEW n \in 0..Len(s), n = Len(s), NEW c \in Seq(Line), c # <<>>,
         NEW f \in Seq(Seq(Line)), NEW g \in Seq(Seq(Line)), FiledInv(s, n, c, f),
         \A k \in 1..Len(f) : g[k] = f[k], Len(g) >= Len(f),
         \A k \in 1..Len(g) : k \in 1..Len(f) \/ (k = Len(f) + 1 /\ g[k] = c /\ Len(c) > MinChunkLines),
         Len(c) > MinChunkLines => Len(f) + 1 \in 1..Len(g) /\ g[Len(f) + 1] = c
  PROVE  FiledInv(s, n, <<>>, g)
<1>1. \A h \in 1..Len(g) : \E p \in 1..n : s[p].kind = "quote" /\ g[h][1] = s[p]
  BY OpenIsFiled
<1>2. \A h, k \in 1..Len(g) : h < k => g[h][1].of < g[k][1].of
  BY OpenIsFiled
<1>3. ASSUME NEW p \in 1..n, NEW e \in p..n, s[p].kind = "quote", NoQuestion(s, p, e),
             SizeOf(s, p, e) > MinChunkLines, IF e = n THEN TRUE ELSE s[e + 1].kind = "quote"
      PROVE  \E h \in 1..Len(g) : IsChunkOf(g[h], s, p, e)
  <2>1. CASE e = n
    <3>1. NoQuestion(s, p, n) /\ SizeOf(s, p, n) > MinChunkLines
      BY <2>1, <1>3
    <3>2. \E h \in 1..Len(g) : IsChunkOf(g[h], s, p, n)
      BY <3>1, <1>3, OpenIsFiled
    <3> QED BY <2>1, <3>2
  <2>2. CASE e # n
    BY <2>2, <1>3, OpenIsFiled
  <2> QED BY <2>1, <2>2
<1> QED BY <1>1, <1>2, <1>3 DEF FiledInv

\* A line of a conversation is a question or is heard.
LEMMA FileLineStep == ASSUME ReadInv, WriteInv, CutInv, FileInv, CutLine PROVE FileInv'
<1>1. PICK i : i = cut + 1
  OBVIOUS
<1>2. PICK c : c = IF EndsBefore(i) THEN <<>> ELSE chunk
  OBVIOUS
<1>3. /\ IsWritten /\ cut < Len(lines) /\ cut' = i
      /\ chunk' = IF Takes(c, i) THEN Append(c, lines[i]) ELSE c
      /\ IF EndsBefore(i) THEN FileChunk(chunk) ELSE filed' = filed
      /\ lines' = lines /\ written' = written /\ talk' = talk
  BY <1>1, <1>2 DEF CutLine, readingVars, writingVars
<1> SUFFICES ASSUME IsPlain PROVE FiledInv(lines, i, chunk', filed')
  BY <1>3 DEF FileInv, IsPlain, Questions
<1>4. /\ cut \in 0..Len(lines) /\ Len(lines) \in Nat /\ i \in 1..Len(lines) /\ lines \in Seq(Line)
      /\ chunk \in Seq(Line) /\ filed \in Seq(Seq(Line))
  BY <1>1, <1>3 DEF CutInv, WriteInv
<1>5. PlainLines(lines) /\ IsConversation
  BY <1>3, PlainIs
<1>6. FiledInv(lines, cut, chunk, filed)
  BY <1>3 DEF FileInv
<1>7. lines[i].kind \in {"text", "blank", "quote"} /\ lines[i] \in Line
  BY <1>4, <1>5 DEF PlainLines
<1>8. CASE lines[i].kind = "quote"
  <2>1. EndsBefore(i) /\ c = <<>> /\ Takes(c, i)
    BY <1>2, <1>5, <1>8 DEF EndsBefore, Takes
  <2>2. FileChunk(chunk) /\ chunk' = <<lines[i]>>
    BY <2>1, <1>3
  <2>3. /\ filed' \in Seq(Seq(Line)) /\ Len(filed') >= Len(filed)
        /\ \A n \in 1..Len(filed) : filed'[n] = filed[n]
        /\ \A n \in 1..Len(filed') : n \in 1..Len(filed) \/ (n = Len(filed) + 1 /\ filed'[n] = chunk /\ Len(chunk) > MinChunkLines)
        /\ Len(chunk) > MinChunkLines => Len(filed) + 1 \in 1..Len(filed') /\ filed'[Len(filed) + 1] = chunk
    BY <2>2, <1>4, FileIs
  <2>4. FiledInv(lines, cut + 1, <<lines[cut + 1]>>, filed')
    BY <2>3, <1>1, <1>3, <1>4, <1>5, <1>6, <1>8, QuestionIsCut
  <2> QED BY <2>2, <2>4, <1>1
<1>9. CASE lines[i].kind # "quote"
  <2>1. ~EndsBefore(i) /\ c = chunk
    BY <1>2, <1>5, <1>7, <1>9 DEF EndsBefore
  <2>2. PICK d : d = IF lines[i].kind # "blank" /\ chunk # <<>> /\ Len(chunk) <= MaxAILines THEN Append(chunk, lines[i]) ELSE chunk
    OBVIOUS
  <2>3. chunk' = d /\ filed' = filed
    BY <2>1, <2>2, <1>3, <1>5, <1>9 DEF Takes
  <2>4. d \in Seq(Line)
    BY <2>2, <1>4, <1>7
  <2>5. FiledInv(lines, cut + 1, d, filed)
    BY <2>2, <2>4, <1>1, <1>3, <1>4, <1>5, <1>6, <1>9, AnswerIsCut
  <2> QED BY <2>3, <2>5, <1>1
<1> QED BY <1>8, <1>9

\* The last exchange is filed at the end of the text.
LEMMA FileLastStep == ASSUME ReadInv, WriteInv, CutInv, FileInv, CutLast PROVE FileInv'
<1>1. /\ IsWritten /\ cut = Len(lines) /\ chunk # <<>> /\ FileChunk(chunk) /\ chunk' = <<>> /\ cut' = cut
      /\ lines' = lines /\ written' = written /\ talk' = talk
  BY DEF CutLast, readingVars, writingVars
<1> SUFFICES ASSUME IsPlain PROVE FiledInv(lines, cut, <<>>, filed')
  BY <1>1 DEF FileInv, IsPlain, Questions
<1>2. cut \in 0..Len(lines) /\ lines \in Seq(Line) /\ chunk \in Seq(Line) /\ filed \in Seq(Seq(Line))
  BY DEF CutInv, WriteInv
<1>3. PlainLines(lines) /\ FiledInv(lines, cut, chunk, filed)
  BY <1>1, PlainIs DEF FileInv
<1>4. /\ filed' \in Seq(Seq(Line)) /\ Len(filed') >= Len(filed)
      /\ \A n \in 1..Len(filed) : filed'[n] = filed[n]
      /\ \A n \in 1..Len(filed') : n \in 1..Len(filed) \/ (n = Len(filed) + 1 /\ filed'[n] = chunk /\ Len(chunk) > MinChunkLines)
      /\ Len(chunk) > MinChunkLines => Len(filed) + 1 \in 1..Len(filed') /\ filed'[Len(filed) + 1] = chunk
  BY <1>1, <1>2, FileIs
<1> QED BY <1>1, <1>2, <1>3, <1>4, LastIsCut

\* What is heard between a question's line and the next one is what is said in
\* answer to it.
LEMMA HeardIsSaid ==
  ASSUME ReadInv, WriteInv, IsWritten, IsPlain, NEW q \in Questions, NEW p \in 1..Len(lines), NEW e \in p..Len(lines),
         lines[p].of = q, lines[p].place = 1, NoQuestion(lines, p, e), e = Len(lines) \/ lines[e + 1].kind = "quote"
  PROVE  Heard(lines, p, e) = Said(q)
<1>1. /\ talk \in Seq(Message) /\ Len(talk) \in Nat /\ DOMAIN talk = 1..Len(talk) /\ written = Len(talk)
      /\ Len(lines) \in Nat /\ q \in 1..Len(talk) /\ talk[q].role = "user" /\ q # 0
  BY DEF ReadInv, WriteInv, IsWritten, Questions
<1>2. ASSUME NEW k \in 1..Len(lines), NEW l \in 1..Len(lines), k < l, lines[k].of # 0, lines[l].of # 0
      PROVE  lines[k].of < lines[l].of \/ (lines[k].of = lines[l].of /\ lines[k].place < lines[l].place)
  BY <1>2 DEF WriteInv, WrittenInv
<1>3. \A i \in 1..Len(talk) : \A j \in DOMAIN talk[i].text : <<i, j>> \in Spoken
  BY <1>1 DEF Spoken
<1>4. \A x \in Spoken : \E i \in 1..Len(talk) : \E j \in DOMAIN talk[i].text : x = <<i, j>>
  BY <1>1 DEF Spoken
<1>5. ASSUME NEW k \in (p + 1)..e, lines[k].kind # "blank"
      PROVE  <<lines[k].of, lines[k].place>> \in Said(q)
  <2>1. k \in 1..Len(lines) /\ p < k /\ p \in Nat /\ k \in Nat
    BY <1>1
  <2>2. PICK i, j : i = lines[k].of /\ j = lines[k].place
    OBVIOUS
  <2>3. i # 0 /\ i \in 1..Len(talk) /\ j \in DOMAIN talk[i].text /\ lines[k].kind = KindOf(talk, i, j)
    BY <2>1, <2>2, <1>5, LineIs
  <2>4. QuestionOf(i) = QuestionOf(q)
    <3> SUFFICES ASSUME QuestionOf(i) # QuestionOf(q) PROVE FALSE
      OBVIOUS
    <3>1. PICK m \in (p + 1)..k : lines[m].kind = "quote"
      BY <2>1, <2>2, <2>3, <1>1, QuestionBetween
    <3>2. m \in (p + 1)..e
      BY <3>1, <2>1, <1>1
    <3> QED BY <3>1, <3>2 DEF NoQuestion
  <2>5. <<i, j>> # <<q, 1>>
    <3>1. j \in Nat /\ i \in Nat
      BY <2>1, <2>2, LineIs
    <3>2. q < i \/ (q = i /\ 1 < j)
      BY <2>1, <2>2, <2>3, <1>1, <1>2
    <3>3. i # q \/ j # 1
      BY <3>1, <3>2, <1>1
    <3> QED BY <3>3
  <2>6. talk[i].text[j] # "blank"
    <3>1. lines[k].kind # "quote"
      BY DEF NoQuestion
    <3> QED BY <3>1, <2>3, <1>5 DEF KindOf
  <2>7. <<i, j>>[1] = i /\ <<i, j>>[2] = j
    OBVIOUS
  <2> QED BY <2>2, <2>3, <2>4, <2>5, <2>6, <2>7, <1>3 DEF Said
<1>6. ASSUME NEW x \in Said(q)
      PROVE  \E k \in (p + 1)..e : lines[k].kind # "blank" /\ x = <<lines[k].of, lines[k].place>>
  <2>1. PICK i \in 1..Len(talk) : \E j \in DOMAIN talk[i].text : x = <<i, j>>
    BY <1>4 DEF Said
  <2>2. PICK j \in DOMAIN talk[i].text : x = <<i, j>>
    BY <2>1
  <2>3. x[1] = i /\ x[2] = j
    BY <2>2
  <2>4. QuestionOf(i) = QuestionOf(q) /\ talk[i].text[j] # "blank" /\ x # <<q, 1>>
    BY <2>3 DEF Said
  <2>5. PICK k \in 1..Len(lines) : lines[k].of = i /\ lines[k].place = j
    BY <1>1 DEF WriteInv, WrittenInv
  <2>6. lines[k].kind # "blank" /\ i # 0 /\ i \in Nat /\ j \in Nat \ {0}
    <3>1. i # 0 /\ i \in Nat /\ j \in Nat \ {0}
      BY <1>1, MessageIs
    <3>2. lines[k].kind = KindOf(talk, i, j)
      BY <3>1, <2>5, LineIs
    <3> QED BY <3>1, <3>2, <2>4 DEF KindOf
  <2>7. q <= i
    <3>1. q \in QuestionOf(q)
      BY <1>1 DEF QuestionOf
    <3> QED BY <3>1, <2>4, <1>1 DEF QuestionOf
  <2>8. p < k
    <3>1. ~(k < p)
      <4> SUFFICES ASSUME k < p PROVE FALSE
        OBVIOUS
      <4>1. i < q \/ (i = q /\ j < 1)
        BY <2>5, <2>6, <1>1, <1>2
      <4> QED BY <4>1, <2>6, <2>7, <1>1
    <3>2. k # p
      BY <2>2, <2>4, <2>5
    <3> QED BY <3>1, <3>2, <1>1
  <2>9. k <= e
    <3> SUFFICES ASSUME e < k PROVE FALSE
      BY <1>1
    <3>1. PICK m : m = e + 1
      OBVIOUS
    <3>2. m \in 1..Len(lines) /\ lines[m].kind = "quote" /\ p < m /\ m <= k /\ m \in Nat
      BY <3>1, <1>1
    <3>3. PICK u : u = lines[m].of
      OBVIOUS
    <3>4. u # 0 /\ talk[u].role = "user" /\ lines[m].place = 1
      BY <3>2, <3>3, PlainIs
    <3>5. u \in 1..Len(talk) /\ u \in Nat
      BY <3>2, <3>3, <3>4, LineIs
    <3>6. q < u
      BY <3>2, <3>3, <3>4, <3>5, <1>1, <1>2
    <3>7. u <= i
      <4>1. CASE m = k
        BY <4>1, <2>5, <2>6, <3>3
      <4>2. CASE m # k
        <5>1. m < k
          BY <4>2, <3>2
        <5>2. u < i \/ (u = i /\ 1 < j)
          BY <5>1, <2>5, <2>6, <3>2, <3>3, <3>4, <1>2
        <5> QED BY <5>2, <2>6, <3>5
      <4> QED BY <4>1, <4>2
    <3>8. u \in QuestionOf(i)
      BY <3>4, <3>5, <3>7, <2>6 DEF QuestionOf
    <3>9. u \in 1..q
      BY <3>8, <2>4 DEF QuestionOf
    <3> QED BY <3>6, <3>9, <1>1
  <2>10. k \in (p + 1)..e
    BY <2>8, <2>9, <1>1
  <2> QED BY <2>2, <2>5, <2>6, <2>10
<1> QED BY <1>5, <1>6 DEF Heard

\* The last line up to which there is no further question.
LEMMA ExchangeEnds ==
  ASSUME NEW s \in Seq(Line), NEW p \in 1..Len(s)
  PROVE  \E e \in p..Len(s) : NoQuestion(s, p, e) /\ (e = Len(s) \/ s[e + 1].kind = "quote")
<1>1. PICK b \in Nat : b = Len(s)
  OBVIOUS
<1>2. PICK S : S = {e \in p..b : NoQuestion(s, p, e)}
  OBVIOUS
<1>3. p \in S /\ S \in SUBSET (0..b)
  <2>1. (p + 1)..p = {} /\ p \in p..b /\ p..b \subseteq 0..b
    BY <1>1
  <2> QED BY <2>1, <1>2 DEF NoQuestion
<1>4. PICK e : e \in S /\ \A m \in S : m <= e
  BY <1>3, LargestOf
<1>5. e \in p..b /\ NoQuestion(s, p, e)
  BY <1>2, <1>4
<1>6. ASSUME e # b PROVE s[e + 1].kind = "quote"
  <2>1. e + 1 \in p..b /\ ~(e + 1 <= e)
    BY <1>1, <1>5, <1>6
  <2>2. ~NoQuestion(s, p, e + 1)
    BY <2>1, <1>2, <1>4
  <2>3. PICK m \in (p + 1)..(e + 1) : s[m].kind = "quote"
    BY <2>2 DEF NoQuestion
  <2>4. m \notin (p + 1)..e
    BY <2>3, <1>5 DEF NoQuestion
  <2>5. m = e + 1
    BY <2>3, <2>4, <1>1, <1>5
  <2> QED BY <2>3, <2>5
<1> QED BY <1>1, <1>5, <1>6

\* The lesser of two numbers.
LEMMA LesserIs ==
  ASSUME NEW a \in Nat, NEW b \in Nat
  PROVE  Min({a, b}) = IF a < b THEN a ELSE b
<1>1. Min({a, b}) \in {a, b} /\ \A m \in {a, b} : Min({a, b}) <= m
  BY SmallestOf
<1> QED BY <1>1

\* So every exchange is filed, in order, with the first lines of its answer.
LEMMA FilesAreKept == ASSUME ReadInv, WriteInv, CutInv, FileInv PROVE EveryExchangeIsFiled
<1> SUFFICES ASSUME IsCut, IsPlain
             PROVE  /\ \A m, n \in DOMAIN filed : m < n => filed[m][1].of < filed[n][1].of
                    /\ \A q \in Questions :
                         1 + Min({Cardinality(Said(q)), MaxAILines}) > MinChunkLines =>
                           \E n \in DOMAIN filed :
                             /\ Len(filed[n]) = 1 + Min({Cardinality(Said(q)), MaxAILines})
                             /\ filed[n][1].of = q /\ filed[n][1].place = 1
                             /\ \A k \in 2..(1 + Min({Cardinality(Said(q)), MaxAILines})) :
                                  <<filed[n][k].of, filed[n][k].place>> \in Said(q)
  <2>1. talk \in Seq(Message) /\ DOMAIN talk = 1..Len(talk)
    BY DEF ReadInv
  <2>2. ASSUME \A x \in Spoken : talk[x[1]].text[x[2]] \in {"text", "blank"}, NEW i \in 1..Len(talk), NEW j \in DOMAIN talk[i].text
        PROVE  talk[i].text[j] \in {"text", "blank"}
    <3>1. <<i, j>> \in Spoken /\ <<i, j>>[1] = i /\ <<i, j>>[2] = j
      BY <2>1 DEF Spoken
    <3> QED BY <3>1, <2>2
  <2>3. Cardinality(Questions) >= 3 /\ (\A x \in Spoken : talk[x[1]].text[x[2]] \in {"text", "blank"}) => IsPlain
    BY <2>2 DEF IsPlain
  <2> QED BY <2>3 DEF EveryExchangeIsFiled, Questions
<1>1. /\ IsWritten /\ cut = Len(lines) /\ chunk = <<>> /\ FiledInv(lines, cut, chunk, filed)
      /\ filed \in Seq(Seq(Line)) /\ DOMAIN filed = 1..Len(filed)
      /\ lines \in Seq(Line) /\ Len(lines) \in Nat /\ MaxAILines \in Nat
  BY TranscriptAssumption DEF IsCut, FileInv, CutInv, WriteInv
<1>2. \A m, n \in DOMAIN filed : m < n => filed[m][1].of < filed[n][1].of
  BY <1>1 DEF FiledInv
<1>3. ASSUME NEW q \in Questions, NEW size, size = 1 + Min({Cardinality(Said(q)), MaxAILines}), size > MinChunkLines
      PROVE  \E n \in DOMAIN filed :
               /\ Len(filed[n]) = size /\ filed[n][1].of = q /\ filed[n][1].place = 1
               /\ \A k \in 2..size : <<filed[n][k].of, filed[n][k].place>> \in Said(q)
  <2>1. PICK p \in 1..Len(lines) : lines[p].of = q /\ lines[p].place = 1 /\ lines[p].kind = "quote"
    BY <1>1, PlainIs
  <2>2. PICK e \in p..Len(lines) : NoQuestion(lines, p, e) /\ (e = Len(lines) \/ lines[e + 1].kind = "quote")
    BY <1>1, ExchangeEnds
  <2>3. Heard(lines, p, e) = Said(q)
    BY <1>1, <2>1, <2>2, HeardIsSaid
  <2>4. Cardinality(Said(q)) \in Nat
    <3>1. e \in Nat /\ e >= p /\ e <= Len(lines) /\ PlainLines(lines)
      BY <1>1, PlainIs
    <3> QED BY <3>1, <2>3, <1>1, HeardIs
  <2>5. size = SizeOf(lines, p, e)
    BY <2>3, <2>4, <1>1, <1>3, LesserIs DEF SizeOf
  <2>6. IF e = cut THEN cut = Len(lines) /\ chunk = <<>> ELSE lines[e + 1].kind = "quote"
    BY <2>2, <1>1
  <2>7. PICK n \in 1..Len(filed) : IsChunkOf(filed[n], lines, p, e)
    BY <2>1, <2>2, <2>5, <2>6, <1>1, <1>3 DEF FiledInv
  <2>8. /\ Len(filed[n]) = size /\ filed[n][1] = lines[p]
        /\ \A k \in 2..size : <<filed[n][k].of, filed[n][k].place>> \in Said(q)
    BY <2>3, <2>5, <2>7 DEF IsChunkOf
  <2> QED BY <2>1, <2>8, <1>1
<1> QED BY <1>2, <1>3

-----------------------------------------------------------------------------
(* The conversation is kept.                                               *)

\* What the readers, the text, the chunk and the chunks filed keep.
TranscriptInv == ReadInv /\ WriteInv /\ CutInv /\ FileInv

\* All of it holds at first.
LEMMA TranscriptStart == TranscriptInit => TranscriptInv
<1> SUFFICES ASSUME TranscriptInit PROVE TranscriptInv
  OBVIOUS
<1>1. talk = <<>> /\ written = 0 /\ lines = <<>> /\ cut = 0 /\ chunk = <<>> /\ filed = <<>>
  BY DEF TranscriptInit
<1>2. Len(chunk) = 0 /\ Len(filed) = 0 /\ Len(lines) = 0 /\ chunk \in Seq(Line) /\ filed \in Seq(Seq(Line))
  BY <1>1
<1>3. CutInv
  BY <1>1, <1>2 DEF CutInv
<1>4. FileInv
  BY <1>1, NothingIsFiled DEF FileInv
<1> QED BY <1>3, <1>4, ReadInit, WriteInit DEF TranscriptInv

\* Before the whole text is written nothing is cut.
LEMMA NothingIsCutYet ==
  ASSUME CutInv, ~IsWritten, UNCHANGED cuttingVars, lines' \in Seq(Line)
  PROVE  CutInv' /\ FileInv'
<1>1. cut' = 0 /\ chunk' = <<>> /\ filed' = <<>>
  BY DEF CutInv, cuttingVars
<1>2. FiledInv(lines', 0, <<>>, <<>>)
  BY NothingIsFiled
<1> QED BY <1>1, <1>2, NothingIsCut DEF FileInv

\* Every step keeps it.
LEMMA TranscriptStep == TranscriptInv /\ [TranscriptNext]_transcriptVars => TranscriptInv'
<1> SUFFICES ASSUME TranscriptInv, [TranscriptNext]_transcriptVars PROVE TranscriptInv'
  OBVIOUS
<1>1. ReadInv /\ WriteInv /\ CutInv /\ FileInv /\ talk \in Seq(Message)
  BY DEF TranscriptInv, ReadInv
<1>2. CASE ReadFlat \/ ReadSlack \/ FollowFirstChild
  <2>1. ReadInv'
    BY <1>1, <1>2, ReadFlatStep, ReadSlackStep, FollowStep
  <2>2. WriteInv'
    BY <2>1, <1>1, <1>2, ReadThenWrite DEF ReadInv
  <2>3. ~IsRead
    BY <1>1, <1>2, NotYetRead
  <2>4. ~IsWritten
    BY <2>3, <1>1 DEF IsWritten, WriteInv
  <2>5. UNCHANGED cuttingVars
    BY <1>2 DEF ReadFlat, ReadSlack, FollowFirstChild
  <2>6. CutInv' /\ FileInv'
    BY <2>2, <2>4, <2>5, <1>1, NothingIsCutYet DEF WriteInv
  <2> QED BY <2>1, <2>2, <2>6 DEF TranscriptInv
<1>3. CASE MessagesToTranscript
  <2>1. WriteInv'
    BY <1>1, <1>3, WriteStep
  <2>2. ~IsWritten /\ UNCHANGED cuttingVars /\ UNCHANGED readingVars
    BY <1>1, <1>3 DEF MessagesToTranscript, IsWritten, WriteInv
  <2>3. CutInv' /\ FileInv'
    BY <2>1, <2>2, <1>1, NothingIsCutYet DEF WriteInv
  <2>4. ReadInv'
    BY <2>2, <1>1, SameReading
  <2> QED BY <2>1, <2>3, <2>4 DEF TranscriptInv
<1>4. CASE CutLine \/ CutLast
  <2>1. UNCHANGED readingVars /\ UNCHANGED writingVars
    BY <1>4 DEF CutLine, CutLast
  <2>2. ReadInv'
    BY <2>1, <1>1, SameReading
  <2>3. WriteInv'
    BY <2>1, <1>1 DEF readingVars, writingVars, WriteInv, IsRead, WalkOn, IsAnswered
  <2>4. CutInv'
    BY <1>1, <1>4, CutLineStep, CutLastStep
  <2>5. FileInv'
    BY <1>1, <1>4, FileLineStep, FileLastStep
  <2> QED BY <2>2, <2>3, <2>4, <2>5 DEF TranscriptInv
<1>5. CASE UNCHANGED transcriptVars
  <2>1. UNCHANGED readingVars /\ UNCHANGED writingVars /\ UNCHANGED cuttingVars
    BY <1>5 DEF transcriptVars, readingVars, writingVars, cuttingVars
  <2>2. ReadInv'
    BY <2>1, <1>1, SameReading
  <2>3. WriteInv'
    BY <2>1, <1>1 DEF readingVars, writingVars, WriteInv, IsRead, WalkOn, IsAnswered
  <2>4. (IsWritten <=> IsWritten') /\ (IsConversation <=> IsConversation') /\ (IsLong <=> IsLong')
    BY <2>1 DEF readingVars, writingVars, IsWritten, IsConversation, IsLong, Paragraphs, Where
  <2>5. CutInv'
    BY <2>1, <2>4, <1>1 DEF readingVars, writingVars, cuttingVars, CutInv, SameExchange, QuestionOf
  <2>6. FileInv'
    BY <2>1, <2>4, <1>1 DEF readingVars, writingVars, cuttingVars, FileInv, IsPlain, Questions
  <2> QED BY <2>2, <2>3, <2>5, <2>6 DEF TranscriptInv
<1> QED BY <1>2, <1>3, <1>4, <1>5 DEF TranscriptNext

\* The conversation is kept by what was shown of its readers, its lines and its
\* chunks.
LEMMA TranscriptIsKept == TranscriptInv => ConversationIsKept
<1> SUFFICES ASSUME TranscriptInv PROVE ConversationIsKept
  OBVIOUS
<1>1. ReadInv /\ WriteInv /\ CutInv /\ FileInv
  BY DEF TranscriptInv
<1>2. TranscriptTypeOK
  <2>1. lines \in Seq(Line) /\ written \in 0..Len(talk) /\ talk \in Seq(Message) /\ DOMAIN lines = 1..Len(lines)
    BY <1>1 DEF WriteInv, ReadInv
  <2>2. ASSUME NEW k \in DOMAIN lines PROVE lines[k].of \in 0..Len(talk)
    <3>1. lines[k].of = 0 \/ lines[k].of \in 1..Len(talk)
      BY <2>1, <1>1, LineIs
    <3> QED BY <3>1, <2>1
  <2> QED BY <2>1, <2>2, <1>1 DEF TranscriptTypeOK, CutInv, ReadInv, TakenInv
<1>3. ChunksKeepToTheirExchange
  <2>1. filed \in Seq(Seq(Line)) /\ DOMAIN filed = 1..Len(filed)
    BY <1>1 DEF CutInv
  <2>2. \A n \in DOMAIN filed : DOMAIN filed[n] = 1..Len(filed[n])
    BY <2>1
  <2> QED BY <2>1, <2>2, <1>1 DEF CutInv, SameExchange, ChunksKeepToTheirExchange
<1>4. EveryExchangeIsFiled
  BY <1>1, FilesAreKept
<1> QED BY <1>1, <1>2, <1>3, <1>4, ReadersKeep DEF ConversationIsKept

\* For every export, limit and length of a group: the messages are the export's,
\* each once, with its role and behind the one before it, from its beginning to
\* its end; and on to the chunks a conversation keeps its speakers, its exchanges
\* and their order (normalize.go:104-456, convominer.go:141-235).
THEOREM ConversationStaysKept == TranscriptSpec => []ConversationIsKept
<1>1. TranscriptSpec => []TranscriptInv
  BY TranscriptStart, TranscriptStep, PTL DEF TranscriptSpec
<1> QED BY <1>1, TranscriptIsKept, PTL
=============================================================================
