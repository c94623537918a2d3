-------------------------- MODULE PalaceUpkeepProofs --------------------------
(***************************************************************************)
(* The jobs that keep a palace up, PalaceCompact and PalaceRepair, each    *)
(* for every value of its constants and any interleaving with clients.     *)
(***************************************************************************)
EXTENDS PalaceCompact, PalaceRepair, PalaceStoreProofs, FiniteSetTheorems

-----------------------------------------------------------------------------
(* PalaceCompact: a pass is nothing but calls of the palace, so what       *)
(* PalaceStoreProofs proves stays true of a palace that is compacted while *)
(* it is used.                                                             *)

PassFields == {"step", "action", "alone", "before", "cap", "picked", "todo"}

\* A pass that has batches to go has drawers to go, all of them ids.
PassInv ==
    /\ DOMAIN pass = PassFields
    /\ pass.todo \in Seq(Ids)
    /\ pass.step = "batch" => Len(pass.todo) > 0

\* The LIMIT of a pass is a number whatever its caller asks for (compact.go:80-82).
LEMMA CapIsNat ==
  ASSUME NEW max \in MaxBatches
  PROVE  Cap(max) \in Nat \ {0}
BY CompactAssumption DEF Cap

\* What a scan may list is a sequence of drawer ids (ColdDrawerIDs).
LEMMA ListedIds ==
  ASSUME NEW before, NEW s \in ByFiling(Cold(before))
  PROVE  s \in Seq(Ids)
<1>1. Cold(before) \subseteq Ids /\ IsFiniteSet(Cold(before))
  BY StoreAssumption, FS_Subset DEF Cold, Present
<1>2. Cardinality(Cold(before)) \in Nat
  BY <1>1, FS_CardinalityType
<1> QED
  BY <1>1, <1>2 DEF ByFiling

\* The loop of Compact hands every transaction at least one drawer.
LEMMA ChunkNotEmpty ==
  ASSUME PassInv, pass.step = "batch"
  PROVE  ChunkIds \in (SUBSET Ids) \ {{}}
<1>1. Lesser(CompactBatch, Len(pass.todo)) \in 1..Len(pass.todo)
  BY CompactAssumption DEF PassInv, Lesser
<1>2. DOMAIN Chunk = 1..Lesser(CompactBatch, Len(pass.todo))
  BY <1>1 DEF Chunk, PassInv
<1>3. \A k \in DOMAIN Chunk : Chunk[k] \in Ids
  BY <1>1 DEF Chunk, PassInv
<1>4. 1 \in DOMAIN Chunk
  BY <1>1, <1>2
<1> QED
  BY <1>4, <1>3 DEF ChunkIds

\* The invariant of the pass.
THEOREM CompactPass == CompactSpec => []PassInv
<1>1. CompactInit => PassInv
  BY DEF CompactInit, Ended, PassInv, PassFields
<1>2. PassInv /\ [CompactNext]_compactVars => PassInv'
  <2> SUFFICES ASSUME PassInv, [CompactNext]_compactVars PROVE PassInv'
    OBVIOUS
  <2>1. CASE Scan
    <3>1. PICK action \in Actions, alone \in BOOLEAN, max \in MaxBatches,
                  s \in ByFiling(Cold(now - ColdDays)) :
            LET picks == SubSeq(s, 1, Lesser(Cap(max), Len(s)))
            IN  /\ picks # <<>>
                /\ pass' = [step |-> "batch", action |-> action, alone |-> alone,
                            before |-> now - ColdDays, cap |-> Cap(max),
                            picked |-> {picks[k] : k \in DOMAIN picks},
                            todo |-> picks]
      BY <2>1 DEF Scan
    <3>2. s \in Seq(Ids)
      BY ListedIds
    <3>3. Lesser(Cap(max), Len(s)) \in 0..Len(s)
      BY <3>2, CapIsNat DEF Lesser
    <3> QED
      BY <3>1, <3>2, <3>3 DEF PassInv, PassFields
  <2>2. CASE Batch
    <3>1. CompactBatch + 1 \in Nat /\ CompactBatch + 1 >= 1
      BY CompactAssumption
    <3>2. SubSeq(pass.todo, CompactBatch + 1, Len(pass.todo)) \in Seq(Ids)
      BY <3>1 DEF PassInv
    <3>3. ~(Len(pass.todo) <= CompactBatch) =>
             Len(SubSeq(pass.todo, CompactBatch + 1, Len(pass.todo))) > 0
      BY <3>1, CompactAssumption DEF PassInv
    <3> QED
      BY <2>2, <3>2, <3>3 DEF Batch, Advance, Ended, PassInv, PassFields
  <2>3. CASE PassFails
    <3>1. /\ DOMAIN pass' = PassFields
          /\ pass'.step = "failed" /\ pass'.todo = <<>>
      BY <2>3 DEF PassFails, Ended, PassInv, PassFields
    <3> QED
      BY <3>1 DEF PassInv
  <2>4. CASE Others \/ UNCHANGED compactVars
    BY <2>4 DEF Others, compactVars, PassInv
  <2> QED
    BY <2>1, <2>2, <2>3, <2>4 DEF CompactNext
<1> QED
  BY <1>1, <1>2, PTL DEF CompactSpec

\* Whatever a pass does, however its batches interleave with other clients and
\* wherever it fails, is a behaviour of the palace's own calls.
THEOREM CompactRefinesStore == CompactSpec => CompactIsCalls
<1>1. CompactInit => Init
  BY DEF CompactInit
<1>2. PassInv /\ [CompactNext]_compactVars => [Next]_vars
  <2> SUFFICES ASSUME PassInv, [CompactNext]_compactVars PROVE [Next]_vars
    OBVIOUS
  <2> USE CompactAssumption
  <2>1. CASE Scan \/ UNCHANGED compactVars
    BY <2>1 DEF Scan, compactVars
  <2>2. CASE Batch
    <3>1. ChunkIds \in (SUBSET Ids) \ {{}}
      BY <2>2, ChunkNotEmpty DEF Batch
    <3>2. ArchiveDrawers(Compactor, ChunkIds) \/ DeleteBatch(Compactor, ChunkIds)
      BY <2>2 DEF Batch
    <3>3. Call(Compactor)
      BY <3>1, <3>2 DEF Call
    <3> QED
      BY <3>3 DEF Next
  <2>3. CASE PassFails
    BY <2>3 DEF PassFails, Call, Next
  <2>4. CASE Others
    BY <2>4 DEF Others, Next
  <2> QED
    BY <2>1, <2>2, <2>3, <2>4 DEF CompactNext
<1> QED
  BY <1>1, <1>2, CompactPass, PTL DEF CompactSpec, CompactIsCalls, Spec

\* A compacted palace keeps its two tables in agreement.
THEOREM CompactTablesAgree == CompactSpec => []TablesAgree
BY CompactRefinesStore, StoreTablesAgree DEF CompactIsCalls

-----------------------------------------------------------------------------
(* PalaceCompact alone with the palace: what its pass takes.               *)

IdsIn(s) == {s[k] : k \in DOMAIN s}

\* No id twice: the batches of a pass are disjoint.
Distinct(s) == \A a, b \in DOMAIN s : a # b => s[a] # s[b]

\* The pass, and while one runs alone: what it has still to do is there and cold,
\* as it was picked.
TodoInv == pass.step = "batch" /\ pass.alone =>
    /\ Distinct(pass.todo)
    /\ \A i \in IdsIn(pass.todo) : i \in Present /\ IsCold(drawers[i], pass.before)

\* Unless its cap stopped it, what is cold and not in the archive it has put
\* there is what it has still to do.
CoverInv == pass.step = "batch" /\ pass.alone /\ Cardinality(pass.picked) < pass.cap =>
    \A i \in Present : IsCold(drawers[i], pass.before) =>
       \/ i \in IdsIn(pass.todo)
       \/ pass.action = "archive" /\ drawers[i].hall = Archived

ExactInv == PassInv /\ pass \in Pass /\ TodoInv /\ CoverInv

LEMMA EndedPass ==
  ASSUME NEW s \in {"rest", "failed"}, pass' = Ended(s)
  PROVE  ExactInv'
<1>1. /\ pass'.step = s /\ s # "batch" /\ pass'.todo \in Seq(Ids)
      /\ DOMAIN pass' = PassFields
  BY DEF Ended, PassFields
<1>2. pass' \in Pass
  BY <1>1 DEF Ended, Pass, PassFields
<1> QED
  BY <1>1, <1>2 DEF ExactInv, PassInv, TodoInv, CoverInv

\* A scan picks distinct cold drawers, and all of them unless its cap stops it
\* (ColdDrawerIDs with LIMIT).
LEMMA ScanPicks ==
  ASSUME NEW before, NEW s \in ByFiling(Cold(before)),
         NEW cap \in Nat, NEW picks, picks = SubSeq(s, 1, Lesser(cap, Len(s)))
  PROVE  /\ picks \in Seq(Ids) /\ Distinct(picks) /\ IdsIn(picks) \subseteq Cold(before)
         /\ Cardinality(IdsIn(picks)) < cap => IdsIn(picks) = Cold(before)
         /\ \A i \in IdsIn(picks), k \in Cold(before) \ IdsIn(picks) :
              Shown(drawers[i]) <= Shown(drawers[k])
<1> DEFINE C == Cold(before)
           n == Lesser(cap, Len(s))
<1>1. C \subseteq Ids /\ IsFiniteSet(C) /\ Cardinality(C) \in Nat
  <2>1. C \subseteq Ids
    BY DEF Cold, Present
  <2>2. IsFiniteSet(C)
    BY <2>1, StoreAssumption, FS_Subset
  <2> QED
    BY <2>1, <2>2, FS_CardinalityType
<1>2. s \in [1..Cardinality(C) -> C] /\ \A a, b \in 1..Cardinality(C) : a < b => s[a] # s[b]
  BY DEF ByFiling
<1> HIDE DEF C
<1>3. s \in Seq(Ids) /\ s \in Seq(C) /\ Len(s) = Cardinality(C)
  BY <1>1, <1>2
<1>4. n \in 0..Len(s) /\ n <= cap /\ (n = cap \/ n = Len(s))
  BY <1>3 DEF Lesser
<1> HIDE DEF n
<1>5. /\ picks \in Seq(Ids) /\ Len(picks) = n
      /\ \A k \in 1..n : picks[k] = s[k]
  BY <1>3, <1>4 DEF n
<1>6. Distinct(picks)
  <2> SUFFICES ASSUME NEW a \in 1..n, NEW b \in 1..n, a < b PROVE picks[a] # picks[b]
    BY <1>5 DEF Distinct
  <2> QED
    BY <1>2, <1>3, <1>4, <1>5
<1>7. IdsIn(picks) \subseteq C
  BY <1>2, <1>3, <1>4, <1>5 DEF IdsIn
<1>8. ASSUME Cardinality(IdsIn(picks)) < cap PROVE IdsIn(picks) = C
  <2> DEFINE f == [k \in 1..n |-> picks[k]]
  <2>1. f \in Bijection(1..n, IdsIn(picks))
    <3>1. DOMAIN picks = 1..n
      BY <1>5, <1>4
    <3>2. f \in [1..n -> IdsIn(picks)]
      BY <3>1 DEF IdsIn
    <3>3. f \in Injection(1..n, IdsIn(picks))
      BY <1>6, <3>1, <3>2 DEF Injection, IsInjective, Distinct
    <3>4. f \in Surjection(1..n, IdsIn(picks))
      BY <3>1, <3>2 DEF Surjection, IdsIn
    <3> QED
      BY <3>3, <3>4 DEF Bijection
  <2>2. IsFiniteSet(1..n) /\ Cardinality(1..n) = n
    BY <1>4, FS_Interval
  <2>3. Cardinality(IdsIn(picks)) = n
    BY <2>1, <2>2, FS_Bijection DEF ExistsBijection
  <2>4. n = Len(s) /\ picks \in Seq(Ids)
    BY <1>4, <1>5, <1>8, <2>3
  <2>5. s \in Injection(1..n, C)
    BY <1>2, <1>3, <2>4 DEF Injection, IsInjective
  <2>6. s \in Surjection(1..n, C)
    BY <1>1, <1>3, <2>2, <2>4, <2>5, FS_Injection
  <2>7. \A i \in C : \E k \in 1..n : s[k] = i
    BY <2>6 DEF Surjection
  <2>8. ASSUME NEW i \in C PROVE i \in IdsIn(picks)
    <3>1. PICK k \in 1..n : s[k] = i
      BY <2>7
    <3>2. DOMAIN picks = 1..n
      BY <1>5, <1>4
    <3> QED
      BY <1>5, <3>1, <3>2 DEF IdsIn
  <2> QED
    BY <1>7, <2>8
<1>9. ASSUME NEW i \in IdsIn(picks), NEW k \in C \ IdsIn(picks)
      PROVE  Shown(drawers[i]) <= Shown(drawers[k])
  <2>1. s \in Injection(1..Cardinality(C), C)
    BY <1>1, <1>2 DEF Injection, IsInjective
  <2>2. IsFiniteSet(1..Cardinality(C)) /\ Cardinality(1..Cardinality(C)) = Cardinality(C)
    BY <1>1, FS_Interval
  <2>3. s \in Surjection(1..Cardinality(C), C)
    BY <1>1, <2>1, <2>2, FS_Injection
  <2>4. PICK b \in 1..Cardinality(C) : s[b] = k
    BY <2>3 DEF Surjection
  <2>5. DOMAIN picks = 1..n
    BY <1>4, <1>5
  <2>6. PICK a \in 1..n : s[a] = i
    BY <1>5, <1>9, <2>5 DEF IdsIn
  <2>7. b \notin 1..n
    BY <1>5, <1>9, <2>4, <2>5 DEF IdsIn
  <2>8. a \in 1..Cardinality(C) /\ a < b
    BY <1>1, <1>3, <1>4, <2>7
  <2>9. \A x, y \in 1..Cardinality(C) : x < y => Shown(drawers[s[x]]) <= Shown(drawers[s[y]])
    BY DEF ByFiling, C
  <2> QED
    BY <2>4, <2>6, <2>8, <2>9
<1> QED
  BY <1>5, <1>6, <1>7, <1>8, <1>9 DEF C

Taken(t, c) == {t[k] : k \in 1..c}
After(t, c) == SubSeq(t, c + 1, Len(t))

\* Cutting a prefix off a list without repeats cuts off its members.
LEMMA CutOff ==
  ASSUME NEW S, NEW t \in Seq(S), Distinct(t), NEW c \in Nat, c < Len(t)
  PROVE  /\ After(t, c) \in Seq(S) /\ Distinct(After(t, c))
         /\ IdsIn(After(t, c)) = IdsIn(t) \ Taken(t, c)
<1> DEFINE rest == After(t, c)
<1>1. PICK n \in Nat : n = Len(t) /\ DOMAIN t = 1..n
  OBVIOUS
<1>2. /\ rest \in Seq(S) /\ DOMAIN rest = 1..(n - c)
      /\ \A k \in 1..(n - c) : rest[k] = t[k + c]
  BY <1>1 DEF After
<1> HIDE DEF rest
<1>3. \A a, b \in 1..n : a # b => t[a] # t[b]
  BY <1>1 DEF Distinct
<1>4. \A k \in 1..(n - c) : k + c \in 1..n /\ k + c \notin 1..c
  BY <1>1
<1>5. \A k \in 1..n : k \notin 1..c => k - c \in 1..(n - c) /\ (k - c) + c = k
  BY <1>1
<1>6. \A k \in 1..c : k \in 1..n
  BY <1>1
<1>7. Distinct(rest)
  <2> SUFFICES ASSUME NEW a \in 1..(n - c), NEW b \in 1..(n - c), a # b PROVE rest[a] # rest[b]
    BY <1>2 DEF Distinct
  <2>1. a + c \in 1..n /\ b + c \in 1..n /\ a + c # b + c
    BY <1>1
  <2> QED
    BY <2>1, <1>2, <1>3
<1>8. ASSUME NEW k \in 1..(n - c) PROVE t[k + c] \in IdsIn(t) \ {t[l] : l \in 1..c}
  <2>1. k + c \in 1..n /\ \A l \in 1..c : l \in 1..n /\ l # k + c
    BY <1>4, <1>6
  <2>2. \A l \in 1..c : t[l] # t[k + c]
    BY <2>1, <1>3
  <2> QED
    BY <1>1, <2>1, <2>2 DEF IdsIn
<1>9. ASSUME NEW k \in 1..n, t[k] \notin {t[l] : l \in 1..c} PROVE t[k] \in IdsIn(rest)
  <2>1. k \notin 1..c
    BY <1>9
  <2>2. k - c \in 1..(n - c) /\ rest[k - c] = t[k]
    BY <2>1, <1>2, <1>5
  <2> QED
    BY <2>2, <1>2 DEF IdsIn
<1>10. ASSUME NEW i \in IdsIn(rest) PROVE i \in IdsIn(t) \ {t[k] : k \in 1..c}
  <2>1. PICK k \in 1..(n - c) : i = t[k + c]
    BY <1>2, <1>10 DEF IdsIn
  <2> QED
    BY <2>1, <1>8
<1>11. ASSUME NEW i \in IdsIn(t) \ {t[k] : k \in 1..c} PROVE i \in IdsIn(rest)
  <2>1. PICK k \in 1..n : i = t[k]
    BY <1>1, <1>11 DEF IdsIn
  <2> QED
    BY <2>1, <1>9, <1>11
<1> QED
  BY <1>2, <1>7, <1>10, <1>11 DEF rest, Taken

\* A transaction takes a chunk and leaves the rest for the next.
LEMMA ChunkTakes ==
  ASSUME PassInv, pass.step = "batch", Distinct(pass.todo)
  PROVE  /\ ChunkIds \subseteq IdsIn(pass.todo)
         /\ Len(pass.todo) <= CompactBatch => ChunkIds = IdsIn(pass.todo)
         /\ ~(Len(pass.todo) <= CompactBatch) =>
              LET rest == SubSeq(pass.todo, CompactBatch + 1, Len(pass.todo))
              IN  /\ rest \in Seq(Ids) /\ Distinct(rest)
                  /\ IdsIn(rest) = IdsIn(pass.todo) \ ChunkIds
<1> DEFINE n == Lesser(CompactBatch, Len(pass.todo))
<1>1. /\ pass.todo \in Seq(Ids) /\ Len(pass.todo) \in Nat
      /\ DOMAIN pass.todo = 1..Len(pass.todo) /\ CompactBatch \in Nat
  BY CompactAssumption DEF PassInv
<1>2. /\ n \in Nat /\ n <= Len(pass.todo)
      /\ CompactBatch <= Len(pass.todo) => n = CompactBatch
      /\ Len(pass.todo) <= CompactBatch => n = Len(pass.todo)
  BY <1>1 DEF Lesser
<1>3. DOMAIN Chunk = 1..n /\ \A k \in 1..n : Chunk[k] = pass.todo[k]
  BY <1>1, <1>2 DEF Chunk
<1>4. ChunkIds = {pass.todo[k] : k \in 1..n}
  BY <1>3 DEF ChunkIds
<1>5. \A k \in 1..n : k \in DOMAIN pass.todo
  BY <1>1, <1>2
<1>6. ChunkIds \subseteq IdsIn(pass.todo)
  BY <1>4, <1>5 DEF IdsIn
<1>7. ASSUME Len(pass.todo) <= CompactBatch PROVE ChunkIds = IdsIn(pass.todo)
  BY <1>1, <1>2, <1>4, <1>7 DEF IdsIn
<1>8. ASSUME ~(Len(pass.todo) <= CompactBatch),
             NEW rest, rest = SubSeq(pass.todo, CompactBatch + 1, Len(pass.todo))
      PROVE  /\ rest \in Seq(Ids) /\ Distinct(rest)
             /\ IdsIn(rest) = IdsIn(pass.todo) \ ChunkIds
  <2>1. CompactBatch < Len(pass.todo)
    BY <1>1, <1>8
  <2>2. n = CompactBatch
    BY <1>1, <1>2, <2>1
  <2>3. ChunkIds = Taken(pass.todo, CompactBatch) /\ rest = After(pass.todo, CompactBatch)
    BY <1>4, <1>8, <2>2 DEF Taken, After
  <2> QED
    BY <1>1, <2>1, <2>3, CutOff
<1> QED
  BY <1>6, <1>7, <1>8

\* What a batch does to the drawers.
LEMMA BatchEffect ==
  ASSUME TypeOK, Batch
  PROVE  \A i \in Ids :
           /\ i \notin ChunkIds => drawers'[i] = drawers[i]
           /\ i \in Present' => i \in Present
           /\ i \in ChunkIds /\ i \in Present' =>
                pass.action = "archive" /\ drawers'[i].hall = Archived
<1>1. CASE pass.action = "archive"
  <2>1. drawers' = [i \in Ids |-> IF i \in ChunkIds \cap Present
                                  THEN [drawers[i] EXCEPT !.hall = Archived] ELSE drawers[i]]
    BY <1>1 DEF Batch, ArchiveDrawers
  <2>2. \A i \in Present : drawers[i] \in Row
    BY DEF TypeOK, Present
  <2>3. \A r \in Row : [r EXCEPT !.hall = Archived].hall = Archived
    BY DEF Row
  <2> HIDE DEF ChunkIds
  <2> QED
    BY <1>1, <2>1, <2>2, <2>3 DEF Present
<1>2. CASE pass.action # "archive"
  <2>1. drawers' = [i \in Ids |-> IF i \in ChunkIds THEN None ELSE drawers[i]]
    BY <1>2 DEF Batch, DeleteBatch, DropRows
  <2> HIDE DEF ChunkIds
  <2> QED
    BY <2>1 DEF Present
<1> QED
  BY <1>1, <1>2

LEMMA ExactStep ==
  ASSUME TypeOK, ExactInv, PassInv', [CompactNext]_compactVars
  PROVE  ExactInv'
<1> USE DEF ExactInv
<1>1. CASE Scan
  <2>1. PICK action \in Actions, alone \in BOOLEAN, max \in MaxBatches,
                  s \in ByFiling(Cold(now - ColdDays)) :
          LET picks == SubSeq(s, 1, Lesser(Cap(max), Len(s)))
          IN  /\ picks # <<>>
              /\ pass' = [step |-> "batch", action |-> action, alone |-> alone,
                          before |-> now - ColdDays, cap |-> Cap(max),
                          picked |-> {picks[k] : k \in DOMAIN picks},
                          todo |-> picks]
    BY <1>1 DEF Scan
  <2> DEFINE picks == SubSeq(s, 1, Lesser(Cap(max), Len(s)))
             C == Cold(now - ColdDays)
  <2>2. /\ picks \in Seq(Ids) /\ Distinct(picks) /\ IdsIn(picks) \subseteq C
        /\ Cardinality(IdsIn(picks)) < Cap(max) => IdsIn(picks) = C
    BY ScanPicks, CapIsNat
  <2>3. now - ColdDays \in Int /\ action \in {"archive", "delete"}
    BY CompactAssumption, StoreAssumption DEF TypeOK, Times
  <2>4. C = {i \in Present : IsCold(drawers[i], now - ColdDays)} /\ C \subseteq Ids
    BY DEF Cold, Present
  <2>5. pass' = [step |-> "batch", action |-> action, alone |-> alone,
                 before |-> now - ColdDays, cap |-> Cap(max),
                 picked |-> IdsIn(picks), todo |-> picks]
    BY <2>1 DEF IdsIn
  <2>6. Present' = Present /\ drawers' = drawers /\ Cap(max) \in Nat
    BY <1>1, CapIsNat DEF Scan, vars, Present
  <2> HIDE DEF picks, C
  <2>7. pass' \in Pass
    BY <2>2, <2>3, <2>4, <2>5, <2>6 DEF Pass
  <2>8. /\ pass'.todo = picks /\ pass'.before = now - ColdDays /\ pass'.picked = IdsIn(picks)
        /\ pass'.cap = Cap(max)
    BY <2>5
  <2>9. TodoInv'
    BY <2>2, <2>4, <2>6, <2>8 DEF TodoInv, IsCold, Shown, Distinct
  <2>10. CoverInv'
    BY <2>2, <2>4, <2>6, <2>8 DEF CoverInv, IsCold, Shown
  <2> QED
    BY <2>7, <2>9, <2>10
<1>2. CASE Batch
  <2>0. /\ pass.step = "batch" /\ pass' = IF Len(pass.todo) <= CompactBatch THEN Ended("rest")
                ELSE [pass EXCEPT !.todo = After(pass.todo, CompactBatch)]
    BY <1>2 DEF Batch, Advance, After
  <2>1. CASE Len(pass.todo) <= CompactBatch
    BY <2>0, <2>1, EndedPass
  <2>2. CASE ~(Len(pass.todo) <= CompactBatch)
    <3> DEFINE rest == After(pass.todo, CompactBatch)
    <3>1. pass' \in Pass
      <4>1. rest \in Seq(Ids)
        BY CompactAssumption DEF After, PassInv
      <4> HIDE DEF rest
      <4> QED
        BY <2>0, <2>2, <4>1 DEF Pass, rest
    <3>2. /\ pass'.step = "batch" /\ pass'.alone = pass.alone /\ pass'.picked = pass.picked
          /\ pass'.cap = pass.cap
          /\ pass'.before = pass.before /\ pass'.action = pass.action /\ pass'.todo = rest
      BY <2>0, <2>2 DEF Pass
    <3>3. ASSUME pass.alone
          PROVE  /\ Distinct(rest) /\ IdsIn(rest) = IdsIn(pass.todo) \ ChunkIds
                 /\ ChunkIds \subseteq IdsIn(pass.todo)
      BY <2>0, <2>2, <3>3, ChunkTakes DEF TodoInv, After
    <3>4. Present \subseteq Ids
      BY DEF Present
    <3> HIDE DEF rest
    <3>5. TodoInv'
      <4> SUFFICES ASSUME pass.alone PROVE TodoInv'
        BY <3>2 DEF TodoInv
      <4>1. \A i \in IdsIn(rest) : i \in Present /\ IsCold(drawers[i], pass.before)
                                   /\ drawers'[i] = drawers[i]
        BY <1>2, <2>0, <3>3, <3>4, BatchEffect DEF TodoInv
      <4>2. \A i \in IdsIn(rest) : i \in Present' /\ IsCold(drawers'[i], pass.before)
        BY <4>1 DEF Present
      <4> QED
        BY <3>2, <3>3, <4>2 DEF TodoInv, Distinct, IsCold, Shown
    <3>6. CoverInv'
      <4> SUFFICES ASSUME pass.alone, Cardinality(pass.picked) < pass.cap,
                          NEW i \in Present', IsCold(drawers'[i], pass.before)
                   PROVE  \/ i \in IdsIn(rest)
                          \/ pass.action = "archive" /\ drawers'[i].hall = Archived
        BY <3>2, <3>4 DEF CoverInv, IsCold, Shown
      <4>1. i \in Ids /\ i \in Present
        BY <1>2, BatchEffect DEF Present
      <4>2. CASE i \in ChunkIds
        BY <1>2, <4>1, <4>2, BatchEffect
      <4>3. CASE i \notin ChunkIds
        <5>1. drawers'[i] = drawers[i]
          BY <1>2, <4>1, <4>3, BatchEffect
        <5>2. \/ i \in IdsIn(pass.todo)
              \/ pass.action = "archive" /\ drawers[i].hall = Archived
          BY <2>0, <4>1, <5>1 DEF CoverInv
        <5> QED
          BY <3>3, <4>3, <5>1, <5>2
      <4> QED
        BY <4>2, <4>3
    <3> QED
      BY <3>1, <3>5, <3>6
  <2> QED
    BY <2>1, <2>2
<1>3. CASE PassFails
  BY <1>3, EndedPass DEF PassFails
<1>4. CASE Others \/ UNCHANGED compactVars
  <2>1. pass' = pass /\ (pass.alone => drawers' = drawers)
    BY <1>4 DEF Others, Tick, compactVars, vars
  <2>2. drawers' = drawers => Present' = Present
    BY DEF Present
  <2> QED
    BY <2>1, <2>2 DEF TodoInv, CoverInv, IsCold, Shown, IdsIn, Distinct
<1> QED
  BY <1>1, <1>2, <1>3, <1>4 DEF CompactNext

THEOREM CompactExact == CompactSpec => [](TypeOK /\ ExactInv)
<1>1. CompactInit => ExactInv
  <2> SUFFICES ASSUME CompactInit PROVE ExactInv
    OBVIOUS
  <2>1. /\ pass.step = "rest" /\ pass.todo \in Seq(Ids)
        /\ DOMAIN pass = PassFields
    BY DEF CompactInit, Ended, PassFields
  <2>2. pass \in Pass
    BY <2>1 DEF CompactInit, Ended, Pass, PassFields
  <2> QED
    BY <2>1, <2>2 DEF ExactInv, PassInv, TodoInv, CoverInv
<1>2. TypeOK /\ ExactInv /\ PassInv' /\ [CompactNext]_compactVars => ExactInv'
  BY ExactStep
<1>3. Spec => []TypeOK
  BY StoreTypes
<1> QED
  BY <1>1, <1>2, <1>3, CompactPass, CompactRefinesStore, PTL DEF CompactSpec, CompactIsCalls

\* A drawer of a palace has a time it was filed, and the text of it is off by no
\* more than a zone.
LEMMA ShownIsNear ==
  ASSUME TypeOK, NEW i \in Present
  PROVE  /\ drawers[i].filed \in Int /\ drawers[i].used \in Times \cup {Never}
         /\ Shown(drawers[i]) \in Int
         /\ Shown(drawers[i]) <= drawers[i].filed + East
         /\ drawers[i].filed <= Shown(drawers[i]) + West
<1>1. drawers[i] \in Row /\ drawers[i].filed \in Times /\ Times \subseteq Int
  BY StoreAssumption DEF TypeOK, Present, Row, Times
<1>2. East \in Nat /\ West \in Nat /\ Offset \in [Times -> (-West)..East]
  BY CompactAssumption
<1>3. ASSUME NEW o \in (-West)..East, NEW x \in Int
      PROVE  x + o \in Int /\ x + o <= x + East /\ x <= (x + o) + West
  BY <1>2
<1>4. Offset[drawers[i].filed] \in (-West)..East
  BY <1>1, <1>2
<1>5. drawers[i].used \in Times \cup {Never}
  BY <1>1 DEF Row
<1> QED
  BY <1>1, <1>3, <1>4, <1>5 DEF Shown

\* What went unused since before the cutoff is cold by its texts.
LEMMA SurelyColdIsCold ==
  ASSUME TypeOK, NEW i \in Present, NEW before \in Int, SurelyCold(drawers[i], before)
  PROVE  IsCold(drawers[i], before)
<1>1. CASE drawers[i].used = Never
  BY <1>1, ShownIsNear, CompactAssumption DEF SurelyCold, IsCold, Overlay
<1>2. CASE drawers[i].used # Never
  BY <1>2 DEF SurelyCold, IsCold, Overlay
<1> QED
  BY <1>1, <1>2

\* What a pass that runs alone is trusted with, for every batch size, cap and age
\* and every history of the local zone: unless its cap stopped it no drawer that
\* went unused since before the cutoff is left where a search would find it, it
\* touches none used since, none filed a zone's distance later and none that is
\* protected, and of those filed in one zone it takes the oldest.
THEOREM CompactLonePassIsExact == CompactSpec => LonePassIsExact
<1> DEFINE Covered ==
             /\ pass.step = "batch" /\ pass'.step = "rest"
             /\ pass.alone /\ Cardinality(pass.picked) < pass.cap
             => \A i \in Present' : SurelyCold(drawers'[i], pass.before) =>
                  pass.action = "archive" /\ drawers'[i].hall = Archived
           Spared ==
             pass.step = "batch" /\ pass.alone =>
               \A i \in Present :
                 drawers'[i] # drawers[i] =>
                   /\ drawers[i].used # Never => drawers[i].used < pass.before
                   /\ drawers[i].used = Never => drawers[i].filed < pass.before + West
                   /\ drawers[i].hall \notin Protected
           OldestTaken ==
             pass.step # "batch" /\ pass'.step = "batch" =>
               \A i \in pass'.picked, k \in Present \ pass'.picked :
                 /\ SurelyCold(drawers[k], pass'.before)
                 /\ Offset[drawers[i].filed] = Offset[drawers[k].filed]
                 => drawers[i].filed <= drawers[k].filed
<1>0. TypeOK /\ ExactInv => CompactTypeOK
  BY DEF ExactInv, CompactTypeOK
<1>1. ASSUME TypeOK, ExactInv, CompactNext, pass.step = "batch", pass.alone
      PROVE  Batch \/ pass'.step # "rest"
  BY <1>1 DEF CompactNext, Scan, PassFails, Ended, Others
<1>2. ASSUME TypeOK, TypeOK', ExactInv, CompactNext, pass.step = "batch", pass.alone,
             pass'.step = "rest", Cardinality(pass.picked) < pass.cap,
             NEW i \in Present', SurelyCold(drawers'[i], pass.before)
      PROVE  pass.action = "archive" /\ drawers'[i].hall = Archived
  <2>1. Batch
    BY <1>1, <1>2
  <2>2. Len(pass.todo) <= CompactBatch
    <3>1. ~(Len(pass.todo) <= CompactBatch) => pass'.step = pass.step
      BY <2>1, <1>2 DEF Batch, Advance, ExactInv, Pass
    <3> QED
      BY <3>1, <1>2
  <2>3. ChunkIds = IdsIn(pass.todo)
    BY <1>2, <2>2, ChunkTakes DEF ExactInv, TodoInv
  <2>4. i \in Ids /\ i \in Present
    BY <2>1, <1>2, BatchEffect DEF Present
  <2>5. CASE i \in ChunkIds
    BY <1>2, <2>1, <2>4, <2>5, BatchEffect
  <2>6. CASE i \notin ChunkIds
    <3>1. drawers'[i] = drawers[i]
      BY <1>2, <2>1, <2>4, <2>6, BatchEffect
    <3>2. pass.before \in Int
      BY <1>2 DEF ExactInv, Pass
    <3>3. IsCold(drawers[i], pass.before)
      BY <1>2, <2>4, <3>1, <3>2, SurelyColdIsCold
    <3> QED
      BY <1>2, <2>3, <2>4, <2>6, <3>1, <3>3 DEF ExactInv, CoverInv
  <2> QED
    BY <2>5, <2>6
<1>3. ASSUME TypeOK, ExactInv, CompactNext, pass.step = "batch", pass.alone,
             NEW i \in Present, drawers'[i] # drawers[i]
      PROVE  /\ drawers[i].used # Never => drawers[i].used < pass.before
             /\ drawers[i].used = Never => drawers[i].filed < pass.before + West
             /\ drawers[i].hall \notin Protected
  <2>1. Batch
    BY <1>3 DEF CompactNext, Scan, PassFails, DbFails, tables, Others, Tick, vars
  <2>2. i \in ChunkIds
    BY <1>3, <2>1, BatchEffect DEF Present
  <2>3. i \in IdsIn(pass.todo)
    BY <1>3, <2>2, ChunkTakes DEF ExactInv, TodoInv
  <2>4. IsCold(drawers[i], pass.before) /\ pass.before \in Int
    BY <1>3, <2>3 DEF ExactInv, TodoInv, Pass
  <2>5. drawers[i].used = Never => drawers[i].filed < pass.before + West
    BY <1>3, <2>4, ShownIsNear, CompactAssumption DEF IsCold, Overlay
  <2> QED
    BY <2>4, <2>5 DEF IsCold, Overlay
<1>4. ASSUME TypeOK, ExactInv, CompactNext, pass.step # "batch", pass'.step = "batch",
             NEW i \in pass'.picked, NEW k \in Present \ pass'.picked,
             SurelyCold(drawers[k], pass'.before),
             Offset[drawers[i].filed] = Offset[drawers[k].filed]
      PROVE  drawers[i].filed <= drawers[k].filed
  <2>1. Scan
    BY <1>4 DEF CompactNext, Batch, PassFails, Ended, Others
  <2>2. PICK action \in Actions, alone \in BOOLEAN, max \in MaxBatches,
                  s \in ByFiling(Cold(now - ColdDays)) :
          LET picks == SubSeq(s, 1, Lesser(Cap(max), Len(s)))
          IN  /\ picks # <<>>
              /\ pass' = [step |-> "batch", action |-> action, alone |-> alone,
                          before |-> now - ColdDays, cap |-> Cap(max),
                          picked |-> {picks[b] : b \in DOMAIN picks},
                          todo |-> picks]
    BY <2>1 DEF Scan
  <2> DEFINE picks == SubSeq(s, 1, Lesser(Cap(max), Len(s)))
             C == Cold(now - ColdDays)
  <2>3. /\ IdsIn(picks) \subseteq C
        /\ \A a \in IdsIn(picks), b \in C \ IdsIn(picks) : Shown(drawers[a]) <= Shown(drawers[b])
    BY ScanPicks, CapIsNat
  <2>4. pass'.picked = IdsIn(picks) /\ pass'.before = now - ColdDays
    BY <2>2 DEF IdsIn
  <2>5. now - ColdDays \in Int
    BY <1>4, CompactAssumption, StoreAssumption DEF TypeOK, Times
  <2>6. k \in C /\ C \subseteq Present
    BY <1>4, <2>4, <2>5, SurelyColdIsCold DEF Cold
  <2> HIDE DEF picks, C
  <2>7. i \in Present /\ Shown(drawers[i]) <= Shown(drawers[k])
    BY <1>4, <2>3, <2>4, <2>6
  <2>8. /\ drawers[i].filed \in Int /\ drawers[k].filed \in Int
        /\ drawers[i].filed \in Times
    BY <1>4, <2>7, ShownIsNear DEF TypeOK, Present, Row
  <2>9. Offset[drawers[i].filed] \in Int
    BY <2>8, CompactAssumption
  <2> QED
    BY <1>4, <2>7, <2>8, <2>9 DEF Shown
<1>5. TypeOK /\ TypeOK' /\ ExactInv /\ [CompactNext]_compactVars =>
        /\ [Covered]_compactVars /\ [Spared]_compactVars /\ [OldestTaken]_compactVars
  BY <1>2, <1>3, <1>4
<1> QED
  BY <1>0, <1>5, CompactExact, PTL
  DEF CompactSpec, LonePassIsExact, CompactCovers, CompactSparesWarm, CompactTakesOldest

-----------------------------------------------------------------------------
(* PalaceRepair, from any drifted palace.                                  *)

\* Types of the tables and of the pages a job carries; how far a job has
\* counted is left out.
RepairTyped ==
    /\ TypeOK
    /\ DOMAIN job = {"step", "alone", "offset", "ids", "bad", "unread", "page"}
    /\ job.page \in [Ids -> Row \cup {None}]

\* A rebuild, an orphan pass and every client keep the tables typed.
THEOREM RepairTypes == RepairSpec => []RepairTyped
<1>1. DriftedInit => RepairTyped
  <2> SUFFICES ASSUME DriftedInit PROVE RepairTyped
    OBVIOUS
  <2>1. NewDrawers \subseteq Row
    BY StoreAssumption DEF DriftedInit, NewDrawers, Row, AllHalls, Times
  <2>2. drawers \in [Ids -> Row \cup {None}]
    BY <2>1 DEF DriftedInit
  <2>3. vecs \in [Ids -> VecRow \cup {None}]
    BY <2>1, StoredType DEF DriftedInit
  <2>4. /\ now \in Times /\ pending \in [Clients -> SUBSET Ids]
        /\ reply \in Outcomes /\ answer = NoAnswer
        /\ DOMAIN job = {"step", "alone", "offset", "ids", "bad", "unread", "page"}
        /\ job.page \in [Ids -> Row \cup {None}]
    BY StoreAssumption DEF DriftedInit, Times, Outcomes, JobEnded, NoPage
  <2> QED
    BY <2>2, <2>3, <2>4 DEF RepairTyped, TypeOK
<1>2. RepairTyped /\ [RepairNext]_repairVars => RepairTyped'
  <2> SUFFICES ASSUME RepairTyped, [RepairNext]_repairVars PROVE RepairTyped'
    OBVIOUS
  <2> USE DEF RepairTyped
  <2>1. CASE ClientNext
    BY <2>1, StoreStepTyped DEF ClientNext
  <2>2. CASE StartRepair \/ ListPage \/ Probe \/ ScanOrphans \/ JobFails
    <3>1. CASE StartRepair
      BY <3>1 DEF StartRepair, vars, TypeOK
    <3>2. CASE ListPage
      BY <3>2 DEF ListPage, vars, TypeOK
    <3>3. CASE Probe
      BY <3>3 DEF Probe, vars, TypeOK
    <3>4. CASE ScanOrphans
      BY <3>4 DEF ScanOrphans, vars, TypeOK
    <3>5. CASE JobFails
      BY <3>5 DEF JobFails, JobEnded, NoPage, vars, TypeOK
    <3> QED
      BY <2>2, <3>1, <3>2, <3>3, <3>4, <3>5
  <2>3. CASE Prune
    BY <2>3, DropRowsType DEF Prune, TypeOK, tables
  <2>4. CASE ReadPage
    BY <2>4 DEF ReadPage, JobEnded, NoPage, vars, TypeOK
  <2>5. CASE WritePage
    BY <2>5, PutRowsType DEF WritePage, Paged, JobEnded, NoPage, TypeOK
  <2>6. CASE DeleteOrphans
    BY <2>6 DEF DeleteOrphans, JobEnded, NoPage, TypeOK
  <2>7. CASE UNCHANGED repairVars
    BY <2>7 DEF repairVars, vars, TypeOK
  <2> QED
    BY <2>1, <2>2, <2>3, <2>4, <2>5, <2>6, <2>7 DEF RepairNext, JobNext
<1> QED
  BY <1>1, <1>2, PTL DEF RepairSpec

-----------------------------------------------------------------------------
\* Writing a drawer gives it its shadow row, whatever it had before (upsertOne).
LEMMA PutRowsMends ==
  ASSUME TypeOK, NEW b, \A i \in DOMAIN b : b[i] \in Row, PutRows(b)
  PROVE  Orphans' \subseteq Orphans
<1> SUFFICES ASSUME NEW i \in Ids, i \notin Orphans PROVE i \notin Orphans'
  BY DEF Orphans, Present, Indexed
<1>1. CASE i \in DOMAIN b
  <2>1. drawers'[i] # None /\ vecs'[i] # None
    BY <1>1, StoredType, StoreAssumption DEF PutRows
  <2> QED
    BY <2>1 DEF Orphans, Present, Indexed
<1>2. CASE i \notin DOMAIN b
  BY <1>2 DEF PutRows, Orphans, Present, Indexed
<1> QED
  BY <1>1, <1>2

\* Deleting rows from both tables leaves no half of one behind (DeleteBatch).
LEMMA DropRowsMends ==
  ASSUME NEW S, DropRows(S)
  PROVE  Orphans' \subseteq Orphans
BY DEF DropRows, Orphans, Present, Indexed

\* A step that keeps which rows are there makes no orphan.
LEMMA SameRowsMend ==
  ASSUME Present' = Present, Indexed' = Indexed
  PROVE  Orphans' \subseteq Orphans
BY DEF Orphans

\* Touching drawers neither adds nor removes one (TouchLastAccessed).
LEMMA TouchRowsPresent ==
  ASSUME TypeOK, NEW S, TouchRows(S)
  PROVE  Present' = Present
<1>1. \A i \in Present : [drawers[i] EXCEPT !.used = now] # None
  BY StoreAssumption DEF Present, TypeOK, Row
<1> QED
  BY <1>1 DEF TouchRows, Present

\* No call of the palace makes a new orphan.
LEMMA StoreStepMends == TypeOK /\ [Next]_vars => Orphans' \subseteq Orphans
<1> SUFFICES ASSUME TypeOK, [Next]_vars PROVE Orphans' \subseteq Orphans
  OBVIOUS
<1>1. ASSUME NEW c \in Clients, NEW S \in SUBSET Ids, NEW b \in [S -> NewDrawers],
             UpsertBatch(c, b)
      PROVE  Orphans' \subseteq Orphans
  <2>1. NewDrawers \subseteq Row
    BY StoreAssumption DEF NewDrawers, Row, TypeOK, AllHalls
  <2> QED
    BY <1>1, <2>1, PutRowsMends DEF UpsertBatch
<1>2. ASSUME NEW c \in Clients, NEW S, DeleteBatch(c, S) \/ \E i \in Ids : Delete(c, i)
      PROVE  Orphans' \subseteq Orphans
  BY <1>2, DropRowsMends DEF DeleteBatch, Delete
<1>3. ASSUME NEW c \in Clients, NEW S, ArchiveDrawers(c, S)
      PROVE  Orphans' \subseteq Orphans
  <2>1. \A i \in Present : [drawers[i] EXCEPT !.hall = Archived] # None
    BY StoreAssumption DEF Present, TypeOK, Row, AllHalls
  <2>2. Present' = Present /\ Indexed' = Indexed
    BY <1>3, <2>1 DEF ArchiveDrawers, Present, Indexed
  <2> QED
    BY <2>2, SameRowsMend
<1>4. ASSUME NEW c \in Clients, NEW S, TouchLastAccessed(c, S)
      PROVE  Orphans' \subseteq Orphans
  BY <1>4, TouchRowsPresent, SameRowsMend DEF TouchLastAccessed, Indexed
<1>5. ASSUME NEW c \in Clients, NEW w \in Ids, NEW S \in SUBSET Ids,
             NEW m \in MergedMeta, MergeAndDelete(c, w, S, m)
      PROVE  Orphans' \subseteq Orphans
  <2>1. w \in Present => Merge(drawers[w], m) # None
    BY MergeType, StoreAssumption DEF Present, TypeOK
  <2> QED
    BY <1>5, <2>1 DEF MergeAndDelete, Orphans, Present, Indexed, tables
<1>6. ASSUME NEW c \in Clients, QueryTouch(c)
      PROVE  Orphans' \subseteq Orphans
  <2>1. Present' = Present
    BY <1>6, TouchRowsPresent DEF QueryTouch, Present
  <2> QED
    BY <1>6, <2>1, SameRowsMend DEF QueryTouch, Indexed
<1>7. ASSUME UNCHANGED tables PROVE Orphans' \subseteq Orphans
  BY <1>7 DEF tables, Orphans, Present, Indexed
<1> QED
  BY <1>1, <1>2, <1>3, <1>4, <1>5, <1>6, <1>7
  DEF Next, Call, Query, EmbedFails, DbFails, Tick, tables, vars

\* No call of the package and no repair job makes a new orphan, whatever drifted
\* palace it starts from and however the job's steps and the calls interleave:
\* both tables are always written together.
THEOREM RepairDriftNeverGrows == RepairSpec => DriftNeverGrows
<1>1. RepairTyped /\ [RepairNext]_repairVars => [Orphans' \subseteq Orphans]_repairVars
  <2> SUFFICES ASSUME RepairTyped, RepairNext PROVE Orphans' \subseteq Orphans
    OBVIOUS
  <2> USE DEF RepairTyped
  <2>1. CASE ClientNext
    BY <2>1, StoreStepMends DEF ClientNext
  <2>2. CASE UNCHANGED vars
    BY <2>2 DEF vars, Orphans, Present, Indexed
  <2>3. CASE Prune
    BY <2>3, DropRowsMends DEF Prune, tables, Orphans, Present, Indexed
  <2>4. CASE WritePage
    BY <2>4, PutRowsMends DEF WritePage, Paged
  <2>5. CASE DeleteOrphans
    BY <2>5 DEF DeleteOrphans, Orphans, Present, Indexed
  <2> QED
    BY <2>1, <2>2, <2>3, <2>4, <2>5
    DEF RepairNext, JobNext, StartRepair, ListPage, Probe, ReadPage, ScanOrphans, JobFails
<1> QED
  BY <1>1, RepairTypes, PTL DEF RepairSpec, DriftNeverGrows

\* An AutoDelete pass spares every drawer that has its shadow row when its
\* transaction runs, however long ago the scan was (DeleteOrphans runs the scan
\* again inside the transaction).
THEOREM RepairAutoDeleteSparesLive == RepairSpec => AutoDeleteSparesLive
<1> DEFINE Spared == job.step = "orphans" /\ job'.step = "done" =>
                       \A i \in Present \cap Indexed :
                          drawers'[i] = drawers[i] /\ vecs'[i] = vecs[i]
<1>1. RepairTyped /\ [RepairNext]_repairVars => [Spared]_repairVars
  <2> SUFFICES ASSUME RepairTyped, RepairNext, job.step = "orphans", job'.step = "done",
                      NEW i \in Present \cap Indexed
               PROVE  drawers'[i] = drawers[i] /\ vecs'[i] = vecs[i]
    OBVIOUS
  <2>1. DeleteOrphans
    BY DEF RepairTyped, RepairNext, JobNext, StartRepair, ListPage, Probe, Prune, ReadPage,
           WritePage, ScanOrphans, JobFails, ClientNext, JobEnded, Resting
  <2> QED
    BY <2>1 DEF DeleteOrphans, Present, Indexed
<1> QED
  BY <1>1, RepairTypes, PTL DEF RepairSpec, AutoDeleteSparesLive

-----------------------------------------------------------------------------
(* PalaceRepair alone with the palace: how far its pages reach.  The pages *)
(* are cut by position (LIMIT and OFFSET), so what they cover is told by   *)
(* the position of each drawer among those present.                        *)

\* The first k of S in Get's order.
FirstRows(S, k) == {i \in S : Rank(S, i) < k}

\* What a page of the palace's drawers covers.
LEMMA SliceReach ==
  ASSUME NEW k \in Nat, NEW n \in Nat
  PROVE  /\ Slice(k, n) \subseteq Present
         /\ Cardinality(Slice(k, n)) \in 0..n
         /\ Cardinality(Slice(k, n)) < n => Present \subseteq FirstRows(Present, k) \cup Slice(k, n)
         /\ FirstRows(Present, k + Cardinality(Slice(k, n))) \subseteq FirstRows(Present, k) \cup Slice(k, n)
         /\ Slice(k, n) # {} => k + Cardinality(Slice(k, n)) <= Cardinality(Ids)
<1> DEFINE P == Slice(k, n)
<1>1. P = {i \in Present : Rank(Present, i) \in k..(k + n - 1)}
  BY DEF Slice, Rank
<1>2. Present \in SUBSET Nat /\ IsFiniteSet(Present) /\ Cardinality(Present) <= Cardinality(Ids)
  <2>1. Present \subseteq Ids /\ Ids \subseteq Nat /\ IsFiniteSet(Ids)
    BY StoreAssumption, RepairAssumption DEF Present
  <2> QED
    BY <2>1, FS_Subset
<1>3. \A i \in Present : Rank(Present, i) \in Nat
  BY <1>2, RankGoesUp
<1> HIDE DEF P
<1>4. /\ Cardinality(P) \in 0..n
      /\ Cardinality(P) < n => \A i \in Present : Rank(Present, i) < k + n
      /\ P # {} => k + Cardinality(P) <= Cardinality(Present)
  BY <1>1, <1>2, PageReach
<1>5. ASSUME NEW i \in Present, Rank(Present, i) < k + n
      PROVE  i \in FirstRows(Present, k) \cup P
  BY <1>1, <1>3, <1>5 DEF FirstRows
<1>6. P \subseteq Present
  BY <1>1
<1>7. Cardinality(P) < n => Present \subseteq FirstRows(Present, k) \cup P
  BY <1>4, <1>5
<1>8. FirstRows(Present, k + Cardinality(P)) \subseteq FirstRows(Present, k) \cup P
  <2> SUFFICES ASSUME NEW i \in Present, Rank(Present, i) < k + Cardinality(P)
               PROVE  Rank(Present, i) < k + n
    BY <1>5 DEF FirstRows
  <2> QED
    BY <1>3, <1>4
<1>9. P # {} => k + Cardinality(P) <= Cardinality(Ids)
  <2>1. Cardinality(P) \in Nat /\ Cardinality(Present) \in Nat /\ Cardinality(Ids) \in Nat
    BY <1>2, <1>4, StoreAssumption, FS_CardinalityType
  <2> QED
    BY <2>1, <1>2, <1>4
<1> QED
  BY <1>4, <1>6, <1>7, <1>8, <1>9 DEF P

\* A job that has ended knows nothing of the palace.
EndInv == job.step \in Resting => job = JobEnded(job.step)

\* What a lone scan has listed is still there, and what it calls bad it could not
\* read.
ScanInv ==
    /\ job.step \in {"list", "probe"} => job.ids \subseteq Present
    /\ job.step \in {"list", "probe", "prune"} => job.bad \subseteq job.unread

\* A lone rebuild has indexed every drawer its offset has passed.
ReadInv == job.step \in {"read", "write"} => FirstRows(Present, job.offset) \subseteq Indexed

\* The page a lone rebuild holds is the next one, as the drawers are.
WriteInv == job.step = "write" =>
    /\ Paged = Slice(job.offset, RebuildPage)
    /\ \A i \in Paged : job.page[i] = drawers[i]

\* The offset of any rebuild stays within the table.
RoomInv == job.step = "write" =>
    job.offset + Cardinality(Paged) \in 0..Cardinality(Ids)

LoneInv == /\ job \in Job /\ EndInv /\ RoomInv
           /\ job.alone => ScanInv /\ ReadInv /\ WriteInv

LEMMA JobEndedType ==
  ASSUME NEW s \in Resting
  PROVE  /\ JobEnded(s) \in Job /\ JobEnded(s) = JobEnded(JobEnded(s).step)
         /\ JobEnded(s).step = s /\ ~JobEnded(s).alone
<1>1. 0 \in 0..Cardinality(Ids)
  BY StoreAssumption, FS_CardinalityType
<1>2. NoPage \in [Ids -> Row \cup {None}]
  BY DEF NoPage
<1> QED
  BY <1>1, <1>2 DEF JobEnded, Job

\* An ended job leaves nothing to keep.
LEMMA EndedIsSafe ==
  ASSUME NEW s \in Resting, job' = JobEnded(s)
  PROVE  LoneInv'
<1>1. job'.step \in Resting /\ job'.step \notin Working
  BY JobEndedType DEF Resting, Working
<1>2. job' \in Job /\ job' = JobEnded(job'.step) /\ ~job'.alone
  BY JobEndedType
<1> QED
  BY <1>1, <1>2 DEF LoneInv, EndInv, RoomInv, Working

LEMMA ScanKeepsLone ==
  ASSUME TypeOK, LoneInv, StartRepair \/ ListPage \/ Probe \/ ScanOrphans
  PROVE  LoneInv'
<1> USE DEF LoneInv
<1>0. Present' = Present /\ Indexed' = Indexed
  BY DEF StartRepair, ListPage, Probe, ScanOrphans, vars, Present, Indexed
<1>1. CASE StartRepair
  <2>1. PICK a \in BOOLEAN : job' = [job EXCEPT !.step = "list", !.alone = a]
    BY <1>1 DEF StartRepair
  <2>2. job.step \in Resting /\ job.ids = {} /\ job.bad = {}
    <3>1. job.step \in Resting /\ job = JobEnded(job.step)
      BY <1>1 DEF StartRepair, EndInv
    <3>2. \A s : JobEnded(s).ids = {} /\ JobEnded(s).bad = {}
      BY DEF JobEnded
    <3> QED
      BY <3>1, <3>2
  <2>3. job' \in Job /\ job'.step = "list" /\ job'.ids = {} /\ job'.bad = {}
    BY <2>1, <2>2 DEF Job, Working
  <2> QED
    BY <2>3 DEF EndInv, RoomInv, ScanInv, ReadInv, WriteInv, Resting
<1>2. CASE ListPage
  <2> DEFINE found == Slice(job.offset, ScanPage)
  <2>1. job.offset \in Nat /\ ScanPage \in Nat /\ job.offset <= Cardinality(Ids)
        /\ Cardinality(Ids) \in Nat
    BY RepairAssumption, StoreAssumption, FS_CardinalityType DEF Job
  <2>2. /\ found \subseteq Present
        /\ Cardinality(found) \in Nat
        /\ found # {} => job.offset + Cardinality(found) <= Cardinality(Ids)
    <3>1. /\ found \subseteq Present
          /\ Cardinality(found) \in 0..ScanPage
          /\ found # {} => job.offset + Cardinality(found) <= Cardinality(Ids)
      BY <2>1, SliceReach
    <3> QED
      BY <3>1, <2>1
  <2>3. job.offset + Cardinality(found) \in 0..Cardinality(Ids)
    <3>1. CASE found = {}
      BY <3>1, <2>1, FS_EmptySet
    <3>2. CASE found # {}
      BY <3>2, <2>1, <2>2
    <3> QED
      BY <3>1, <3>2
  <2>4. found \subseteq Ids
    BY <2>2 DEF Present
  <2>5. /\ job.step = "list"
        /\ job' = [job EXCEPT !.step = IF Cardinality(found) < ScanPage THEN "probe" ELSE "list",
                              !.ids = @ \cup found, !.offset = @ + Cardinality(found)]
    BY <1>2 DEF ListPage
  <2> HIDE DEF found
  <2>6. /\ job' \in Job /\ job'.step \in {"list", "probe"} /\ job'.alone = job.alone
        /\ job'.ids = job.ids \cup found /\ job'.bad = job.bad /\ job'.unread = job.unread
    BY <2>3, <2>4, <2>5 DEF Job, Working
  <2>7. job'.alone => ScanInv'
    BY <2>5, <2>6, <2>2, <1>0 DEF ScanInv
  <2> QED
    BY <2>6, <2>7 DEF EndInv, RoomInv, ReadInv, WriteInv, Resting
<1>3. CASE Probe
  <2>1. /\ job' \in Job /\ job'.step \in {"probe", "prune"} /\ job'.alone = job.alone
        /\ job'.ids \subseteq job.ids
        /\ \E chunk \in SUBSET job.ids, unread \in SUBSET Ids :
             /\ job'.bad = job.bad \cup (chunk \ Present) \cup unread
             /\ job'.unread = job.unread \cup unread
    <3>1. CASE job.ids = {} /\ job' = [job EXCEPT !.step = "prune"]
      <4>1. job' \in Job /\ job'.step = "prune" /\ job'.alone = job.alone
            /\ job'.ids = job.ids /\ job'.bad = job.bad /\ job'.unread = job.unread
        BY <3>1 DEF Job, Working
      <4> DEFINE E == {}
      <4>2. E \in SUBSET job.ids /\ E \in SUBSET Ids
            /\ job'.bad = job.bad \cup (E \ Present) \cup E /\ job'.unread = job.unread \cup E
        BY <4>1
      <4> QED
        BY <4>1, <4>2
    <3>2. CASE \E chunk \in (SUBSET job.ids) \ {{}}, unread \in SUBSET Ids :
                 /\ unread \subseteq chunk
                 /\ job' = [job EXCEPT !.ids = @ \ chunk, !.unread = @ \cup unread,
                                       !.bad = @ \cup (chunk \ Present) \cup unread]
      <4>1. PICK chunk \in (SUBSET job.ids) \ {{}}, unread \in SUBSET Ids :
                 /\ unread \subseteq chunk
                 /\ job' = [job EXCEPT !.ids = @ \ chunk, !.unread = @ \cup unread,
                                       !.bad = @ \cup (chunk \ Present) \cup unread]
        BY <3>2
      <4>2. chunk \subseteq Ids /\ job.step = "probe"
        BY <1>3 DEF Job, Probe
      <4>3. /\ job.ids \ chunk \in SUBSET Ids
            /\ job.unread \cup unread \in SUBSET Ids
            /\ job.bad \cup (chunk \ Present) \cup unread \in SUBSET Ids
        BY <4>2 DEF Job
      <4>4. /\ job' \in Job /\ job'.step = "probe" /\ job'.alone = job.alone
            /\ job'.ids = job.ids \ chunk
            /\ job'.unread = job.unread \cup unread
            /\ job'.bad = job.bad \cup (chunk \ Present) \cup unread
        BY <4>1, <4>2, <4>3 DEF Job
      <4> QED
        BY <4>4
    <3>3. job.ids \subseteq Ids
      BY DEF Job
    <3> QED
      BY <1>3, <3>1, <3>2, <3>3 DEF Probe
  <2>2. job'.alone => ScanInv'
    BY <1>3, <2>1, <1>0 DEF ScanInv, Probe
  <2> QED
    BY <2>1, <2>2 DEF EndInv, RoomInv, ReadInv, WriteInv, Resting
<1>4. CASE ScanOrphans
  <2>1. /\ job.step \in Resting
        /\ job' = [job EXCEPT !.step = "orphans", !.ids = Present \ Indexed,
                              !.bad = Indexed \ Present]
    BY <1>4 DEF ScanOrphans
  <2>2. Present \ Indexed \subseteq Ids /\ Indexed \ Present \subseteq Ids
    BY DEF Present, Indexed
  <2>3. job' \in Job /\ job'.step = "orphans"
    BY <2>1, <2>2 DEF Job, Working
  <2> QED
    BY <2>3 DEF EndInv, RoomInv, ScanInv, ReadInv, WriteInv, Resting
<1> QED
  BY <1>1, <1>2, <1>3, <1>4

LEMMA PruneKeepsLone ==
  ASSUME TypeOK, LoneInv, Prune
  PROVE  LoneInv'
<1> USE DEF LoneInv
<1>1. CASE job.bad = {} /\ job' = [job EXCEPT !.step = "read", !.offset = 0]
  <2>1. 0 \in 0..Cardinality(Ids)
    BY StoreAssumption, FS_CardinalityType
  <2>2. job' \in Job /\ job'.step = "read" /\ job'.offset = 0 /\ job'.alone = job.alone
    BY <1>1, <2>1 DEF Job, Working
  <2>3. FirstRows(Present', 0) = {}
    <3>1. Present' \in SUBSET Nat /\ IsFiniteSet(Present')
      <4>1. Present' \subseteq Ids
        BY DEF Present
      <4> QED
        BY <4>1, RepairAssumption, StoreAssumption, FS_Subset
    <3>2. \A i \in Present' : Rank(Present', i) \in 0..(Cardinality(Present') - 1)
      BY <3>1, RankGoesUp
    <3>3. Cardinality(Present') \in Nat
      BY <3>1, FS_CardinalityType
    <3>4. \A i \in Present' : ~(Rank(Present', i) < 0)
      BY <3>2, <3>3
    <3> QED
      BY <3>4 DEF FirstRows
  <2>4. ReadInv'
    BY <2>2, <2>3 DEF ReadInv, FirstRows
  <2> QED
    BY <2>2, <2>4 DEF EndInv, RoomInv, ScanInv, WriteInv, Resting
<1>2. CASE \E i \in job.bad : job' = [job EXCEPT !.bad = @ \ {i}]
  <2>1. PICK i \in job.bad : job' = [job EXCEPT !.bad = @ \ {i}]
    BY <1>2
  <2>2. job.step = "prune"
    BY DEF Prune
  <2>3. /\ job' \in Job /\ job'.step = "prune" /\ job'.alone = job.alone
        /\ job'.bad \subseteq job.bad /\ job'.unread = job.unread
    BY <2>1, <2>2 DEF Job
  <2> QED
    BY <2>2, <2>3 DEF EndInv, RoomInv, ScanInv, ReadInv, WriteInv, Resting
<1> QED
  BY <1>1, <1>2 DEF Prune

\* A page as read is next written: it is the next one, and fits the table.
LEMMA ReadKeepsLone ==
  ASSUME TypeOK, LoneInv, ReadPage
  PROVE  LoneInv'
<1> USE DEF LoneInv
<1> DEFINE found == Slice(job.offset, RebuildPage)
           read == [i \in Ids |-> IF i \in found THEN drawers[i] ELSE None]
<1>0. /\ Present' = Present /\ Indexed' = Indexed /\ drawers' = drawers
      /\ job.step = "read"
      /\ job' = IF found = {} THEN JobEnded("done")
                ELSE [job EXCEPT !.step = "write", !.page = read]
  BY DEF ReadPage, vars, Present, Indexed
<1>1. CASE found = {}
  BY <1>0, <1>1, EndedIsSafe DEF Resting
<1>2. CASE found # {}
  <2>1. job.offset \in Nat /\ RebuildPage \in Nat
    BY RepairAssumption, StoreAssumption, FS_CardinalityType DEF Job
  <2>2. /\ found \subseteq Present
        /\ Cardinality(found) \in 0..RebuildPage
        /\ job.offset + Cardinality(found) <= Cardinality(Ids)
    BY <1>2, <2>1, SliceReach
  <2>3. read \in [Ids -> Row \cup {None}]
    BY DEF TypeOK
  <2>4. found' = Slice(job.offset, RebuildPage)'
    OBVIOUS
  <2>5. \A i \in Ids : read[i] # None <=> i \in found
    BY <2>2 DEF Present
  <2>6. \A i \in found : i \in Ids /\ read[i] = drawers[i]
    BY <2>2 DEF Present
  <2>7. Slice(job.offset, RebuildPage)' = Slice(job.offset', RebuildPage)
    BY <1>0 DEF Slice
  <2> HIDE DEF read
  <2>8. /\ job' \in Job /\ job'.step = "write" /\ job'.alone = job.alone
        /\ job'.offset = job.offset /\ job'.page = read
    BY <1>0, <1>2, <2>3 DEF Job, Working
  <2>9. Paged' = found
    BY <2>5, <2>6, <2>8 DEF Paged
  <2>10. Slice(job.offset, RebuildPage)' = found
    BY <1>0, <2>8 DEF Slice
  <2> HIDE DEF found
  <2>11. RoomInv'
    <3>1. Cardinality(found) \in Nat /\ Cardinality(Ids) \in Nat
      BY <2>1, <2>2, StoreAssumption, FS_CardinalityType
    <3> QED
      BY <2>1, <2>2, <2>8, <2>9, <3>1 DEF RoomInv
  <2>12. WriteInv'
    BY <1>0, <2>6, <2>8, <2>9, <2>10 DEF WriteInv
  <2>13. job'.alone => ReadInv'
    BY <1>0, <2>8 DEF ReadInv, FirstRows
  <2> QED
    BY <2>8, <2>11, <2>12, <2>13 DEF EndInv, ScanInv, Resting
<1> QED
  BY <1>1, <1>2

\* Writing back what was read changes no drawer and indexes every one of it.
LEMMA WriteBackKeeps ==
  ASSUME TypeOK, LoneInv, job.step = "write", job.alone, WritePage
  PROVE  /\ Contents' = Contents /\ Present' = Present
         /\ Indexed \cup Paged \subseteq Indexed'
<1>1. \A i \in Paged : i \in Ids /\ job.page[i] = drawers[i] /\ drawers[i] \in Row
  <2>1. \A i \in Paged : i \in Ids /\ job.page[i] = drawers[i] /\ job.page[i] # None
    BY DEF LoneInv, WriteInv, Paged
  <2> QED
    BY <2>1 DEF TypeOK
<1>2. \A i \in Ids : drawers'[i] = (IF i \in Paged THEN Stored(drawers[i]) ELSE drawers[i])
                     /\ (i \in Paged => vecs'[i] = VecOf(drawers[i]))
                     /\ (i \notin Paged => vecs'[i] = vecs[i])
  BY <1>1 DEF WritePage, PutRows
<1>3. \A r \in Row : /\ Stored(r) # None /\ VecOf(r) # None
                     /\ DrawerOf(Stored(r)) = DrawerOf(r)
  <2> SUFFICES ASSUME NEW r \in Row
               PROVE  Stored(r) # None /\ VecOf(r) # None /\ DrawerOf(Stored(r)) = DrawerOf(r)
    OBVIOUS
  <2>1. Stored(r) # None /\ VecOf(r) # None
    BY StoredType, StoreAssumption
  <2>2. DrawerOf(Stored(r)) = DrawerOf(r)
    BY StoredKeeps DEF DrawerOf
  <2> QED
    BY <2>1, <2>2
<1>4. \A r \in Row : r # None
  BY StoreAssumption
<1>5. \A i \in Ids : /\ drawers'[i] = None <=> drawers[i] = None
                     /\ drawers[i] # None => DrawerOf(drawers'[i]) = DrawerOf(drawers[i])
  BY <1>1, <1>2, <1>3, <1>4
<1>6. Contents' = Contents
  BY <1>5 DEF Contents
<1>7. Present' = Present
  BY <1>5 DEF Present
<1>8. Indexed \cup Paged \subseteq Indexed'
  BY <1>1, <1>2, <1>3 DEF Indexed
<1> QED
  BY <1>6, <1>7, <1>8

\* What a lone rebuild has indexed when it has written a page.
LEMMA WriteBackReaches ==
  ASSUME TypeOK, LoneInv, job.step = "write", job.alone, WritePage
  PROVE  /\ Cardinality(Paged) < RebuildPage => Present' \subseteq Indexed'
         /\ FirstRows(Present', job.offset + Cardinality(Paged)) \subseteq Indexed'
<1>1. /\ job.offset \in Nat /\ RebuildPage \in Nat
  BY RepairAssumption, StoreAssumption, FS_CardinalityType DEF LoneInv, Job
<1>2. Paged = Slice(job.offset, RebuildPage) /\ FirstRows(Present, job.offset) \subseteq Indexed
  BY DEF LoneInv, WriteInv, ReadInv
<1>3. /\ Cardinality(Paged) < RebuildPage => Present \subseteq FirstRows(Present, job.offset) \cup Paged
      /\ FirstRows(Present, job.offset + Cardinality(Paged)) \subseteq FirstRows(Present, job.offset) \cup Paged
  BY <1>1, <1>2, SliceReach
<1>4. Present' = Present /\ Indexed \cup Paged \subseteq Indexed'
  BY WriteBackKeeps
<1> QED
  BY <1>2, <1>3, <1>4

LEMMA WriteKeepsLone ==
  ASSUME TypeOK, LoneInv, WritePage
  PROVE  LoneInv'
<1> DEFINE n == Cardinality(Paged)
<1>0. /\ job.step = "write"
      /\ job' = IF n < RebuildPage THEN JobEnded("done")
                ELSE [job EXCEPT !.step = "read", !.offset = @ + n, !.page = NoPage]
  BY DEF WritePage
<1>1. CASE n < RebuildPage
  BY <1>0, <1>1, EndedIsSafe DEF Resting
<1>2. CASE ~(n < RebuildPage)
  <2>1. job.offset + n \in 0..Cardinality(Ids) /\ NoPage \in [Ids -> Row \cup {None}]
    BY <1>0 DEF LoneInv, RoomInv, NoPage
  <2>2. job.alone => FirstRows(Present', job.offset + n) \subseteq Indexed'
    BY <1>0, WriteBackReaches
  <2> HIDE DEF n
  <2>3. /\ job' \in Job /\ job'.step = "read" /\ job'.alone = job.alone
        /\ job'.offset = job.offset + n
    BY <1>0, <1>2, <2>1 DEF LoneInv, Job, Working
  <2>4. job'.alone => ReadInv'
    BY <2>2, <2>3 DEF ReadInv, FirstRows, n
  <2> QED
    BY <2>3, <2>4 DEF LoneInv, EndInv, RoomInv, ScanInv, WriteInv, Resting
<1> QED
  BY <1>1, <1>2

\* A lone job runs with clients kept away; the others only meet the invariant.
LEMMA LoneStep ==
  ASSUME RepairTyped, LoneInv, [RepairNext]_repairVars
  PROVE  LoneInv'
<1>0. TypeOK
  BY DEF RepairTyped
<1>1. CASE ClientNext \/ UNCHANGED repairVars
  <2>1. UNCHANGED job /\ (job.alone => UNCHANGED <<drawers, vecs>>)
    BY <1>1 DEF ClientNext, repairVars, vars
  <2>2. job' \in Job /\ EndInv' /\ RoomInv'
    BY <2>1 DEF LoneInv, EndInv, RoomInv, Paged
  <2>3. ASSUME job.alone PROVE ScanInv' /\ ReadInv' /\ WriteInv'
    <3>1. drawers' = drawers /\ vecs' = vecs /\ job' = job
      BY <2>1, <2>3
    <3>2. Present' = Present /\ Indexed' = Indexed /\ Paged' = Paged
      BY <3>1 DEF Present, Indexed, Paged
    <3>3. ScanInv /\ ReadInv /\ WriteInv
      BY <2>3 DEF LoneInv
    <3> QED
      BY <3>1, <3>2, <3>3 DEF ScanInv, ReadInv, WriteInv, Slice, FirstRows, Rank
  <2> QED
    BY <2>1, <2>2, <2>3 DEF LoneInv
<1>2. CASE JobFails \/ DeleteOrphans
  <2>1. \E s \in Resting : job' = JobEnded(s)
    BY <1>2 DEF JobFails, DeleteOrphans, Resting
  <2> QED
    BY <2>1, EndedIsSafe
<1> QED
  BY <1>0, <1>1, <1>2, ScanKeepsLone, PruneKeepsLone, ReadKeepsLone, WriteKeepsLone
  DEF RepairNext, JobNext

THEOREM RepairLone == RepairSpec => [](RepairTyped /\ LoneInv)
<1>1. DriftedInit => LoneInv
  <2> SUFFICES ASSUME DriftedInit PROVE LoneInv
    OBVIOUS
  <2>1. job = JobEnded("idle") /\ "idle" \in Resting
    BY DEF DriftedInit, Resting
  <2>2. job.step = "idle" /\ "idle" \notin Working
    BY <2>1, JobEndedType DEF Working
  <2>3. job \in Job /\ job = JobEnded(job.step) /\ ~job.alone
    BY <2>1, JobEndedType
  <2> QED
    BY <2>2, <2>3 DEF LoneInv, EndInv, RoomInv
<1>2. RepairTyped /\ LoneInv /\ [RepairNext]_repairVars => LoneInv'
  BY LoneStep
<1> QED
  BY <1>1, <1>2, RepairTypes, PTL DEF RepairSpec

\* What a lone job may be trusted with, for every table, page and batch size and
\* every order in which jobs and clients take turns: it changes no drawer, deletes
\* none it could read, and a rebuild that ends well has indexed every drawer.  The
\* pages it takes by position then really are the whole table, each drawer once.
THEOREM RepairLoneJobsAreSafe == RepairSpec => LoneJobsAreSafe
<1> DEFINE Kept == job.step = "write" /\ job.alone => Contents' = Contents
           Covered == job.alone /\ job.step \in {"read", "write"} /\ job'.step = "done" =>
                        Present' \subseteq Indexed'
           Spared == job.step = "prune" /\ job.alone =>
                       \A i \in Present \ job.unread : drawers'[i] = drawers[i]
<1>1. RepairTyped /\ LoneInv => RepairTypeOK
  BY DEF RepairTyped, LoneInv, RepairTypeOK
<1>2. ASSUME RepairTyped, LoneInv, RepairNext, job.alone, job.step \in Working
      PROVE  \/ UNCHANGED vars /\ job'.step # "done"
             \/ Prune \/ ReadPage \/ WritePage \/ DeleteOrphans
  <2>2. JobEnded("failed").step = "failed"
    BY DEF JobEnded
  <2>3. job.step \notin Resting
    BY <1>2 DEF Working, Resting
  <2>4. ListPage \/ Probe => job'.step # "done"
    <3>1. DOMAIN job = {"step", "alone", "offset", "ids", "bad", "unread", "page"}
      BY <1>2 DEF LoneInv, Job
    <3>2. CASE ListPage
      BY <3>1, <3>2 DEF ListPage
    <3>3. CASE Probe
      BY <3>1, <3>3 DEF Probe
    <3> QED
      BY <3>2, <3>3
  <2> QED
    BY <1>2, <2>2, <2>3, <2>4
    DEF RepairNext, JobNext, ClientNext, StartRepair, ScanOrphans, ListPage, Probe, JobFails
<1>3. ASSUME RepairTyped, LoneInv, RepairNext PROVE Kept
  <2> SUFFICES ASSUME job.step = "write", job.alone PROVE Contents' = Contents
    OBVIOUS
  <2>1. UNCHANGED vars \/ WritePage
    BY <1>2, <1>3 DEF Working, Prune, ReadPage, DeleteOrphans
  <2>2. UNCHANGED vars => Contents' = Contents
    BY DEF vars, Contents
  <2> QED
    BY <1>3, <2>1, <2>2, WriteBackKeeps DEF RepairTyped
<1>4. ASSUME RepairTyped, LoneInv, RepairNext PROVE Covered
  <2> SUFFICES ASSUME job.alone, job.step \in {"read", "write"}, job'.step = "done"
               PROVE  Present' \subseteq Indexed'
    OBVIOUS
  <2>1. ReadPage \/ WritePage
    BY <1>2, <1>4 DEF Working, Prune, DeleteOrphans
  <2>2. CASE ReadPage
    <3>1. job.offset \in Nat /\ RebuildPage \in Nat \ {0} /\ job.step = "read"
      BY <1>4, <2>2, RepairAssumption, StoreAssumption, FS_CardinalityType
      DEF LoneInv, Job, ReadPage
    <3>2. Slice(job.offset, RebuildPage) = {}
      BY <1>4, <2>2 DEF ReadPage, LoneInv, Job
    <3>3. Cardinality(Slice(job.offset, RebuildPage)) < RebuildPage
      BY <3>1, <3>2, FS_EmptySet
    <3>4. Present \subseteq FirstRows(Present, job.offset)
      BY <3>1, <3>2, <3>3, SliceReach
    <3>5. FirstRows(Present, job.offset) \subseteq Indexed
      BY <1>4, <3>1 DEF LoneInv, ReadInv
    <3> QED
      BY <2>2, <3>4, <3>5 DEF ReadPage, vars, Present, Indexed
  <2>3. CASE WritePage
    <3>1. job.step = "write" /\ Cardinality(Paged) < RebuildPage
      BY <1>4, <2>3 DEF WritePage, LoneInv, Job
    <3> QED
      BY <1>4, <2>3, <3>1, WriteBackReaches DEF RepairTyped
  <2> QED
    BY <2>1, <2>2, <2>3
<1>5. ASSUME RepairTyped, LoneInv, RepairNext PROVE Spared
  <2> SUFFICES ASSUME job.step = "prune", job.alone, NEW i \in Present \ job.unread
               PROVE  drawers'[i] = drawers[i]
    OBVIOUS
  <2>1. job.bad \subseteq job.unread
    BY <1>5 DEF LoneInv, ScanInv
  <2>2. UNCHANGED vars \/ Prune
    BY <1>2, <1>5 DEF Working, ReadPage, WritePage, DeleteOrphans
  <2> QED
    BY <2>1, <2>2 DEF vars, Prune, DropRows, tables, Present
<1>6. RepairTyped /\ LoneInv /\ [RepairNext]_repairVars =>
        [Kept]_repairVars /\ [Covered]_repairVars /\ [Spared]_repairVars
  BY <1>3, <1>4, <1>5
<1> QED
  BY <1>1, <1>6, RepairLone, PTL
  DEF RepairSpec, LoneJobsAreSafe, RebuildKeepsContents, RebuildCoversAlone, PruneSparesReadable
=============================================================================
