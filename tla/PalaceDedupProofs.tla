-------------------------- MODULE PalaceDedupProofs --------------------------
(***************************************************************************)
(* PalaceDedup for every value of its constants: a pass is nothing but     *)
(* calls of the palace, so what PalaceStoreProofs proves stays true of a   *)
(* palace that is deduplicated while it is used; and a pass that runs      *)
(* alone removes no drawer that is not short and has no twin that stays.   *)
(***************************************************************************)
EXTENDS PalaceDedup, PalaceStoreProofs, FiniteSetTheorems, WellFoundedInduction

\* No drawer was used in the future.
UsedPast == \A i \in Present : drawers[i].used \in 0..now \cup {Never}

\* What a pass knows of its group are ids, rows and metadata that the palace
\* has held.
GroupInv ==
    /\ DOMAIN dedup = {"step", "mode", "alone", "listed", "groups", "key", "items",
                       "winner", "kept", "dups", "short", "meta"}
    /\ \A g \in dedup.groups : g.key \in Keys
    /\ dedup.step = "judge" => dedup.key \in Keys
    /\ dedup.winner \in Ids \cup {None}
    /\ dedup.kept \in SUBSET Ids
    /\ dedup.dups \in SUBSET Ids
    /\ dedup.short \in SUBSET Ids
    /\ DOMAIN dedup.items \in SUBSET Ids
    /\ \A i \in DOMAIN dedup.items : /\ dedup.items[i] \in Row
                                     /\ dedup.items[i].used \in 0..now \cup {Never}
    /\ dedup.meta \in MergedMeta

DedupInv == TypeOK /\ UsedPast /\ GroupInv

\* Every set of numbers that is not empty has a least one.
LEMMA LeastNumber ==
  ASSUME NEW S \in SUBSET Nat, S # {}
  PROVE  \E n \in S : \A m \in S : n <= m
<1>1. PICK n \in S : \A m \in S : ~(<<m, n>> \in OpToRel(<, Nat))
  BY WFMin, NatLessThanWellFounded, Zenon
<1>2. \A m \in S : ~(m < n)
  BY <1>1, Zenon DEF OpToRel
<1>3. n \in Nat /\ \A m \in S : m \in Nat
  OBVIOUS
<1>4. \A m \in S : n <= m
  BY <1>2, <1>3
<1> QED
  BY <1>4

\* The sort of dedupSourceGroup has a first item, as long as there is one.
LEMMA FirstIsItem ==
  ASSUME NEW items, DOMAIN items \in SUBSET Ids, DOMAIN items # {},
         \A i \in DOMAIN items : items[i] \in Row
  PROVE  /\ First(items) \in DOMAIN items
         /\ \A j \in DOMAIN items \ {First(items)} : Precedes(items, First(items), j)
<1> DEFINE Before(i) == {j \in DOMAIN items : Precedes(items, j, i)}
           Counts == {Cardinality(Before(i)) : i \in DOMAIN items}
<1>1. \A i \in DOMAIN items : Size[items[i].doc] \in Nat /\ IdText[i] \in Nat
  BY DedupAssumption DEF Row
<1>2. \A i : IsFiniteSet(Before(i)) /\ Cardinality(Before(i)) \in Nat
  <2>1. IsFiniteSet(DOMAIN items)
    BY StoreAssumption, FS_Subset
  <2> QED
    BY <2>1, FS_Subset, FS_CardinalityType
<1>3. PICK i \in DOMAIN items :
        \A j \in DOMAIN items : Cardinality(Before(i)) <= Cardinality(Before(j))
  <2>1. Counts \in SUBSET Nat /\ Counts # {}
    BY <1>2
  <2>2. PICK n \in Counts : \A m \in Counts : n <= m
    BY <2>1, LeastNumber
  <2> QED
    BY <2>2
<1>4. Before(i) = {}
  <2> SUFFICES ASSUME NEW j \in Before(i) PROVE FALSE
    OBVIOUS
  <2>1. Before(j) \subseteq Before(i) /\ j \notin Before(j)
    BY <1>1 DEF Precedes
  <2>2. Cardinality(Before(j)) < Cardinality(Before(i))
    BY <1>2, <2>1, FS_Subset
  <2>3. Cardinality(Before(i)) <= Cardinality(Before(j))
    BY <1>3
  <2>4. Cardinality(Before(i)) \in Nat /\ Cardinality(Before(j)) \in Nat
    BY <1>2
  <2> HIDE DEF Before
  <2> QED
    BY <2>2, <2>3, <2>4
<1>5. \A j \in DOMAIN items \ {i} : Precedes(items, i, j)
  <2> SUFFICES ASSUME NEW j \in DOMAIN items, j # i PROVE Precedes(items, i, j)
    OBVIOUS
  <2>1. ~Precedes(items, j, i)
    BY <1>4
  <2>2. IdText[i] # IdText[j]
    BY DedupAssumption
  <2> QED
    BY <1>1, <2>1, <2>2 DEF Precedes
<1> QED
  BY <1>5 DEF First

-----------------------------------------------------------------------------
\* The clock of the store never runs back.
LEMMA ClockRuns == TypeOK /\ [Next]_vars => now \in Nat /\ now' \in Nat /\ now <= now'
<1> SUFFICES ASSUME TypeOK, [Next]_vars PROVE now \in Nat /\ now' \in Nat /\ now <= now'
  OBVIOUS
<1>1. now \in Nat
  BY StoreAssumption DEF TypeOK, Times
<1>2. now' = now \/ now' = now + 1
  BY DEF Next, Call, UpsertBatch, Delete, DeleteBatch, ArchiveDrawers, TouchLastAccessed,
         MergeAndDelete, EmbedFails, DbFails, Query, QueryTouch, Tick, Return, vars
<1> QED
  BY <1>1, <1>2

\* Drawers are touched with the time of the clock, and merges carry on times
\* read from it (TouchLastAccessed, MergeAndDelete).
LEMMA StoreStepUsedPast == TypeOK /\ UsedPast /\ [Next]_vars => UsedPast'
<1> SUFFICES ASSUME TypeOK, UsedPast, [Next]_vars, NEW i \in Present'
             PROVE  drawers'[i].used \in 0..now' \cup {Never}
  BY DEF UsedPast
<1> DEFINE Past(u) == u \in 0..now \cup {Never}
<1>1. now \in Nat /\ now' \in Nat /\ now <= now'
  BY ClockRuns
<1>2. i \in Ids /\ drawers'[i] # None
  BY DEF Present
<1>3. i \in Present => Past(drawers[i].used) /\ drawers[i] \in Row
  BY DEF UsedPast, Present, TypeOK
<1>4. SUFFICES Past(drawers'[i].used)
  BY <1>1
<1>5. ASSUME drawers' = drawers PROVE Past(drawers'[i].used)
  BY <1>5, <1>2, <1>3 DEF Present
<1>6. ASSUME NEW c \in Clients, NEW S \in SUBSET Ids, NEW b \in [S -> NewDrawers],
             UpsertBatch(c, b)
      PROVE  Past(drawers'[i].used)
  <2>1. CASE i \in S
    <3>1. drawers'[i] = Stored(b[i]) /\ b[i].used = Never /\ b[i] \in NewDrawers
      BY <1>2, <1>6, <2>1 DEF UpsertBatch, PutRows, NewDrawers
    <3> QED
      BY <3>1 DEF Stored, NewDrawers
  <2>2. CASE i \notin S
    BY <1>2, <1>3, <1>6, <2>2 DEF UpsertBatch, PutRows, Present
  <2> QED
    BY <2>1, <2>2
<1>7. ASSUME NEW c \in Clients, NEW S, DeleteBatch(c, S) \/ \E j \in Ids : Delete(c, j)
      PROVE  Past(drawers'[i].used)
  BY <1>2, <1>3, <1>7 DEF DeleteBatch, Delete, DropRows, Present
<1>8. ASSUME NEW c \in Clients, NEW S, ArchiveDrawers(c, S)
      PROVE  Past(drawers'[i].used)
  <2>1. i \in Present
    BY <1>2, <1>8 DEF ArchiveDrawers, Present
  <2>2. drawers'[i] = drawers[i] \/ drawers'[i] = [drawers[i] EXCEPT !.hall = Archived]
    BY <1>2, <1>8 DEF ArchiveDrawers
  <2> QED
    BY <1>3, <2>1, <2>2 DEF Row
<1>9. ASSUME NEW S, TouchRows(S)
      PROVE  Past(drawers'[i].used)
  <2>1. i \in Present
    BY <1>2, <1>9 DEF TouchRows, Present
  <2>2. drawers'[i] = drawers[i] \/ drawers'[i] = [drawers[i] EXCEPT !.used = now]
    BY <1>2, <1>9 DEF TouchRows
  <2> QED
    BY <1>1, <1>3, <2>1, <2>2 DEF Row
<1>10. ASSUME NEW c \in Clients, NEW w \in Ids, NEW S \in SUBSET Ids, NEW m \in MergedMeta,
              MergeAndDelete(c, w, S, m)
       PROVE  Past(drawers'[i].used)
  <2>1. i \in Present
    BY <1>2, <1>10 DEF MergeAndDelete, Present, tables
  <2>2. drawers'[i] = drawers[i] \/ drawers'[i] = Merge(drawers[i], m)
    BY <1>2, <1>10 DEF MergeAndDelete, tables
  <2>3. Merge(drawers[i], m).used = Overlay(drawers[i].used, m.used, Never)
    BY <1>3, <2>1 DEF Merge, Row
  <2>4. Past(m.used)
    BY DEF MergedMeta
  <2> QED
    BY <1>3, <2>1, <2>2, <2>3, <2>4 DEF Overlay
<1> HIDE DEF Past
<1> QED
  BY <1>5, <1>6, <1>7, <1>8, <1>9, <1>10
  DEF Next, Call, TouchLastAccessed, Query, QueryTouch, EmbedFails, DbFails, Tick, tables, vars

-----------------------------------------------------------------------------
\* Of a set of items only some are left (the loop of dedupSourceGroup).
LEMMA OnlySome ==
  ASSUME NEW items, NEW S
  PROVE  /\ DOMAIN Only(items, S) = DOMAIN items \cap S
         /\ \A i \in DOMAIN Only(items, S) : Only(items, S)[i] = items[i]
BY DEF Only

\* The steps a pass takes by itself, no call of the palace among them but reads,
\* keep what it knows true.
LEMMA QuietStep ==
  ASSUME DedupInv, UNCHANGED <<drawers, now>>,
         \/ StartDedup \/ ListPage \/ PassFails \/ PickGroup \/ Judged \/ Written \/ DedupDone
  PROVE  GroupInv'
<1> USE DEF DedupInv, GroupInv
<1>1. NoMeta \in MergedMeta /\ MergedMeta' = MergedMeta
  BY StoreAssumption DEF NoMeta, MergedMeta
<1>2. CASE \E step \in {"rest", "failed"} : dedup' = Ended(step)
  BY <1>1, <1>2 DEF Ended
<1>3. CASE StartDedup \/ Judged
  BY <1>1, <1>3 DEF StartDedup, Judged
<1>4. CASE Written
  BY <1>1, <1>4 DEF Written, GroupEnds
<1>5. CASE ListPage
  <2> DEFINE list == dedup.listed \o
                [n \in DOMAIN Listing(Len(dedup.listed), GroupPage) |->
                   <<GroupKey(drawers[Listing(Len(dedup.listed), GroupPage)[n]]),
                     Listing(Len(dedup.listed), GroupPage)[n]>>]
  <2>1. \/ dedup' = [dedup EXCEPT !.listed = list]
        \/ dedup' = [dedup EXCEPT
                       !.step = "pick", !.listed = <<>>,
                       !.groups = {[key |-> k, ids |-> Members(list, k)] :
                                     k \in {key \in Keys : Count(list, key) >= MinCount}}]
    BY <1>5 DEF ListPage
  <2> HIDE DEF list
  <2>2. CASE dedup' = [dedup EXCEPT !.listed = list]
    BY <1>1, <2>2
  <2>3. CASE dedup' = [dedup EXCEPT
                         !.step = "pick", !.listed = <<>>,
                         !.groups = {[key |-> k, ids |-> Members(list, k)] :
                                       k \in {key \in Keys : Count(list, key) >= MinCount}}]
    <3>1. \A h \in dedup'.groups : h.key \in Keys
      BY <2>3
    <3> QED
      BY <1>1, <2>3, <3>1
  <2> QED
    BY <2>1, <2>2, <2>3
<1>6. CASE PickGroup
  <2>1. PICK g \in dedup.groups :
          LET rows == [i \in g.ids \cap Present |-> drawers[i]]
              short == {i \in DOMAIN rows : Size[rows[i].doc] < ShortSize}
              long == Only(rows, Ids \ short)
              rest == [dedup EXCEPT !.groups = @ \ {g}]
          IN  dedup' \in
                {rest,
                 IF DOMAIN long = {}
                 THEN [rest EXCEPT !.step = "write", !.key = g.key, !.short = short]
                 ELSE [rest EXCEPT !.step = "judge", !.key = g.key, !.short = short,
                                   !.winner = First(long), !.kept = {First(long)},
                                   !.items = Only(long, Ids \ {First(long)})]}
    BY <1>6 DEF PickGroup
  <2> DEFINE rows == [i \in g.ids \cap Present |-> drawers[i]]
             short == {i \in DOMAIN rows : Size[rows[i].doc] < ShortSize}
             long == Only(rows, Ids \ short)
             items == Only(long, Ids \ {First(long)})
             rest == [dedup EXCEPT !.groups = @ \ {g}]
  <2>2. short \in SUBSET Ids
    BY DEF Present
  <2>3. /\ DOMAIN long \in SUBSET Ids
        /\ \A i \in DOMAIN long : long[i] \in Row /\ long[i].used \in 0..now \cup {Never}
    BY DEF Only, Present, TypeOK, UsedPast
  <2>4. DOMAIN long # {} => First(long) \in Ids
    BY <2>3, FirstIsItem
  <2>5. /\ DOMAIN items \in SUBSET Ids
        /\ \A i \in DOMAIN items : items[i] \in Row /\ items[i].used \in 0..now \cup {Never}
    <3> HIDE DEF long
    <3> QED
      BY <2>3 DEF Only
  <2>6. \/ dedup' = rest
        \/ dedup' = [rest EXCEPT !.step = "write", !.key = g.key, !.short = short]
        \/ /\ DOMAIN long # {}
           /\ dedup' = [rest EXCEPT !.step = "judge", !.key = g.key, !.short = short,
                                    !.winner = First(long), !.kept = {First(long)},
                                    !.items = items]
    BY <2>1
  <2>7. \A h \in rest.groups : h.key \in Keys
    OBVIOUS
  <2>8. g.key \in Keys
    OBVIOUS
  <2> HIDE DEF short, long, items
  <2>9. CASE dedup' = rest
    BY <1>1, <2>7, <2>9
  <2>10. CASE dedup' = [rest EXCEPT !.step = "write", !.key = g.key, !.short = short]
    BY <1>1, <2>2, <2>7, <2>10
  <2>11. CASE /\ DOMAIN long # {}
              /\ dedup' = [rest EXCEPT !.step = "judge", !.key = g.key, !.short = short,
                                       !.winner = First(long), !.kept = {First(long)},
                                       !.items = items]
    BY <1>1, <2>2, <2>4, <2>5, <2>7, <2>8, <2>11
  <2> QED
    BY <2>6, <2>9, <2>10, <2>11
<1> QED
  BY <1>2, <1>3, <1>4, <1>5, <1>6 DEF PassFails, DedupDone

\* The search for a duplicate is one a caller may ask for.
LEMMA JudgeAsks ==
  ASSUME DedupInv, dedup.step = "judge"
  PROVE  JudgeOptions \in Options
<1>1. Cardinality(dedup.kept) \in Nat
  BY StoreAssumption, FS_Subset, FS_CardinalityType DEF DedupInv, GroupInv
<1>2. Lesser(Cardinality(dedup.kept) + JudgeSlack, JudgeMax) \in 1..MaxResults
  BY <1>1, DedupAssumption, StoreAssumption DEF Lesser
<1>3. dedup.key[1] \in Wings /\ dedup.key[2] \in AllHalls
  BY DEF DedupInv, GroupInv, Keys
<1> QED
  BY <1>2, <1>3 DEF JudgeOptions, Options

\* What a pass does to the palace, a call does.
LEMMA DedupStepIsCall == DedupInv /\ [DedupNext]_dedupVars => [Next]_vars
<1> SUFFICES ASSUME DedupInv, [DedupNext]_dedupVars PROVE [Next]_vars
  OBVIOUS
<1> USE DedupAssumption
<1>1. CASE \/ StartDedup \/ ListPage \/ PassFails \/ PickGroup \/ Judged \/ Written
           \/ DedupDone \/ UNCHANGED dedupVars
  BY <1>1 DEF StartDedup, ListPage, PassFails, PickGroup, Judged, Written, DedupDone, dedupVars
<1>2. CASE Judge
  <2>1. JudgeOptions \in Options
    BY <1>2, JudgeAsks DEF Judge
  <2>2. Query(Deduper, JudgeOptions) \/ EmbedFails(Deduper) \/ DbFails(Deduper)
    BY <1>2 DEF Judge
  <2> QED
    BY <2>1, <2>2 DEF Call, Next
<1>3. CASE JudgeTouch
  BY <1>3 DEF JudgeTouch, Call, Next
<1>4. CASE MergeGroup
  <2>1. Losers \in SUBSET Ids /\ dedup.winner \in Ids /\ dedup.meta \in MergedMeta
    BY <1>4 DEF MergeGroup, Merging, Losers, DedupInv, GroupInv
  <2>2. MergeAndDelete(Deduper, dedup.winner, Losers, dedup.meta) \/ DbFails(Deduper)
    BY <1>4 DEF MergeGroup
  <2> HIDE DEF Losers
  <2> QED
    BY <2>1, <2>2 DEF Call, Next
<1>5. CASE DeleteLoser
  <2>1. PICK i \in Ids : Delete(Deduper, i) \/ DbFails(Deduper)
    BY <1>5 DEF DeleteLoser, DedupInv, GroupInv
  <2> QED
    BY <2>1 DEF Call, Next
<1>6. CASE Others
  BY <1>6 DEF Others, Next
<1> QED
  BY <1>1, <1>2, <1>3, <1>4, <1>5, <1>6 DEF DedupNext

\* The steps of a pass that are calls keep what it knows true, and so do the
\* calls of others.
LEMMA CallStep ==
  ASSUME DedupInv, [Next]_vars,
         \/ Judge \/ JudgeTouch \/ MergeGroup \/ DeleteLoser \/ Others
         \/ UNCHANGED dedupVars
  PROVE  GroupInv'
<1> USE DEF DedupInv, GroupInv
<1>1. now \in Nat /\ now' \in Nat /\ now <= now'
  BY ClockRuns
<1>2. MergedMeta \subseteq MergedMeta' /\ NoMeta \in MergedMeta'
  BY <1>1, StoreAssumption DEF MergedMeta, NoMeta
<1>3. \A i \in DOMAIN dedup.items : /\ dedup.items[i] \in Row
                                    /\ dedup.items[i].used \in 0..now' \cup {Never}
  BY <1>1
<1>4. CASE JudgeTouch \/ Others \/ UNCHANGED dedupVars
  BY <1>2, <1>3, <1>4 DEF JudgeTouch, Others, dedupVars
<1>5. CASE MergeGroup
  BY <1>2, <1>3, <1>5 DEF MergeGroup, GroupEnds
<1>6. CASE DeleteLoser
  <2>1. \E i : dedup' = [dedup EXCEPT !.dups = @ \ {i}, !.short = @ \ {i}]
    BY <1>6, Zenon DEF DeleteLoser
  <2>2. PICK i : dedup' = [dedup EXCEPT !.dups = @ \ {i}, !.short = @ \ {i}]
    BY <2>1
  <2>3. dedup.dups \ {i} \in SUBSET Ids /\ dedup.short \ {i} \in SUBSET Ids
    OBVIOUS
  <2> QED
    BY <1>2, <1>3, <2>2, <2>3
<1>7. CASE Judge
  <2> DEFINE i == First(dedup.items)
             r == dedup.items[i]
             left == Only(dedup.items, Ids \ {i})
             meta == Gather(dedup.meta, r)
  <2>1. i \in DOMAIN dedup.items
    BY <1>7, FirstIsItem DEF Judge
  <2>2. /\ DOMAIN left \in SUBSET Ids
        /\ \A j \in DOMAIN left : /\ left[j] \in Row
                                  /\ left[j].used \in 0..now' \cup {Never}
    BY <1>3 DEF Only
  <2>3. meta \in MergedMeta'
    BY <1>1, <2>1 DEF Gather, MergedMeta, Overlay, Row
  <2>4. \/ dedup' = [[dedup EXCEPT !.items = left] EXCEPT !.kept = @ \cup {i}]
        \/ dedup' = [[dedup EXCEPT !.items = left] EXCEPT !.dups = @ \cup {i}, !.meta = meta]
    BY <1>7 DEF Judge
  <2>5. i \in Ids
    BY <2>1
  <2> HIDE DEF i, r, left, meta
  <2>6. CASE dedup' = [[dedup EXCEPT !.items = left] EXCEPT !.kept = @ \cup {i}]
    BY <1>2, <2>2, <2>5, <2>6
  <2>7. CASE dedup' = [[dedup EXCEPT !.items = left] EXCEPT !.dups = @ \cup {i}, !.meta = meta]
    BY <1>2, <2>2, <2>3, <2>5, <2>7
  <2> QED
    BY <2>4, <2>6, <2>7
<1> QED
  BY <1>4, <1>5, <1>6, <1>7

\* The invariant of a palace that is deduplicated while it is used.
THEOREM DedupTypes == DedupSpec => []DedupInv
<1>1. DedupInit => DedupInv
  <2> SUFFICES ASSUME DedupInit PROVE DedupInv
    OBVIOUS
  <2>1. TypeOK /\ UsedPast
    BY StoreAssumption DEF DedupInit, Init, TypeOK, Times, Outcomes, UsedPast, Present
  <2>2. GroupInv
    BY StoreAssumption DEF DedupInit, Init, Ended, NoMeta, MergedMeta, GroupInv
  <2> QED
    BY <2>1, <2>2 DEF DedupInv
<1>2. DedupInv /\ [DedupNext]_dedupVars => DedupInv'
  <2> SUFFICES ASSUME DedupInv, [DedupNext]_dedupVars PROVE DedupInv'
    OBVIOUS
  <2>1. [Next]_vars
    BY DedupStepIsCall
  <2>2. TypeOK' /\ UsedPast'
    BY <2>1, StoreStepTyped, StoreStepUsedPast DEF DedupInv
  <2>3. CASE StartDedup \/ ListPage \/ PassFails \/ PickGroup \/ Judged \/ Written \/ DedupDone
    <3>1. UNCHANGED <<drawers, now>>
      BY <2>3 DEF StartDedup, ListPage, PassFails, PickGroup, Judged, Written, DedupDone, vars
    <3> QED
      BY <2>2, <2>3, <3>1, QuietStep DEF DedupInv
  <2>4. CASE Judge \/ JudgeTouch \/ MergeGroup \/ DeleteLoser \/ Others \/ UNCHANGED dedupVars
    BY <2>1, <2>2, <2>4, CallStep DEF DedupInv
  <2> QED
    BY <2>3, <2>4 DEF DedupNext
<1> QED
  BY <1>1, <1>2, PTL DEF DedupSpec

\* Whatever a pass does, however its judgements and removals interleave with
\* other clients and wherever it fails, is a behaviour of the palace's own calls.
THEOREM DedupRefinesStore == DedupSpec => DedupIsCalls
<1>1. DedupInit => Init
  BY DEF DedupInit
<1> QED
  BY <1>1, DedupStepIsCall, DedupTypes, PTL DEF DedupSpec, DedupIsCalls, Spec

\* A palace that is deduplicated keeps its two tables in agreement.
THEOREM DedupTablesAgree == DedupSpec => []TablesAgree
BY DedupRefinesStore, StoreTablesAgree DEF DedupIsCalls

\* No merge of a pass empties a partition, though drawers were grouped before
\* by names that two partitions may share.
THEOREM DedupMergeKeepsPartitions == DedupSpec => MergeKeepsPartitions
BY DedupRefinesStore, StoreMergeKeepsPartitions DEF DedupIsCalls

-----------------------------------------------------------------------------
(* Types.                                                                  *)

PassTyped == dedup \in Pass

\* A page lists drawers that are there (Get with LIMIT n OFFSET k).
LEMMA ListingIsPresent ==
  ASSUME NEW k \in Nat, NEW n \in Nat
  PROVE  Listing(k, n) \in Seq(Present)
<1> DEFINE found == {i \in Present : Rank(Present, i) \in k..(k + n - 1)}
<1>1. Present \in SUBSET Nat /\ IsFiniteSet(Present)
  BY StoreAssumption, DedupAssumption, FS_Subset DEF Present
<1>2. Cardinality(found) \in Nat
  BY <1>1, FS_Subset, FS_CardinalityType
<1>3. Listing(k, n) = [m \in 1..Cardinality(found) |->
                         CHOOSE i \in found : Rank(Present, i) = k + m - 1]
  BY DEF Listing, Rank
<1>4. \A m \in 1..Cardinality(found) : \E i \in found : Rank(Present, i) = k + m - 1
  BY <1>1, PageRows
<1>5. \A m \in 1..Cardinality(found) :
        (CHOOSE i \in found : Rank(Present, i) = k + m - 1) \in Present
  <2> SUFFICES ASSUME NEW m \in 1..Cardinality(found)
               PROVE  (CHOOSE i \in found : Rank(Present, i) = k + m - 1) \in Present
    OBVIOUS
  <2>1. \E i \in found : Rank(Present, i) = k + m - 1
    BY <1>4
  <2>2. (CHOOSE i \in found : Rank(Present, i) = k + m - 1) \in found
    BY <2>1
  <2> QED
    BY <2>2
<1> HIDE DEF found
<1> QED
  BY <1>2, <1>3, <1>5

\* What the pages held, with one more page.
Listed ==
  LET found == Listing(Len(dedup.listed), GroupPage)
  IN  dedup.listed \o [n \in DOMAIN found |-> <<GroupKey(drawers[found[n]]), found[n]>>]

LEMMA ListedRows ==
  ASSUME TypeOK, dedup.listed \in Seq(Keys \X Ids)
  PROVE  /\ Listed \in Seq(Keys \X Ids)
         /\ \A n \in DOMAIN Listed :
              \/ n \in DOMAIN dedup.listed /\ Listed[n] = dedup.listed[n]
              \/ \E i \in Present : Listed[n] = <<GroupKey(drawers[i]), i>>
<1>1. PICK found \in Seq(Present) : found = Listing(Len(dedup.listed), GroupPage)
  <2>1. Len(dedup.listed) \in Nat /\ GroupPage \in Nat
    BY DedupAssumption
  <2>2. Listing(Len(dedup.listed), GroupPage) \in Seq(Present)
    BY <2>1, ListingIsPresent
  <2> QED
    BY <2>2
<1> DEFINE row(i) == <<GroupKey(drawers[i]), i>>
           page == [n \in DOMAIN found |-> row(found[n])]
<1>2. \A i \in Present : row(i) \in Keys \X Ids
  <2> SUFFICES ASSUME NEW i \in Present PROVE row(i) \in Keys \X Ids
    OBVIOUS
  <2>1. i \in Ids /\ drawers[i] \in Row
    BY DEF Present, TypeOK
  <2>2. GroupKey(drawers[i]) \in Keys
    BY <2>1, DedupAssumption DEF GroupKey, Keys, Row
  <2> QED
    BY <2>1, <2>2
<1> HIDE DEF row
<1>3. page \in Seq(Keys \X Ids) /\ DOMAIN page = DOMAIN found
      /\ \A n \in DOMAIN page : page[n] = row(found[n]) /\ found[n] \in Present
  BY <1>2
<1>4. Listed = dedup.listed \o page
  BY <1>1 DEF Listed, row
<1> HIDE DEF page
<1>5. Listed \in Seq(Keys \X Ids)
  BY <1>3, <1>4
<1>6. ASSUME NEW n \in DOMAIN Listed
      PROVE  \/ n \in DOMAIN dedup.listed /\ Listed[n] = dedup.listed[n]
             \/ \E i \in Present : Listed[n] = row(i)
  <2>1. CASE n \in 1..Len(dedup.listed)
    BY <1>3, <1>4, <2>1
  <2>2. CASE n \notin 1..Len(dedup.listed)
    <3>1. n - Len(dedup.listed) \in DOMAIN page /\ Listed[n] = page[n - Len(dedup.listed)]
      BY <1>3, <1>4, <1>6, <2>2
    <3> QED
      BY <1>3, <3>1
  <2> QED
    BY <2>1, <2>2
<1> QED
  BY <1>5, <1>6 DEF row

\* Some of the items of a group are items too.
LEMMA ItemsType ==
  ASSUME NEW S \in SUBSET Ids, NEW f, DOMAIN f = S, f = [i \in S |-> f[i]],
         \A i \in S : f[i] \in Row
  PROVE  f \in UNION {[T -> Row] : T \in SUBSET Ids}
<1>1. f \in [S -> Row]
  OBVIOUS
<1> QED
  BY <1>1

LEMMA EndedType ==
  \A step \in {"rest", "failed"} : Ended(step) \in Pass
<1>1. <<>> \in Seq(Keys \X Ids)
  OBVIOUS
<1>2. <<>> \in UNION {[T -> Row] : T \in SUBSET Ids}
  <2>1. {} \in SUBSET Ids /\ <<>> \in [{} -> Row]
    OBVIOUS
  <2> QED
    BY <2>1
<1>3. NoMeta \in Metas
  BY StoreAssumption DEF NoMeta, Metas
<1> QED
  BY <1>1, <1>2, <1>3 DEF Ended, Pass

\* The drawers of a group that are there, and what becomes of them.
ShortOf(g) == {i \in g.ids \cap Present : Size[drawers[i].doc] < ShortSize}

LongOf(g) == Only([i \in g.ids \cap Present |-> drawers[i]], Ids \ ShortOf(g))

LEMMA LongRows ==
  ASSUME TypeOK, NEW g
  PROVE  /\ ShortOf(g) \subseteq Ids
         /\ DOMAIN LongOf(g) \subseteq Ids
         /\ DOMAIN LongOf(g) = (g.ids \cap Present) \ ShortOf(g)
         /\ \A i \in DOMAIN LongOf(g) : LongOf(g)[i] = drawers[i] /\ LongOf(g)[i] \in Row
BY DEF ShortOf, LongOf, Only, Present, TypeOK

\* The ways a group is picked up (dedupSourceGroup).
LEMMA PickShape ==
  ASSUME PickGroup
  PROVE  \E g \in dedup.groups :
           \/ dedup' = [dedup EXCEPT !.groups = @ \ {g}]
           \/ /\ DOMAIN LongOf(g) = {}
              /\ dedup' = [dedup EXCEPT !.groups = @ \ {g}, !.step = "write", !.key = g.key,
                                        !.short = ShortOf(g)]
           \/ /\ DOMAIN LongOf(g) # {}
              /\ dedup' = [dedup EXCEPT !.groups = @ \ {g}, !.step = "judge", !.key = g.key,
                                        !.short = ShortOf(g), !.winner = First(LongOf(g)),
                                        !.kept = {First(LongOf(g))},
                                        !.items = Only(LongOf(g), Ids \ {First(LongOf(g))})]
<1> DEFINE rows(g) == [i \in g.ids \cap Present |-> drawers[i]]
           short(g) == {i \in DOMAIN rows(g) : Size[rows(g)[i].doc] < ShortSize}
           long(g) == Only(rows(g), Ids \ short(g))
           rest(g) == [dedup EXCEPT !.groups = @ \ {g}]
<1>1. PICK g \in dedup.groups :
        dedup' \in
          {rest(g),
           IF DOMAIN long(g) = {}
           THEN [rest(g) EXCEPT !.step = "write", !.key = g.key, !.short = short(g)]
           ELSE [rest(g) EXCEPT !.step = "judge", !.key = g.key, !.short = short(g),
                                !.winner = First(long(g)), !.kept = {First(long(g))},
                                !.items = Only(long(g), Ids \ {First(long(g))})]}
  BY DEF PickGroup
<1>2. short(g) = ShortOf(g)
  BY DEF ShortOf
<1>3. long(g) = LongOf(g)
  BY <1>2 DEF LongOf
<1> HIDE DEF short, long
<1> QED
  BY <1>1, <1>2, <1>3

\* A step of a pass by itself keeps it well typed.
LEMMA QuietTyped ==
  ASSUME DedupInv, PassTyped,
         \/ StartDedup \/ ListPage \/ PassFails \/ PickGroup \/ Judged \/ Written \/ DedupDone
  PROVE  PassTyped'
<1> USE DEF PassTyped
<1>1. NoMeta \in Metas
  BY StoreAssumption DEF NoMeta, Metas
<1>2. CASE \E step \in {"rest", "failed"} : dedup' = Ended(step)
  BY <1>2, EndedType
<1>3. CASE StartDedup \/ Judged
  <2>1. CASE Judged
    BY <2>1 DEF Judged, Pass
  <2>2. CASE StartDedup
    <3>1. PICK mode \in {"delete", "merge", "dry"}, alone \in BOOLEAN :
            dedup' = [dedup EXCEPT !.step = "list", !.mode = mode, !.alone = alone]
      BY <2>2 DEF StartDedup
    <3> QED
      BY <3>1 DEF Pass
  <2> QED
    BY <1>3, <2>1, <2>2
<1>4. CASE Written
  BY <1>1, <1>4 DEF Written, GroupEnds, Pass
<1>5. CASE ListPage
  <2> DEFINE groups == {[key |-> k, ids |-> Members(Listed, k)] :
                          k \in {key \in Keys : Count(Listed, key) >= MinCount}}
  <2>1. \/ dedup' = [dedup EXCEPT !.listed = Listed]
        \/ dedup' = [dedup EXCEPT !.step = "pick", !.listed = <<>>, !.groups = groups]
    BY <1>5 DEF ListPage, Listed
  <2>2. groups \subseteq [key : Keys, ids : SUBSET Ids]
    BY DEF Members
  <2>3. Listed \in Seq(Keys \X Ids) /\ <<>> \in Seq(Keys \X Ids)
    BY ListedRows DEF DedupInv, Pass
  <2> HIDE DEF groups
  <2> QED
    BY <2>1, <2>2, <2>3 DEF Pass
<1>6. CASE PickGroup
  <2>1. PICK g \in dedup.groups :
           \/ dedup' = [dedup EXCEPT !.groups = @ \ {g}]
           \/ /\ DOMAIN LongOf(g) = {}
              /\ dedup' = [dedup EXCEPT !.groups = @ \ {g}, !.step = "write", !.key = g.key,
                                        !.short = ShortOf(g)]
           \/ /\ DOMAIN LongOf(g) # {}
              /\ dedup' = [dedup EXCEPT !.groups = @ \ {g}, !.step = "judge", !.key = g.key,
                                        !.short = ShortOf(g), !.winner = First(LongOf(g)),
                                        !.kept = {First(LongOf(g))},
                                        !.items = Only(LongOf(g), Ids \ {First(LongOf(g))})]
    BY <1>6, PickShape
  <2>2. /\ dedup.groups \ {g} \subseteq [key : Keys, ids : SUBSET Ids]
        /\ g.key \in Keys /\ ShortOf(g) \in SUBSET Ids
    BY LongRows DEF Pass, DedupInv
  <2>3. DOMAIN LongOf(g) # {} => First(LongOf(g)) \in Ids
    BY LongRows, FirstIsItem DEF DedupInv
  <2>4. Only(LongOf(g), Ids \ {First(LongOf(g))}) \in UNION {[T -> Row] : T \in SUBSET Ids}
    <3> DEFINE S == DOMAIN LongOf(g) \cap (Ids \ {First(LongOf(g))})
               f == Only(LongOf(g), Ids \ {First(LongOf(g))})
    <3>1. S \in SUBSET Ids /\ DOMAIN f = S /\ f = [i \in S |-> f[i]]
          /\ \A i \in S : f[i] \in Row
      BY LongRows DEF Only, DedupInv
    <3> QED
      BY <3>1, ItemsType
  <2>5. CASE dedup' = [dedup EXCEPT !.groups = @ \ {g}]
    BY <2>2, <2>5 DEF Pass
  <2>6. CASE dedup' = [dedup EXCEPT !.groups = @ \ {g}, !.step = "write", !.key = g.key,
                                    !.short = ShortOf(g)]
    BY <2>2, <2>6 DEF Pass
  <2>7. CASE /\ DOMAIN LongOf(g) # {}
             /\ dedup' = [dedup EXCEPT !.groups = @ \ {g}, !.step = "judge", !.key = g.key,
                                       !.short = ShortOf(g), !.winner = First(LongOf(g)),
                                       !.kept = {First(LongOf(g))},
                                       !.items = Only(LongOf(g), Ids \ {First(LongOf(g))})]
    BY <2>2, <2>3, <2>4, <2>7 DEF Pass
  <2> QED
    BY <2>1, <2>5, <2>6, <2>7
<1> QED
  BY <1>2, <1>3, <1>4, <1>5, <1>6 DEF PassFails, DedupDone

\* What becomes of the item that is judged.
LEMMA JudgeShape ==
  ASSUME DedupInv, Judge
  PROVE  \E i \in DOMAIN dedup.items :
           /\ \A j \in DOMAIN dedup.items \ {i} : Precedes(dedup.items, i, j)
           /\ \/ dedup' = [dedup EXCEPT !.items = Only(dedup.items, Ids \ {i}),
                                        !.kept = @ \cup {i}]
              \/ /\ IsDup(Norm[dedup.items[i].doc], answer'.ids)
                 /\ dedup' = [dedup EXCEPT !.items = Only(dedup.items, Ids \ {i}),
                                           !.dups = @ \cup {i},
                                           !.meta = Gather(@, dedup.items[i])]
<1> DEFINE i == First(dedup.items)
<1>1. i \in DOMAIN dedup.items /\ \A j \in DOMAIN dedup.items \ {i} : Precedes(dedup.items, i, j)
  BY FirstIsItem DEF Judge, DedupInv, GroupInv
<1>2. \/ dedup' = [[dedup EXCEPT !.items = Only(dedup.items, Ids \ {i})]
                      EXCEPT !.kept = @ \cup {i}]
      \/ /\ IsDup(Norm[dedup.items[i].doc], answer'.ids)
         /\ dedup' = [[dedup EXCEPT !.items = Only(dedup.items, Ids \ {i})]
                         EXCEPT !.dups = @ \cup {i}, !.meta = Gather(@, dedup.items[i])]
  BY DEF Judge
<1> HIDE DEF i
<1> QED
  BY <1>1, <1>2

\* A call of a pass, or of another client, keeps the pass well typed.
LEMMA CallTyped ==
  ASSUME DedupInv, PassTyped,
         \/ Judge \/ JudgeTouch \/ MergeGroup \/ DeleteLoser \/ Others
         \/ UNCHANGED dedupVars
  PROVE  PassTyped'
<1> USE DEF PassTyped
<1>1. NoMeta \in Metas
  BY StoreAssumption DEF NoMeta, Metas
<1>2. CASE JudgeTouch \/ Others \/ UNCHANGED dedupVars
  BY <1>2 DEF JudgeTouch, Others, dedupVars
<1>3. CASE MergeGroup
  BY <1>1, <1>3 DEF MergeGroup, GroupEnds, Pass
<1>4. CASE DeleteLoser
  <2>1. \E i : dedup' = [dedup EXCEPT !.dups = @ \ {i}, !.short = @ \ {i}]
    BY <1>4, Zenon DEF DeleteLoser
  <2>2. PICK i : dedup' = [dedup EXCEPT !.dups = @ \ {i}, !.short = @ \ {i}]
    BY <2>1
  <2>3. dedup.dups \ {i} \in SUBSET Ids /\ dedup.short \ {i} \in SUBSET Ids
    BY DEF Pass
  <2> QED
    BY <2>2, <2>3 DEF Pass
<1>5. CASE Judge
  <2>1. PICK i \in DOMAIN dedup.items :
          \/ dedup' = [dedup EXCEPT !.items = Only(dedup.items, Ids \ {i}), !.kept = @ \cup {i}]
          \/ dedup' = [dedup EXCEPT !.items = Only(dedup.items, Ids \ {i}), !.dups = @ \cup {i},
                                    !.meta = Gather(@, dedup.items[i])]
    BY <1>5, JudgeShape
  <2>2. i \in Ids /\ dedup.items[i] \in Row
    BY DEF DedupInv, GroupInv
  <2>3. Only(dedup.items, Ids \ {i}) \in UNION {[T -> Row] : T \in SUBSET Ids}
    <3> DEFINE S == DOMAIN dedup.items \cap (Ids \ {i})
               f == Only(dedup.items, Ids \ {i})
    <3>1. S \in SUBSET Ids /\ DOMAIN f = S /\ f = [j \in S |-> f[j]]
          /\ \A j \in S : f[j] \in Row
      BY DEF Only, DedupInv, GroupInv
    <3> QED
      BY <3>1, ItemsType
  <2>4. Gather(dedup.meta, dedup.items[i]) \in Metas
    BY <2>2 DEF Gather, Overlay, Metas, Row, Pass
  <2>5. dedup.kept \cup {i} \in SUBSET Ids /\ dedup.dups \cup {i} \in SUBSET Ids
    BY <2>2 DEF Pass
  <2>6. CASE dedup' = [dedup EXCEPT !.items = Only(dedup.items, Ids \ {i}), !.kept = @ \cup {i}]
    BY <2>3, <2>5, <2>6 DEF Pass
  <2>7. CASE dedup' = [dedup EXCEPT !.items = Only(dedup.items, Ids \ {i}), !.dups = @ \cup {i},
                                    !.meta = Gather(@, dedup.items[i])]
    BY <2>3, <2>4, <2>5, <2>7 DEF Pass
  <2> QED
    BY <2>1, <2>6, <2>7
<1> QED
  BY <1>2, <1>3, <1>4, <1>5

\* A pass only ever holds ids, rows and times of the palace.
THEOREM DedupTyped == DedupSpec => []DedupTypeOK
<1>1. DedupInit => PassTyped
  BY EndedType DEF DedupInit, PassTyped
<1>2. DedupInv /\ PassTyped /\ [DedupNext]_dedupVars => PassTyped'
  BY QuietTyped, CallTyped DEF DedupNext
<1>3. DedupInv /\ PassTyped => DedupTypeOK
  BY DEF DedupInv, PassTyped, DedupTypeOK
<1> QED
  BY <1>1, <1>2, <1>3, DedupTypes, PTL DEF DedupSpec

-----------------------------------------------------------------------------
(* A pass that runs alone.                                                 *)

\* Between groups a pass has nothing in hand.
RestInv ==
    /\ dedup.step \in {"rest", "failed"} => dedup = Ended(dedup.step)
    /\ dedup.step = "list" => dedup.groups = {}
    /\ dedup.step \in {"list", "pick"} =>
         /\ dedup.winner = None /\ DOMAIN dedup.items = {}
         /\ dedup.kept = {} /\ dedup.dups = {} /\ dedup.short = {}
    /\ dedup.step = "write" => DOMAIN dedup.items = {}

\* A drawer is of the group it was listed in, as long as it is there.
OfGroup(key, S) == \A i \in S \cap Present : GroupKey(drawers[i]) = key

ListInv ==
    /\ \A n \in DOMAIN dedup.listed : OfGroup(dedup.listed[n][1], {dedup.listed[n][2]})
    /\ \A g \in dedup.groups : OfGroup(g.key, g.ids)

\* What pushes drawer i out: j is as long, and near.
Twins(i, j) ==
    /\ Size[drawers[j].doc] >= Size[drawers[i].doc]
    /\ <<Norm[drawers[i].doc], Norm[drawers[j].doc]>> \in Near

\* The drawers in hand are judged as they still are.
HandInv ==
    /\ OfGroup(dedup.key, DOMAIN dedup.items \cup dedup.kept \cup dedup.dups)
    /\ DOMAIN dedup.items \cup dedup.kept \cup dedup.dups \subseteq Present
    /\ DOMAIN dedup.items \cap (dedup.kept \cup dedup.dups \cup dedup.short) = {}
    /\ dedup.kept \cap (dedup.dups \cup dedup.short) = {}
    /\ IF dedup.winner = None THEN DOMAIN dedup.items \cup dedup.dups = {}
                              ELSE dedup.winner \in dedup.kept
    /\ \A i \in DOMAIN dedup.items :
         /\ dedup.items[i].doc = drawers[i].doc /\ dedup.items[i].label = drawers[i].label
         /\ \A j \in dedup.kept : Size[drawers[j].doc] >= Size[drawers[i].doc]
    /\ \A i \in dedup.dups :
         /\ \E j \in dedup.kept : Twins(i, j)
         /\ drawers[i].label # "none" => dedup.meta.label # "none"
    /\ \A i \in dedup.short \cap Present : Size[drawers[i].doc] < ShortSize

LoneInv == RestInv /\ (dedup.alone => ListInv /\ HandInv)

LEMMA RestStep ==
  ASSUME DedupInv, PassTyped, RestInv, [DedupNext]_dedupVars
  PROVE  RestInv'
<1> USE DEF PassTyped
<1>1. CASE \E step \in {"rest", "failed"} : dedup' = Ended(step)
  BY <1>1 DEF Ended, RestInv
<1>2. CASE StartDedup
  <2>1. PICK step \in {"rest", "failed"} : dedup = Ended(step)
    BY <1>2 DEF StartDedup, RestInv
  <2>2. PICK mode \in {"delete", "merge", "dry"}, alone \in BOOLEAN :
          dedup' = [dedup EXCEPT !.step = "list", !.mode = mode, !.alone = alone]
    BY <1>2 DEF StartDedup
  <2> QED
    BY <2>1, <2>2 DEF Ended, RestInv
<1>3. CASE ListPage
  <2>1. \/ dedup' = [dedup EXCEPT !.listed = Listed]
        \/ \E groups : dedup' = [dedup EXCEPT !.step = "pick", !.listed = <<>>, !.groups = groups]
    BY <1>3 DEF ListPage, Listed
  <2>2. dedup.step = "list"
    BY <1>3 DEF ListPage
  <2> QED
    BY <2>1, <2>2 DEF RestInv, Pass
<1>4. CASE PickGroup
  <2>1. PICK g \in dedup.groups :
           \/ dedup' = [dedup EXCEPT !.groups = @ \ {g}]
           \/ dedup' = [dedup EXCEPT !.groups = @ \ {g}, !.step = "write", !.key = g.key,
                                     !.short = ShortOf(g)]
           \/ dedup' = [dedup EXCEPT !.groups = @ \ {g}, !.step = "judge", !.key = g.key,
                                     !.short = ShortOf(g), !.winner = First(LongOf(g)),
                                     !.kept = {First(LongOf(g))},
                                     !.items = Only(LongOf(g), Ids \ {First(LongOf(g))})]
    BY <1>4, PickShape
  <2>2. dedup.step = "pick"
    BY <1>4 DEF PickGroup
  <2> QED
    BY <2>1, <2>2 DEF RestInv, Pass
<1>5. CASE Judge
  <2>1. PICK items, kept, dups, meta :
           dedup' = [dedup EXCEPT !.items = items, !.kept = kept]
        \/ dedup' = [dedup EXCEPT !.items = items, !.dups = dups, !.meta = meta]
    BY <1>5, JudgeShape
  <2>2. dedup.step = "judge"
    BY <1>5 DEF Judge
  <2> QED
    BY <2>1, <2>2 DEF RestInv, Pass
<1>6. CASE Judged
  BY <1>6 DEF Judged, RestInv, Pass
<1>7. CASE MergeGroup \/ Written
  BY <1>7 DEF MergeGroup, Written, GroupEnds, RestInv, Pass
<1>8. CASE DeleteLoser
  <2>1. \E i : dedup' = [dedup EXCEPT !.dups = @ \ {i}, !.short = @ \ {i}]
    BY <1>8, Zenon DEF DeleteLoser
  <2>2. PICK i : dedup' = [dedup EXCEPT !.dups = @ \ {i}, !.short = @ \ {i}]
    BY <2>1
  <2>3. dedup.step = "write"
    BY <1>8 DEF DeleteLoser
  <2> QED
    BY <2>2, <2>3 DEF RestInv, Pass
<1>9. CASE JudgeTouch \/ Others \/ UNCHANGED dedupVars
  BY <1>9 DEF JudgeTouch, Others, dedupVars, RestInv
<1> QED
  BY <1>1, <1>2, <1>3, <1>4, <1>5, <1>6, <1>7, <1>8, <1>9 DEF DedupNext, PassFails, DedupDone

\* No drawer turns up, and those that stay stay where they were filed.
Settled == \A i \in Present' : i \in Present /\ GroupKey(drawers'[i]) = GroupKey(drawers[i])

LEMMA OfGroupStays ==
  ASSUME Settled, NEW key, NEW S, OfGroup(key, S)
  PROVE  OfGroup(key, S)'
BY DEF Settled, OfGroup, Present

\* Nothing a judgement looks at changes.
Still ==
    /\ Present' = Present
    /\ \A i \in Present : /\ drawers'[i].doc = drawers[i].doc
                          /\ drawers'[i].label = drawers[i].label
                          /\ GroupKey(drawers'[i]) = GroupKey(drawers[i])

LEMMA UnchangedIsStill ==
  ASSUME UNCHANGED drawers
  PROVE  Still
BY DEF Still, Present

LEMMA TouchIsStill ==
  ASSUME TypeOK, NEW S, TouchRows(S)
  PROVE  Still
<1>1. \A i \in Ids : i \in Present =>
        /\ drawers[i] \in Row
        /\ drawers'[i] = drawers[i] \/ drawers'[i] = [drawers[i] EXCEPT !.used = now]
  BY DEF TouchRows, Present, TypeOK
<1>2. \A i \in Ids : i \notin Present => drawers'[i] = None
  BY DEF TouchRows, Present
<1>3. \A i \in Present : /\ drawers'[i].doc = drawers[i].doc
                         /\ drawers'[i].label = drawers[i].label
                         /\ GroupKey(drawers'[i]) = GroupKey(drawers[i])
                         /\ drawers'[i] \in Row
  <2> SUFFICES ASSUME NEW i \in Present
               PROVE /\ drawers'[i].doc = drawers[i].doc
                     /\ drawers'[i].label = drawers[i].label
                     /\ GroupKey(drawers'[i]) = GroupKey(drawers[i])
                     /\ drawers'[i] \in Row
    OBVIOUS
  <2>1. now \in Times
    BY DEF TypeOK
  <2>2. i \in Ids
    BY DEF Present
  <2> QED
    BY <1>1, <2>1, <2>2 DEF Row, GroupKey
<1>4. Present' = Present
  BY <1>2, <1>3, StoreAssumption DEF Present
<1> QED
  BY <1>3, <1>4 DEF Still

LEMMA HandStays ==
  ASSUME Still, ListInv, HandInv, dedup' = dedup
  PROVE  ListInv' /\ HandInv'
<1>1. Settled
  BY DEF Still, Settled
<1>2. ListInv'
  BY <1>1, OfGroupStays DEF ListInv
<1>3. OfGroup(dedup.key, DOMAIN dedup.items \cup dedup.kept \cup dedup.dups)'
  BY <1>1, OfGroupStays DEF HandInv
<1>4. \A i, j \in Present : Twins(i, j)' <=> Twins(i, j)
  BY DEF Still, Twins
<1>5. \A i \in dedup.dups' : \E j \in dedup.kept' : Twins(i, j)'
  <2> SUFFICES ASSUME NEW i \in dedup.dups PROVE \E j \in dedup.kept : Twins(i, j)'
    OBVIOUS
  <2>1. PICK j \in dedup.kept : Twins(i, j)
    BY DEF HandInv
  <2>2. i \in Present /\ j \in Present
    BY DEF HandInv
  <2> QED
    BY <1>4, <2>1, <2>2
<1> QED
  BY <1>2, <1>3, <1>5 DEF HandInv, Still

\* A pass between groups has nothing to answer for.
LEMMA BareHand ==
  ASSUME dedup'.winner = None, DOMAIN dedup'.items = {}, dedup'.kept = {}, dedup'.dups = {},
         dedup'.short = {}
  PROVE  HandInv'
<1>1. DOMAIN dedup'.items \cup dedup'.kept \cup dedup'.dups = {}
  OBVIOUS
<1> QED
  BY <1>1 DEF HandInv, OfGroup

\* A page lists drawers under the groups they are of.
LEMMA ListLone ==
  ASSUME TypeOK, PassTyped, RestInv, ListInv, ListPage
  PROVE  ListInv' /\ HandInv'
<1>1. UNCHANGED drawers /\ Settled
  BY DEF ListPage, vars, Settled, Present
<1>2. /\ dedup.step = "list" /\ dedup.groups = {} /\ dedup.winner = None
      /\ DOMAIN dedup.items = {} /\ dedup.kept = {} /\ dedup.dups = {} /\ dedup.short = {}
  BY DEF RestInv, ListPage
<1> DEFINE groups == {[key |-> k, ids |-> Members(Listed, k)] :
                        k \in {key \in Keys : Count(Listed, key) >= MinCount}}
<1>3. \/ dedup' = [dedup EXCEPT !.listed = Listed]
      \/ dedup' = [dedup EXCEPT !.step = "pick", !.listed = <<>>, !.groups = groups]
  BY DEF ListPage, Listed
<1>4. HandInv'
  <2> HIDE DEF groups
  <2> QED
    BY <1>2, <1>3, BareHand DEF PassTyped, Pass
<1>5. \A n \in DOMAIN Listed : OfGroup(Listed[n][1], {Listed[n][2]})
  <2> SUFFICES ASSUME NEW n \in DOMAIN Listed PROVE OfGroup(Listed[n][1], {Listed[n][2]})
    OBVIOUS
  <2>1. \/ n \in DOMAIN dedup.listed /\ Listed[n] = dedup.listed[n]
        \/ \E i \in Present : Listed[n] = <<GroupKey(drawers[i]), i>>
    BY ListedRows DEF PassTyped, Pass
  <2>2. CASE n \in DOMAIN dedup.listed /\ Listed[n] = dedup.listed[n]
    BY <2>2 DEF ListInv
  <2>3. CASE \E i \in Present : Listed[n] = <<GroupKey(drawers[i]), i>>
    BY <2>3 DEF OfGroup
  <2> QED
    BY <2>1, <2>2, <2>3
<1>6. \A g \in groups : OfGroup(g.key, g.ids)
  <2> SUFFICES ASSUME NEW k \in Keys PROVE OfGroup(k, Members(Listed, k))
    OBVIOUS
  <2> SUFFICES ASSUME NEW i \in Members(Listed, k) \cap Present PROVE GroupKey(drawers[i]) = k
    BY DEF OfGroup
  <2>1. PICK n \in DOMAIN Listed : Listed[n] = <<k, i>>
    BY DEF Members
  <2>2. Listed[n][1] = k /\ Listed[n][2] = i
    BY <2>1
  <2> QED
    BY <1>5, <2>2 DEF OfGroup
<1>7. \A key, S : OfGroup(key, S) => OfGroup(key, S)'
  BY <1>1, OfGroupStays
<1> HIDE DEF groups
<1>8. CASE dedup' = [dedup EXCEPT !.listed = Listed]
  <2>0. PICK list : list = Listed
    OBVIOUS
  <2>1. dedup'.listed = list /\ dedup'.groups = dedup.groups
    BY <1>8, <2>0 DEF PassTyped, Pass
  <2>2. \A n \in DOMAIN list : OfGroup(list[n][1], {list[n][2]})'
    BY <1>5, <1>7, <2>0
  <2>3. \A g \in dedup'.groups : OfGroup(g.key, g.ids)'
    BY <1>2, <2>1
  <2> QED
    BY <1>4, <2>1, <2>2, <2>3 DEF ListInv
<1>9. CASE dedup' = [dedup EXCEPT !.step = "pick", !.listed = <<>>, !.groups = groups]
  <2>1. dedup'.listed = <<>> /\ dedup'.groups = groups
    BY <1>9 DEF PassTyped, Pass
  <2>2. \A g \in dedup'.groups : OfGroup(g.key, g.ids)'
    BY <1>1, <1>6, <2>1 DEF OfGroup, Present
  <2>3. DOMAIN dedup'.listed = {}
    BY <2>1
  <2> QED
    BY <1>4, <2>2, <2>3 DEF ListInv
<1> QED
  BY <1>3, <1>8, <1>9

\* A group is picked up with its drawers as they are, its longest kept.
LEMMA PickLone ==
  ASSUME TypeOK, PassTyped, RestInv, ListInv, PickGroup
  PROVE  ListInv' /\ HandInv'
<1>1. UNCHANGED drawers
  BY DEF PickGroup, vars
<1>2. /\ dedup.winner = None
      /\ DOMAIN dedup.items = {} /\ dedup.kept = {} /\ dedup.dups = {} /\ dedup.short = {}
  BY DEF RestInv, PickGroup
<1>3. PICK g \in dedup.groups :
        \/ dedup' = [dedup EXCEPT !.groups = @ \ {g}]
        \/ /\ DOMAIN LongOf(g) = {}
           /\ dedup' = [dedup EXCEPT !.groups = @ \ {g}, !.step = "write", !.key = g.key,
                                     !.short = ShortOf(g)]
        \/ /\ DOMAIN LongOf(g) # {}
           /\ dedup' = [dedup EXCEPT !.groups = @ \ {g}, !.step = "judge", !.key = g.key,
                                     !.short = ShortOf(g), !.winner = First(LongOf(g)),
                                     !.kept = {First(LongOf(g))},
                                     !.items = Only(LongOf(g), Ids \ {First(LongOf(g))})]
  BY PickShape
<1>4. ListInv'
  <2>1. dedup'.listed = dedup.listed /\ dedup'.groups = dedup.groups \ {g}
    BY <1>3 DEF PassTyped, Pass
  <2> QED
    BY <1>1, <2>1 DEF ListInv, OfGroup, Present
<1>5. OfGroup(g.key, g.ids)
  BY DEF ListInv
<1>6. \A i \in ShortOf(g) : Size[drawers[i].doc] < ShortSize
  BY DEF ShortOf
<1>7. Present' = Present
  BY <1>1 DEF Present
<1>8. CASE dedup' = [dedup EXCEPT !.groups = @ \ {g}]
  BY <1>2, <1>4, <1>8, BareHand DEF PassTyped, Pass
<1>9. CASE dedup' = [dedup EXCEPT !.groups = @ \ {g}, !.step = "write", !.key = g.key,
                                  !.short = ShortOf(g)]
  <2>1. /\ dedup'.winner = None /\ dedup'.items = dedup.items /\ dedup'.kept = {}
        /\ dedup'.dups = {} /\ dedup'.short = ShortOf(g)
    BY <1>2, <1>9 DEF PassTyped, Pass
  <2>2. DOMAIN dedup'.items \cup dedup'.kept \cup dedup'.dups = {}
    BY <1>2, <2>1
  <2> QED
    BY <1>1, <1>2, <1>4, <1>6, <2>1, <2>2 DEF HandInv, OfGroup
<1>10. CASE /\ DOMAIN LongOf(g) # {}
            /\ dedup' = [dedup EXCEPT !.groups = @ \ {g}, !.step = "judge", !.key = g.key,
                                      !.short = ShortOf(g), !.winner = First(LongOf(g)),
                                      !.kept = {First(LongOf(g))},
                                      !.items = Only(LongOf(g), Ids \ {First(LongOf(g))})]
  <2>1. PICK w : w = First(LongOf(g))
    OBVIOUS
  <2>2. PICK items : items = Only(LongOf(g), Ids \ {w})
    OBVIOUS
  <2>3. /\ dedup'.winner = w /\ dedup'.items = items /\ dedup'.kept = {w} /\ dedup'.dups = {}
        /\ dedup'.short = ShortOf(g) /\ dedup'.key = g.key
    BY <1>2, <1>10, <2>1, <2>2 DEF PassTyped, Pass
  <2>4. /\ DOMAIN LongOf(g) \subseteq Ids
        /\ DOMAIN LongOf(g) = (g.ids \cap Present) \ ShortOf(g)
        /\ \A i \in DOMAIN LongOf(g) : LongOf(g)[i] = drawers[i] /\ LongOf(g)[i] \in Row
    BY LongRows
  <2>5. /\ w \in DOMAIN LongOf(g)
        /\ \A j \in DOMAIN LongOf(g) \ {w} : Precedes(LongOf(g), w, j)
    BY <1>10, <2>1, <2>4, FirstIsItem
  <2>6. /\ DOMAIN items = DOMAIN LongOf(g) \ {w}
        /\ \A i \in DOMAIN items : items[i] = drawers[i]
    <3>1. /\ DOMAIN items = DOMAIN LongOf(g) \cap (Ids \ {w})
          /\ \A i \in DOMAIN items : items[i] = LongOf(g)[i]
      BY <2>2, OnlySome
    <3> QED
      BY <2>4, <3>1
  <2>7. \A i \in DOMAIN items : Size[drawers[w].doc] >= Size[drawers[i].doc]
    <3> SUFFICES ASSUME NEW i \in DOMAIN items
                 PROVE  Size[drawers[w].doc] >= Size[drawers[i].doc]
      OBVIOUS
    <3>1. Precedes(LongOf(g), w, i) /\ i \in DOMAIN LongOf(g)
      BY <2>5, <2>6
    <3>2. /\ LongOf(g)[i] = drawers[i] /\ drawers[i] \in Row
          /\ LongOf(g)[w] = drawers[w] /\ drawers[w] \in Row
      BY <2>4, <2>5, <3>1
    <3>3. Size[drawers[i].doc] \in Nat /\ Size[drawers[w].doc] \in Nat
      BY <3>2, DedupAssumption DEF Row
    <3> QED
      BY <3>1, <3>2, <3>3 DEF Precedes
  <2>8. w \in Present /\ w \in Ids /\ w # None
    BY <2>4, <2>5, DedupAssumption
  <2>9. DOMAIN items \cup {w} \subseteq g.ids \cap Present
    BY <2>4, <2>5, <2>6
  <2>10. OfGroup(dedup.key, DOMAIN dedup.items \cup dedup.kept \cup dedup.dups)'
    BY <1>1, <1>5, <1>7, <2>3, <2>9 DEF OfGroup
  <2>11. DOMAIN items \cap ({w} \cup ShortOf(g)) = {} /\ w \notin ShortOf(g)
    BY <2>4, <2>5, <2>6
  <2> QED
    BY <1>1, <1>4, <1>6, <1>7, <2>3, <2>6, <2>7, <2>8, <2>9, <2>10, <2>11 DEF HandInv
<1> QED
  BY <1>3, <1>4, <1>8, <1>9, <1>10

\* The longest item left is judged: what pushes it out is there, and as long.
LEMMA JudgeLone ==
  ASSUME DedupInv, TablesAgree, PassTyped, ListInv, HandInv, Judge
  PROVE  ListInv' /\ HandInv'
<1>1. UNCHANGED drawers
  BY DEF Judge, Query, EmbedFails, DbFails, tables
<1>2. PICK i \in DOMAIN dedup.items :
        /\ \A j \in DOMAIN dedup.items \ {i} : Precedes(dedup.items, i, j)
        /\ \/ dedup' = [dedup EXCEPT !.items = Only(dedup.items, Ids \ {i}),
                                     !.kept = @ \cup {i}]
           \/ /\ IsDup(Norm[dedup.items[i].doc], answer'.ids)
              /\ dedup' = [dedup EXCEPT !.items = Only(dedup.items, Ids \ {i}),
                                        !.dups = @ \cup {i},
                                        !.meta = Gather(@, dedup.items[i])]
  BY JudgeShape
<1>3. PICK items : items = Only(dedup.items, Ids \ {i})
  OBVIOUS
<1>4. /\ DOMAIN items = DOMAIN dedup.items \ {i}
      /\ \A j \in DOMAIN items : items[j] = dedup.items[j]
  <2>1. /\ DOMAIN items = DOMAIN dedup.items \cap (Ids \ {i})
        /\ \A j \in DOMAIN items : items[j] = dedup.items[j]
    BY <1>3, OnlySome
  <2> QED
    BY <2>1 DEF DedupInv, GroupInv
<1>5. Present' = Present
  BY <1>1 DEF Present
<1>6. /\ dedup'.items = items /\ dedup'.listed = dedup.listed /\ dedup'.groups = dedup.groups
      /\ dedup'.key = dedup.key /\ dedup'.winner = dedup.winner /\ dedup'.short = dedup.short
  BY <1>2, <1>3 DEF PassTyped, Pass
<1>7. ListInv'
  BY <1>1, <1>6 DEF ListInv, OfGroup, Present
<1>8. /\ i \in Present /\ i \notin dedup.kept \cup dedup.dups \cup dedup.short
      /\ dedup.items[i].doc = drawers[i].doc /\ dedup.items[i].label = drawers[i].label
      /\ dedup.winner # None /\ dedup.winner \in dedup.kept
  BY DEF HandInv
<1>9. \A j \in DOMAIN items : Size[drawers[i].doc] >= Size[drawers[j].doc]
  <2> SUFFICES ASSUME NEW j \in DOMAIN items
               PROVE  Size[drawers[i].doc] >= Size[drawers[j].doc]
    OBVIOUS
  <2>1. Precedes(dedup.items, i, j) /\ j \in DOMAIN dedup.items
    BY <1>2, <1>4
  <2>2. /\ drawers[i].doc \in Docs /\ drawers[j].doc \in Docs
        /\ dedup.items[i].doc = drawers[i].doc /\ dedup.items[j].doc = drawers[j].doc
    BY <2>1 DEF HandInv, DedupInv, GroupInv, Row
  <2>3. Size[drawers[i].doc] \in Nat /\ Size[drawers[j].doc] \in Nat
    BY <2>2, DedupAssumption
  <2> QED
    BY <2>1, <2>2, <2>3 DEF Precedes
<1>10. CASE dedup'.kept = dedup.kept \cup {i} /\ dedup'.dups = dedup.dups
            /\ dedup'.meta = dedup.meta
  <2>1. DOMAIN dedup'.items \cup dedup'.kept \cup dedup'.dups
          \subseteq DOMAIN dedup.items \cup dedup.kept \cup dedup.dups
    BY <1>4, <1>6, <1>10
  <2>2. OfGroup(dedup.key, DOMAIN dedup.items \cup dedup.kept \cup dedup.dups)'
    BY <1>1, <1>5, <1>6, <2>1 DEF HandInv, OfGroup
  <2>3. \A j \in dedup'.dups : \E k \in dedup'.kept : Twins(j, k)'
    BY <1>1, <1>10 DEF HandInv, Twins
  <2>4. \A j \in DOMAIN items : \A k \in dedup'.kept : Size[drawers[k].doc] >= Size[drawers[j].doc]
    BY <1>4, <1>9, <1>10 DEF HandInv
  <2>5. \A j \in DOMAIN items : items[j].doc = drawers[j].doc /\ items[j].label = drawers[j].label
    BY <1>4 DEF HandInv
  <2>6. DOMAIN dedup.items \cup dedup.kept \cup dedup.dups \subseteq Present
    BY DEF HandInv
  <2>7. \A j \in dedup'.dups : drawers'[j].label # "none" => dedup'.meta.label # "none"
    BY <1>1, <1>10 DEF HandInv
  <2>8. DOMAIN items \cap (dedup'.kept \cup dedup'.dups \cup dedup'.short) = {}
    BY <1>4, <1>6, <1>10 DEF HandInv
  <2>9. dedup'.kept \cap (dedup'.dups \cup dedup'.short) = {}
    BY <1>6, <1>8, <1>10 DEF HandInv
  <2>10. \A j \in dedup'.short \cap Present' : Size[drawers'[j].doc] < ShortSize
    BY <1>1, <1>5, <1>6 DEF HandInv
  <2>11. dedup'.winner # None /\ dedup'.winner \in dedup'.kept
    BY <1>6, <1>8, <1>10
  <2>12. HandInv'
    BY <1>1, <1>5, <1>6, <2>1, <2>2, <2>3, <2>4, <2>5, <2>6, <2>7, <2>8, <2>9, <2>10, <2>11
    DEF HandInv
  <2> QED
    BY <1>7, <2>12
<1>11. CASE /\ dedup'.kept = dedup.kept /\ dedup'.dups = dedup.dups \cup {i}
            /\ dedup'.meta = Gather(dedup.meta, dedup.items[i])
            /\ IsDup(Norm[dedup.items[i].doc], answer'.ids)
  <2>1. DOMAIN dedup'.items \cup dedup'.kept \cup dedup'.dups
          \subseteq DOMAIN dedup.items \cup dedup.kept \cup dedup.dups
    BY <1>4, <1>6, <1>11
  <2>2. OfGroup(dedup.key, DOMAIN dedup.items \cup dedup.kept \cup dedup.dups)'
    BY <1>1, <1>5, <1>6, <2>1 DEF HandInv, OfGroup
  <2>3. \E j \in dedup.kept : Twins(i, j)
    <3>1. PICK j \in dedup.kept : <<Norm[drawers[i].doc], vecs[j].emb>> \in Near
      BY <1>8, <1>11 DEF IsDup
    <3>2. j \in Present /\ vecs[j].emb = Norm[drawers[j].doc]
      BY DEF HandInv, TablesAgree, Present
    <3>3. Size[drawers[j].doc] >= Size[drawers[i].doc]
      BY DEF HandInv
    <3> QED
      BY <3>1, <3>2, <3>3 DEF Twins
  <2>4. \A j \in dedup'.dups : \E k \in dedup'.kept : Twins(j, k)'
    BY <1>1, <1>11, <2>3 DEF HandInv, Twins
  <2>5. \A j \in DOMAIN items : \A k \in dedup'.kept : Size[drawers[k].doc] >= Size[drawers[j].doc]
    BY <1>4, <1>11 DEF HandInv
  <2>6. \A j \in DOMAIN items : items[j].doc = drawers[j].doc /\ items[j].label = drawers[j].label
    BY <1>4 DEF HandInv
  <2>7. DOMAIN dedup.items \cup dedup.kept \cup dedup.dups \subseteq Present
    BY DEF HandInv
  <2>8. dedup'.meta.label = Overlay(dedup.meta.label, drawers[i].label, "none")
    BY <1>8, <1>11 DEF Gather
  <2>9. \A j \in dedup'.dups : drawers'[j].label # "none" => dedup'.meta.label # "none"
    BY <1>1, <1>11, <2>8 DEF HandInv, Overlay
  <2>10. DOMAIN items \cap (dedup'.kept \cup dedup'.dups \cup dedup'.short) = {}
    BY <1>4, <1>6, <1>11 DEF HandInv
  <2>11. dedup'.kept \cap (dedup'.dups \cup dedup'.short) = {}
    BY <1>6, <1>8, <1>11 DEF HandInv
  <2>12. \A j \in dedup'.short \cap Present' : Size[drawers'[j].doc] < ShortSize
    BY <1>1, <1>5, <1>6 DEF HandInv
  <2>13. dedup'.winner # None /\ dedup'.winner \in dedup'.kept
    BY <1>6, <1>8, <1>11
  <2>14. HandInv'
    BY <1>1, <1>5, <1>6, <2>1, <2>2, <2>4, <2>5, <2>6, <2>7, <2>9, <2>10, <2>11, <2>12, <2>13
    DEF HandInv
  <2> QED
    BY <1>7, <2>14
<1>12. \/ dedup'.kept = dedup.kept \cup {i} /\ dedup'.dups = dedup.dups
          /\ dedup'.meta = dedup.meta
       \/ /\ dedup'.kept = dedup.kept /\ dedup'.dups = dedup.dups \cup {i}
          /\ dedup'.meta = Gather(dedup.meta, dedup.items[i])
          /\ IsDup(Norm[dedup.items[i].doc], answer'.ids)
  BY <1>2 DEF PassTyped, Pass
<1> QED
  BY <1>10, <1>11, <1>12

\* What a merge or a Delete of a lone pass does to the palace.
LEMMA WriteEffect ==
  ASSUME DedupInv, HandInv, MergeGroup \/ DeleteLoser
  PROVE  /\ Settled
         /\ Present \ Present' \subseteq Losers \ {dedup.winner}
         /\ \A j \in Present' \ {dedup.winner} : drawers'[j] = drawers[j]
         /\ DeleteLoser => \A j \in Present' : drawers'[j] = drawers[j]
         /\ dedup.winner \in Present' \cap Present =>
              \/ drawers'[dedup.winner] = drawers[dedup.winner]
              \/ drawers'[dedup.winner] = Merge(drawers[dedup.winner], dedup.meta)
<1> USE DEF DedupInv
<1>1. CASE UNCHANGED drawers
  BY <1>1 DEF Settled, Present
<1>2. CASE DeleteLoser /\ \E i \in dedup.dups \cup dedup.short : Delete(Deduper, i)
  <2>1. PICK i \in dedup.dups \cup dedup.short :
          drawers' = [j \in Ids |-> IF j \in {i} THEN None ELSE drawers[j]]
    BY <1>2 DEF Delete, DropRows
  <2>2. i \notin dedup.kept /\ i \in Losers
    BY DEF HandInv, Losers
  <2>3. i # dedup.winner
    BY <2>2, DedupAssumption DEF HandInv, GroupInv
  <2>4. \A j \in Present' : j # i /\ j \in Present /\ drawers'[j] = drawers[j]
    BY <2>1 DEF Present
  <2>5. Present \ Present' \subseteq {i}
    BY <2>1 DEF Present
  <2> QED
    BY <2>2, <2>3, <2>4, <2>5 DEF Settled
<1>3. CASE /\ MergeGroup
           /\ \E found : /\ found \subseteq Losers \ {dedup.winner}
                         /\ dedup.winner \in Present
                         /\ drawers' = [i \in Ids |->
                              IF i \in found THEN None
                              ELSE IF i = dedup.winner THEN Merge(drawers[i], dedup.meta)
                              ELSE drawers[i]]
  <2>1. PICK found :
          /\ found \subseteq Losers \ {dedup.winner}
          /\ dedup.winner \in Present
          /\ drawers' = [i \in Ids |->
                           IF i \in found THEN None
                           ELSE IF i = dedup.winner THEN Merge(drawers[i], dedup.meta)
                           ELSE drawers[i]]
    BY <1>3
  <2>2. drawers[dedup.winner] \in Row /\ dedup.winner \in Ids /\ dedup.meta \in MergedMeta
    BY <2>1 DEF Present, TypeOK, GroupInv
  <2>3. /\ Merge(drawers[dedup.winner], dedup.meta) \in Row
        /\ GroupKey(Merge(drawers[dedup.winner], dedup.meta)) = GroupKey(drawers[dedup.winner])
    BY <2>2, MergeType DEF GroupKey
  <2>4. drawers'[dedup.winner] = Merge(drawers[dedup.winner], dedup.meta)
    BY <2>1, <2>2
  <2>5. \A j \in Ids \ {dedup.winner} : drawers'[j] = IF j \in found THEN None ELSE drawers[j]
    BY <2>1
  <2>6. dedup.winner \in Present'
    BY <2>2, <2>3, <2>4, StoreAssumption DEF Present
  <2>7. \A j \in Present' : j \in Present /\ (j # dedup.winner => drawers'[j] = drawers[j])
    BY <2>1, <2>5 DEF Present
  <2>8. Present \ Present' \subseteq found
    BY <2>5, <2>6 DEF Present
  <2>9. Settled
    BY <2>3, <2>4, <2>7 DEF Settled
  <2>10. ~DeleteLoser
    BY <1>3 DEF MergeGroup, DeleteLoser
  <2> QED
    BY <2>1, <2>4, <2>7, <2>8, <2>9, <2>10
<1>4. MergeGroup => \/ UNCHANGED drawers
                    \/ /\ dedup.winner \in Present
                       /\ drawers' = [i \in Ids |->
                            IF i \in (Losers \ {dedup.winner}) \cap Present THEN None
                            ELSE IF i = dedup.winner THEN Merge(drawers[i], dedup.meta)
                            ELSE drawers[i]]
  BY DEF MergeGroup, MergeAndDelete, DbFails, tables
<1>5. DeleteLoser => \/ UNCHANGED drawers
                     \/ \E i \in dedup.dups \cup dedup.short : Delete(Deduper, i)
  BY DEF DeleteLoser, DbFails, tables
<1> HIDE DEF DedupInv
<1> QED
  BY <1>1, <1>2, <1>3, <1>4, <1>5

\* The removals of a group leave what the pass knows of the others true.
LEMMA WriteLone ==
  ASSUME DedupInv, PassTyped, RestInv, ListInv, HandInv, MergeGroup \/ DeleteLoser
  PROVE  ListInv' /\ HandInv'
<1>1. Settled
  BY WriteEffect
<1>2. dedup'.listed = dedup.listed /\ dedup'.groups = dedup.groups
  <2>1. CASE MergeGroup
    BY <2>1 DEF MergeGroup, GroupEnds, PassTyped, Pass
  <2>2. CASE DeleteLoser
    <3>1. PICK i : dedup' = [dedup EXCEPT !.dups = @ \ {i}, !.short = @ \ {i}]
      BY <2>2, Zenon DEF DeleteLoser
    <3> QED
      BY <3>1 DEF PassTyped, Pass
  <2> QED
    BY <2>1, <2>2
<1>3. ListInv'
  BY <1>1, <1>2, OfGroupStays DEF ListInv
<1>4. dedup.step = "write" /\ DOMAIN dedup.items = {}
  BY DEF MergeGroup, DeleteLoser, RestInv
<1>5. CASE MergeGroup
  BY <1>3, <1>4, <1>5, BareHand DEF MergeGroup, GroupEnds, PassTyped, Pass
<1>6. CASE DeleteLoser
  <2>1. PICK i \in Losers : /\ Delete(Deduper, i) \/ UNCHANGED drawers
                            /\ dedup' = [dedup EXCEPT !.dups = @ \ {i}, !.short = @ \ {i}]
    BY <1>6 DEF DeleteLoser, Losers, DbFails, tables
  <2>2. /\ dedup'.dups = dedup.dups \ {i} /\ dedup'.short = dedup.short \ {i}
        /\ dedup'.kept = dedup.kept /\ dedup'.winner = dedup.winner /\ dedup'.key = dedup.key
        /\ dedup'.items = dedup.items /\ dedup'.meta = dedup.meta
    BY <2>1 DEF PassTyped, Pass
  <2>3. /\ \A j \in Present' : j \in Present /\ drawers'[j] = drawers[j]
        /\ Present \ {i} \subseteq Present'
    BY <1>1, <1>6, <2>1, WriteEffect DEF Settled, Delete, DropRows, Present
  <2>4. i \notin dedup.kept
    BY DEF HandInv, Losers
  <2>5. dedup'.kept \cup dedup'.dups \subseteq Present' /\ DOMAIN dedup'.items = {}
    BY <1>4, <2>2, <2>3, <2>4 DEF HandInv
  <2>6. OfGroup(dedup.key, DOMAIN dedup.items \cup dedup.kept \cup dedup.dups)'
    BY <2>2, <2>3 DEF HandInv, OfGroup
  <2>7. \A j \in dedup'.dups :
          /\ \E k \in dedup'.kept : Twins(j, k)'
          /\ drawers'[j].label # "none" => dedup'.meta.label # "none"
    <3> SUFFICES ASSUME NEW j \in dedup'.dups
                 PROVE  /\ \E k \in dedup'.kept : Twins(j, k)'
                        /\ drawers'[j].label # "none" => dedup'.meta.label # "none"
      OBVIOUS
    <3>1. PICK k \in dedup.kept : Twins(j, k)
      BY <2>2 DEF HandInv
    <3>2. k \in Present' /\ j \in Present'
      BY <2>2, <2>5
    <3>3. Twins(j, k)'
      BY <2>3, <3>1, <3>2 DEF Twins
    <3> QED
      BY <2>2, <2>3, <3>2, <3>3 DEF HandInv
  <2>8. \A j \in dedup'.short \cap Present' : Size[drawers'[j].doc] < ShortSize
    BY <2>2, <2>3 DEF HandInv
  <2>9. /\ dedup'.kept \cap (dedup'.dups \cup dedup'.short) = {}
        /\ IF dedup'.winner = None THEN dedup'.dups = {} ELSE dedup'.winner \in dedup'.kept
    BY <2>2 DEF HandInv
  <2>10. HandInv'
    BY <2>5, <2>6, <2>7, <2>8, <2>9 DEF HandInv
  <2> QED
    BY <1>3, <2>10
<1> QED
  BY <1>5, <1>6

\* A pass that runs alone knows the drawers of its groups as they are.
LEMMA LoneStep ==
  ASSUME DedupInv, TablesAgree, PassTyped, LoneInv, [DedupNext]_dedupVars, dedup'.alone
  PROVE  ListInv' /\ HandInv'
<1> USE DEF DedupInv, LoneInv
<1>1. CASE dedup.alone
  <2>1. ListInv /\ HandInv
    BY <1>1
  <2>2. CASE ListPage
    BY <2>1, <2>2, ListLone
  <2>3. CASE PickGroup
    BY <2>1, <2>3, PickLone
  <2>4. CASE Judge
    BY <2>1, <2>4, JudgeLone
  <2>5. CASE MergeGroup \/ DeleteLoser
    BY <2>1, <2>5, WriteLone
  <2>6. CASE JudgeTouch \/ Others \/ UNCHANGED dedupVars
    <3>1. dedup' = dedup
      BY <2>6 DEF JudgeTouch, Others, dedupVars
    <3>2. Still
      <4>1. (\E S : TouchRows(S)) \/ UNCHANGED drawers
        BY <1>1, <2>6 DEF JudgeTouch, QueryTouch, Others, Tick, dedupVars, vars
      <4> QED
        BY <4>1, TouchIsStill, UnchangedIsStill
    <3> QED
      BY <2>1, <3>1, <3>2, HandStays
  <2>7. CASE Judged
    <3>1. /\ dedup' = [dedup EXCEPT !.step = "write"] /\ UNCHANGED drawers
      BY <2>7 DEF Judged, vars
    <3>2. /\ dedup'.listed = dedup.listed /\ dedup'.groups = dedup.groups
          /\ dedup'.dups = dedup.dups /\ dedup'.short = dedup.short
          /\ dedup'.kept = dedup.kept /\ dedup'.winner = dedup.winner /\ dedup'.key = dedup.key
          /\ dedup'.items = dedup.items /\ dedup'.meta = dedup.meta
      BY <3>1 DEF PassTyped, Pass
    <3>3. Present' = Present
      BY <3>1 DEF Present
    <3>4. ListInv'
      BY <2>1, <3>1, <3>2, <3>3 DEF ListInv, OfGroup
    <3>5. HandInv'
      BY <2>1, <3>1, <3>2, <3>3 DEF HandInv, OfGroup, Twins
    <3> QED
      BY <3>4, <3>5
  <2>8. CASE Written
    <3>1. /\ dedup'.listed = dedup.listed /\ dedup'.groups = dedup.groups
          /\ UNCHANGED drawers /\ dedup'.items = dedup.items
      BY <2>8 DEF Written, GroupEnds, vars, PassTyped, Pass
    <3>2. Present' = Present
      BY <3>1 DEF Present
    <3>3. ListInv'
      BY <2>1, <3>1, <3>2 DEF ListInv, OfGroup
    <3>4. DOMAIN dedup.items = {}
      BY <2>8 DEF RestInv, Written
    <3>5. HandInv'
      BY <2>8, <3>1, <3>4, BareHand DEF Written, GroupEnds, PassTyped, Pass
    <3> QED
      BY <3>3, <3>5
  <2>9. CASE StartDedup
    <3>1. dedup.step \in {"rest", "failed"} /\ dedup = Ended(dedup.step)
      BY <2>9 DEF StartDedup, RestInv
    <3> QED
      BY <1>1, <3>1 DEF Ended
  <2>10. CASE PassFails \/ DedupDone
    BY <2>10 DEF PassFails, DedupDone, Ended
  <2> QED
    BY <2>2, <2>3, <2>4, <2>5, <2>6, <2>7, <2>8, <2>9, <2>10 DEF DedupNext
<1>2. CASE ~dedup.alone
  <2>1. StartDedup
    <3>1. CASE Judge
      BY <1>2, <3>1, JudgeShape DEF PassTyped, Pass
    <3>2. CASE PickGroup
      BY <1>2, <3>2, PickShape DEF PassTyped, Pass
    <3>3. CASE ListPage
      BY <1>2, <3>3 DEF ListPage, PassTyped, Pass
    <3>4. CASE JudgeTouch \/ Others \/ UNCHANGED dedupVars \/ PassFails \/ DedupDone
      BY <1>2, <3>4 DEF JudgeTouch, Others, dedupVars, PassFails, DedupDone, Ended
    <3>5. CASE Judged \/ Written \/ MergeGroup
      BY <1>2, <3>5 DEF Judged, Written, MergeGroup, GroupEnds, PassTyped, Pass
    <3>6. CASE DeleteLoser
      <4>1. PICK i : dedup' = [dedup EXCEPT !.dups = @ \ {i}, !.short = @ \ {i}]
        BY <3>6, Zenon DEF DeleteLoser
      <4> QED
        BY <1>2, <4>1 DEF PassTyped, Pass
    <3> QED
      BY <3>1, <3>2, <3>3, <3>4, <3>5, <3>6 DEF DedupNext
  <2>2. PICK step \in {"rest", "failed"} : dedup = Ended(step)
    BY <2>1 DEF StartDedup, RestInv
  <2>3. PICK mode, alone :
          dedup' = [dedup EXCEPT !.step = "list", !.mode = mode, !.alone = alone]
    BY <2>1 DEF StartDedup
  <2>4. /\ dedup'.listed = <<>> /\ dedup'.groups = {} /\ dedup'.winner = None
        /\ dedup'.items = <<>> /\ dedup'.kept = {} /\ dedup'.dups = {} /\ dedup'.short = {}
    BY <2>2, <2>3 DEF Ended
  <2>5. DOMAIN dedup'.items = {} /\ DOMAIN dedup'.listed = {}
    BY <2>4
  <2>6. ListInv'
    BY <2>4, <2>5 DEF ListInv
  <2> QED
    BY <2>4, <2>5, <2>6, BareHand
<1> QED
  BY <1>1, <1>2

THEOREM DedupLone == DedupSpec => [](DedupInv /\ TablesAgree /\ PassTyped /\ LoneInv)
<1>1. DedupInit => LoneInv
  <2> SUFFICES ASSUME DedupInit PROVE LoneInv
    OBVIOUS
  <2>1. RestInv /\ ~dedup.alone
    BY DEF DedupInit, Ended, RestInv
  <2> QED
    BY <2>1 DEF LoneInv
<1>2. DedupInv /\ TablesAgree /\ PassTyped /\ LoneInv /\ [DedupNext]_dedupVars => LoneInv'
  BY LoneStep, RestStep DEF LoneInv
<1>3. DedupTypeOK => PassTyped
  BY DEF DedupTypeOK, PassTyped
<1> QED
  BY <1>1, <1>2, <1>3, DedupTypes, DedupTyped, DedupTablesAgree, PTL DEF DedupSpec

\* A pass that runs alone costs the palace no text that has no twin and no
\* classification: however judgements chain, failures and touches come between,
\* and pages cut the listing, a drawer that goes leaves one of its group that is
\* as long and near, and a merge keeps the winner classified (dedup.go:183-350).
THEOREM DedupLonePassLosesNothing == DedupSpec => LonePassLosesNothing
<1> DEFINE Inv == DedupInv /\ TablesAgree /\ PassTyped /\ LoneInv
           KeepsTwin ==
             dedup.step = "write" /\ dedup.alone =>
               \A i \in Present \ Present' :
                 Size[drawers[i].doc] >= ShortSize =>
                   \E j \in Present \cap Present' :
                     /\ GroupKey(drawers[j]) = GroupKey(drawers[i])
                     /\ Size[drawers[j].doc] >= Size[drawers[i].doc]
                     /\ <<Norm[drawers[i].doc], Norm[drawers[j].doc]>> \in Near
           KeepsMeta ==
             dedup.step = "write" /\ dedup.alone /\ dedup.mode = "merge" =>
               \A i \in dedup.dups \cap (Present \ Present') :
                 (\E j \in {i, dedup.winner} : drawers[j].label # "none") =>
                    drawers'[dedup.winner].label # "none"
<1>1. ASSUME Inv, DedupNext, dedup.step = "write", dedup.alone, NEW i \in Present \ Present'
      PROVE  /\ MergeGroup \/ DeleteLoser
             /\ HandInv
             /\ i \in Losers
  <2>1. HandInv
    BY <1>1 DEF LoneInv
  <2>2. \/ MergeGroup \/ DeleteLoser
        \/ (\E S : TouchRows(S)) \/ UNCHANGED drawers
    BY <1>1 DEF DedupNext, StartDedup, ListPage, PassFails, PickGroup, Judge, JudgeTouch,
                QueryTouch, Judged, Written, DedupDone, Others, Tick, vars
  <2>3. ~(\E S : TouchRows(S)) /\ ~UNCHANGED drawers
    BY <1>1, TouchIsStill, UnchangedIsStill DEF Still, DedupInv
  <2> QED
    BY <1>1, <2>1, <2>2, <2>3, WriteEffect
<1>2. ASSUME Inv, DedupNext, dedup.step = "write", dedup.alone, NEW i \in Present \ Present',
             Size[drawers[i].doc] >= ShortSize
      PROVE  \E j \in Present \cap Present' :
               /\ GroupKey(drawers[j]) = GroupKey(drawers[i])
               /\ Size[drawers[j].doc] >= Size[drawers[i].doc]
               /\ <<Norm[drawers[i].doc], Norm[drawers[j].doc]>> \in Near
  <2>1. HandInv /\ (MergeGroup \/ DeleteLoser) /\ i \in Losers
    BY <1>1, <1>2
  <2>2. i \in dedup.dups
    <3>1. Size[drawers[i].doc] \in Nat /\ ShortSize \in Nat
      BY <1>2, DedupAssumption DEF DedupInv, TypeOK, Present, Row
    <3>2. i \notin dedup.short
      BY <1>2, <2>1, <3>1 DEF HandInv
    <3> QED
      BY <2>1, <3>2 DEF Losers
  <2>3. PICK j \in dedup.kept : Twins(i, j)
    BY <2>1, <2>2 DEF HandInv
  <2>4. j \in Present
    BY <2>1 DEF HandInv
  <2>5. j \in Present'
    <3>1. j \notin Losers
      BY <2>1 DEF HandInv, Losers
    <3>2. Present \ Present' \subseteq Losers
      BY <1>2, <2>1, WriteEffect
    <3> QED
      BY <2>4, <3>1, <3>2
  <2>6. GroupKey(drawers[j]) = GroupKey(drawers[i])
    BY <1>2, <2>1, <2>2, <2>4 DEF HandInv, OfGroup
  <2> QED
    BY <2>3, <2>4, <2>5, <2>6 DEF Twins
<1>3. ASSUME Inv, DedupNext, dedup.step = "write", dedup.alone, dedup.mode = "merge",
             NEW i \in dedup.dups \cap (Present \ Present'),
             \E j \in {i, dedup.winner} : drawers[j].label # "none"
      PROVE  drawers'[dedup.winner].label # "none"
  <2>1. HandInv /\ (MergeGroup \/ DeleteLoser) /\ i \in Losers
    BY <1>1, <1>3
  <2>2. dedup.winner # None /\ dedup.winner \in dedup.kept
    BY <1>3, <2>1 DEF HandInv
  <2>3. Merging
    BY <1>3, <2>1, <2>2 DEF Merging
  <2>4. MergeGroup
    BY <2>1, <2>3 DEF DeleteLoser
  <2>5. /\ dedup.winner \in Present
        /\ drawers' = [k \in Ids |->
             IF k \in (Losers \ {dedup.winner}) \cap Present THEN None
             ELSE IF k = dedup.winner THEN Merge(drawers[k], dedup.meta)
             ELSE drawers[k]]
    BY <1>3, <2>4 DEF MergeGroup, MergeAndDelete, DbFails, tables, Present
  <2>6. drawers'[dedup.winner] = Merge(drawers[dedup.winner], dedup.meta)
        /\ drawers[dedup.winner] \in Row
    BY <1>3, <2>5 DEF Present, DedupInv, TypeOK
  <2>7. drawers'[dedup.winner].label
          = Overlay(drawers[dedup.winner].label, dedup.meta.label, "none")
    BY <2>6 DEF Merge, Row
  <2>8. drawers[i].label # "none" => dedup.meta.label # "none"
    BY <1>3, <2>1 DEF HandInv
  <2> QED
    BY <1>3, <2>7, <2>8 DEF Overlay
<1>4. Inv /\ [DedupNext]_dedupVars => [KeepsTwin]_dedupVars /\ [KeepsMeta]_dedupVars
  BY <1>2, <1>3
<1> QED
  BY <1>4, DedupTyped, DedupLone, PTL
  DEF DedupSpec, LonePassLosesNothing, DedupKeepsTwin, DedupKeepsMeta
=============================================================================
