------------------------ MODULE PalaceMigrationProofs ------------------------
(***************************************************************************)
(* PalaceMigration for one process at a time, which may crash any number   *)
(* of times, and every palace, batch size and embedder.                    *)
(***************************************************************************)
EXTENDS PalaceMigration, FiniteSetTheorems, WellFoundedInduction, TLAPS

\* A copy of the file records ids (createBackup).
LEMMA SnapshotType ==
  \A whole \in BOOLEAN : Snapshot(whole) \in [indexed : SUBSET Ids, whole : BOOLEAN]
BY DEF Snapshot, Indexed

\* Type correctness, for any number of processes.
THEOREM MigrationTypes == Spec => []TypeOK
<1>1. Init => TypeOK
  <2> SUFFICES ASSUME Init PROVE TypeOK
    OBVIOUS
  <2>1. /\ origin \in [schema : {"fresh", "v1", "v2"}, drawers : SUBSET Ids]
        /\ drawers \in SUBSET Ids
    <3>1. /\ drawers \in SUBSET Ids
          /\ \/ origin = [schema |-> "fresh", drawers |-> {}]
             \/ origin = [schema |-> "v1", drawers |-> drawers]
             \/ origin = [schema |-> "v2", drawers |-> drawers]
      BY Zenon DEF Init, FreshFile, V1File, V2File
    <3> QED
      BY <3>1
  <2>5. hasHall \in BOOLEAN /\ hall \in [Ids -> Halls]
    BY DEF Init, FreshFile, V1File, V2File, Halls
  <2>2. /\ shape \in {"none", "legacy", "current"} /\ width \in Dims \cup {Unset}
        /\ rows \in [Ids -> Halls \cup {"none"}]
        /\ version \in {0, 2, Current} /\ dim \in Dims \cup {Unset}
    BY DEF Init, FreshFile, V1File, V2File, Halls, NoRows
  <2>3. page \in [Procs -> [Ids -> Halls \cup {"none"}]]
    BY DEF Init, NoRows
  <2>4. /\ backups \in SUBSET [indexed : SUBSET Ids, whole : BOOLEAN]
        /\ pc \in [Procs -> Steps] /\ emb \in [Procs -> Dims]
        /\ legacy \in [Procs -> BOOLEAN] /\ passed \in [Procs -> SUBSET Ids]
    BY DEF Init, Steps
  <2>6. failures \in 0..MaxFailures
    <3>1. failures = 0
      BY Zenon DEF Init
    <3> QED
      BY <3>1, MigrationAssumption
  <2> QED
    BY <2>1, <2>2, <2>3, <2>4, <2>5, <2>6 DEF TypeOK
<1>2. TypeOK /\ [Next]_vars => TypeOK'
  <2> SUFFICES ASSUME TypeOK, [Next]_vars PROVE TypeOK'
    OBVIOUS
  <2> USE MigrationAssumption DEF TypeOK, Goto, file
  <2>1. ASSUME NEW p \in Procs, Probe(p) PROVE TypeOK'
    BY <2>1 DEF Probe, Steps
  <2>2. ASSUME NEW p \in Procs, Ddl(p) PROVE TypeOK'
    BY <2>2 DEF Ddl, Steps, NoRows
  <2>3. ASSUME NEW p \in Procs, Decide(p) PROVE TypeOK'
    BY <2>3 DEF Decide, Steps
  <2>4. ASSUME NEW p \in Procs, Backup(p) PROVE TypeOK'
    <3>1. \A whole \in {TRUE} \cup {pc[q] = "closed" : q \in Procs \ {p}} : whole \in BOOLEAN
      OBVIOUS
    <3> QED
      BY <2>4, <3>1, SnapshotType DEF Backup, Steps
  <2>5. ASSUME NEW p \in Procs, Alter(p) PROVE TypeOK'
    BY <2>5 DEF Alter, Steps
  <2>6. ASSUME NEW p \in Procs, Backfill(p) PROVE TypeOK'
    BY <2>6 DEF Backfill, Steps, Halls
  <2>7. ASSUME NEW p \in Procs, Drop(p) PROVE TypeOK'
    BY <2>7 DEF Drop, Steps, NoRows
  <2>8. ASSUME NEW p \in Procs, Create(p) PROVE TypeOK'
    BY <2>8 DEF Create, Steps, NoRows
  <2>9. ASSUME NEW p \in Procs, ReembedRead(p) PROVE TypeOK'
    BY <2>9 DEF ReembedRead, Steps, FirstOf
  <2>10. ASSUME NEW p \in Procs, ReembedInsert(p) PROVE TypeOK'
    <3>1. page' \in [Procs -> [Ids -> Halls \cup {"none"}]]
      BY <2>10 DEF ReembedInsert, NoRows
    <3>2. rows' \in [Ids -> Halls \cup {"none"}] /\ passed' \in [Procs -> SUBSET Ids]
      BY <2>10 DEF ReembedInsert
    <3>3. pc' \in [Procs -> Steps]
      BY <2>10 DEF ReembedInsert, Steps
    <3> QED
      BY <2>10, <3>1, <3>2, <3>3 DEF ReembedInsert
  <2>11. ASSUME NEW p \in Procs, Stamp(p) PROVE TypeOK'
    BY <2>11 DEF Stamp, Steps
  <2>12. ASSUME NEW p \in Procs, ReadDim(p) PROVE TypeOK'
    BY <2>12 DEF ReadDim, Steps
  <2>13. ASSUME NEW p \in Procs, WriteDim(p) PROVE TypeOK'
    BY <2>13 DEF WriteDim, Steps
  <2>14. ASSUME NEW p \in Procs, Fail(p) PROVE TypeOK'
    <3>1. page' \in [Procs -> [Ids -> Halls \cup {"none"}]]
      BY <2>14 DEF Fail, NoRows
    <3>2. backups' \in SUBSET [indexed : SUBSET Ids, whole : BOOLEAN]
      BY <2>14, SnapshotType DEF Fail
    <3>3. pc' \in [Procs -> Steps] /\ failures' \in 0..MaxFailures
      BY <2>14 DEF Fail, Steps
    <3> QED
      BY <2>14, <3>1, <3>2, <3>3 DEF Fail
  <2>15. ASSUME NEW p \in Procs, Close(p) PROVE TypeOK'
    BY <2>15 DEF Close, Steps
  <2>16. ASSUME NEW p \in Procs, Use(p) PROVE TypeOK'
    <3>1. ASSUME NEW i \in Ids, Delete(p, i) PROVE TypeOK'
      BY <3>1 DEF Delete
    <3>2. ASSUME NEW i \in Ids, NEW h \in Halls, Upsert(p, i, h) PROVE TypeOK'
      BY <3>2 DEF Upsert
    <3> QED
      BY <2>16, <3>1, <3>2 DEF Use
  <2>17. CASE UNCHANGED vars
    BY <2>17 DEF vars
  <2> QED
    BY <2>1, <2>2, <2>3, <2>4, <2>5, <2>6, <2>7, <2>8, <2>9, <2>10, <2>11,
       <2>12, <2>13, <2>14, <2>15, <2>16, <2>17
    DEF Next, Open
<1> QED
  BY <1>1, <1>2, PTL DEF Spec

-----------------------------------------------------------------------------
(* The inductive invariant of one process that opens, crashes and reopens. *)

Halled == \A i \in drawers : hall[i] # ""
LegacyInv == shape = "legacy" =>
   /\ origin.schema = "v1" /\ drawers = origin.drawers /\ Indexed = origin.drawers
   /\ version # Current
   /\ \A p \in Procs : pc[p] # "closed" =>
        /\ pc[p] \in {"ddl", "decide", "backup", "alter", "backfill", "drop"}
        /\ legacy[p]
PlaceInv == \A p \in Procs :
   /\ pc[p] \in {"backup", "alter", "backfill", "drop"} => shape = "legacy"
   /\ pc[p] = "create" => shape = "none"
   /\ pc[p] \in {"read", "insert", "stamp", "readdim", "writedim", "open"} => shape = "current"
   /\ pc[p] = "decide" => shape # "none"
   /\ pc[p] \in {"ddl", "decide"} /\ legacy[p] => shape = "legacy"
   /\ pc[p] \in {"readdim", "writedim", "open"} => version = Current
   /\ pc[p] \in {"backfill", "drop", "create"} => hasHall
   /\ pc[p] \in {"read", "insert", "stamp"} => version # Current
   /\ pc[p] = "drop" => Halled
BackupInv ==
   origin.schema = "v1" /\ (shape # "legacy" \/ \E p \in Procs : pc[p] \in {"alter", "backfill", "drop"})
     => \E b \in backups : b.whole /\ b.indexed = origin.drawers
StampInv ==
   /\ version = Current => shape = "current"
   /\ shape = "current" => hasHall
   /\ shape = "none" => version # Current /\ (hasHall \/ origin.schema = "fresh")
   /\ shape # "legacy" /\ version # Current => Halled
PageInv == \A p \in Procs : pc[p] = "insert" =>
             \A i \in Ids : page[p][i] # "none" => page[p][i] = hall[i]
MigrationInv == LegacyInv /\ PlaceInv /\ BackupInv /\ StampInv /\ RowsMatchHalls /\ PageInv

\* A nonempty set of ids has a least one.
LEMMA LeastId ==
  ASSUME NEW S \in SUBSET Ids, S # {}
  PROVE  \E i \in S : \A j \in S : i <= j
<1>1. S \subseteq Nat
  BY MigrationAssumption
<1>2. PICK i \in S : \A j \in S : ~(<<j, i>> \in OpToRel(<, Nat))
  BY <1>1, WFMin, NatLessThanWellFounded, Zenon
<1>3. \A j \in S : ~(j < i)
  BY <1>1, <1>2, Zenon DEF OpToRel
<1> QED
  BY <1>1, <1>3

\* A batch shorter than its limit holds all the rows there were (the loop exit
\* of backfillHalls).
LEMMA ShortBatchIsAll ==
  ASSUME NEW S \in SUBSET Ids, NEW n \in Nat, Cardinality(FirstOf(S, n)) < n
  PROVE  FirstOf(S, n) = S
<1> SUFFICES ASSUME S \ FirstOf(S, n) # {} PROVE FALSE
  BY DEF FirstOf
<1>1. PICK i \in S \ FirstOf(S, n) : \A j \in S \ FirstOf(S, n) : i <= j
  BY LeastId
<1> DEFINE Below == {j \in S : j < i}
<1>2. Below \subseteq FirstOf(S, n)
  <2> SUFFICES ASSUME NEW j \in S, j < i, j \notin FirstOf(S, n) PROVE FALSE
    OBVIOUS
  <2>1. i <= j /\ i \in Nat /\ j \in Nat
    BY <1>1, MigrationAssumption
  <2> QED
    BY <2>1
<1>3. IsFiniteSet(FirstOf(S, n)) /\ IsFiniteSet(Below)
  BY FS_Subset, MigrationAssumption, <1>2 DEF FirstOf
<1>4. Cardinality(Below) <= Cardinality(FirstOf(S, n))
  BY <1>2, <1>3, FS_Subset
<1>5. ~(Cardinality(Below) < n)
  BY <1>1 DEF FirstOf
<1>6. Cardinality(Below) \in Nat /\ Cardinality(FirstOf(S, n)) \in Nat
  BY <1>3, FS_CardinalityType
<1> QED
  BY <1>4, <1>5, <1>6

\* Every step of a lone process preserves the invariant.
LEMMA MigrationStep ==
  ASSUME NEW q, Procs = {q}, TypeOK, MigrationInv, [Next]_vars
  PROVE  MigrationInv'
<1> USE MigrationAssumption DEF MigrationInv, Goto, file, Current
<1>1. CASE Probe(q)
  BY <1>1 DEF Probe, TypeOK, LegacyInv, PlaceInv, BackupInv, StampInv, PageInv,
     RowsMatchHalls, Halled, Indexed
<1>2. CASE Ddl(q)
  <2>1. LegacyInv'
    BY <1>2 DEF Ddl, TypeOK, LegacyInv, PlaceInv, Indexed, NoRows
  <2>2. PlaceInv'
    BY <1>2 DEF Ddl, TypeOK, LegacyInv, PlaceInv, StampInv, Halled, NoRows
  <2>3. BackupInv'
    BY <1>2 DEF Ddl, TypeOK, LegacyInv, PlaceInv, BackupInv, Indexed, NoRows
  <2>4. StampInv'
    BY <1>2 DEF Ddl, TypeOK, LegacyInv, PlaceInv, StampInv, Halled, NoRows
  <2>5. RowsMatchHalls'
    BY <1>2 DEF Ddl, TypeOK, PlaceInv, PageInv, RowsMatchHalls, Indexed, NoRows
  <2>6. PageInv'
    BY <1>2 DEF Ddl, TypeOK, PlaceInv, PageInv, NoRows
  <2> QED
    BY <2>1, <2>2, <2>3, <2>4, <2>5, <2>6
<1>3. CASE Decide(q)
  <2>1. LegacyInv'
    BY <1>3 DEF Decide, TypeOK, LegacyInv, PlaceInv, Indexed
  <2>2. PlaceInv'
    <3>1. version >= Current => version = Current
      BY DEF TypeOK
    <3>2. /\ shape # "none"
          /\ legacy[q] <=> shape = "legacy"
          /\ version = Current => shape = "current"
      BY <1>3 DEF Decide, LegacyInv, PlaceInv, StampInv, TypeOK
    <3>3. shape = "current" \/ shape = "legacy"
      BY <3>2 DEF TypeOK
    <3>4. \/ pc'[q] = "readdim" /\ version = Current
          \/ pc'[q] = "closed"
          \/ pc'[q] = "backup" /\ shape = "legacy"
          \/ pc'[q] = "stamp" /\ shape # "legacy" /\ version # Current
      BY <1>3, <3>1, <3>2 DEF Decide, TypeOK
    <3>5. UNCHANGED file /\ UNCHANGED legacy
      BY <1>3 DEF Decide
    <3> QED
      BY <3>2, <3>3, <3>4, <3>5 DEF PlaceInv, Halled
  <2>3. BackupInv'
    BY <1>3 DEF Decide, TypeOK, LegacyInv, PlaceInv, BackupInv, Indexed
  <2>4. StampInv'
    BY <1>3 DEF Decide, TypeOK, LegacyInv, PlaceInv, StampInv, Halled
  <2>5. RowsMatchHalls'
    BY <1>3 DEF Decide, TypeOK, PlaceInv, PageInv, RowsMatchHalls, Indexed
  <2>6. PageInv'
    BY <1>3 DEF Decide, TypeOK, PlaceInv, PageInv
  <2> QED
    BY <2>1, <2>2, <2>3, <2>4, <2>5, <2>6
<1>4. CASE Backup(q)
  <2>1. LegacyInv'
    BY <1>4 DEF Backup, TypeOK, LegacyInv, PlaceInv, Indexed, Snapshot
  <2>2. PlaceInv'
    BY <1>4 DEF Backup, TypeOK, LegacyInv, PlaceInv, StampInv, Halled, Snapshot
  <2>3. BackupInv'
    <3>1. shape = "legacy"
      BY <1>4 DEF Backup, PlaceInv
    <3>2. backups' = backups \cup {[indexed |-> Indexed, whole |-> TRUE]}
      BY <1>4 DEF Backup, Snapshot
    <3>3. Indexed = origin.drawers /\ origin' = origin
      BY <1>4, <3>1 DEF LegacyInv, Backup
    <3>4. [indexed |-> Indexed, whole |-> TRUE] \in backups'
      BY <3>2
    <3> QED
      BY <3>3, <3>4 DEF BackupInv
  <2>4. StampInv'
    BY <1>4 DEF Backup, TypeOK, LegacyInv, PlaceInv, StampInv, Halled, Snapshot
  <2>5. RowsMatchHalls'
    BY <1>4 DEF Backup, TypeOK, PlaceInv, PageInv, RowsMatchHalls, Indexed, Snapshot
  <2>6. PageInv'
    BY <1>4 DEF Backup, TypeOK, PlaceInv, PageInv, Snapshot
  <2> QED
    BY <2>1, <2>2, <2>3, <2>4, <2>5, <2>6
<1>5. CASE Alter(q)
  BY <1>5 DEF Alter, TypeOK, LegacyInv, PlaceInv, BackupInv, StampInv, PageInv,
     RowsMatchHalls, Halled, Indexed
<1>6. CASE Backfill(q)
  <2>1. LegacyInv'
    BY <1>6 DEF Backfill, TypeOK, LegacyInv, PlaceInv, Indexed
  <2>2. PlaceInv'
    <3> DEFINE S == {i \in drawers : hall[i] = ""}
    <3>1. S \in SUBSET Ids /\ BackfillBatch \in Nat
      BY DEF TypeOK
    <3>2. Cardinality(FirstOf(S, BackfillBatch)) < BackfillBatch => FirstOf(S, BackfillBatch) = S
      BY <3>1, ShortBatchIsAll
    <3> HIDE DEF S
    <3>3. hall' = [i \in Ids |-> IF i \in FirstOf(S, BackfillBatch) THEN "detected" ELSE hall[i]]
      BY <1>6 DEF Backfill, S
    <3>4. \/ pc'[q] = "backfill"
          \/ pc'[q] = "drop" /\ FirstOf(S, BackfillBatch) = S
      BY <1>6, <3>2 DEF Backfill, TypeOK, S
    <3>5. FirstOf(S, BackfillBatch) = S => Halled'
      BY <1>6, <3>3 DEF Backfill, Halled, S, TypeOK
    <3>6. shape = "legacy" /\ hasHall /\ shape' = shape /\ hasHall' = hasHall
      BY <1>6 DEF Backfill, PlaceInv
    <3> QED
      BY <3>4, <3>5, <3>6 DEF PlaceInv
  <2>3. BackupInv'
    BY <1>6 DEF Backfill, TypeOK, LegacyInv, PlaceInv, BackupInv, Indexed
  <2>4. StampInv'
    BY <1>6 DEF Backfill, TypeOK, LegacyInv, PlaceInv, StampInv, Halled
  <2>5. RowsMatchHalls'
    BY <1>6 DEF Backfill, TypeOK, PlaceInv, PageInv, RowsMatchHalls, Indexed
  <2>6. PageInv'
    BY <1>6 DEF Backfill, TypeOK, PlaceInv, PageInv
  <2> QED
    BY <2>1, <2>2, <2>3, <2>4, <2>5, <2>6
<1>7. CASE Drop(q)
  BY <1>7 DEF Drop, TypeOK, LegacyInv, PlaceInv, BackupInv, StampInv, PageInv,
     RowsMatchHalls, Halled, Indexed
<1>8. CASE Create(q)
  <2>1. LegacyInv'
    BY <1>8 DEF Create, TypeOK, LegacyInv, PlaceInv, Indexed, NoRows
  <2>2. PlaceInv'
    BY <1>8 DEF Create, TypeOK, LegacyInv, PlaceInv, StampInv, Halled, NoRows
  <2>3. BackupInv'
    BY <1>8 DEF Create, TypeOK, LegacyInv, PlaceInv, BackupInv, Indexed, NoRows
  <2>4. StampInv'
    BY <1>8 DEF Create, TypeOK, LegacyInv, PlaceInv, StampInv, Halled, NoRows
  <2>5. RowsMatchHalls'
    BY <1>8 DEF Create, TypeOK, PlaceInv, PageInv, RowsMatchHalls, Indexed, NoRows
  <2>6. PageInv'
    BY <1>8 DEF Create, TypeOK, PlaceInv, PageInv, NoRows
  <2> QED
    BY <2>1, <2>2, <2>3, <2>4, <2>5, <2>6
<1>9. CASE ReembedRead(q)
  BY <1>9 DEF ReembedRead, TypeOK, LegacyInv, PlaceInv, BackupInv, StampInv, PageInv,
     RowsMatchHalls, Halled, Indexed
<1>10. CASE ReembedInsert(q)
  <2>1. LegacyInv'
    BY <1>10 DEF ReembedInsert, TypeOK, LegacyInv, PlaceInv, Indexed
  <2>2. PlaceInv'
    BY <1>10 DEF ReembedInsert, TypeOK, LegacyInv, PlaceInv, StampInv, Halled
  <2>3. BackupInv'
    BY <1>10 DEF ReembedInsert, TypeOK, LegacyInv, PlaceInv, BackupInv, Indexed
  <2>4. StampInv'
    BY <1>10 DEF ReembedInsert, TypeOK, LegacyInv, PlaceInv, StampInv, Halled
  <2>5. RowsMatchHalls'
    BY <1>10 DEF ReembedInsert, TypeOK, PlaceInv, PageInv, RowsMatchHalls, Indexed
  <2>6. PageInv'
    BY <1>10 DEF ReembedInsert, TypeOK, PlaceInv, PageInv
  <2> QED
    BY <2>1, <2>2, <2>3, <2>4, <2>5, <2>6
<1>11. CASE Stamp(q)
  BY <1>11 DEF Stamp, TypeOK, LegacyInv, PlaceInv, BackupInv, StampInv, PageInv,
     RowsMatchHalls, Halled, Indexed
<1>12. CASE ReadDim(q)
  BY <1>12 DEF ReadDim, TypeOK, LegacyInv, PlaceInv, BackupInv, StampInv, PageInv,
     RowsMatchHalls, Halled, Indexed
<1>13. CASE WriteDim(q)
  BY <1>13 DEF WriteDim, TypeOK, LegacyInv, PlaceInv, BackupInv, StampInv, PageInv,
     RowsMatchHalls, Halled, Indexed
<1>14. CASE Fail(q)
  BY <1>14 DEF Fail, TypeOK, LegacyInv, PlaceInv, BackupInv, StampInv, PageInv,
     RowsMatchHalls, Halled, Indexed
<1>15. CASE Close(q)
  BY <1>15 DEF Close, TypeOK, LegacyInv, PlaceInv, BackupInv, StampInv, PageInv,
     RowsMatchHalls, Halled, Indexed
<1>16. CASE \E i \in Ids : Delete(q, i)
  BY <1>16 DEF Delete, TypeOK, LegacyInv, PlaceInv, BackupInv, StampInv, PageInv,
     RowsMatchHalls, Halled, Indexed
<1>17. CASE \E i \in Ids, h \in Halls : Upsert(q, i, h)
  BY <1>17 DEF Upsert, TypeOK, LegacyInv, PlaceInv, BackupInv, StampInv, PageInv,
     RowsMatchHalls, Halled, Indexed
<1>18. CASE UNCHANGED vars
  <2>1. LegacyInv'
    BY <1>18 DEF vars, TypeOK, LegacyInv, PlaceInv, Indexed
  <2>2. PlaceInv'
    BY <1>18 DEF vars, TypeOK, LegacyInv, PlaceInv, StampInv, Halled
  <2>3. BackupInv'
    BY <1>18 DEF vars, TypeOK, LegacyInv, PlaceInv, BackupInv, Indexed
  <2>4. StampInv'
    BY <1>18 DEF vars, TypeOK, LegacyInv, PlaceInv, StampInv, Halled
  <2>5. RowsMatchHalls'
    BY <1>18 DEF vars, TypeOK, PlaceInv, PageInv, RowsMatchHalls, Indexed
  <2>6. PageInv'
    BY <1>18 DEF vars, TypeOK, PlaceInv, PageInv
  <2> QED
    BY <2>1, <2>2, <2>3, <2>4, <2>5, <2>6
<1> QED
  BY <1>1, <1>2, <1>3, <1>4, <1>5, <1>6, <1>7, <1>8, <1>9, <1>10, <1>11,
     <1>12, <1>13, <1>14, <1>15, <1>16, <1>17, <1>18
  DEF Next, Open, Use

\* The invariant holds in every state a lone process can bring the file to.
THEOREM MigrationInvariant ==
  ASSUME NEW q, Procs = {q}
  PROVE  Spec => []MigrationInv
<1>1. Init => MigrationInv
  <2> SUFFICES ASSUME Init PROVE MigrationInv
    OBVIOUS
  <2>1. \A p \in Procs : pc[p] = "closed"
    BY Zenon DEF Init
  <2>2. PlaceInv /\ PageInv
    BY <2>1 DEF PlaceInv, PageInv
  <2>3. CASE FreshFile
    <3>1. shape = "none" /\ drawers = {} /\ version = 0 /\ origin.schema = "fresh"
      BY <2>3 DEF FreshFile
    <3> QED
      BY <2>1, <2>2, <3>1
      DEF MigrationInv, LegacyInv, BackupInv, StampInv, RowsMatchHalls, Halled, Current
  <2>4. CASE V1File
    <3>1. shape = "legacy" /\ version = 0
      BY <2>4 DEF V1File
    <3>2. Indexed = drawers
      BY <2>4 DEF V1File, Init, Indexed
    <3>3. origin.schema = "v1" /\ drawers = origin.drawers
      <4>1. origin = [schema |-> "v1", drawers |-> drawers]
        BY <2>4 DEF V1File
      <4> QED
        BY <4>1
    <3>4. LegacyInv
      BY <2>1, <3>1, <3>2, <3>3 DEF LegacyInv, Current
    <3>5. BackupInv /\ StampInv /\ RowsMatchHalls
      BY <2>1, <3>1 DEF BackupInv, StampInv, RowsMatchHalls, Current
    <3> QED
      BY <2>2, <3>4, <3>5 DEF MigrationInv
  <2>5. CASE V2File
    <3>1. /\ shape = "current" /\ version = 2 /\ origin.schema = "v2" /\ hasHall
          /\ drawers \subseteq Ids /\ hall = [i \in Ids |-> "detected"]
          /\ rows = [i \in Ids |-> IF i \in drawers THEN "detected" ELSE "none"]
      BY <2>5 DEF V2File, Init
    <3> QED
      BY <2>1, <2>2, <3>1
      DEF MigrationInv, LegacyInv, BackupInv, StampInv, RowsMatchHalls, Halled, Current
  <2> QED
    BY <2>3, <2>4, <2>5 DEF Init
<1>2. TypeOK /\ MigrationInv /\ [Next]_vars => MigrationInv'
  BY MigrationStep
<1> QED
  BY <1>1, <1>2, MigrationTypes, PTL DEF Spec

\* A palace opened by one process at a time, however often that process dies on
\* the way: the v0.1 index is dropped only once a whole copy of it is on disk
\* (migrateToV2, createBackup).
THEOREM MigrationBackupHolds ==
  ASSUME NEW q, Procs = {q}
  PROVE  Spec => []BackupHolds
<1>1. MigrationInv => BackupHolds
  BY DEF MigrationInv, BackupInv, BackupHolds
<1> QED
  BY <1>1, MigrationInvariant, PTL

\* Under the same assumption no version stamp is written, and none survives,
\* over tables that are not the current ones or drawers without a hall (migrate).
THEOREM MigrationStampIsEarned ==
  ASSUME NEW q, Procs = {q}
  PROVE  Spec => []StampIsEarned
<1>1. MigrationInv => StampIsEarned
  BY DEF MigrationInv, LegacyInv, StampInv, PlaceInv, StampIsEarned, Halled
<1> QED
  BY <1>1, MigrationInvariant, PTL

\* Under the same assumption every indexed drawer is filed in the index under
\* the hall of its own row, whichever attempt indexed it (reembedAll).
THEOREM MigrationRowsMatchHalls ==
  ASSUME NEW q, Procs = {q}
  PROVE  Spec => []RowsMatchHalls
<1>1. MigrationInv => RowsMatchHalls
  BY DEF MigrationInv
<1> QED
  BY <1>1, MigrationInvariant, PTL

-----------------------------------------------------------------------------
(* What an open palace may rely on while no attempt at opening it failed.  *)
(* The parts say, in turn: an index is missing only where none was ever    *)
(* made, or between Drop and Create; outside the re-embedding every drawer *)
(* is in it; its width is the recorded dimension, or that of the embedder  *)
(* which is about to record it; and the cursor of the re-embedding leaves  *)
(* no drawer behind.                                                       *)

Downward(S) == \A i \in S, j \in Ids : j <= i => j \in S
Batch(p) == {i \in Ids : page[p][i] # "none"}

NoIndexInv == \A p \in Procs : shape = "none" =>
   /\ origin.schema = "fresh" \/ pc[p] = "create"
   /\ origin.schema = "fresh" => drawers = {} /\ dim = Unset
WholeInv == \A p \in Procs :
   shape = "current" /\ pc[p] \notin {"read", "insert"} => drawers \subseteq Indexed
WidthInv == \A p \in Procs :
   /\ shape = "current" /\ dim # Unset => width = dim
   /\ shape = "current" /\ dim = Unset =>
        /\ pc[p] \in {"decide", "read", "insert", "stamp", "readdim", "writedim"}
        /\ width = emb[p]
   /\ pc[p] \in {"backup", "alter", "backfill", "drop", "create"} => dim \in {Unset, emb[p]}
   /\ pc[p] \in {"read", "insert", "stamp", "writedim"} => width = emb[p]
   /\ pc[p] = "open" => dim = emb[p]
CursorInv == \A p \in Procs :
   /\ pc[p] \in {"read", "insert"} =>
        Indexed \subseteq passed[p] /\ drawers \cap passed[p] \subseteq Indexed /\ Downward(passed[p])
   /\ pc[p] = "insert" =>
        /\ Batch(p) = FirstOf(drawers \ passed[p], ReembedBatch)
        /\ drawers \ passed[p] # {}
CleanInv == failures = 0 => NoIndexInv /\ WholeInv /\ WidthInv /\ CursorInv

\* A batch of at least one row is empty only if there are no rows (the loop
\* exit of reembedAll).
LEMMA FirstOfNone ==
  ASSUME NEW S \in SUBSET Ids, NEW n \in Nat \ {0}, S # {}
  PROVE  FirstOf(S, n) # {}
<1>1. PICK i \in S : \A j \in S : i <= j
  BY LeastId
<1>2. {j \in S : j < i} = {}
  <2> SUFFICES ASSUME NEW j \in S, j < i PROVE FALSE
    OBVIOUS
  <2>1. i <= j /\ i \in Nat /\ j \in Nat
    BY <1>1, MigrationAssumption
  <2> QED
    BY <2>1
<1>3. Cardinality({j \in S : j < i}) = 0
  BY <1>2, FS_EmptySet
<1>4. i \in FirstOf(S, n)
  BY <1>3 DEF FirstOf
<1> QED
  BY <1>4

\* A batch has no gap: what sorts before one of its rows is in it.
LEMMA FirstOfHasNoGap ==
  ASSUME NEW S \in SUBSET Ids, NEW n \in Nat, NEW i \in FirstOf(S, n), NEW j \in S, j <= i
  PROVE  j \in FirstOf(S, n)
<1>1. i \in Nat /\ j \in Nat /\ S \subseteq Nat
  BY MigrationAssumption DEF FirstOf
<1>2. {k \in S : k < j} \subseteq {k \in S : k < i}
  <2> SUFFICES ASSUME NEW k \in S, k < j PROVE k < i
    OBVIOUS
  <2> QED
    BY <1>1
<1>3. IsFiniteSet({k \in S : k < i})
  BY FS_Subset, MigrationAssumption
<1>4. /\ Cardinality({k \in S : k < j}) <= Cardinality({k \in S : k < i})
      /\ IsFiniteSet({k \in S : k < j})
  BY <1>2, <1>3, FS_Subset
<1>5. Cardinality({k \in S : k < j}) \in Nat /\ Cardinality({k \in S : k < i}) \in Nat
  BY <1>3, <1>4, FS_CardinalityType
<1>6. Cardinality({k \in S : k < i}) < n
  BY DEF FirstOf
<1>7. Cardinality({k \in S : k < j}) < n
  BY <1>4, <1>5, <1>6
<1> QED
  BY <1>7 DEF FirstOf

\* One transaction of reembedAll: it cannot collide with rows of an earlier one,
\* and leaves no drawer behind its cursor (ReembedInsert).
LEMMA InsertKeepsCursor ==
  ASSUME NEW q \in Procs, TypeOK, Downward(passed[q]), ReembedInsert(q),
         shape = "current", width = emb[q],
         Indexed \subseteq passed[q], drawers \cap passed[q] \subseteq Indexed,
         Batch(q) = FirstOf(drawers \ passed[q], ReembedBatch), drawers \ passed[q] # {}
  PROVE  /\ pc'[q] \in {"read", "stamp"}
         /\ Indexed' \subseteq passed'[q] /\ drawers' \cap passed'[q] \subseteq Indexed'
         /\ Downward(passed[q])'
         /\ pc'[q] = "stamp" => drawers' \subseteq Indexed'
<1> DEFINE S == drawers \ passed[q]
<1>0. S \in SUBSET Ids /\ Ids \subseteq Nat /\ passed[q] \subseteq Ids /\ drawers \subseteq Ids
      /\ ReembedBatch \in Nat \ {0} /\ ReembedBatch \in Nat
  BY MigrationAssumption DEF TypeOK
<1>1. Batch(q) \subseteq S /\ Batch(q) # {} /\ Batch(q) \subseteq Ids
  <2>1. FirstOf(S, ReembedBatch) # {}
    BY <1>0, FirstOfNone
  <2> QED
    BY <2>1, <1>0 DEF FirstOf
<1>2. Batch(q) \cap Indexed = {}
  BY <1>1
<1>3. /\ rows' = [i \in Ids |-> IF i \in Batch(q) THEN page[q][i] ELSE rows[i]]
      /\ passed'[q] = {j \in Ids : \E i \in Batch(q) : j <= i}
      /\ pc'[q] = IF Cardinality(Batch(q)) < ReembedBatch THEN "stamp" ELSE "read"
      /\ drawers' = drawers
  BY <1>2 DEF ReembedInsert, Batch, TypeOK, Goto
<1>4. Indexed' = Indexed \cup Batch(q)
  BY <1>3 DEF Indexed, Batch, TypeOK
<1>5. passed[q] \subseteq passed'[q]
  <2> SUFFICES ASSUME NEW j \in passed[q] PROVE \E i \in Batch(q) : j <= i
    BY <1>0, <1>3
  <2>1. PICK i \in Batch(q) : i \notin passed[q]
    BY <1>1
  <2>2. i \in Ids /\ j \in Ids /\ i \in Nat /\ j \in Nat
    BY <1>0, <1>1
  <2>3. ~(i <= j)
    BY <2>1, <2>2 DEF Downward
  <2> QED
    BY <2>2, <2>3
<1>6. Batch(q) \subseteq passed'[q]
  <2>1. ASSUME NEW i \in Batch(q) PROVE i \in Ids /\ i <= i
    <3>1. i \in Ids /\ i \in Nat
      BY <1>0, <1>1
    <3> QED
      BY <3>1
  <2> QED
    BY <1>3, <2>1
<1>7. drawers \cap passed'[q] \subseteq Indexed'
  <2> SUFFICES ASSUME NEW d \in drawers, d \in passed'[q], d \notin passed[q] PROVE d \in Batch(q)
    BY <1>4
  <2>1. PICK i \in Batch(q) : d <= i
    BY <1>3
  <2>2. i \in FirstOf(S, ReembedBatch) /\ d \in S
    BY <2>1
  <2>3. d \in FirstOf(S, ReembedBatch)
    BY <1>0, <2>1, <2>2, FirstOfHasNoGap
  <2> QED
    BY <2>3
<1>8. Downward(passed[q])'
  <2> SUFFICES ASSUME NEW i \in passed'[q], NEW j \in Ids, j <= i PROVE j \in passed'[q]
    BY DEF Downward
  <2>1. PICK k \in Batch(q) : i <= k
    BY <1>3
  <2>2. i \in Nat /\ j \in Nat /\ k \in Nat
    BY <1>0, <1>1, <1>3
  <2> QED
    BY <1>3, <2>1, <2>2
<1>9. pc'[q] = "stamp" => drawers' \subseteq Indexed'
  <2> SUFFICES ASSUME pc'[q] = "stamp" PROVE drawers \subseteq Indexed'
    BY <1>3
  <2>1. Cardinality(FirstOf(S, ReembedBatch)) < ReembedBatch
    BY <1>3
  <2>2. FirstOf(S, ReembedBatch) = S
    BY <1>0, <2>1, ShortBatchIsAll
  <2>3. Batch(q) = S
    BY <2>2
  <2> QED
    BY <2>3, <1>4
<1> QED
  BY <1>3, <1>4, <1>5, <1>6, <1>7, <1>8, <1>9

\* Every step of a lone process that does not fail preserves it.
LEMMA CleanStep ==
  ASSUME NEW q, Procs = {q}, TypeOK, MigrationInv, CleanInv, [Next]_vars
  PROVE  CleanInv'
<1> SUFFICES ASSUME failures' = 0 PROVE NoIndexInv' /\ WholeInv' /\ WidthInv' /\ CursorInv'
  BY DEF CleanInv
<1> USE MigrationAssumption DEF Goto, file, Current
<1>0. failures = 0
  <2>1. failures' = failures \/ failures' = failures + 1
    BY Zenon DEF Next, Probe, Open, Ddl, Decide, Backup, Alter, Backfill, Drop, Create,
       ReembedRead, ReembedInsert, Stamp, ReadDim, WriteDim, Fail, Close, Use, Upsert, Delete, vars
  <2> QED
    BY <2>1 DEF TypeOK
<1>a. NoIndexInv /\ WholeInv /\ WidthInv /\ CursorInv
  BY <1>0 DEF CleanInv
<1>1. CASE Probe(q)
  BY <1>a, <1>1 DEF Probe, TypeOK, NoIndexInv, WholeInv, WidthInv, CursorInv, Indexed
<1>2. CASE Ddl(q)
  BY <1>a, <1>2 DEF Ddl, TypeOK, NoIndexInv, WholeInv, WidthInv, CursorInv, Indexed, NoRows
<1>3. CASE Decide(q)
  <2>1. pc'[q] \in {"readdim", "closed", "backup", "stamp"} /\ pc[q] = "decide"
    BY <1>3 DEF Decide, TypeOK
  <2>2. NoIndexInv' /\ WholeInv' /\ CursorInv'
    BY <1>a, <1>3, <2>1 DEF Decide, NoIndexInv, WholeInv, CursorInv, Indexed
  <2>3. WidthInv'
    <3>1. pc'[q] = "stamp" => shape = "current"
      <4>1. shape # "legacy" \/ legacy[q]
        BY <2>1 DEF MigrationInv, LegacyInv
      <4>2. shape # "none"
        BY <2>1 DEF MigrationInv, PlaceInv
      <4> QED
        BY <4>1, <4>2, <1>3 DEF Decide, TypeOK
    <3>2. version = Current => shape = "current"
      BY DEF MigrationInv, StampInv
    <3> QED
      BY <1>a, <1>3, <3>1, <3>2 DEF Decide, TypeOK, WidthInv, MigrationInv, PlaceInv
  <2> QED
    BY <2>2, <2>3
<1>4. CASE Backup(q)
  BY <1>a, <1>4 DEF Backup, TypeOK, NoIndexInv, WholeInv, WidthInv, CursorInv, Indexed
<1>5. CASE Alter(q)
  BY <1>a, <1>5 DEF Alter, TypeOK, NoIndexInv, WholeInv, WidthInv, CursorInv, Indexed
<1>6. CASE Backfill(q)
  BY <1>a, <1>6 DEF Backfill, TypeOK, NoIndexInv, WholeInv, WidthInv, CursorInv, Indexed
<1>7. CASE Drop(q)
  BY <1>a, <1>7 DEF Drop, TypeOK, NoIndexInv, WholeInv, WidthInv, CursorInv, Indexed,
     MigrationInv, PlaceInv, LegacyInv
<1>8. CASE Create(q)
  <2>1. /\ shape = "none" /\ shape' = "current" /\ width' = emb[q] /\ rows' = NoRows
        /\ pc'[q] = "read" /\ passed'[q] = {} /\ UNCHANGED <<dim, emb, drawers, origin>>
    BY <1>8 DEF Create, TypeOK, MigrationInv, PlaceInv
  <2>2. Indexed' = {}
    BY <2>1 DEF Indexed, NoRows
  <2>3. dim \in {Unset, emb[q]}
    BY <1>a, <1>8 DEF WidthInv, Create
  <2> QED
    BY <2>1, <2>2, <2>3 DEF NoIndexInv, WholeInv, WidthInv, CursorInv, Downward
<1>9. CASE ReembedRead(q)
  <2> DEFINE S == drawers \ passed[q]
             B == FirstOf(S, ReembedBatch)
  <2>0. UNCHANGED <<file, emb, passed>> /\ pc[q] = "read"
    BY <1>9 DEF ReembedRead
  <2>1. /\ pc'[q] = IF B = {} THEN "stamp" ELSE "insert"
        /\ page'[q] = [i \in Ids |-> IF i \in B THEN hall[i] ELSE "none"]
    BY <1>9 DEF ReembedRead, TypeOK
  <2>2. S \in SUBSET Ids /\ ReembedBatch \in Nat \ {0} /\ B \subseteq S
    BY DEF TypeOK, FirstOf
  <2>3. B = {} => S = {}
    BY <2>2, FirstOfNone
  <2>4. Batch(q)' = B
    <3>1. \A i \in Ids : hall[i] # "none"
      BY DEF TypeOK, Halls
    <3>2. Batch(q)' = {i \in Ids : page'[q][i] # "none"}
      BY DEF Batch
    <3> HIDE DEF B
    <3> QED
      BY <2>1, <2>2, <3>1, <3>2
  <2>5. /\ Indexed \subseteq passed[q] /\ drawers \cap passed[q] \subseteq Indexed
        /\ Downward(passed[q])
    BY <1>a, <2>0 DEF CursorInv
  <2>6. Indexed' = Indexed /\ (Downward(passed[q]))' /\ B' = B /\ S' = S
    BY <2>0, <2>5 DEF Indexed, Downward, FirstOf
  <2>7. NoIndexInv' /\ WidthInv'
    BY <1>a, <2>0, <2>1 DEF NoIndexInv, WidthInv
  <2>8. WholeInv'
    BY <2>0, <2>1, <2>3, <2>5, <2>6 DEF WholeInv
  <2>9. CursorInv'
    <3> HIDE DEF B
    <3>1. B # {} => S' # {}
      BY <2>2, <2>6
    <3>2. pc'[q] = "insert" => B # {}
      BY <2>1
    <3>3. pc'[q] = "insert" =>
            /\ Batch(q)' = (FirstOf(drawers \ passed[q], ReembedBatch))'
            /\ (drawers \ passed[q])' # {}
      BY <3>1, <3>2, <2>4, <2>6 DEF B
    <3> QED
      BY <2>0, <2>5, <2>6, <3>3 DEF CursorInv
  <2> QED
    BY <2>7, <2>8, <2>9
<1>10. CASE ReembedInsert(q)
  <2>0. UNCHANGED <<origin, drawers, shape, width, dim, emb>> /\ pc[q] = "insert"
    BY <1>10 DEF ReembedInsert
  <2>1. shape = "current" /\ width = emb[q]
    BY <1>a, <2>0 DEF MigrationInv, PlaceInv, WidthInv
  <2>2. /\ pc'[q] \in {"read", "stamp"}
        /\ Indexed' \subseteq passed'[q] /\ drawers' \cap passed'[q] \subseteq Indexed'
        /\ Downward(passed[q])'
        /\ pc'[q] = "stamp" => drawers' \subseteq Indexed'
    <3>1. /\ Downward(passed[q])
          /\ Indexed \subseteq passed[q] /\ drawers \cap passed[q] \subseteq Indexed
          /\ Batch(q) = FirstOf(drawers \ passed[q], ReembedBatch) /\ drawers \ passed[q] # {}
      BY <1>a, <2>0 DEF CursorInv
    <3> QED
      BY <1>10, <2>1, <3>1, InsertKeepsCursor
  <2>3. NoIndexInv' /\ WidthInv'
    BY <1>a, <2>0, <2>1, <2>2 DEF NoIndexInv, WidthInv
  <2>4. WholeInv' /\ CursorInv'
    BY <2>2 DEF WholeInv, CursorInv
  <2> QED
    BY <2>3, <2>4
<1>11. CASE Stamp(q)
  BY <1>a, <1>11 DEF Stamp, TypeOK, NoIndexInv, WholeInv, WidthInv, CursorInv, Indexed
<1>12. CASE ReadDim(q)
  <2>1. /\ pc[q] = "readdim" /\ UNCHANGED <<file, emb>>
        /\ \/ pc'[q] = "writedim" /\ dim = Unset
           \/ pc'[q] = "open" /\ dim = emb[q] /\ dim # Unset
           \/ pc'[q] = "closed" /\ dim # Unset
    <3>1. /\ pc[q] = "readdim" /\ UNCHANGED <<file, emb>>
          /\ pc'[q] = CASE dim = Unset -> "writedim" [] dim = emb[q] -> "open" [] OTHER -> "closed"
      BY <1>12 DEF ReadDim, TypeOK
    <3>2. emb[q] # Unset
      BY DEF TypeOK, Unset
    <3>3. CASE dim = Unset
      BY <3>1, <3>2, <3>3
    <3>4. CASE dim # Unset
      BY <3>1, <3>4
    <3> QED
      BY <3>3, <3>4
  <2>2. shape = "current"
    BY <2>1 DEF MigrationInv, PlaceInv
  <2>3. NoIndexInv' /\ WholeInv' /\ CursorInv'
    BY <1>a, <2>1, <2>2 DEF NoIndexInv, WholeInv, CursorInv, Indexed
  <2>4. WidthInv'
    BY <1>a, <2>1, <2>2 DEF WidthInv
  <2> QED
    BY <2>3, <2>4
<1>13. CASE WriteDim(q)
  <2>1. /\ pc[q] = "writedim" /\ pc'[q] = "open" /\ dim' = emb[q]
        /\ UNCHANGED <<origin, drawers, shape, width, rows, emb>>
    BY <1>13 DEF WriteDim, TypeOK
  <2>2. shape = "current" /\ emb[q] # Unset
    BY <2>1 DEF MigrationInv, PlaceInv, TypeOK, Unset
  <2>3. NoIndexInv' /\ WholeInv' /\ CursorInv'
    BY <1>a, <2>1, <2>2 DEF NoIndexInv, WholeInv, CursorInv, Indexed
  <2>4. WidthInv'
    BY <1>a, <2>1, <2>2 DEF WidthInv
  <2> QED
    BY <2>3, <2>4
<1>14. CASE Fail(q)
  BY <1>0, <1>14 DEF Fail, TypeOK
<1>15. CASE Close(q)
  BY <1>a, <1>15 DEF Close, TypeOK, NoIndexInv, WholeInv, WidthInv, CursorInv, Indexed
<1>16. CASE \E i \in Ids : Delete(q, i)
  BY <1>a, <1>16 DEF Delete, TypeOK, NoIndexInv, WholeInv, WidthInv, CursorInv, Indexed
<1>17. CASE \E i \in Ids, h \in Halls : Upsert(q, i, h)
  <2>1. PICK i \in Ids, h \in Halls : Upsert(q, i, h)
    BY <1>17
  <2>2. /\ pc[q] = "open" /\ shape = "current"
        /\ UNCHANGED <<origin, shape, width, dim, emb, pc>>
        /\ drawers' = drawers \cup {i} /\ rows' = [rows EXCEPT ![i] = h]
    BY <2>1 DEF Upsert
  <2>3. Indexed' = Indexed \cup {i}
    <3>1. rows \in [Ids -> Halls \cup {"none"}] /\ h # "none"
      BY DEF Halls, TypeOK
    <3>2. \A j \in Ids : rows'[j] = IF j = i THEN h ELSE rows[j]
      BY <2>2, <3>1
    <3> QED
      BY <3>1, <3>2 DEF Indexed
  <2> QED
    BY <1>a, <2>2, <2>3 DEF NoIndexInv, WholeInv, WidthInv, CursorInv
<1>18. CASE UNCHANGED vars
  BY <1>a, <1>18 DEF vars, NoIndexInv, WholeInv, WidthInv, CursorInv, Indexed, Batch, Downward, FirstOf
<1> QED
  BY <1>1, <1>2, <1>3, <1>4, <1>5, <1>6, <1>7, <1>8, <1>9, <1>10, <1>11,
     <1>12, <1>13, <1>14, <1>15, <1>16, <1>17, <1>18
  DEF Next, Open, Use

\* Whatever file a lone process began with and however many drawers, batches and
\* embedders there are: while no attempt failed, an open palace is whole and of
\* its embedder's width.  The cursor of reembedAll passes over no drawer, and no
\* dimension is taken on trust (openDB, migrate, reembedAll).
THEOREM MigrationUnfailingOpenIsWhole ==
  ASSUME NEW q, Procs = {q}
  PROVE  Spec => []UnfailingOpenIsWhole
<1>1. Init => CleanInv
  <2> SUFFICES ASSUME Init PROVE NoIndexInv /\ WholeInv /\ WidthInv /\ CursorInv
    BY DEF CleanInv
  <2>1. pc[q] = "closed"
    BY DEF Init
  <2>2. CASE FreshFile
    BY <2>1, <2>2 DEF FreshFile, NoIndexInv, WholeInv, WidthInv, CursorInv
  <2>3. CASE V1File
    BY <2>1, <2>3 DEF V1File, NoIndexInv, WholeInv, WidthInv, CursorInv
  <2>4. CASE V2File
    <3>1. shape = "current" /\ width \in Dims /\ dim = width
          /\ rows = [i \in Ids |-> IF i \in drawers THEN "detected" ELSE "none"]
      BY <2>4 DEF V2File
    <3>2. drawers \subseteq Indexed
      BY <3>1 DEF Init, Indexed
    <3>3. dim # Unset
      BY <3>1, MigrationAssumption DEF Unset
    <3> QED
      BY <2>1, <3>1, <3>2, <3>3 DEF NoIndexInv, WholeInv, WidthInv, CursorInv
  <2> QED
    BY <2>2, <2>3, <2>4 DEF Init
<1>2. TypeOK /\ MigrationInv /\ CleanInv /\ [Next]_vars => CleanInv'
  BY CleanStep
<1>3. TypeOK /\ MigrationInv /\ CleanInv => UnfailingOpenIsWhole
  <2> SUFFICES ASSUME TypeOK, MigrationInv, CleanInv, failures = 0, pc[q] = "open"
               PROVE  drawers \subseteq Indexed /\ shape = "current" /\ width = emb[q]
    BY DEF UnfailingOpenIsWhole, OpenIsComplete, OpenHasWidth
  <2>1. shape = "current"
    BY DEF MigrationInv, PlaceInv
  <2>2. emb[q] # Unset
    BY MigrationAssumption DEF TypeOK, Unset
  <2> QED
    BY <2>1, <2>2 DEF CleanInv, WholeInv, WidthInv
<1> QED
  BY <1>1, <1>2, <1>3, MigrationTypes, MigrationInvariant, PTL DEF Spec
=============================================================================
