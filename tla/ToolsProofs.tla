------------------------------ MODULE ToolsProofs ------------------------------
(***************************************************************************)
(* The parts that run beside the palace, each for any number of processes, *)
(* sessions and files: the registry over the entities table, the legacy    *)
(* registry, the stop hook, the splitter and the embedding helper.         *)
(***************************************************************************)
EXTENDS EntityRegistry, LegacyRegistry, StopHook, Splitter, EmbedHelper, TLAPS

-----------------------------------------------------------------------------
(* EntityRegistry: a registry nobody writes past is the table, and so      *)
(* counts sightings as promised.                                           *)

\* No row was last seen in the future.
SeenBefore == \A k \in Keys : table[k] # Missing => table[k].last <= moment

RegistryInv == RegistryTypeOK /\ MemoryIsTable /\ SeenBefore

\* A write of p, at k, that the store takes.
Writes(p, k, row) == Persist(p, k, row) /\ Remember(p, k, row)

\* MergedRow is a row, and it is the table's with one sighting more if the
\* memory of p is the table.
LEMMA MergedRowIsRow ==
  ASSUME RegistryTypeOK, NEW p \in Processes, NEW k \in Keys, NEW kind \in Kinds
  PROVE  /\ MergedRow(p, k, kind) \in EntityRow
         /\ MergedRow(p, k, kind).last = moment
<1>1. rows[p][k] # Missing => rows[p][k] \in EntityRow
  BY DEF RegistryTypeOK
<1> QED BY <1>1, RegistryAssumption DEF MergedRow, EntityRow, RegistryTypeOK

LEMMA NewRowIsRow ==
  ASSUME RegistryTypeOK, NEW kind \in Kinds
  PROVE  [kind |-> kind, first |-> moment, last |-> moment, count |-> 1] \in EntityRow
  BY RegistryAssumption DEF EntityRow, RegistryTypeOK

\* A write through keeps the memory of its process the table, and disturbs the
\* others.
LEMMA WriteKeeps ==
  ASSUME RegistryInv, NEW p \in opened, NEW k \in Keys, NEW row \in EntityRow,
         row.last = moment, Writes(p, k, row), UNCHANGED <<opened, moment>>
  PROVE  RegistryInv'
<1>1. /\ table' = [table EXCEPT ![k] = row]
      /\ known' = [known EXCEPT ![p][k] = row.kind]
      /\ rows' = [rows EXCEPT ![p][k] = row]
      /\ disturbed' = disturbed \union (opened \ {p})
  BY DEF Writes, Persist, Remember
<1>2. row # Missing /\ row.kind \in Kinds /\ p \in Processes
  BY RegistryAssumption DEF EntityRow, RegistryInv, RegistryTypeOK
<1>3. RegistryTypeOK'
  BY <1>1, <1>2 DEF RegistryInv, RegistryTypeOK
<1>4. MemoryIsTable'
  <2> SUFFICES ASSUME NEW q \in opened \ disturbed'
               PROVE  /\ rows'[q] = table'
                      /\ \A j \in Keys : known'[q][j] =
                           IF table'[j] # Missing THEN table'[j].kind
                           ELSE IF j \in Seeds THEN known'[q][j] ELSE Missing
    BY DEF MemoryIsTable
  <2>1. q = p /\ q \in opened \ disturbed
    BY <1>1
  <2>2. /\ rows[p] = table
        /\ \A j \in Keys : known[p][j] = IF table[j] # Missing THEN table[j].kind
                                         ELSE IF j \in Seeds THEN known[p][j] ELSE Missing
    BY <2>1 DEF RegistryInv, MemoryIsTable
  <2>3. rows'[p] = [rows[p] EXCEPT ![k] = row]
    BY <1>1, <1>2 DEF RegistryInv, RegistryTypeOK
  <2>4. \A j \in Keys : known'[p][j] = IF j = k THEN row.kind ELSE known[p][j]
    BY <1>1, <1>2 DEF RegistryInv, RegistryTypeOK
  <2>5. \A j \in Keys : table'[j] = IF j = k THEN row ELSE table[j]
    BY <1>1 DEF RegistryInv, RegistryTypeOK
  <2> QED BY <1>1, <1>2, <2>1, <2>2, <2>3, <2>4, <2>5
<1>5. SeenBefore'
  BY <1>1 DEF RegistryInv, RegistryTypeOK, SeenBefore
<1> QED BY <1>3, <1>4, <1>5 DEF RegistryInv

\* What the store refuses changes nothing.
LEMMA RefusedKeeps ==
  ASSUME RegistryInv, UNCHANGED registryVars
  PROVE  RegistryInv'
  BY DEF RegistryInv, RegistryTypeOK, MemoryIsTable, SeenBefore, registryVars

LEMMA AddKeeps ==
  ASSUME RegistryInv, NEW p \in Processes, NEW k \in Keys, NEW kind \in Kinds, Add(p, k, kind)
  PROVE  RegistryInv'
<1> DEFINE row == [kind |-> kind, first |-> moment, last |-> moment, count |-> 1]
<1>1. row \in EntityRow /\ row.last = moment
  BY NewRowIsRow DEF RegistryInv
<1>2. p \in opened /\ UNCHANGED <<opened, moment>> /\ WriteThrough(p, k, row)
  BY DEF Add
<1> HIDE DEF row
<1> QED BY <1>1, <1>2, WriteKeeps, RefusedKeeps DEF WriteThrough, Writes, registryVars

LEMMA MergeKeeps ==
  ASSUME RegistryInv, NEW p \in Processes, NEW k \in Keys, NEW kind \in Kinds, Merge(p, k, kind)
  PROVE  RegistryInv'
<1>1. MergedRow(p, k, kind) \in EntityRow /\ MergedRow(p, k, kind).last = moment
  BY MergedRowIsRow DEF RegistryInv
<1>2. p \in opened /\ UNCHANGED <<opened, moment>> /\ WriteThrough(p, k, MergedRow(p, k, kind))
  BY DEF Merge
<1> QED BY <1>1, <1>2, WriteKeeps, RefusedKeeps DEF WriteThrough, Writes, registryVars

LEMMA NewRegistryKeeps ==
  ASSUME RegistryInv, NEW p \in Processes, NEW seeded \in BOOLEAN, NewRegistry(p, seeded)
  PROVE  RegistryInv'
<1>1. /\ p \notin opened /\ opened' = opened \union {p}
      /\ known' = [known EXCEPT ![p] = Loaded(seeded)] /\ rows' = [rows EXCEPT ![p] = table]
      /\ UNCHANGED <<table, moment, disturbed>>
  BY DEF NewRegistry
<1>2. \A k \in Keys : table[k] # Missing => table[k].kind \in Kinds
  BY DEF RegistryInv, RegistryTypeOK, EntityRow
<1>3. Loaded(seeded) \in [Keys -> Kinds \union {Missing}]
  BY <1>2, RegistryAssumption DEF Loaded
<1>4. RegistryTypeOK'
  BY <1>1, <1>3 DEF RegistryInv, RegistryTypeOK
<1>5. MemoryIsTable'
  <2> SUFFICES ASSUME NEW q \in opened' \ disturbed'
               PROVE  /\ rows'[q] = table
                      /\ \A k \in Keys : known'[q][k] =
                           IF table[k] # Missing THEN table[k].kind
                           ELSE IF k \in Seeds THEN known'[q][k] ELSE Missing
    BY <1>1 DEF MemoryIsTable
  <2>1. CASE q = p
    <3>1. rows'[q] = table /\ known'[q] = Loaded(seeded)
      BY <2>1, <1>1 DEF RegistryInv, RegistryTypeOK
    <3> QED BY <3>1 DEF Loaded
  <2>2. CASE q # p
    <3>1. q \in opened \ disturbed /\ q \in Processes
      BY <2>2, <1>1 DEF RegistryInv, RegistryTypeOK
    <3>2. rows'[q] = rows[q] /\ known'[q] = known[q]
      BY <2>2, <3>1, <1>1 DEF RegistryInv, RegistryTypeOK
    <3> QED BY <3>1, <3>2 DEF RegistryInv, MemoryIsTable
  <2> QED BY <2>1, <2>2
<1> QED BY <1>1, <1>4, <1>5 DEF RegistryInv, SeenBefore

LEMMA CloseRegistryKeeps ==
  ASSUME RegistryInv, NEW p \in Processes, CloseRegistry(p)
  PROVE  RegistryInv'
<1>1. /\ opened' = opened \ {p} /\ disturbed' = disturbed \ {p}
      /\ known' = [known EXCEPT ![p] = NoRows] /\ rows' = [rows EXCEPT ![p] = NoRows]
      /\ UNCHANGED <<table, moment>>
  BY DEF CloseRegistry
<1>2. NoRows \in [Keys -> Kinds \union {Missing}] /\ NoRows \in [Keys -> EntityRow \union {Missing}]
  BY DEF NoRows
<1>3. RegistryTypeOK'
  BY <1>1, <1>2 DEF RegistryInv, RegistryTypeOK
<1>4. ASSUME NEW q \in opened' \ disturbed'
      PROVE  q \in opened \ disturbed /\ rows'[q] = rows[q] /\ known'[q] = known[q]
  BY <1>1 DEF RegistryInv, RegistryTypeOK
<1>5. MemoryIsTable'
  BY <1>1, <1>4 DEF RegistryInv, MemoryIsTable
<1> QED BY <1>1, <1>3, <1>5 DEF RegistryInv, SeenBefore

\* A delete past the registries disturbs them all.
LEMMA EntityDeleteKeeps ==
  ASSUME RegistryInv, NEW k \in Keys, EntityDelete(k)
  PROVE  RegistryInv'
<1>1. /\ table' = [table EXCEPT ![k] = Missing] /\ disturbed' = opened
      /\ UNCHANGED <<known, rows, opened, moment>>
  BY DEF EntityDelete
<1>2. RegistryTypeOK'
  BY <1>1 DEF RegistryInv, RegistryTypeOK
<1>3. MemoryIsTable' /\ SeenBefore'
  BY <1>1 DEF RegistryInv, RegistryTypeOK, MemoryIsTable, SeenBefore
<1> QED BY <1>2, <1>3 DEF RegistryInv

LEMMA NextMomentKeeps ==
  ASSUME RegistryInv, NextMoment
  PROVE  RegistryInv'
<1>1. /\ moment' = moment + 1 /\ moment' \in 1..LastMoment
      /\ UNCHANGED <<table, known, rows, opened, disturbed>>
  BY RegistryAssumption DEF NextMoment, RegistryInv, RegistryTypeOK
<1>2. RegistryTypeOK' /\ MemoryIsTable'
  BY <1>1 DEF RegistryInv, RegistryTypeOK, MemoryIsTable
<1>3. \A k \in Keys : table[k] # Missing => table[k].last \in Int
  BY DEF RegistryInv, RegistryTypeOK, EntityRow
<1>4. SeenBefore'
  BY <1>1, <1>3 DEF RegistryInv, RegistryTypeOK, SeenBefore
<1> QED BY <1>2, <1>4 DEF RegistryInv

-----------------------------------------------------------------------------
(* The theorems. *)

THEOREM RegistryInvariant == RegistrySpec => []RegistryInv
<1>1. RegistryInit => RegistryInv
  BY RegistryAssumption
  DEF RegistryInit, RegistryInv, RegistryTypeOK, MemoryIsTable, SeenBefore, NoRows
<1>2. RegistryInv /\ [RegistryNext]_registryVars => RegistryInv'
  BY NewRegistryKeeps, AddKeeps, MergeKeeps, CloseRegistryKeeps, EntityDeleteKeeps,
     NextMomentKeeps, RefusedKeeps DEF RegistryNext
<1> QED BY <1>1, <1>2, PTL DEF RegistrySpec

\* The table and what processes remember of it stay well typed.
THEOREM RegistryTypes == RegistrySpec => []RegistryTypeOK
<1>1. RegistryInv => RegistryTypeOK
  BY DEF RegistryInv
<1> QED BY <1>1, RegistryInvariant, PTL

\* A registry that nothing writes past shows the table, failed writes included
\* (registry.go:66).
THEOREM RegistryMemoryIsTable == RegistrySpec => []MemoryIsTable
<1>1. RegistryInv => MemoryIsTable
  BY DEF RegistryInv
<1> QED BY <1>1, RegistryInvariant, PTL

\* Rows come of Add and Merge alone, never of a seed (registry.go:180).
THEOREM RegistryTableIsUserData == RegistrySpec => TableIsUserData
<1> DEFINE UserData ==
      \A k \in Keys : table[k] = Missing /\ table'[k] # Missing =>
         \E p \in opened, kind \in Kinds : Add(p, k, kind) \/ Merge(p, k, kind)
<1>1. RegistryInv /\ [RegistryNext]_registryVars => [UserData]_registryVars
  <2> SUFFICES ASSUME RegistryInv, RegistryNext, NEW k \in Keys,
                      table[k] = Missing, table'[k] # Missing
               PROVE  \E p \in opened, kind \in Kinds : Add(p, k, kind) \/ Merge(p, k, kind)
    OBVIOUS
  <2>1. PICK p \in Processes, j \in Keys, kind \in Kinds : Add(p, j, kind) \/ Merge(p, j, kind)
    BY DEF RegistryNext, NewRegistry, CloseRegistry, EntityDelete, NextMoment,
           RegistryInv, RegistryTypeOK
  <2>2. p \in opened
    BY <2>1 DEF Add, Merge
  <2>3. j = k
    BY <2>1 DEF Add, Merge, WriteThrough, Persist, RegistryInv, RegistryTypeOK
  <2> QED BY <2>1, <2>2, <2>3
<1> QED BY <1>1, RegistryInvariant, PTL DEF RegistrySpec, TableIsUserData

\* A table that every process with a registry knows counts each sighting once
\* and keeps the first (registry.go:92).
THEOREM RegistrySightingsCount == RegistrySpec => SightingsCount
<1> DEFINE Counts ==
      \A k \in Keys :
         /\ disturbed = {} /\ table'[k] # table[k]
         /\ table[k] # Missing /\ table'[k] # Missing
         => /\ table'[k].first = table[k].first /\ table'[k].last >= table[k].last
            /\ table'[k].count = table[k].count + 1
<1>1. RegistryInv /\ [RegistryNext]_registryVars => [Counts]_registryVars
  <2> SUFFICES ASSUME RegistryInv, RegistryNext, NEW k \in Keys,
                      disturbed = {}, table'[k] # table[k],
                      table[k] # Missing, table'[k] # Missing
               PROVE  /\ table'[k].first = table[k].first /\ table'[k].last >= table[k].last
                      /\ table'[k].count = table[k].count + 1
    OBVIOUS
  <2>1. PICK p \in Processes, j \in Keys, kind \in Kinds : Add(p, j, kind) \/ Merge(p, j, kind)
    BY DEF RegistryNext, NewRegistry, CloseRegistry, EntityDelete, NextMoment,
           RegistryInv, RegistryTypeOK
  <2>2. p \in opened \ disturbed
    BY <2>1 DEF Add, Merge
  <2>3. j = k
    BY <2>1 DEF Add, Merge, WriteThrough, Persist, RegistryInv, RegistryTypeOK
  <2>4. rows[p] = table /\ known[p][k] = table[k].kind /\ table[k] \in EntityRow
    BY <2>2 DEF RegistryInv, MemoryIsTable, RegistryTypeOK
  <2>5. ~Add(p, j, kind)
    BY <2>3, <2>4, RegistryAssumption DEF Add, EntityRow
  <2>6. table'[k] = MergedRow(p, k, kind)
    BY <2>1, <2>3, <2>5 DEF Merge, WriteThrough, Persist, RegistryInv, RegistryTypeOK
  <2>7. table[k].last <= moment
    BY DEF RegistryInv, SeenBefore
  <2>8. moment \in Int /\ table[k].last \in Int
    BY <2>4 DEF RegistryInv, RegistryTypeOK, EntityRow
  <2> QED BY <2>4, <2>6, <2>7, <2>8 DEF MergedRow
<1> QED BY <1>1, RegistryInvariant, PTL DEF RegistrySpec, SightingsCount

\* A row changes by a sighting that is counted as one, and by nothing else.
THEOREM RegistryRowsAreSightings == RegistrySpec => RowsAreSightings
BY RegistryTableIsUserData, RegistrySightingsCount DEF RowsAreSightings

-----------------------------------------------------------------------------
(* LegacyRegistry: who is a person whose name is a word is flagged, in     *)
(* every memory and on disk; and as long as nobody was careless there is   *)
(* one client at most, and it knows all that was ever saved.               *)

Flagged(data) == data.people \intersect CommonWords \subseteq data.flags

FlagsInv == /\ Flagged(jsonFile) /\ \A p \in Clients : Flagged(memory[p])
            /\ ~jsonFile.valid => jsonFile.people = {}
            /\ \A p \in Clients : memory[p].valid
LoneInv == ~careless =>
   /\ \A p, q \in Clients : client[p] # "none" /\ client[q] # "none" => p = q
   /\ \A p \in Clients : client[p] # "none" => everSaved \subseteq memory[p].people
   /\ (\A p \in Clients : client[p] # "saving") => everSaved \subseteq jsonFile.people
LegacyInv == LegacyTypeOK /\ FlagsInv /\ LoneInv

\* The registries a file may stand for are registries, and flagged.
LEMMA FilesAreRegistries ==
  /\ EmptyData \in RegistryData /\ Flagged(EmptyData)
  /\ EmptyData.valid /\ EmptyData.people = {}
  /\ Partial \in RegistryData /\ Flagged(Partial)
  /\ ~Partial.valid /\ Partial.people = {}
  /\ NoRegistry \in RegistryData /\ Flagged(NoRegistry)
  /\ ~NoRegistry.valid /\ NoRegistry.people = {}
BY DEF EmptyData, Partial, NoRegistry, RegistryData, Flagged

\* A step that lets what p remembers grow and then, or not, begins to save it:
\* what Seed, LearnFromText, Research and Save have in common.
LEMMA GrowingKeeps ==
  ASSUME LegacyInv, NEW p \in Clients, NEW data \in RegistryData,
         client[p] = "ready", data.valid, Flagged(data), memory[p].people \subseteq data.people,
         memory' = [memory EXCEPT ![p] = data],
         Truncates(p) \/ UNCHANGED <<jsonFile, client>>,
         UNCHANGED <<careless, everSaved>>
  PROVE  LegacyInv'
<1>1. \A q \in Clients : memory'[q] = IF q = p THEN data ELSE memory[q]
  BY DEF LegacyInv, LegacyTypeOK
<1>2. \/ jsonFile' = Partial /\ \A q \in Clients : client'[q] = IF q = p THEN "saving" ELSE client[q]
      \/ UNCHANGED <<jsonFile, client>>
  BY DEF Truncates, LegacyInv, LegacyTypeOK
<1>3. LegacyTypeOK'
  BY <1>1, FilesAreRegistries DEF Truncates, LegacyInv, LegacyTypeOK
<1>4. FlagsInv'
  BY <1>1, <1>2, FilesAreRegistries DEF LegacyInv, FlagsInv
<1>5. LoneInv'
  BY <1>1, <1>2 DEF LegacyInv, LoneInv
<1> QED BY <1>3, <1>4, <1>5 DEF LegacyInv

LEMMA LegacyStep ==
  ASSUME LegacyInv, [LegacyNext]_legacyVars
  PROVE  LegacyInv'
<1>1. ASSUME NEW p \in Clients, LoadRegistry(p) PROVE LegacyInv'
  <2> DEFINE data == IF jsonFile.valid THEN jsonFile ELSE EmptyData
  <2>1. /\ data \in RegistryData /\ Flagged(data) /\ data.valid
        /\ data.people = jsonFile.people
    BY FilesAreRegistries DEF LegacyInv, LegacyTypeOK, FlagsInv
  <2> HIDE DEF data
  <2>2. /\ client[p] = "none"
        /\ memory' = [memory EXCEPT ![p] = data] /\ client' = [client EXCEPT ![p] = "ready"]
        /\ careless' = (careless \/ \E q \in Clients : client[q] # "none")
        /\ UNCHANGED <<jsonFile, everSaved>>
    BY <1>1 DEF LoadRegistry, data
  <2>3. LegacyTypeOK' /\ FlagsInv'
    BY <2>1, <2>2 DEF LegacyInv, LegacyTypeOK, FlagsInv
  <2>4. LoneInv'
    <3> SUFFICES ASSUME ~careless' PROVE LoneInv'
      BY DEF LoneInv
    <3>1. \A q \in Clients : client[q] = "none"
      BY <2>2
    <3>2. everSaved \subseteq data.people
      BY <2>1, <2>2, <3>1 DEF LegacyInv, LoneInv
    <3>3. \A q \in Clients : q # p => client'[q] = "none"
      BY <2>2, <3>1 DEF LegacyInv, LegacyTypeOK
    <3>4. memory'[p] = data /\ client'[p] = "ready"
      BY <2>2 DEF LegacyInv, LegacyTypeOK
    <3> QED BY <2>1, <2>2, <3>2, <3>3, <3>4 DEF LoneInv
  <2> QED BY <2>3, <2>4 DEF LegacyInv
<1>2. ASSUME NEW p \in Clients, Save(p) PROVE LegacyInv'
  <2>1. memory' = [memory EXCEPT ![p] = memory[p]] /\ memory[p] \in RegistryData
    BY <1>2 DEF Save, LegacyInv, LegacyTypeOK
  <2> QED BY <1>2, <2>1, GrowingKeeps DEF Save, LegacyInv, FlagsInv
<1>3. ASSUME NEW p \in Clients, SaveEnds(p) PROVE LegacyInv'
  <2>1. /\ client[p] = "saving" /\ jsonFile' = memory[p]
        /\ everSaved' = everSaved \union memory[p].people
        /\ client' = [client EXCEPT ![p] = "ready"] /\ UNCHANGED <<memory, careless>>
    BY <1>3 DEF SaveEnds
  <2>2. memory[p] \in RegistryData /\ memory[p].people \subseteq Words
    BY DEF LegacyInv, LegacyTypeOK, RegistryData
  <2>3. LegacyTypeOK' /\ FlagsInv'
    BY <2>1, <2>2 DEF LegacyInv, LegacyTypeOK, FlagsInv
  <2>4. LoneInv'
    BY <2>1 DEF LegacyInv, LegacyTypeOK, LoneInv
  <2> QED BY <2>3, <2>4 DEF LegacyInv
<1>4. ASSUME NEW p \in Clients, NEW people \in SUBSET Words, NEW projects \in ProjectLists,
             Seed(p, people, projects)
      PROVE LegacyInv'
  <2> DEFINE data == [memory[p] EXCEPT
         !.people = @ \union people, !.projects = projects,
         !.flags = (memory[p].people \union people) \intersect CommonWords]
  <2>1. memory[p] \in RegistryData /\ memory[p].valid
    BY DEF LegacyInv, LegacyTypeOK, FlagsInv
  <2>2. data \in RegistryData /\ data.valid /\ Flagged(data) /\ memory[p].people \subseteq data.people
    BY <2>1, LegacyAssumption DEF RegistryData, Flagged
  <2>3. memory' = [memory EXCEPT ![p] = data]
    BY <1>4 DEF Seed, LegacyInv, LegacyTypeOK
  <2> HIDE DEF data
  <2> QED BY <1>4, <2>2, <2>3, GrowingKeeps DEF Seed
<1>5. ASSUME NEW p \in Clients, NEW persons \in SUBSET Words, LearnFromText(p, persons)
      PROVE LegacyInv'
  <2> DEFINE learned == persons \ (memory[p].people \union memory[p].projects)
             data == [memory[p] EXCEPT
               !.people = @ \union learned, !.flags = @ \union (learned \intersect CommonWords)]
  <2>1. memory[p] \in RegistryData /\ memory[p].valid /\ Flagged(memory[p])
    BY DEF LegacyInv, LegacyTypeOK, FlagsInv
  <2>2. data \in RegistryData /\ data.valid /\ Flagged(data) /\ memory[p].people \subseteq data.people
    BY <2>1, LegacyAssumption DEF RegistryData, Flagged
  <2>3. memory' = [memory EXCEPT ![p] = data]
    BY <1>5 DEF LearnFromText, LegacyInv, LegacyTypeOK
  <2> HIDE DEF data
  <2> QED BY <1>5, <2>2, <2>3, GrowingKeeps DEF LearnFromText
<1>6. ASSUME NEW p \in Clients, NEW w \in Researched, NEW type \in Answers, NEW ok \in BOOLEAN,
             Research(p, w, type, ok)
      PROVE LegacyInv'
  <2> DEFINE data == [memory[p] EXCEPT !.cache[w] = [type |-> type, confirmed |-> ok]]
  <2>1. memory[p] \in RegistryData /\ memory[p].valid /\ Flagged(memory[p])
    BY DEF LegacyInv, LegacyTypeOK, FlagsInv
  <2>2. data \in RegistryData /\ data.valid /\ Flagged(data) /\ memory[p].people \subseteq data.people
    BY <2>1 DEF RegistryData, CachedAnswer, Flagged
  <2>3. memory' = [memory EXCEPT ![p] = data]
    BY <1>6 DEF Research, LegacyInv, LegacyTypeOK
  <2> HIDE DEF data
  <2> QED BY <1>6, <2>2, <2>3, GrowingKeeps DEF Research
<1>7. ASSUME NEW p \in Clients, Leave(p) PROVE LegacyInv'
  <2>1. /\ client[p] # "none"
        /\ client' = [client EXCEPT ![p] = "none"]
        /\ memory' = [memory EXCEPT ![p] = EmptyData]
        /\ careless' = (careless \/ client[p] = "saving")
        /\ UNCHANGED <<jsonFile, everSaved>>
    BY <1>7 DEF Leave
  <2>2. LegacyTypeOK' /\ FlagsInv'
    BY <2>1, FilesAreRegistries DEF LegacyInv, LegacyTypeOK, FlagsInv
  <2>3. LoneInv'
    <3> SUFFICES ASSUME ~careless' PROVE LoneInv'
      BY DEF LoneInv
    <3>1. client[p] # "saving" /\ \A q \in Clients : q # p => client[q] = "none"
      BY <2>1 DEF LegacyInv, LoneInv
    <3>2. everSaved \subseteq jsonFile.people
      BY <2>1, <3>1 DEF LegacyInv, LoneInv
    <3>3. \A q \in Clients : client'[q] = "none"
      BY <2>1, <3>1 DEF LegacyInv, LegacyTypeOK
    <3> QED BY <2>1, <3>2, <3>3 DEF LoneInv
  <2> QED BY <2>2, <2>3 DEF LegacyInv
<1>8. CASE UNCHANGED legacyVars
  BY <1>8 DEF legacyVars, LegacyInv, LegacyTypeOK, FlagsInv, LoneInv
<1> QED BY <1>1, <1>2, <1>3, <1>4, <1>5, <1>6, <1>7, <1>8 DEF LegacyNext

\* Who was told to the legacy registry stays a person: whatever is seeded,
\* learned, researched, saved, cut short and loaded again by any number of
\* processes, a person whose name is a word gives way to the context, and unless
\* somebody was careless nobody who was saved is lost (registry.go:129-548).
THEOREM LegacyPeopleAreKnown == LegacySpec => []PeopleAreKnown
<1>1. LegacyInit => LegacyInv
  <2> SUFFICES ASSUME LegacyInit PROVE LegacyInv
    OBVIOUS
  <2>1. LegacyTypeOK /\ FlagsInv
    BY FilesAreRegistries DEF LegacyInit, LegacyTypeOK, FlagsInv
  <2>2. LoneInv
    BY DEF LegacyInit, LoneInv
  <2> QED BY <2>1, <2>2 DEF LegacyInv
<1>2. LegacyInv /\ [LegacyNext]_legacyVars => LegacyInv'
  BY LegacyStep
<1>3. LegacyInv => PeopleAreKnown
  <2> SUFFICES ASSUME LegacyInv PROVE ContextDecides /\ PeopleStay
    BY DEF LegacyInv, PeopleAreKnown
  <2>1. ContextDecides
    BY DEF LegacyInv, FlagsInv, Flagged, ContextDecides, Lookup
  <2>2. PeopleStay
    BY DEF LegacyInv, LoneInv, PeopleStay
  <2> QED BY <2>1, <2>2
<1> QED BY <1>1, <1>2, <1>3, PTL DEF LegacySpec

-----------------------------------------------------------------------------
(* StopHook: the file of a session that has it for itself never tells more *)
(* than the transcript held when a block was last decided, and, unless a   *)
(* write was lost, never less than the blocks there were are worth.        *)

\* A transcript holds no more than was spoken, and a hook counts no more of it
\* than there is.
CountInv == \A s \in Sessions :
    /\ human[s] <= spoken[s] /\ seen[s] <= spoken[s] /\ ordered[s] <= spoken[s]
    /\ stopping[s].count <= seen[s]

\* The file, and what a hook that runs knows of it.
FileInv == \A s \in Sessions : Owns(s) =>
    /\ lastSave[SanitizedID[s]] <= ordered[s]
    /\ stopping[s].stage = "read" => stopping[s].saved = lastSave[SanitizedID[s]]
    /\ stopping[s].stage = "truncated" => stopping[s].count <= ordered[s]

\* What n saves are worth.
Worth(n) == n * SaveInterval

\* The blocks of s are paid for by the file, the one on its way included.
Paid(s) ==
    /\ stopping[s].stage \notin {"truncated", "saved"} =>
         Worth(blocks[s]) <= lastSave[SanitizedID[s]]
    /\ stopping[s].stage = "truncated" => Worth(blocks[s] + 1) <= stopping[s].count
    /\ stopping[s].stage = "saved" => Worth(blocks[s] + 1) <= lastSave[SanitizedID[s]]

PaidInv == \A s \in Sessions : Owns(s) /\ s \notin disowned => Paid(s)

HookInv == HookTypeOK /\ CountInv /\ FileInv /\ PaidInv

LEMMA WorthIsNat ==
  ASSUME NEW n \in Nat
  PROVE  Worth(n) \in Nat /\ Worth(n + 1) = Worth(n) + SaveInterval
BY HookAssumption DEF Worth

\* A session has an identifier.
LEMMA SessionsHaveIds == \A s \in Sessions : SanitizedID[s] \in Ids
BY DEF Ids

\* A hook of another session touches nothing of a session with a file of its own.
LEMMA OthersKeepOff ==
  ASSUME HookTypeOK, HookNext, NEW s \in Sessions, Owns(s),
         NEW t \in Sessions, t # s,
         \/ Speak(t) \/ Shorten(t) \/ StopCounts(t) \/ StopReads(t) \/ SaveOpens(t)
         \/ SaveWrites(t) \/ StopBlocks(t) \/ StopPasses(t) \/ HookDies(t)
  PROVE  /\ lastSave'[SanitizedID[s]] = lastSave[SanitizedID[s]]
         /\ stopping'[s] = stopping[s] /\ ordered'[s] = ordered[s]
         /\ blocks'[s] = blocks[s] /\ (s \in disowned' <=> s \in disowned)
<1>1. SanitizedID[t] # SanitizedID[s]
  BY DEF Owns
<1> USE <1>1, SessionsHaveIds DEF HookTypeOK
<1>2. CASE Speak(t) \/ Shorten(t)
  BY <1>2 DEF Speak, Shorten
<1>3. CASE StopCounts(t) \/ StopReads(t)
  BY <1>3 DEF StopCounts, StopReads
<1>4. CASE SaveOpens(t)
  BY <1>4 DEF SaveOpens
<1>5. CASE SaveWrites(t)
  BY <1>5 DEF SaveWrites
<1>6. CASE StopBlocks(t) \/ StopPasses(t) \/ HookDies(t)
  BY <1>6 DEF StopBlocks, StopPasses, HookDies
<1> QED BY <1>2, <1>3, <1>4, <1>5, <1>6

LEMMA HookTypeStep ==
  ASSUME HookTypeOK, CountInv, [HookNext]_hookVars
  PROVE  HookTypeOK'
<1> USE HookAssumption, SessionsHaveIds DEF HookTypeOK, Messages
<1>0. \A stage \in Stages : Quiet(stage) \in [stage : Stages, count : Messages, saved : Messages]
  BY DEF Quiet
<1>a. "blocked" \in Stages /\ "passed" \in Stages /\ "dead" \in Stages
      /\ "counted" \in Stages /\ "read" \in Stages /\ "truncated" \in Stages
      /\ "saved" \in Stages
  BY DEF Stages, Over
<1> HIDE DEF Stages
<1>1. ASSUME NEW s \in Sessions, Speak(s) PROVE HookTypeOK'
  <2>1. human[s] + 1 \in Messages /\ spoken[s] + 1 \in Messages
    BY <1>1 DEF Speak, CountInv
  <2> QED BY <1>1, <2>1 DEF Speak
<1>2. ASSUME NEW s \in Sessions, Shorten(s) PROVE HookTypeOK'
  <2>1. PICK n \in 0..(human[s] - 1) : human' = [human EXCEPT ![s] = n]
    BY <1>2 DEF Shorten
  <2>2. n \in Messages
    OBVIOUS
  <2> QED BY <1>2, <2>1, <2>2 DEF Shorten
<1>3. ASSUME NEW s \in Sessions, StopCounts(s) PROVE HookTypeOK'
  <2>1. PICK count \in 0..human[s] :
          stopping' = [stopping EXCEPT ![s] =
                         [stage |-> "counted", count |-> count, saved |-> 0]]
    BY <1>3 DEF StopCounts
  <2>2. count \in Messages /\ 0 \in Messages /\ human[s] \in Messages
    OBVIOUS
  <2> QED BY <1>3, <1>a, <2>1, <2>2 DEF StopCounts
<1>4. ASSUME NEW s \in Sessions, StopReads(s) PROVE HookTypeOK'
  <2>1. lastSave[SanitizedID[s]] \in Messages
    OBVIOUS
  <2> QED BY <1>4, <1>a, <2>1 DEF StopReads
<1>5. ASSUME NEW s \in Sessions, SaveOpens(s) PROVE HookTypeOK'
  <2>1. 0 \in Messages
    OBVIOUS
  <2> QED BY <1>5, <1>a, <2>1 DEF SaveOpens
<1>6. ASSUME NEW s \in Sessions, SaveWrites(s) PROVE HookTypeOK'
  <2>1. stopping[s].count \in Messages
    OBVIOUS
  <2> QED BY <1>6, <1>a, <2>1 DEF SaveWrites
<1>7. ASSUME NEW s \in Sessions, StopBlocks(s) \/ StopPasses(s) \/ HookDies(s)
      PROVE  HookTypeOK'
  BY <1>7, <1>0, <1>a DEF StopBlocks, StopPasses, HookDies
<1>8. CASE UNCHANGED hookVars
  BY <1>8 DEF hookVars
<1> QED
  BY <1>1, <1>2, <1>3, <1>4, <1>5, <1>6, <1>7, <1>8 DEF HookNext

LEMMA CountStep ==
  ASSUME HookTypeOK, CountInv, [HookNext]_hookVars
  PROVE  CountInv'
<1> USE HookAssumption DEF HookTypeOK, CountInv, Messages
<1>1. ASSUME NEW s \in Sessions, Speak(s) \/ Shorten(s) PROVE CountInv'
  BY <1>1 DEF Speak, Shorten
<1>2. ASSUME NEW s \in Sessions, StopCounts(s) PROVE CountInv'
  BY <1>2 DEF StopCounts
<1>3. ASSUME NEW s \in Sessions, StopReads(s) PROVE CountInv'
  BY <1>3 DEF StopReads
<1>4. ASSUME NEW s \in Sessions, SaveOpens(s) PROVE CountInv'
  BY <1>4 DEF SaveOpens
<1>5. ASSUME NEW s \in Sessions, SaveWrites(s) PROVE CountInv'
  BY <1>5 DEF SaveWrites
<1>6. ASSUME NEW s \in Sessions, StopBlocks(s) \/ StopPasses(s) \/ HookDies(s)
      PROVE  CountInv'
  BY <1>6 DEF StopBlocks, StopPasses, HookDies, Quiet
<1>7. CASE UNCHANGED hookVars
  BY <1>7 DEF hookVars
<1> QED BY <1>1, <1>2, <1>3, <1>4, <1>5, <1>6, <1>7 DEF HookNext

\* The steps of the hooks of s itself.
LEMMA OwnStep ==
  ASSUME HookInv, NEW s \in Sessions, Owns(s),
         \/ Speak(s) \/ Shorten(s) \/ StopCounts(s) \/ StopReads(s) \/ SaveOpens(s)
         \/ SaveWrites(s) \/ StopBlocks(s) \/ StopPasses(s) \/ HookDies(s)
  PROVE  /\ lastSave'[SanitizedID[s]] <= ordered'[s]
         /\ stopping'[s].stage = "read" => stopping'[s].saved = lastSave'[SanitizedID[s]]
         /\ stopping'[s].stage = "truncated" => stopping'[s].count <= ordered'[s]
         /\ s \notin disowned' => Paid(s)'
<1> DEFINE f == lastSave[SanitizedID[s]]
           h == stopping[s]
<1>1. /\ f \in Nat /\ ordered[s] \in Nat /\ seen[s] \in Nat /\ h.count \in Nat /\ h.saved \in Nat
      /\ blocks[s] \in Nat /\ SaveInterval \in Nat \ {0} /\ SanitizedID[s] \in Ids
      /\ h.count <= seen[s] /\ f <= ordered[s]
      /\ h.stage = "read" => h.saved = f
      /\ h.stage = "truncated" => h.count <= ordered[s]
      /\ s \notin disowned => Paid(s)
  BY HookAssumption, SessionsHaveIds
  DEF HookInv, HookTypeOK, CountInv, FileInv, PaidInv, Messages
<1>2. /\ Worth(blocks[s]) \in Nat /\ Worth(blocks[s] + 1) = Worth(blocks[s]) + SaveInterval
  BY <1>1, WorthIsNat
<1>3. /\ DOMAIN stopping = Sessions /\ DOMAIN h = {"stage", "count", "saved"}
      /\ DOMAIN lastSave = Ids /\ DOMAIN ordered = Sessions /\ DOMAIN blocks = Sessions
  BY DEF HookInv, HookTypeOK
<1>4. CASE Speak(s) \/ Shorten(s)
  <2>1. UNCHANGED <<lastSave, stopping, ordered, blocks, disowned>>
    BY <1>4 DEF Speak, Shorten
  <2> QED BY <1>1, <2>1 DEF Paid
<1>5. CASE StopCounts(s)
  <2>1. stopping'[s].stage = "counted" /\ h.stage \notin {"truncated", "saved"}
    BY <1>3, <1>5 DEF StopCounts, Over
  <2>2. UNCHANGED <<lastSave, ordered, blocks, disowned>>
    BY <1>5 DEF StopCounts
  <2> QED BY <1>1, <2>1, <2>2 DEF Paid
<1>6. CASE StopReads(s)
  <2>1. stopping'[s].stage = "read" /\ stopping'[s].saved = f /\ h.stage = "counted"
    BY <1>3, <1>6 DEF StopReads
  <2>2. UNCHANGED <<lastSave, ordered, blocks, disowned>>
    BY <1>6 DEF StopReads
  <2> QED BY <1>1, <2>1, <2>2 DEF Paid
<1>7. CASE SaveOpens(s)
  <2>1. /\ h.stage = "read" /\ h.count - h.saved >= SaveInterval /\ ordered'[s] = seen[s]
        /\ blocks' = blocks
    BY <1>3, <1>7 DEF SaveOpens, Due, HookInv, HookTypeOK
  <2>2. CASE /\ lastSave' = [lastSave EXCEPT ![SanitizedID[s]] = 0]
             /\ stopping' = [stopping EXCEPT ![s].stage = "truncated"]
             /\ UNCHANGED disowned
    <3>1. /\ lastSave'[SanitizedID[s]] = 0 /\ stopping'[s].stage = "truncated"
          /\ stopping'[s].count = h.count
      BY <1>1, <1>3, <2>2
    <3>2. s \notin disowned' => Worth(blocks[s] + 1) <= h.count
      BY <1>1, <1>2, <2>1, <2>2 DEF Paid
    <3> QED BY <1>1, <2>1, <3>1, <3>2 DEF Paid
  <2>3. CASE /\ stopping' = [stopping EXCEPT ![s].stage = "saved"]
             /\ disowned' = disowned \cup {s}
             /\ UNCHANGED lastSave
    <3>1. stopping'[s].stage = "saved" /\ s \in disowned' /\ lastSave' = lastSave
      BY <1>3, <2>3
    <3> QED BY <1>1, <2>1, <3>1
  <2> QED BY <1>7, <2>2, <2>3 DEF SaveOpens
<1>8. CASE SaveWrites(s)
  <2>1. /\ h.stage = "truncated" /\ stopping'[s].stage = "saved"
        /\ UNCHANGED <<ordered, blocks>>
    BY <1>3, <1>8 DEF SaveWrites
  <2>2. \/ lastSave'[SanitizedID[s]] = h.count /\ disowned' = disowned
        \/ s \in disowned' /\ lastSave' = lastSave
    BY <1>1, <1>3, <1>8 DEF SaveWrites
  <2> QED BY <1>1, <2>1, <2>2 DEF Paid
<1>9. CASE StopBlocks(s)
  <2>1. /\ h.stage = "saved" /\ stopping'[s].stage = "blocked"
        /\ blocks'[s] = blocks[s] + 1 /\ UNCHANGED <<lastSave, ordered, disowned>>
    BY <1>3, <1>9 DEF StopBlocks, Quiet
  <2> QED BY <1>1, <2>1 DEF Paid
<1>10. CASE StopPasses(s)
  <2>1. /\ h.stage = "read" /\ stopping'[s].stage = "passed"
        /\ UNCHANGED <<lastSave, ordered, blocks, disowned>>
    BY <1>3, <1>10 DEF StopPasses, Quiet
  <2> QED BY <1>1, <2>1 DEF Paid
<1>11. CASE HookDies(s)
  <2>1. /\ stopping'[s].stage = "dead" /\ UNCHANGED <<lastSave, ordered, blocks>>
        /\ disowned' = IF h.stage = "truncated" THEN disowned \cup {s} ELSE disowned
    BY <1>3, <1>11 DEF HookDies, Quiet
  <2>2. s \notin disowned' => Worth(blocks[s]) <= f
    BY <1>1, <1>2, <2>1 DEF Paid
  <2> QED BY <1>1, <2>1, <2>2 DEF Paid
<1> QED BY <1>4, <1>5, <1>6, <1>7, <1>8, <1>9, <1>10, <1>11

LEMMA FileStep ==
  ASSUME HookInv, [HookNext]_hookVars
  PROVE  FileInv' /\ PaidInv'
<1>1. SUFFICES ASSUME NEW s \in Sessions, Owns(s)
      PROVE  /\ lastSave'[SanitizedID[s]] <= ordered'[s]
             /\ stopping'[s].stage = "read" => stopping'[s].saved = lastSave'[SanitizedID[s]]
             /\ stopping'[s].stage = "truncated" => stopping'[s].count <= ordered'[s]
             /\ s \notin disowned' => Paid(s)'
  BY DEF FileInv, PaidInv, Owns
<1>2. CASE UNCHANGED hookVars
  BY <1>1, <1>2 DEF HookInv, FileInv, PaidInv, Paid, hookVars
<1>3. CASE HookNext
  <2>1. PICK t \in Sessions :
          \/ Speak(t) \/ Shorten(t) \/ StopCounts(t) \/ StopReads(t) \/ SaveOpens(t)
          \/ SaveWrites(t) \/ StopBlocks(t) \/ StopPasses(t) \/ HookDies(t)
    BY <1>3 DEF HookNext
  <2>2. CASE t = s
    BY <1>1, <2>1, <2>2, OwnStep
  <2>3. CASE t # s
    <3>1. /\ lastSave'[SanitizedID[s]] = lastSave[SanitizedID[s]]
          /\ stopping'[s] = stopping[s] /\ ordered'[s] = ordered[s]
          /\ blocks'[s] = blocks[s] /\ (s \in disowned' <=> s \in disowned)
      BY <1>1, <1>3, <2>1, <2>3, OthersKeepOff DEF HookInv
    <3> QED BY <1>1, <3>1 DEF HookInv, FileInv, PaidInv, Paid
  <2> QED BY <2>2, <2>3
<1> QED BY <1>2, <1>3

\* Whatever transcripts grow and shrink, however much of one a hook reads and
\* wherever it dies: blocks are SaveInterval messages apart as long as every save
\* was recorded, and a stop is let through only with a transcript by fewer than
\* that longer than at the last decision to block, as long as all of it was read
\* (hooks.go:101-133); for every session with a file of its own.
THEOREM HookStopsAreCounted == HookSpec => StopsAreCounted
<1> DEFINE PassesSoon ==
      \A s \in Sessions :
         /\ Owns(s)
         /\ stopping[s].stage = "read" /\ stopping'[s].stage = "passed"
         /\ stopping[s].count = seen[s]
         => seen[s] - ordered[s] < SaveInterval
<1>1. HookInit => HookInv
  <2> SUFFICES ASSUME HookInit PROVE HookInv
    OBVIOUS
  <2>1. Worth(0) = 0
    BY HookAssumption DEF Worth
  <2>2. HookTypeOK
    BY HookAssumption DEF HookInit, HookTypeOK, Quiet, Messages, Stages, Over
  <2>3. CountInv /\ FileInv
    BY SessionsHaveIds DEF HookInit, CountInv, FileInv, Quiet
  <2>4. PaidInv
    BY <2>1, SessionsHaveIds DEF HookInit, PaidInv, Paid, Quiet
  <2> QED BY <2>2, <2>3, <2>4 DEF HookInv
<1>2. HookInv /\ [HookNext]_hookVars => HookInv'
  BY HookTypeStep, CountStep, FileStep DEF HookInv
<1>3. HookInv /\ [HookNext]_hookVars => [PassesSoon]_hookVars
  <2> SUFFICES ASSUME HookInv, HookNext, NEW s \in Sessions, Owns(s),
                      stopping[s].stage = "read", stopping'[s].stage = "passed",
                      stopping[s].count = seen[s]
               PROVE  seen[s] - ordered[s] < SaveInterval
    OBVIOUS
  <2>1. PICK t \in Sessions :
          \/ Speak(t) \/ Shorten(t) \/ StopCounts(t) \/ StopReads(t) \/ SaveOpens(t)
          \/ SaveWrites(t) \/ StopBlocks(t) \/ StopPasses(t) \/ HookDies(t)
    BY DEF HookNext
  <2>2. t = s
    BY <2>1, OthersKeepOff DEF HookInv
  <2>3. ~Due(stopping[s])
    BY <2>1, <2>2
    DEF HookInv, HookTypeOK, Speak, Shorten, StopCounts, StopReads, SaveOpens,
        SaveWrites, StopBlocks, StopPasses, HookDies, Quiet
  <2>4. /\ stopping[s].saved = lastSave[SanitizedID[s]]
        /\ lastSave[SanitizedID[s]] <= ordered[s]
    BY DEF HookInv, FileInv
  <2>5. /\ ordered[s] \in Nat /\ stopping[s].count \in Nat /\ lastSave[SanitizedID[s]] \in Nat
        /\ SaveInterval \in Nat \ {0}
    BY HookAssumption, SessionsHaveIds DEF HookInv, HookTypeOK, Messages
  <2> QED BY <2>3, <2>4, <2>5 DEF Due
<1>4. HookInv => SavesAreEarned
  <2> SUFFICES ASSUME HookInv, NEW s \in Sessions, Owns(s), s \notin disowned
               PROVE  Worth(blocks[s]) <= spoken[s]
    BY DEF SavesAreEarned, Worth
  <2>1. /\ blocks[s] \in Nat /\ spoken[s] \in Nat /\ ordered[s] \in Nat /\ seen[s] \in Nat
        /\ lastSave[SanitizedID[s]] \in Nat /\ stopping[s].count \in Nat
        /\ SaveInterval \in Nat
    BY HookAssumption, SessionsHaveIds DEF HookInv, HookTypeOK, Messages
  <2>2. Worth(blocks[s]) \in Nat /\ Worth(blocks[s] + 1) = Worth(blocks[s]) + SaveInterval
    BY <2>1, WorthIsNat
  <2>3. /\ lastSave[SanitizedID[s]] <= spoken[s] /\ stopping[s].count <= spoken[s]
    BY <2>1 DEF HookInv, CountInv, FileInv
  <2>4. Paid(s)
    BY DEF HookInv, PaidInv
  <2> QED BY <2>1, <2>2, <2>3, <2>4 DEF Paid
<1>5. HookInv => HookTypeOK
  BY DEF HookInv
<1> QED
  BY <1>1, <1>2, <1>3, <1>4, <1>5, PTL DEF HookSpec, StopsAreCounted, SilenceIsShort

-----------------------------------------------------------------------------
(* Splitter: an exported text is in a transcript or in a backup, and the   *)
(* file at hand is cut but for what is left to do.                         *)

JobInv ==
    /\ job \in [todo : SUBSET Stems, at : Stems \union {NoFile}, left : Seq(Texts), written : Nat]
    /\ \A f \in job.todo : txt[f] # NoFile
    /\ job.at # NoFile => txt[job.at] # NoFile
    /\ job.at \notin job.todo
TextsInv ==
    /\ \A f \in Stems : txt[f] # NoFile /\ backup[f] # NoFile => f \in again
    /\ again = {} => \A t \in exported : \E f \in Stems :
          \/ txt[f] # NoFile /\ t \in ToSet(txt[f])
          \/ backup[f] # NoFile /\ t \in ToSet(backup[f])
CutInv ==
    /\ job.at # NoFile =>
          \A t \in ToSet(SessionsOf(txt[job.at])) \ Short :
             t \in ToSet(job.left) \/ piece[SafeStem[job.at], NameOf[t]] # NoFile
    /\ BackupIsCut
SplitterInv == SplitterTypeOK /\ JobInv /\ TextsInv /\ CutInv

\* A piece has a name.
LEMMA PiecesHaveNames ==
  ASSUME NEW f \in Stems, NEW t \in Texts
  PROVE  <<SafeStem[f], NameOf[t]>> \in PieceNames
BY DEF PieceNames

\* What is cut out of a transcript are texts of it.
LEMMA SessionsAreTexts ==
  ASSUME NEW s \in Transcripts
  PROVE  SessionsOf(s) \in Seq(Texts) /\ ToSet(SessionsOf(s)) \subseteq Texts
<1>1. s \in Seq(Texts)
  BY SplitterAssumption
<1>2. SessionsOf(s) \in Seq(Texts)
  BY <1>1 DEF SessionsOf
<1> QED BY <1>2 DEF ToSet

LEMMA HeadOrTail ==
  ASSUME NEW s \in Seq(Texts), s # <<>>, NEW t \in ToSet(s), t # Head(s)
  PROVE  t \in ToSet(Tail(s))
<1>1. PICK i \in 1..Len(s) : t = s[i]
  BY DEF ToSet
<1>2. i # 1 /\ i - 1 \in 1..Len(Tail(s)) /\ Tail(s)[i - 1] = t
  BY <1>1
<1>3. Tail(s) \in Seq(Texts)
  OBVIOUS
<1>4. DOMAIN Tail(s) = 1..Len(Tail(s))
  BY <1>3
<1> QED BY <1>2, <1>4 DEF ToSet

LEMMA ExportKeeps ==
  ASSUME SplitterInv, NEW f \in Stems, NEW s \in Transcripts, Export(f, s)
  PROVE  SplitterInv'
<1> USE DEF SplitterInv, SplitterTypeOK
<1>1. /\ txt[f] = NoFile /\ txt' = [txt EXCEPT ![f] = s] /\ exported' = exported \union ToSet(s)
      /\ again' = IF backup[f] = NoFile THEN again ELSE again \union {f}
      /\ UNCHANGED <<piece, backup, job>>
  BY DEF Export
<1>2. s # NoFile /\ s \in Seq(Texts) /\ ToSet(s) \subseteq Texts
  <2>1. s # NoFile /\ s \in Seq(Texts)
    BY SplitterAssumption
  <2> QED BY <2>1 DEF ToSet
<1>3. SplitterTypeOK' /\ JobInv'
  BY <1>1, <1>2 DEF JobInv
<1>4. TextsInv'
  <2>1. \A g \in Stems : txt'[g] # NoFile /\ backup'[g] # NoFile => g \in again'
    BY <1>1 DEF TextsInv
  <2>2. ASSUME again' = {}, NEW t \in exported'
        PROVE  \E g \in Stems : \/ txt'[g] # NoFile /\ t \in ToSet(txt'[g])
                                \/ backup'[g] # NoFile /\ t \in ToSet(backup'[g])
    <3>1. CASE t \in ToSet(s)
      <4>1. txt'[f] = s
        BY <1>1
      <4> QED BY <1>2, <3>1, <4>1
    <3>2. CASE t \in exported
      <4>1. again = {}
        BY <1>1, <2>2
      <4>2. PICK g \in Stems : \/ txt[g] # NoFile /\ t \in ToSet(txt[g])
                               \/ backup[g] # NoFile /\ t \in ToSet(backup[g])
        BY <3>2, <4>1 DEF TextsInv
      <4>3. txt[g] # NoFile => txt'[g] = txt[g]
        BY <1>1
      <4> QED BY <1>1, <4>2, <4>3
    <3> QED BY <1>1, <2>2, <3>1, <3>2
  <2> QED BY <2>1, <2>2 DEF TextsInv
<1>5. CutInv'
  <2>1. job.at # NoFile => txt'[job.at] = txt[job.at]
    BY <1>1 DEF JobInv
  <2> QED BY <1>1, <2>1 DEF CutInv, BackupIsCut
<1> QED BY <1>3, <1>4, <1>5

LEMMA ScanKeeps ==
  ASSUME SplitterInv, ScanMegaFiles
  PROVE  SplitterInv'
<1> USE DEF SplitterInv, SplitterTypeOK
<1>1. /\ job'.at = NoFile /\ \A f \in job'.todo : txt[f] # NoFile
      /\ job' \in [todo : SUBSET Stems, at : Stems \union {NoFile}, left : Seq(Texts), written : Nat]
  BY DEF ScanMegaFiles, Idle
<1>2. UNCHANGED <<txt, piece, backup, exported, again>>
  BY DEF ScanMegaFiles
<1>3. SplitterTypeOK' /\ JobInv'
  BY <1>1, <1>2, SplitterAssumption DEF JobInv
<1>4. TextsInv' /\ CutInv'
  BY <1>1, <1>2 DEF TextsInv, CutInv, BackupIsCut
<1> QED BY <1>3, <1>4

LEMMA OpenMegaFileKeeps ==
  ASSUME SplitterInv, NEW f \in Stems, OpenMegaFile(f)
  PROVE  SplitterInv'
<1> USE DEF SplitterInv, SplitterTypeOK
<1>1. /\ job' = [todo |-> job.todo \ {f}, at |-> f, left |-> SessionsOf(txt[f]), written |-> 0]
      /\ f \in job.todo /\ UNCHANGED <<txt, piece, backup, exported, again>>
  BY DEF OpenMegaFile
<1>2. txt[f] # NoFile /\ txt[f] \in Transcripts
  BY <1>1 DEF JobInv
<1>3. SplitterTypeOK' /\ JobInv'
  BY <1>1, <1>2, SessionsAreTexts DEF JobInv
<1>4. TextsInv' /\ CutInv'
  BY <1>1 DEF TextsInv, CutInv, BackupIsCut
<1> QED BY <1>3, <1>4

LEMMA WritePieceKeeps ==
  ASSUME SplitterInv, WritePiece
  PROVE  SplitterInv'
<1> USE DEF SplitterInv, SplitterTypeOK
<1> DEFINE t == Head(job.left)
           n == <<SafeStem[job.at], NameOf[t]>>
<1>1. /\ job.at # NoFile /\ job.left # <<>> /\ job.at \in Stems /\ job.left \in Seq(Texts)
      /\ t \in Texts /\ Tail(job.left) \in Seq(Texts) /\ t # NoFile
  BY SplitterAssumption DEF WritePiece, JobInv
<1>2. n \in PieceNames
  BY <1>1, PiecesHaveNames
<1>3. /\ \/ t \in Short /\ UNCHANGED piece
         \/ piece' = [piece EXCEPT ![n] = t]
      /\ job'.at = job.at /\ job'.todo = job.todo /\ job'.left = Tail(job.left)
      /\ job' \in [todo : SUBSET Stems, at : Stems \union {NoFile}, left : Seq(Texts), written : Nat]
      /\ UNCHANGED <<txt, backup, exported, again>>
  <2> HIDE DEF t, n
  <2>1. /\ IF t \in Short
           THEN UNCHANGED piece /\ job' = [job EXCEPT !.left = Tail(@)]
           ELSE piece' = [piece EXCEPT ![n] = t] /\ job' = [job EXCEPT !.left = Tail(@), !.written = @ + 1]
        /\ UNCHANGED <<txt, backup, exported, again>>
    BY DEF WritePiece, t, n
  <2>2. job \in [todo : SUBSET Stems, at : Stems \union {NoFile}, left : Seq(Texts), written : Nat]
    BY DEF JobInv
  <2>3. CASE t \in Short
    BY <1>1, <2>1, <2>2, <2>3
  <2>4. CASE t \notin Short
    <3>1. piece' = [piece EXCEPT ![n] = t]
      BY <2>1, <2>4
    <3>2. job' = [job EXCEPT !.left = Tail(job.left), !.written = job.written + 1]
      BY <2>1, <2>4
    <3>3. job'.at = job.at /\ job'.todo = job.todo /\ job'.left = Tail(job.left)
      BY <2>2, <3>2
    <3>4. job' \in [todo : SUBSET Stems, at : Stems \union {NoFile}, left : Seq(Texts), written : Nat]
      <4>1. /\ job = [todo |-> job.todo, at |-> job.at, left |-> job.left, written |-> job.written]
            /\ job.todo \subseteq Stems /\ job.at \in Stems \union {NoFile} /\ job.written + 1 \in Nat
        BY <2>2
      <4>2. job' = [todo |-> job.todo, at |-> job.at, left |-> Tail(job.left), written |-> job.written + 1]
        BY <3>2, <4>1
      <4> QED BY <1>1, <4>1, <4>2
    <3> QED BY <2>1, <3>1, <3>3, <3>4
  <2> QED BY <2>3, <2>4
<1>4. SplitterTypeOK' /\ JobInv'
  BY <1>1, <1>3 DEF JobInv
<1>5. TextsInv'
  BY <1>3 DEF TextsInv
<1>6. \A m \in PieceNames : piece[m] # NoFile => piece'[m] # NoFile
  BY <1>1, <1>3
<1>7. CutInv'
  <2>1. BackupIsCut'
    <3> SUFFICES ASSUME NEW f \in Stems, backup[f] # NoFile,
                        NEW u \in ToSet(SessionsOf(backup[f])) \ Short
                 PROVE  piece'[SafeStem[f], NameOf[u]] # NoFile
      BY <1>3 DEF BackupIsCut
    <3>1. piece[SafeStem[f], NameOf[u]] # NoFile
      BY DEF CutInv, BackupIsCut
    <3>2. <<SafeStem[f], NameOf[u]>> \in PieceNames
      BY SessionsAreTexts, PiecesHaveNames
    <3> QED BY <3>1, <3>2, <1>6
  <2>2. ASSUME NEW u \in ToSet(SessionsOf(txt[job.at])) \ Short
        PROVE  u \in ToSet(Tail(job.left)) \/ piece'[SafeStem[job.at], NameOf[u]] # NoFile
    <3>1. CASE piece[SafeStem[job.at], NameOf[u]] # NoFile
      <4>1. txt[job.at] \in Transcripts
        BY <1>1 DEF JobInv
      <4>2. <<SafeStem[job.at], NameOf[u]>> \in PieceNames
        BY <1>1, <4>1, SessionsAreTexts, PiecesHaveNames
      <4> QED BY <3>1, <4>2, <1>6
    <3>2. CASE u \in ToSet(job.left) /\ u # t
      BY <1>1, <3>2, HeadOrTail
    <3>3. CASE u = t
      BY <1>1, <1>2, <1>3, <3>3
    <3> QED BY <1>1, <3>1, <3>2, <3>3 DEF CutInv
  <2> QED BY <1>1, <1>3, <2>1, <2>2 DEF CutInv
<1> QED BY <1>4, <1>5, <1>7

LEMMA RenameKeeps ==
  ASSUME SplitterInv, RenameMegaFile
  PROVE  SplitterInv'
<1> USE DEF SplitterInv, SplitterTypeOK
<1> DEFINE f == job.at
<1>1. /\ f \in Stems /\ txt[f] # NoFile /\ txt[f] \in Transcripts /\ job.left = <<>>
      /\ UNCHANGED <<piece, exported, again>>
  BY DEF RenameMegaFile, JobInv
<1>2. /\ job'.at = NoFile /\ job'.todo = job.todo
      /\ job' \in [todo : SUBSET Stems, at : Stems \union {NoFile}, left : Seq(Texts), written : Nat]
  BY DEF RenameMegaFile, JobInv
<1>3. CASE UNCHANGED <<txt, backup>>
  <2>1. SplitterTypeOK' /\ JobInv'
    BY <1>1, <1>2, <1>3, SplitterAssumption DEF JobInv
  <2>2. TextsInv' /\ CutInv'
    BY <1>1, <1>2, <1>3 DEF TextsInv, CutInv, BackupIsCut
  <2> QED BY <2>1, <2>2
<1>4. CASE backup' = [backup EXCEPT ![f] = txt[f]] /\ txt' = [txt EXCEPT ![f] = NoFile]
  <2>1. SplitterTypeOK' /\ JobInv'
    BY <1>1, <1>2, <1>4, SplitterAssumption DEF JobInv
  <2>2. TextsInv'
    <3>1. \A g \in Stems : txt'[g] # NoFile /\ backup'[g] # NoFile => g \in again'
      BY <1>1, <1>4 DEF TextsInv
    <3>2. ASSUME again = {}, NEW t \in exported
          PROVE  \E g \in Stems : \/ txt'[g] # NoFile /\ t \in ToSet(txt'[g])
                                  \/ backup'[g] # NoFile /\ t \in ToSet(backup'[g])
      <4>1. PICK g \in Stems : \/ txt[g] # NoFile /\ t \in ToSet(txt[g])
                               \/ backup[g] # NoFile /\ t \in ToSet(backup[g])
        BY <3>2 DEF TextsInv
      <4>2. backup[f] = NoFile
        BY <1>1, <3>2 DEF TextsInv
      <4>3. g # f => txt'[g] = txt[g] /\ backup'[g] = backup[g]
        BY <1>4
      <4>4. backup'[f] = txt[f]
        BY <1>1, <1>4
      <4> QED BY <1>1, <4>1, <4>2, <4>3, <4>4
    <3> QED BY <1>1, <3>1, <3>2 DEF TextsInv
  <2>3. CutInv'
    <3>1. \A t \in ToSet(SessionsOf(txt[f])) \ Short : piece[SafeStem[f], NameOf[t]] # NoFile
      <4>1. ToSet(job.left) = {}
        BY <1>1 DEF ToSet
      <4> QED BY <1>1, <4>1, SplitterAssumption DEF CutInv
    <3>2. BackupIsCut'
      BY <1>1, <1>4, <3>1 DEF CutInv, BackupIsCut
    <3> QED BY <1>2, <3>2 DEF CutInv
  <2> QED BY <2>1, <2>2, <2>3
<1> QED BY <1>3, <1>4 DEF RenameMegaFile

LEMMA BreakKeeps ==
  ASSUME SplitterInv, SplitBreaks
  PROVE  SplitterInv'
<1> USE DEF SplitterInv, SplitterTypeOK
<1>1. /\ job' = Idle /\ UNCHANGED <<txt, piece, backup, exported, again>>
  BY DEF SplitBreaks
<1>2. SplitterTypeOK' /\ JobInv'
  BY <1>1, SplitterAssumption DEF JobInv, Idle
<1>3. TextsInv' /\ CutInv'
  BY <1>1 DEF TextsInv, CutInv, BackupIsCut, Idle
<1> QED BY <1>2, <1>3

\* However many transcripts are exported and however often the splitter breaks
\* off: no text is lost unless its backup was written over by a second transcript
\* of the name, and each session of a backup that is long enough has a file, its
\* own or that of one of the same name (splitter.go:116-200).
THEOREM SplitterSessionsAreKept == SplitterSpec => []SessionsAreKept
<1>1. SplitterInit => SplitterInv
  <2> SUFFICES ASSUME SplitterInit PROVE SplitterInv
    OBVIOUS
  <2>1. SplitterTypeOK /\ JobInv
    BY SplitterAssumption DEF SplitterInit, SplitterTypeOK, JobInv, Idle
  <2>2. TextsInv /\ CutInv
    BY DEF SplitterInit, TextsInv, CutInv, BackupIsCut, Idle
  <2> QED BY <2>1, <2>2 DEF SplitterInv
<1>2. SplitterInv /\ [SplitterNext]_splitterVars => SplitterInv'
  <2> SUFFICES ASSUME SplitterInv, [SplitterNext]_splitterVars PROVE SplitterInv'
    OBVIOUS
  <2>1. CASE UNCHANGED splitterVars
    BY <2>1 DEF splitterVars, SplitterInv, SplitterTypeOK, JobInv, TextsInv, CutInv, BackupIsCut
  <2> QED BY <2>1, ExportKeeps, ScanKeeps, OpenMegaFileKeeps, WritePieceKeeps, RenameKeeps,
             BreakKeeps DEF SplitterNext
<1>3. SplitterInv => SessionsAreKept
  BY DEF SplitterInv, TextsInv, CutInv, SessionsAreKept, NoTextLost, Kept
<1> QED BY <1>1, <1>2, <1>3, PTL DEF SplitterSpec

-----------------------------------------------------------------------------
(* EmbedHelper: before the embedder is ready nobody uses it, and a caller  *)
(* in Embed has the mutex.  While no stray line came there is one line in  *)
(* both pipes together, of the caller that reads, or none.                 *)

LifeInv ==
    /\ embedder = "none" => helper = "none" /\ launcher = "none"
    /\ embedder = "failed" => ~Holds
    /\ launcher = "exited" => helper = "exited"
    /\ embedder # "ready" =>
         /\ ~closed
         /\ \A c \in Callers : calling[c] = "out"
         /\ \A d \in Closers : closing[d] = "out"
MutexInv == \A c \in Callers : calling[c] # "out" <=> mutex = c
PipeInv == strays = 0 =>
    /\ embedder = "none" => requests = <<>> /\ answers = <<>>
    /\ embedder = "probing" =>
         /\ requests = <<>> /\ answers \in {<<>>, <<"ready">>, <<"bad handshake">>}
         /\ helper = "loading" => answers = <<>>
    /\ embedder = "ready" =>
         /\ helper # "loading"
         /\ (\A c \in Callers : calling[c] # "reading") =>
               answers = <<>> /\ (Alive => requests = <<>>)
         /\ \A c \in Callers : calling[c] = "reading" =>
               \/ answers = <<c>> /\ (Alive => requests = <<>>)
               \/ answers = <<>> /\ (Alive => requests = <<c>>)
CloseInv ==
    /\ closed /\ Holds => \E d \in Closers : closing[d] \in {"waiting", "killing"}
    /\ \A d \in Closers : closing[d] \in {"waiting", "killing", "nil", "error"} => closed
    /\ closed => \/ helper = "exited"
                 \/ \E d \in Closers : closing[d] \in {"waiting", "killing", "error"}
HelperInv == EmbedTypeOK /\ LifeInv /\ MutexInv /\ PipeInv /\ AnswersAreOwn /\ CloseInv

\* What a pipe holds when one line was put into it, or the last one taken.
LEMMA OneLine ==
  \A l : Append(<<>>, l) = <<l>> /\ Head(<<l>>) = l /\ Tail(<<l>>) = <<>> /\ <<l>> # <<>>
OBVIOUS

\* A pipe stays one of lines.
LEMMA PipesAreOfLines ==
  ASSUME NEW S, NEW pipe \in Seq(S)
  PROVE  /\ \A l \in S : Append(pipe, l) \in Seq(S)
         /\ pipe # <<>> => Head(pipe) \in S /\ Tail(pipe) \in Seq(S)
OBVIOUS

LEMMA EmbedTypeStep ==
  ASSUME EmbedTypeOK, [HelperNext]_helperVars
  PROVE  EmbedTypeOK'
<1>0. /\ Callers \subseteq Lines /\ "ready" \in Lines /\ "bad handshake" \in Lines /\ "stray" \in Lines
  BY DEF Lines
<1>1. requests' \in Seq(Callers) /\ answers' \in Seq(Lines)
  <2>1. requests \in Seq(Callers) /\ answers \in Seq(Lines)
    BY DEF EmbedTypeOK
  <2>2. /\ \A c \in Callers : Append(requests, c) \in Seq(Callers)
        /\ requests # <<>> => Head(requests) \in Lines /\ Tail(requests) \in Seq(Callers)
        /\ \A l \in Lines : Append(answers, l) \in Seq(Lines)
        /\ answers # <<>> => Tail(answers) \in Seq(Lines)
    BY <1>0, <2>1, PipesAreOfLines
  <2>3. \/ UNCHANGED requests
        \/ \E c \in Callers : requests' = Append(requests, c)
        \/ requests # <<>> /\ requests' = Tail(requests)
    BY Zenon DEF HelperNext, SpawnHelper, ProbeReads, ProbeFails, ProbeReaps, HelperLoads,
       HelperStrays, HelperAnswers, HelperEnds, LauncherEnds, EmbedLocks, EmbedWrites,
       EmbedReads, Close, CloseLocks, CloseWaits, CloseKills, CloseReaps, helperVars
  <2>4. \/ UNCHANGED answers
        \/ answers' \in {Append(answers, "ready"), Append(answers, "bad handshake"),
                         Append(answers, "stray")}
        \/ requests # <<>> /\ answers' = Append(answers, Head(requests))
        \/ answers # <<>> /\ answers' = Tail(answers)
    BY Zenon DEF HelperNext, SpawnHelper, ProbeReads, ProbeFails, ProbeReaps, HelperLoads,
       HelperStrays, HelperAnswers, HelperEnds, LauncherEnds, EmbedLocks, EmbedWrites,
       EmbedReads, Close, CloseLocks, CloseWaits, CloseKills, CloseReaps, helperVars, Prints
  <2> QED BY <1>0, <2>1, <2>2, <2>3, <2>4
<1>2. strays' \in 0..MaxStrays
  <2>1. UNCHANGED strays \/ (strays < MaxStrays /\ strays' = strays + 1)
    BY Zenon DEF HelperNext, SpawnHelper, ProbeReads, ProbeFails, ProbeReaps, HelperLoads,
       HelperStrays, HelperAnswers, HelperEnds, LauncherEnds, EmbedLocks, EmbedWrites,
       EmbedReads, Close, CloseLocks, CloseWaits, CloseKills, CloseReaps, helperVars
  <2>2. MaxStrays \in Nat /\ strays \in 0..MaxStrays
    BY HelperAssumption DEF EmbedTypeOK
  <2> QED BY <2>1, <2>2
<1> DEFINE Rest ==
       /\ embedder \in {"none", "probing", "ready", "reaping", "failed"}
       /\ helper \in {"none", "loading", "serving", "exited", "failed", "killed"}
       /\ launcher \in {"none", "running", "exited", "failed", "killed"}
       /\ mutex \in Callers \union {Nobody} /\ closed \in BOOLEAN
       /\ calling \in [Callers -> {"out", "writing", "reading"}]
       /\ got \in [Callers -> Callers \union {"nothing", "error", "ErrClosed"}]
       /\ closing \in [Closers -> {"out", "locking", "waiting", "killing", "nil", "error"}]
<1>3. Rest'
  <2>0. Rest
    BY DEF EmbedTypeOK
  <2>1. CASE HelperLoads \/ HelperStrays \/ HelperAnswers \/ HelperEnds \/ LauncherEnds
    BY <2>0, <2>1 DEF HelperLoads, HelperStrays, HelperAnswers, HelperEnds, LauncherEnds
  <2>2. CASE SpawnHelper \/ ProbeReads \/ ProbeFails \/ ProbeReaps
    BY <2>0, <2>2 DEF SpawnHelper, ProbeReads, ProbeFails, ProbeReaps, Kill
  <2>3. ASSUME NEW c \in Callers, EmbedLocks(c) PROVE Rest'
    BY <2>0, <2>3 DEF EmbedLocks
  <2>4. ASSUME NEW c \in Callers, EmbedWrites(c) PROVE Rest'
    BY <2>0, <2>4 DEF EmbedWrites, Returns
  <2>5. ASSUME NEW c \in Callers, EmbedReads(c) PROVE Rest'
    <3>1. PICK result \in Callers \union {"error"} : Returns(c, result)
      BY <2>5 DEF EmbedReads
    <3> QED BY <2>0, <2>5, <3>1 DEF EmbedReads, Returns
  <2>6. ASSUME NEW d \in Closers,
               Close(d) \/ CloseLocks(d) \/ CloseWaits(d) \/ CloseKills(d) \/ CloseReaps(d)
        PROVE  Rest'
    BY <2>0, <2>6 DEF Close, CloseLocks, CloseWaits, CloseKills, CloseReaps, Kill
  <2>7. CASE UNCHANGED helperVars
    BY <2>0, <2>7 DEF helperVars
  <2> QED BY <2>1, <2>2, <2>3, <2>4, <2>5, <2>6, <2>7 DEF HelperNext
<1> QED BY <1>1, <1>2, <1>3 DEF EmbedTypeOK

LEMMA LifeStep ==
  ASSUME EmbedTypeOK, LifeInv, MutexInv, CloseInv, [HelperNext]_helperVars
  PROVE  LifeInv' /\ MutexInv' /\ CloseInv'
<1>1. CASE HelperLoads \/ HelperStrays \/ HelperAnswers \/ HelperEnds \/ LauncherEnds
  <2>1. /\ UNCHANGED <<embedder, mutex, closed, calling, closing>>
        /\ Holds' => Holds
        /\ UNCHANGED helper \/ Alive
        /\ UNCHANGED launcher \/ launcher = "running"
        /\ launcher' = "exited" /\ launcher # "exited" => helper = "exited" /\ helper' = helper
    BY <1>1
    DEF HelperLoads, HelperStrays, HelperAnswers, HelperEnds, LauncherEnds, Alive, Holds
  <2>2. LifeInv' /\ MutexInv'
    BY <2>1 DEF LifeInv, MutexInv, Alive, Holds
  <2>3. CloseInv'
    BY <2>1 DEF CloseInv, Alive, Holds
  <2> QED BY <2>2, <2>3
<1>2. CASE SpawnHelper \/ ProbeReads \/ ProbeFails \/ ProbeReaps
  <2>1. /\ UNCHANGED <<mutex, closed, calling, closing>>
        /\ embedder \in {"none", "probing", "reaping"}
        /\ embedder' # "none"
        /\ embedder' = "failed" => ~Holds /\ UNCHANGED <<helper, launcher>>
        /\ launcher' = "exited" => launcher = "exited" /\ (helper = "exited" => helper' = "exited")
    BY <1>2 DEF SpawnHelper, ProbeReads, ProbeFails, ProbeReaps, Kill, Alive
  <2>2. LifeInv' /\ MutexInv'
    BY <2>1 DEF LifeInv, MutexInv, Alive, Holds
  <2>3. CloseInv'
    BY <2>1 DEF LifeInv, CloseInv
  <2> QED BY <2>2, <2>3
<1>3. ASSUME NEW c \in Callers, EmbedLocks(c) \/ EmbedWrites(c) \/ EmbedReads(c)
      PROVE  LifeInv' /\ MutexInv' /\ CloseInv'
  <2>1. UNCHANGED <<embedder, helper, launcher, closed, closing>> /\ embedder = "ready"
    BY <1>3 DEF EmbedLocks, EmbedWrites, EmbedReads, LifeInv
  <2>2. \/ mutex = Nobody /\ mutex' = c /\ calling' = [calling EXCEPT ![c] = "writing"]
        \/ calling[c] # "out" /\ mutex' = mutex /\ calling' = [calling EXCEPT ![c] = "reading"]
        \/ calling[c] # "out" /\ mutex' = Nobody /\ calling' = [calling EXCEPT ![c] = "out"]
        \/ mutex' = mutex /\ calling' = calling
    BY <1>3 DEF EmbedLocks, EmbedWrites, EmbedReads, Returns
  <2>3. MutexInv'
    <3> SUFFICES ASSUME NEW b \in Callers PROVE calling'[b] # "out" <=> mutex' = b
      BY DEF MutexInv
    <3>1. /\ calling[b] # "out" <=> mutex = b
          /\ calling[c] # "out" <=> mutex = c
          /\ b # Nobody /\ c # Nobody
      BY HelperAssumption DEF MutexInv
    <3>2. calling \in [Callers -> {"out", "writing", "reading"}]
      BY DEF EmbedTypeOK
    <3> QED BY <2>2, <3>1, <3>2
  <2>4. CloseInv'
    BY <2>1 DEF CloseInv, Alive, Holds
  <2>5. LifeInv'
    BY <2>1 DEF LifeInv
  <2> QED BY <2>3, <2>4, <2>5
<1>4. ASSUME NEW d \in Closers,
             Close(d) \/ CloseLocks(d) \/ CloseWaits(d) \/ CloseKills(d) \/ CloseReaps(d)
      PROVE  LifeInv' /\ MutexInv' /\ CloseInv'
  <2>1. /\ UNCHANGED <<embedder, mutex, calling>> /\ embedder = "ready"
        /\ launcher' = "exited" => launcher = "exited"
        /\ helper = "exited" => helper' = "exited"
    BY <1>4 DEF Close, CloseLocks, CloseWaits, CloseKills, CloseReaps, Kill, Alive, LifeInv
  <2>2. LifeInv' /\ MutexInv'
    BY <2>1 DEF LifeInv, MutexInv
  <2>3. ASSUME Close(d) PROVE CloseInv'
    BY <2>3 DEF Close, CloseInv, EmbedTypeOK, Alive, Holds
  <2>4. ASSUME CloseLocks(d) PROVE CloseInv'
    BY <2>4 DEF CloseLocks, CloseInv, EmbedTypeOK, Alive, Holds
  <2>5. ASSUME CloseWaits(d) PROVE CloseInv'
    <3>1. /\ ~Holds' /\ closing' = [closing EXCEPT ![d] = IF Started = "exited" THEN "nil" ELSE "error"]
          /\ closing[d] = "waiting" /\ UNCHANGED <<closed, helper>>
      BY <2>5 DEF CloseWaits, Alive, Holds
    <3>2. closed /\ (Started = "exited" => helper = "exited")
      BY <3>1 DEF CloseInv, LifeInv, Started
    <3> QED BY <3>1, <3>2 DEF CloseInv, EmbedTypeOK
  <2>6. ASSUME CloseKills(d) PROVE CloseInv'
    <3>1. /\ closing' = [closing EXCEPT ![d] = "killing"] /\ closing[d] = "waiting"
          /\ UNCHANGED closed
      BY <2>6 DEF CloseKills
    <3> QED BY <2>1, <3>1 DEF CloseInv, EmbedTypeOK
  <2>7. ASSUME CloseReaps(d) PROVE CloseInv'
    <3>1. /\ ~Holds' /\ closing' = [closing EXCEPT ![d] = "error"] /\ closing[d] = "killing"
          /\ UNCHANGED <<closed, helper>>
      BY <2>7 DEF CloseReaps, Alive, Holds
    <3> QED BY <3>1 DEF CloseInv, EmbedTypeOK
  <2> QED BY <1>4, <2>2, <2>3, <2>4, <2>5, <2>6, <2>7
<1>5. CASE UNCHANGED helperVars
  BY <1>5 DEF helperVars, LifeInv, MutexInv, CloseInv, Alive, Holds
<1> QED BY <1>1, <1>2, <1>3, <1>4, <1>5 DEF HelperNext

LEMMA PipeStep ==
  ASSUME HelperInv, [HelperNext]_helperVars
  PROVE  PipeInv' /\ AnswersAreOwn'
<1> SUFFICES ASSUME strays' = 0 PROVE PipeInv' /\ AnswersAreOwn'
  BY DEF PipeInv, AnswersAreOwn
<1>0. ~HelperStrays /\ strays = 0
  <2>1. UNCHANGED strays \/ (strays' = strays + 1 /\ HelperStrays)
    BY Zenon DEF HelperNext, SpawnHelper, ProbeReads, ProbeFails, ProbeReaps, HelperLoads,
       HelperStrays, HelperAnswers, HelperEnds, LauncherEnds, EmbedLocks, EmbedWrites,
       EmbedReads, Close, CloseLocks, CloseWaits, CloseKills, CloseReaps, helperVars
  <2>2. HelperStrays => strays' = strays + 1
    BY DEF HelperStrays
  <2> QED BY <2>1, <2>2 DEF HelperInv, EmbedTypeOK
<1>a. /\ EmbedTypeOK /\ LifeInv /\ MutexInv
      /\ \A c \in Callers : got[c] \in Callers => got[c] = c
  BY <1>0 DEF HelperInv, AnswersAreOwn
<1>b. /\ embedder = "none" => requests = <<>> /\ answers = <<>>
      /\ embedder = "probing" =>
           /\ requests = <<>> /\ answers \in {<<>>, <<"ready">>, <<"bad handshake">>}
           /\ helper = "loading" => answers = <<>>
      /\ embedder = "ready" =>
           /\ helper # "loading"
           /\ (\A c \in Callers : calling[c] # "reading") =>
                 answers = <<>> /\ (Alive => requests = <<>>)
           /\ \A c \in Callers : calling[c] = "reading" =>
                 \/ answers = <<c>> /\ (Alive => requests = <<>>)
                 \/ answers = <<>> /\ (Alive => requests = <<c>>)
  BY <1>0 DEF HelperInv, PipeInv
<1>c. UNCHANGED got => AnswersAreOwn'
  BY <1>a DEF AnswersAreOwn
<1>1. CASE HelperLoads
  <2>0. SUFFICES ASSUME embedder # "reaping" PROVE PipeInv' /\ AnswersAreOwn'
    BY <1>1, <1>c DEF HelperLoads, PipeInv
  <2>1. embedder = "probing" /\ requests = <<>> /\ answers = <<>>
    BY <1>1, <1>a, <1>b, <2>0 DEF HelperLoads, LifeInv, Alive, Holds, EmbedTypeOK
  <2>2. answers' = <<"ready">> \/ answers' = <<"bad handshake">>
    BY <1>1, <2>1, OneLine DEF HelperLoads, Prints
  <2>3. helper' = "serving" /\ UNCHANGED <<embedder, requests, got>>
    BY <1>1 DEF HelperLoads
  <2> QED BY <1>c, <2>1, <2>2, <2>3 DEF PipeInv
<1>2. CASE HelperAnswers
  <2>1. /\ helper = "serving" /\ Alive /\ requests # <<>>
        /\ answers' = Append(answers, Head(requests)) /\ requests' = Tail(requests)
        /\ UNCHANGED <<embedder, helper, mutex, closed, calling, got, closing, strays>>
    BY <1>2 DEF HelperAnswers, Prints, Alive
  <2>0. SUFFICES ASSUME embedder # "reaping" PROVE PipeInv' /\ AnswersAreOwn'
    BY <1>c, <2>1 DEF PipeInv
  <2>2. embedder = "ready"
    BY <1>a, <1>b, <2>0, <2>1 DEF LifeInv, Holds, EmbedTypeOK
  <2>3. PICK c \in Callers : calling[c] = "reading" /\ answers = <<>> /\ requests = <<c>>
    BY <1>b, <2>1, <2>2
  <2>4. answers' = <<c>> /\ requests' = <<>>
    BY <2>1, <2>3, OneLine
  <2>5. \A b \in Callers : calling[b] = "reading" => b = c
    BY <1>a, <2>3 DEF MutexInv
  <2> QED BY <1>c, <2>1, <2>2, <2>3, <2>4, <2>5 DEF PipeInv
<1>3. CASE HelperEnds
  <2>1. /\ ~Alive' /\ helper' # "loading"
        /\ UNCHANGED <<embedder, requests, answers, calling, got>>
    BY <1>3 DEF HelperEnds, Alive
  <2> QED BY <1>b, <1>c, <2>1 DEF PipeInv
<1>3a. CASE LauncherEnds
  <2>1. UNCHANGED <<embedder, helper, requests, answers, calling, got>>
    BY <1>3a DEF LauncherEnds
  <2> QED BY <1>b, <1>c, <2>1 DEF PipeInv, Alive
<1>4. CASE SpawnHelper
  <2>1. embedder = "none" /\ embedder' = "probing" /\ UNCHANGED <<requests, answers, got>>
    BY <1>4 DEF SpawnHelper
  <2> QED BY <1>b, <1>c, <2>1 DEF PipeInv
<1>5. CASE ProbeFails \/ ProbeReaps
  <2>1. embedder' \in {"reaping", "failed"} /\ UNCHANGED got
    BY <1>5 DEF ProbeFails, ProbeReaps
  <2> QED BY <1>c, <2>1 DEF PipeInv
<1>6. CASE ProbeReads
  <2>1. /\ embedder = "probing" /\ answers # <<>> /\ answers' = Tail(answers)
        /\ UNCHANGED <<requests, calling, got>>
    BY <1>6 DEF ProbeReads
  <2>2. /\ requests = <<>> /\ helper # "loading"
        /\ answers = <<"ready">> \/ answers = <<"bad handshake">>
    BY <1>b, <2>1
  <2>3. answers' = <<>> /\ Head(answers) # "stray"
    BY <2>1, <2>2, OneLine
  <2>4. \/ embedder' = "ready" /\ UNCHANGED helper
        \/ embedder' = "reaping"
    BY <1>6, <2>3 DEF ProbeReads
  <2>5. \A c \in Callers : calling'[c] # "reading"
    BY <1>a, <2>1 DEF LifeInv
  <2> QED BY <1>c, <2>1, <2>2, <2>3, <2>4, <2>5 DEF PipeInv
<1>7. ASSUME NEW c \in Callers, EmbedLocks(c) PROVE PipeInv' /\ AnswersAreOwn'
  <2>1. /\ embedder = "ready" /\ UNCHANGED <<embedder, helper, requests, answers>>
        /\ calling[c] # "reading" /\ calling'[c] # "reading"
        /\ \A b \in Callers \ {c} : calling'[b] = calling[b] /\ got'[b] = got[b]
        /\ got'[c] \in {"ErrClosed", "nothing"}
    BY <1>7, <1>a DEF EmbedLocks, EmbedTypeOK
  <2>2. AnswersAreOwn'
    BY <1>a, <2>1, HelperAssumption DEF AnswersAreOwn
  <2> QED BY <1>b, <2>1, <2>2 DEF PipeInv, Alive
<1>8. ASSUME NEW c \in Callers, EmbedWrites(c) PROVE PipeInv' /\ AnswersAreOwn'
  <2>1. /\ embedder = "ready" /\ UNCHANGED <<embedder, helper, answers>>
        /\ \A b \in Callers : calling[b] # "reading"
    BY <1>8, <1>a DEF EmbedWrites, LifeInv, MutexInv
  <2>2. answers = <<>> /\ (Alive => requests = <<>>)
    BY <1>b, <2>1
  <2>3. CASE /\ Holds /\ requests' = Append(requests, c)
             /\ calling' = [calling EXCEPT ![c] = "reading"] /\ UNCHANGED <<mutex, got>>
    <3>1. Alive => requests' = <<c>>
      BY <2>2, <2>3, OneLine
    <3>2. calling'[c] = "reading" /\ \A b \in Callers \ {c} : calling'[b] # "reading"
      BY <1>a, <2>1, <2>3 DEF EmbedTypeOK
    <3> QED BY <1>b, <1>c, <2>1, <2>2, <2>3, <3>1, <3>2 DEF PipeInv, Alive
  <2>4. CASE ~Holds /\ Returns(c, "error") /\ UNCHANGED requests
    <3>1. /\ \A b \in Callers : calling'[b] # "reading"
          /\ \A b \in Callers \ {c} : got'[b] = got[b]
          /\ got'[c] = "error"
      BY <1>a, <2>1, <2>4 DEF EmbedTypeOK, Returns
    <3>2. AnswersAreOwn'
      BY <1>a, <3>1, HelperAssumption DEF AnswersAreOwn
    <3> QED BY <1>b, <2>1, <2>2, <2>4, <3>1, <3>2 DEF PipeInv, Alive
  <2> QED BY <1>8, <2>3, <2>4 DEF EmbedWrites
<1>9. ASSUME NEW c \in Callers, EmbedReads(c) PROVE PipeInv' /\ AnswersAreOwn'
  <2>1. /\ embedder = "ready" /\ calling[c] = "reading" /\ UNCHANGED <<embedder, helper, requests>>
        /\ \A b \in Callers : calling[b] = "reading" => b = c
    BY <1>9, <1>a DEF EmbedReads, LifeInv, MutexInv
  <2>2. /\ answers' = <<>> /\ (Alive => requests = <<>>)
        /\ Returns(c, c) \/ Returns(c, "error")
    <3>1. CASE answers = <<>> /\ ~Holds /\ Returns(c, "error") /\ UNCHANGED answers
      BY <3>1 DEF Holds
    <3>2. CASE /\ answers # <<>> /\ answers' = Tail(answers)
               /\ LET line == Head(answers)
                  IN  Returns(c, IF line \in Callers /\ BatchSize[line] = BatchSize[c]
                                 THEN line ELSE "error")
      <4>1. answers = <<c>> /\ (Alive => requests = <<>>)
        BY <1>b, <2>1, <3>2
      <4>2. Head(answers) = c /\ Tail(answers) = <<>>
        BY <4>1, OneLine
      <4> QED BY <3>2, <4>1, <4>2
    <3> QED BY <1>9, <3>1, <3>2 DEF EmbedReads
  <2>3. /\ \A b \in Callers : calling'[b] # "reading"
        /\ \A b \in Callers \ {c} : got'[b] = got[b]
        /\ got'[c] \in {c, "error"}
    BY <1>a, <2>1, <2>2 DEF Returns, EmbedTypeOK
  <2>4. AnswersAreOwn'
    BY <1>a, <2>3, HelperAssumption DEF AnswersAreOwn
  <2> QED BY <2>1, <2>2, <2>3, <2>4, <1>b DEF PipeInv, Alive
<1>10. ASSUME NEW d \in Closers,
              Close(d) \/ CloseLocks(d) \/ CloseWaits(d) \/ CloseKills(d) \/ CloseReaps(d)
       PROVE  PipeInv' /\ AnswersAreOwn'
  <2>1. /\ embedder = "ready" /\ UNCHANGED <<embedder, requests, answers, calling, got>>
        /\ Alive' => Alive
        /\ helper' = "loading" => helper = "loading"
    BY <1>10, <1>a
    DEF Close, CloseLocks, CloseWaits, CloseKills, CloseReaps, Kill, Alive, LifeInv
  <2> QED BY <1>b, <1>c, <2>1 DEF PipeInv
<1>11. CASE UNCHANGED helperVars
  BY <1>11, <1>b, <1>c DEF helperVars, PipeInv, Alive
<1> QED BY <1>0, <1>1, <1>2, <1>3, <1>3a, <1>4, <1>5, <1>6, <1>7, <1>8, <1>9, <1>10, <1>11 DEF HelperNext

\* For any number of goroutines that embed and close, any sizes of batches and a
\* helper that may die or be killed at any point: unless it printed a line of its
\* own after the handshake each caller gets the answer to its own batch, and when
\* Close has returned, or the constructor failed, the helper and its launcher are
\* gone (python_subprocess.go:88-310).
THEOREM EmbedHelperIsOwn == HelperSpec => []HelperIsOwn
<1>1. HelperInit => HelperInv
  <2> SUFFICES ASSUME HelperInit PROVE HelperInv
    OBVIOUS
  <2>1. EmbedTypeOK
    <3>1. strays \in 0..MaxStrays /\ requests \in Seq(Callers) /\ answers \in Seq(Lines)
      <4>1. MaxStrays \in Nat /\ strays = 0 /\ requests = <<>> /\ answers = <<>>
        BY HelperAssumption DEF HelperInit
      <4> QED BY <4>1
    <3> QED BY <3>1 DEF HelperInit, EmbedTypeOK
  <2>2. LifeInv /\ CloseInv /\ AnswersAreOwn
    BY HelperAssumption DEF HelperInit, LifeInv, CloseInv, AnswersAreOwn, Alive, Holds
  <2>3. MutexInv /\ PipeInv
    BY HelperAssumption DEF HelperInit, MutexInv, PipeInv
  <2> QED BY <2>1, <2>2, <2>3 DEF HelperInv
<1>2. HelperInv /\ [HelperNext]_helperVars => HelperInv'
  <2> SUFFICES ASSUME HelperInv, [HelperNext]_helperVars PROVE HelperInv'
    OBVIOUS
  <2>1. EmbedTypeOK'
    BY EmbedTypeStep DEF HelperInv
  <2> QED BY <2>1, LifeStep, PipeStep DEF HelperInv
<1>3. HelperInv => HelperIsOwn
  <2> SUFFICES ASSUME HelperInv PROVE CloseLeavesNoHelper
    BY DEF HelperInv, HelperIsOwn
  <2> QED BY DEF HelperInv, LifeInv, CloseInv, CloseLeavesNoHelper
<1> QED BY <1>1, <1>2, <1>3, PTL DEF HelperSpec
=============================================================================
