--------------------------- MODULE EntityRegistry ---------------------------
(***************************************************************************)
(* pkg/entity.Registry over the entities table of a palace (palace.go:732- *)
(* 820), in processes that each keep all of it in memory from the moment   *)
(* they open it and write every change through. Aliases are left out.      *)
(***************************************************************************)
EXTENDS Integers

CONSTANTS
    Keys,           \* names in lower case
    Kinds,          \* what is recorded of an entity: type, canonical name
    Seeds,          \* the commonTools among the keys
    ToolKind,
    Processes,
    LastMoment,     \* bounds the clock
    Missing

EntityRow == [kind : Kinds, first : 1..LastMoment, last : 1..LastMoment, count : Nat \ {0}]

ASSUME RegistryAssumption ==
    /\ Seeds \subseteq Keys /\ ToolKind \in Kinds /\ LastMoment \in Nat \ {0}
    /\ Missing \notin Kinds /\ Missing \notin EntityRow

VARIABLES
    table,          \* the entities table
    known,          \* of each process: the map data, Name to Entity
    rows,           \* of each process: the map rows, Name to EntityRow
    opened,         \* processes with a Registry
    moment,
    disturbed       \* history: processes with a Registry since whose opening
                    \* something else has written the table

registryVars == <<table, known, rows, opened, moment, disturbed>>

NoRows == [k \in Keys |-> Missing]

RegistryTypeOK ==
    /\ table \in [Keys -> EntityRow \union {Missing}]
    /\ known \in [Processes -> [Keys -> Kinds \union {Missing}]]
    /\ rows \in [Processes -> [Keys -> EntityRow \union {Missing}]]
    /\ opened \subseteq Processes /\ disturbed \subseteq opened
    /\ moment \in 1..LastMoment

RegistryInit ==
    /\ table = NoRows
    /\ known = [p \in Processes |-> NoRows]
    /\ rows = [p \in Processes |-> NoRows]
    /\ opened = {} /\ disturbed = {}
    /\ moment = 1

-----------------------------------------------------------------------------
\* The seeds are in memory only, and the rows of the table go over them.
Loaded(seeded) ==
    [k \in Keys |-> IF table[k] # Missing THEN table[k].kind
                    ELSE IF seeded /\ k \in Seeds THEN ToolKind ELSE Missing]

NewRegistry(p, seeded) ==
    /\ p \notin opened
    /\ known' = [known EXCEPT ![p] = Loaded(seeded)]
    /\ rows' = [rows EXCEPT ![p] = table]
    /\ opened' = opened \union {p}
    /\ UNCHANGED <<table, moment, disturbed>>

\* The table is written by p, to the surprise of the others.
Persist(p, k, row) ==
    /\ table' = [table EXCEPT ![k] = row]
    /\ disturbed' = disturbed \union (opened \ {p})

\* The map entries of p for k.
Remember(p, k, row) ==
    /\ known' = [known EXCEPT ![p][k] = row.kind]
    /\ rows' = [rows EXCEPT ![p][k] = row]

\* Mutant: memory first.
WriteBack(p, k, row) ==
    \/ Persist(p, k, row) /\ Remember(p, k, row)
    \/ Remember(p, k, row) /\ UNCHANGED <<table, disturbed>>

\* Store first: what the store refuses is not remembered.
WriteThrough(p, k, row) ==
    \/ Persist(p, k, row) /\ Remember(p, k, row)
    \/ UNCHANGED <<table, known, rows, disturbed>>

\* Add refuses what is in memory, a seed included.
Add(p, k, kind) ==
    /\ p \in opened /\ known[p][k] = Missing
    /\ WriteThrough(p, k, [kind |-> kind, first |-> moment, last |-> moment, count |-> 1])
    /\ UNCHANGED <<opened, moment>>

\* Mutant: the first sighting moves with the last.
MergedRowForgets(p, k, kind) ==
    [kind |-> kind, last |-> moment, first |-> moment,
     count |-> IF rows[p][k] = Missing THEN 1 ELSE rows[p][k].count + 1]

\* Merge goes by the row in memory: it has none for a seed.
MergedRow(p, k, kind) ==
    LET prior == rows[p][k]
    IN  [kind |-> kind, last |-> moment,
         first |-> IF prior = Missing THEN moment ELSE prior.first,
         count |-> IF prior = Missing THEN 1 ELSE prior.count + 1]

Merge(p, k, kind) ==
    /\ p \in opened
    /\ rows[p][k] # Missing => rows[p][k].count < LastMoment
    /\ WriteThrough(p, k, MergedRow(p, k, kind))
    /\ UNCHANGED <<opened, moment>>

\* Palace.EntityDelete, called past every registry.
EntityDelete(k) ==
    /\ table[k] # Missing
    /\ table' = [table EXCEPT ![k] = Missing]
    /\ disturbed' = opened
    /\ UNCHANGED <<known, rows, opened, moment>>

\* Close and Save write nothing: a crash is the same.
CloseRegistry(p) ==
    /\ p \in opened
    /\ known' = [known EXCEPT ![p] = NoRows]
    /\ rows' = [rows EXCEPT ![p] = NoRows]
    /\ opened' = opened \ {p} /\ disturbed' = disturbed \ {p}
    /\ UNCHANGED <<table, moment>>

NextMoment ==
    /\ moment < LastMoment
    /\ moment' = moment + 1
    /\ UNCHANGED <<table, known, rows, opened, disturbed>>

RegistryNext ==
    \/ \E p \in Processes :
         \/ \E seeded \in BOOLEAN : NewRegistry(p, seeded)
         \/ \E k \in Keys, kind \in Kinds : Add(p, k, kind) \/ Merge(p, k, kind)
         \/ CloseRegistry(p)
    \/ \E k \in Keys : EntityDelete(k)
    \/ NextMoment

RegistrySpec == RegistryInit /\ [][RegistryNext]_registryVars

-----------------------------------------------------------------------------
(* Properties. *)

\* A registry nobody writes past shows the table, whatever write failed ("disk
\* is authoritative", registry.go:66), with seeds for what is not in it.
MemoryIsTable ==
    \A p \in opened \ disturbed :
        /\ rows[p] = table
        /\ \A k \in Keys : known[p][k] = IF table[k] # Missing THEN table[k].kind
                                         ELSE IF k \in Seeds THEN known[p][k] ELSE Missing

\* No row comes from a seed: one appears by an Add or a Merge, new or with the
\* count the process knew ("the entities table holds user-data only",
\* registry.go:180).
TableIsUserData ==
    [][\A k \in Keys : table[k] = Missing /\ table'[k] # Missing =>
         \E p \in opened, kind \in Kinds :
             Add(p, k, kind) \/ Merge(p, k, kind)]_registryVars

\* As long as no registry is written past, an entity keeps the moment it was
\* first seen and is counted once per sighting ("FirstSeen is preserved and
\* OccurrenceCount is incremented", registry.go:92).
SightingsCount ==
    [][\A k \in Keys :
         /\ disturbed = {} /\ table'[k] # table[k]
         /\ table[k] # Missing /\ table'[k] # Missing
         => /\ table'[k].first = table[k].first /\ table'[k].last >= table[k].last
            /\ table'[k].count = table[k].count + 1]_registryVars

\* Every change of a row is a sighting that somebody reported and is counted as
\* one (registry.go:62-121).
RowsAreSightings == TableIsUserData /\ SightingsCount
=============================================================================
