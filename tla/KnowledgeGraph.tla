--------------------------- MODULE KnowledgeGraph ---------------------------
(***************************************************************************)
(* pkg/kg: the tables entities and triples of the knowledge graph, the     *)
(* calls over them, and the extraction that fills them once a drawer has   *)
(* committed (palace.go:386-407). A triple holds from valid_from to        *)
(* valid_to, either of which may be absent; it is active without valid_to. *)
(* Every call is one statement or one transaction that begins with a       *)
(* write, so that it is one action.                                        *)
(***************************************************************************)
EXTENDS Integers, Sequences, FiniteSets

CONSTANTS
    Names,          \* what callers call entities
    Ids,
    IdOf,           \* EntityID: several names may have one id
    Predicates,     \* as they are stored: in lower case, joined by "_"
    Types,          \* entity types; Unknown is one
    Unknown,
    Docs,           \* drawers whose text facts are extracted from
    FactsOf,        \* what AutoExtractFn finds in each, one after the other
    Writers,        \* processes that store drawers with AutoExtractKG
    LastDay,        \* bounds the calendar
    MaxTriples,     \* bounds the table
    None

NoDate == 0         \* NULL; a date is a day 1..LastDay
Fact == [subject : Names, predicate : Predicates, object : Names]

ASSUME KGAssumption ==
    /\ IdOf \in [Names -> Ids] /\ Unknown \in Types
    /\ FactsOf \in [Docs -> Seq(Fact)]
    /\ LastDay \in Nat \ {0} /\ MaxTriples \in Nat
    /\ None \notin Docs /\ None \notin [name : Names, type : Types]

VARIABLES
    entities,       \* the row of each id, or None
    triples,        \* the rows, in the order of insertion; none is ever deleted
    today,
    committed,      \* drawers that have been stored
    extracting,     \* of each writer: the drawer and the facts it has yet to add
    lost            \* history: facts whose AddTriple failed or never ran

kgVars == <<entities, triples, today, committed, extracting, lost>>

Days == 1..LastDay
Dates == {NoDate} \union Days
Row == [subject : Ids, predicate : Predicates, object : Ids,
        from : Dates, to : Dates, closet : Docs \union {None}]
Resting == [doc |-> None, facts |-> <<>>]

KGTypeOK ==
    /\ entities \in [Ids -> [name : Names, type : Types] \union {None}]
    /\ triples \in Seq(Row)
    /\ today \in Days
    /\ committed \subseteq Docs
    /\ extracting \in [Writers -> [doc : Docs \union {None}, facts : Seq(Fact)]]
    /\ lost \subseteq Docs \X Fact

KGInit ==
    /\ entities = [i \in Ids |-> None]
    /\ triples = <<>>
    /\ today = 1
    /\ committed = {}
    /\ extracting = [w \in Writers |-> Resting]
    /\ lost = {}

-----------------------------------------------------------------------------
(* Calls. *)

Matches(t, s, p, o) == t.subject = IdOf[s] /\ t.predicate = p /\ t.object = IdOf[o]
Active(t) == t.to = NoDate
IsKnown(s, p, o) == \E k \in DOMAIN triples : Matches(triples[k], s, p, o) /\ Active(triples[k])

\* INSERT OR IGNORE.
WithEntity(e, n) ==
    IF e[IdOf[n]] = None THEN [e EXCEPT ![IdOf[n]] = [name |-> n, type |-> Unknown]] ELSE e

\* INSERT OR REPLACE: the name and the type of an id are the last caller's.
AddEntity(n, type) ==
    /\ entities' = [entities EXCEPT ![IdOf[n]] = [name |-> n, type |-> type]]
    /\ UNCHANGED triples

\* Mutant: the entity of the object is not created.
AddTripleHalf(s, p, o, from, to, closet) ==
    /\ entities' = WithEntity(entities, s)
    /\ IF IsKnown(s, p, o) THEN UNCHANGED triples
       ELSE /\ Len(triples) < MaxTriples
            /\ triples' = Append(triples,
                 [subject |-> IdOf[s], predicate |-> p, object |-> IdOf[o],
                  from |-> from, to |-> to, closet |-> closet])

\* Mutant: a triple is looked for under the names it was given, not their ids.
AddTripleByName(s, p, o, from, to, closet) ==
    /\ entities' = WithEntity(WithEntity(entities, s), o)
    /\ IF /\ IsKnown(s, p, o)
          /\ entities[IdOf[s]].name = s /\ entities[IdOf[o]].name = o
       THEN UNCHANGED triples
       ELSE /\ Len(triples) < MaxTriples
            /\ triples' = Append(triples,
                 [subject |-> IdOf[s], predicate |-> p, object |-> IdOf[o],
                  from |-> from, to |-> to, closet |-> closet])

\* The two entities are created if they are not there; an active triple of the
\* same subject, predicate and object is taken for this one.
AddTriple(s, p, o, from, to, closet) ==
    /\ entities' = WithEntity(WithEntity(entities, s), o)
    /\ IF IsKnown(s, p, o) THEN UNCHANGED triples
       ELSE /\ Len(triples) < MaxTriples
            /\ triples' = Append(triples,
                 [subject |-> IdOf[s], predicate |-> p, object |-> IdOf[o],
                  from |-> from, to |-> to, closet |-> closet])

\* Mutant: expired triples are given the new end too.
InvalidateAll(s, p, o, ended) ==
    /\ triples' = [k \in DOMAIN triples |->
         IF Matches(triples[k], s, p, o)
         THEN [triples[k] EXCEPT !.to = IF ended = NoDate THEN today ELSE ended]
         ELSE triples[k]]
    /\ UNCHANGED entities

\* Every active triple of these ends, today unless the caller says when.
Invalidate(s, p, o, ended) ==
    /\ triples' = [k \in DOMAIN triples |->
         IF Matches(triples[k], s, p, o) /\ Active(triples[k])
         THEN [triples[k] EXCEPT !.to = IF ended = NoDate THEN today ELSE ended]
         ELSE triples[k]]
    /\ UNCHANGED entities

\* Both ends of an interval belong to it.
HoldsOn(t, day) == /\ t.from = NoDate \/ t.from <= day
                   /\ t.to = NoDate \/ t.to >= day
AsOf(t, day) == day = NoDate \/ HoldsOn(t, day)

\* QueryEntity: the triples found in each direction, each joined with the row
\* of the entity at its other end. A triple of an entity with itself is in both.
Outgoing(n, day) ==
    {k \in DOMAIN triples : /\ triples[k].subject = IdOf[n] /\ AsOf(triples[k], day)
                            /\ entities[triples[k].object] # None}
Incoming(n, day) ==
    {k \in DOMAIN triples : /\ triples[k].object = IdOf[n] /\ AsOf(triples[k], day)
                            /\ entities[triples[k].subject] # None}

\* QueryRelationship and, of a palace with fewer than 100 triples, Timeline.
Joined(k) == entities[triples[k].subject] # None /\ entities[triples[k].object] # None
Relationship(p, day) ==
    {k \in DOMAIN triples : triples[k].predicate = p /\ AsOf(triples[k], day) /\ Joined(k)}

-----------------------------------------------------------------------------
(* Drawers with AutoExtractKG, and the calendar. *)

\* Mutant: facts are looked for whether or not the drawer commits.
ExtractEarly(w, d) ==
    /\ extracting[w].facts = <<>>
    /\ \/ committed' = committed \union {d}
       \/ committed' = committed
    /\ extracting' = [extracting EXCEPT ![w] = [doc |-> d, facts |-> FactsOf[d]]]
    /\ UNCHANGED <<entities, triples, today, lost>>

\* UpsertBatch commits, and only then looks for facts.
StoreDrawer(w, d) ==
    /\ extracting[w].facts = <<>>
    /\ committed' = committed \union {d}
    /\ extracting' = [extracting EXCEPT ![w] = [doc |-> d, facts |-> FactsOf[d]]]
    /\ UNCHANGED <<entities, triples, today, lost>>

\* An AddTriple that fails is logged and the next one is tried.
ExtractNext(w) ==
    /\ extracting[w].facts # <<>>
    /\ LET f == Head(extracting[w].facts)
           d == extracting[w].doc
       IN  \/ /\ AddTriple(f.subject, f.predicate, f.object, today, NoDate, d)
              /\ UNCHANGED lost
           \/ /\ lost' = lost \union {<<d, f>>}
              /\ UNCHANGED <<entities, triples>>
    /\ extracting' = [extracting EXCEPT ![w].facts = Tail(@)]
    /\ UNCHANGED <<today, committed>>

\* The writer crashes and nothing remembers what it had yet to add.
WriterCrashes(w) ==
    /\ extracting[w].facts # <<>>
    /\ lost' = lost \union {<<extracting[w].doc, extracting[w].facts[k]>> :
                              k \in DOMAIN extracting[w].facts}
    /\ extracting' = [extracting EXCEPT ![w] = Resting]
    /\ UNCHANGED <<entities, triples, today, committed>>

NextDay ==
    /\ today < LastDay
    /\ today' = today + 1
    /\ UNCHANGED <<entities, triples, committed, extracting, lost>>

Write(w) == (\E d \in Docs : StoreDrawer(w, d)) \/ ExtractNext(w) \/ WriterCrashes(w)

\* A caller other than the writers: the calls of the package, given dates of then
\* and, to invalidate, of the day before.
Use ==
    /\ \/ \E n \in Names, type \in Types : AddEntity(n, type)
       \/ \E s, o \in Names, p \in Predicates, from, to \in {NoDate, today} :
            AddTriple(s, p, o, from, to, None)
       \/ \E s, o \in Names, p \in Predicates, ended \in {NoDate, today - 1} :
            Invalidate(s, p, o, ended)
    /\ UNCHANGED <<today, committed, extracting, lost>>

KGNext == NextDay \/ Use \/ \E w \in Writers : Write(w)

KGSpec == KGInit /\ [][KGNext]_kgVars

-----------------------------------------------------------------------------
(* Properties. *)

\* However callers and writers interleave and however names collide, a fact is
\* active at most once ("Deduplicates active triples", kg.go:151), so that one
\* end date ends it.
OneActive ==
    \A j, k \in DOMAIN triples :
        /\ Active(triples[j]) /\ Active(triples[k])
        /\ triples[j].subject = triples[k].subject
        /\ triples[j].predicate = triples[k].predicate
        /\ triples[j].object = triples[k].object
        => j = k

\* The joins of the queries lose no triple: every entity a triple names has a
\* row (kg.go:163-169, with the foreign keys not enforced by SQLite).
QueriesAreWhole ==
    \A n \in Names, day \in Dates :
        /\ Outgoing(n, day) = {k \in DOMAIN triples :
                                 triples[k].subject = IdOf[n] /\ AsOf(triples[k], day)}
        /\ Incoming(n, day) = {k \in DOMAIN triples :
                                 triples[k].object = IdOf[n] /\ AsOf(triples[k], day)}

\* What was known about the past stays: no triple goes, and all that ever
\* changes in one is that an active triple is given its end (kg.go:210-226).
HistoryStands ==
    [][\A k \in DOMAIN triples :
         /\ k \in DOMAIN triples'
         /\ triples'[k] # triples[k] =>
              /\ Active(triples[k]) /\ ~Active(triples'[k])
              /\ triples'[k] = [triples[k] EXCEPT !.to = triples'[k].to]]_kgVars

\* What was extracted comes from drawers that are committed ("a KG failure
\* cannot roll back the palace write", palace.go:386), and of their facts all are in
\* the graph, about to be, or lost to a failure.
ExtractionFollows ==
    /\ \A k \in DOMAIN triples : triples[k].closet \in committed \union {None}
    /\ \A d \in committed : \A j \in DOMAIN FactsOf[d] :
         LET f == FactsOf[d][j]
         IN  \/ \E k \in DOMAIN triples : Matches(triples[k], f.subject, f.predicate, f.object)
             \/ <<d, f>> \in lost
             \/ \E w \in Writers : /\ extracting[w].doc = d
                                   /\ f \in {extracting[w].facts[k] :
                                               k \in DOMAIN extracting[w].facts}
=============================================================================
