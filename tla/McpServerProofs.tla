-------------------------- MODULE McpServerProofs --------------------------
(***************************************************************************)
(* McpServer and the KnowledgeGraph it works on, for every value of their  *)
(* constants: the graph keeps one active triple per fact and loses none to *)
(* the joins of its queries, and what a tool reports stored stays there.   *)
(***************************************************************************)
EXTENDS McpServer, FiniteSetTheorems, TLAPS

\* The rows the joins of kg.go look for.
EntitiesAreThere == \A k \in DOMAIN triples : Joined(k)

\* Facts are added of drawers that have committed.
WritersFollow == \A w \in Writers : extracting[w].facts # <<>> => extracting[w].doc \in committed

\* A fact of a committed drawer is in one of these three places.
InGraph(f) == \E k \in DOMAIN triples : Matches(triples[k], f.subject, f.predicate, f.object)
IsDue(d, f) ==
    \E w \in Writers : /\ extracting[w].doc = d
                       /\ f \in {extracting[w].facts[k] : k \in DOMAIN extracting[w].facts}
FactsAreSomewhere ==
    \A d \in committed : \A j \in DOMAIN FactsOf[d] :
        InGraph(FactsOf[d][j]) \/ <<d, FactsOf[d][j]>> \in lost \/ IsDue(d, FactsOf[d][j])
ClosetsCommitted == \A k \in DOMAIN triples : triples[k].closet \in committed \union {None}

GraphInv ==
    KGTypeOK /\ OneActive /\ EntitiesAreThere /\ WritersFollow /\ FactsAreSomewhere /\ ClosetsCommitted

Unchanged == UNCHANGED <<today, committed, extracting, lost>>

-----------------------------------------------------------------------------
(* What the calls do to the two tables. *)

\* An INSERT OR IGNORE keeps the rows there are and leaves one for n.
LEMMA WithEntityKeeps ==
  ASSUME NEW e \in [Ids -> [name : Names, type : Types] \union {None}], NEW n \in Names
  PROVE  /\ WithEntity(e, n) \in [Ids -> [name : Names, type : Types] \union {None}]
         /\ WithEntity(e, n)[IdOf[n]] # None
         /\ \A i \in Ids : e[i] # None => WithEntity(e, n)[i] # None
  BY KGAssumption DEF WithEntity

\* AddTriple appends a triple of two entities that have rows, if no active one
\* is there, or none.
LEMMA AddTripleAppends ==
  ASSUME KGTypeOK, NEW s \in Names, NEW o \in Names, NEW p \in Predicates,
         NEW from \in Dates, NEW to \in Dates, NEW closet \in Docs \union {None},
         AddTriple(s, p, o, from, to, closet)
  PROVE  /\ entities' \in [Ids -> [name : Names, type : Types] \union {None}]
         /\ entities'[IdOf[s]] # None /\ entities'[IdOf[o]] # None
         /\ \A i \in Ids : entities[i] # None => entities'[i] # None
         /\ IF IsKnown(s, p, o) THEN triples' = triples
            ELSE triples' = Append(triples, [subject |-> IdOf[s], predicate |-> p,
                   object |-> IdOf[o], from |-> from, to |-> to, closet |-> closet])
         /\ triples' \in Seq(Row)
         /\ Len(triples) <= Len(triples')
         /\ \A k \in DOMAIN triples : k \in DOMAIN triples' /\ triples'[k] = triples[k]
<1> DEFINE e == WithEntity(entities, s)
           row == [subject |-> IdOf[s], predicate |-> p, object |-> IdOf[o],
                   from |-> from, to |-> to, closet |-> closet]
<1>1. /\ e \in [Ids -> [name : Names, type : Types] \union {None}]
      /\ e[IdOf[s]] # None
      /\ \A i \in Ids : entities[i] # None => e[i] # None
  BY WithEntityKeeps DEF KGTypeOK
<1>2. entities' = WithEntity(e, o)
  BY DEF AddTriple
<1>3. IdOf[s] \in Ids /\ IdOf[o] \in Ids
  BY KGAssumption
<1>4. /\ entities' \in [Ids -> [name : Names, type : Types] \union {None}]
      /\ entities'[IdOf[o]] # None
      /\ \A i \in Ids : e[i] # None => entities'[i] # None
  <2> HIDE DEF e
  <2> QED BY <1>1, <1>2, WithEntityKeeps
<1>5. IF IsKnown(s, p, o) THEN triples' = triples ELSE triples' = Append(triples, row)
  BY DEF AddTriple
<1>6. row \in Row
  BY <1>3 DEF Row
<1>7. triples \in Seq(Row)
  BY DEF KGTypeOK
<1>8. /\ triples' \in Seq(Row)
      /\ Len(triples) <= Len(triples')
      /\ \A k \in DOMAIN triples : k \in DOMAIN triples' /\ triples'[k] = triples[k]
  <2> HIDE DEF row
  <2> QED BY <1>5, <1>6, <1>7
<1> QED BY <1>1, <1>3, <1>4, <1>5, <1>8

\* Invalidate gives active triples their end and changes nothing else.
LEMMA InvalidateEnds ==
  ASSUME KGTypeOK, NEW s \in Names, NEW o \in Names, NEW p \in Predicates,
         NEW ended \in Dates, Invalidate(s, p, o, ended)
  PROVE  /\ entities' = entities
         /\ triples' \in Seq(Row)
         /\ DOMAIN triples' = DOMAIN triples
         /\ \A k \in DOMAIN triples :
              \/ triples'[k] = triples[k]
              \/ /\ Active(triples[k]) /\ ~Active(triples'[k])
                 /\ triples'[k] = [triples[k] EXCEPT !.to = triples'[k].to]
<1> DEFINE day == IF ended = NoDate THEN today ELSE ended
<1>1. day \in Days /\ day # NoDate
  BY KGAssumption DEF KGTypeOK, Dates, Days, NoDate
<1>2. triples \in Seq(Row)
  BY DEF KGTypeOK
<1>3. triples' = [k \in DOMAIN triples |->
         IF Matches(triples[k], s, p, o) /\ Active(triples[k])
         THEN [triples[k] EXCEPT !.to = day] ELSE triples[k]]
  BY DEF Invalidate
<1> HIDE DEF day
<1>4. \A k \in DOMAIN triples : triples[k] \in Row
  BY <1>2
<1>5. \A k \in DOMAIN triples : [triples[k] EXCEPT !.to = day] \in Row
  BY <1>1, <1>4 DEF Row, Dates
<1>6. triples' \in Seq(Row)
  <2>1. DOMAIN triples = 1..Len(triples) /\ Len(triples) \in Nat
    BY <1>2
  <2>2. triples' \in [1..Len(triples) -> Row]
    BY <1>3, <1>4, <1>5, <2>1
  <2> QED BY <2>1, <2>2
<1>7. \A k \in DOMAIN triples :
        \/ triples'[k] = triples[k]
        \/ /\ Active(triples[k]) /\ ~Active(triples'[k])
           /\ triples'[k] = [triples[k] EXCEPT !.to = triples'[k].to]
  <2> SUFFICES ASSUME NEW k \in DOMAIN triples, triples'[k] # triples[k]
               PROVE  /\ Active(triples[k]) /\ ~Active(triples'[k])
                      /\ triples'[k] = [triples[k] EXCEPT !.to = triples'[k].to]
    OBVIOUS
  <2>1. triples'[k] = [triples[k] EXCEPT !.to = day] /\ Active(triples[k])
    BY <1>3
  <2>2. triples[k] \in Row
    BY <1>4
  <2>3. triples'[k].to = day
    BY <2>1, <2>2 DEF Row
  <2> QED BY <2>1, <2>3, <1>1 DEF Active
<1> QED BY <1>3, <1>6, <1>7 DEF Invalidate

-----------------------------------------------------------------------------
(* The tables stay right under every call, whoever makes it. *)

TablesInv == OneActive /\ EntitiesAreThere /\ ClosetsCommitted

\* What is in the graph stays in it, ended or not.
FactsStay == \A f \in Fact : InGraph(f) => InGraph(f)'

LEMMA AddTripleKeeps ==
  ASSUME KGTypeOK, TablesInv, NEW s \in Names, NEW o \in Names, NEW p \in Predicates,
         NEW from \in Dates, NEW to \in Dates, NEW closet \in committed \union {None},
         AddTriple(s, p, o, from, to, closet), UNCHANGED committed
  PROVE  /\ TablesInv' /\ FactsStay
         /\ \E k \in DOMAIN triples' : Matches(triples'[k], s, p, o)
<1> DEFINE row == [subject |-> IdOf[s], predicate |-> p, object |-> IdOf[o],
                   from |-> from, to |-> to, closet |-> closet]
<1>1. closet \in Docs \union {None} /\ triples \in Seq(Row)
  BY DEF KGTypeOK
<1>2. /\ entities'[IdOf[s]] # None /\ entities'[IdOf[o]] # None
      /\ \A i \in Ids : entities[i] # None => entities'[i] # None
      /\ IF IsKnown(s, p, o) THEN triples' = triples ELSE triples' = Append(triples, row)
      /\ \A k \in DOMAIN triples : k \in DOMAIN triples' /\ triples'[k] = triples[k]
  BY <1>1, AddTripleAppends
<1>3. IdOf[s] \in Ids /\ IdOf[o] \in Ids
  BY KGAssumption
<1>4. \A k \in DOMAIN triples' :
        k \in DOMAIN triples \/ (k = Len(triples) + 1 /\ triples'[k] = row /\ ~IsKnown(s, p, o))
  <2> HIDE DEF row
  <2> QED BY <1>1, <1>2
<1>5. \A k \in DOMAIN triples : triples[k].subject \in Ids /\ triples[k].object \in Ids
  <2>1. \A k \in DOMAIN triples : triples[k] \in Row
    BY <1>1
  <2> QED BY <2>1 DEF Row
<1>6. OneActive'
  <2> SUFFICES ASSUME NEW j \in DOMAIN triples', NEW k \in DOMAIN triples',
                      Active(triples'[j]), Active(triples'[k]),
                      triples'[j].subject = triples'[k].subject,
                      triples'[j].predicate = triples'[k].predicate,
                      triples'[j].object = triples'[k].object
               PROVE  j = k
    BY DEF OneActive
  <2>1. CASE j \in DOMAIN triples /\ k \in DOMAIN triples
    BY <2>1, <1>2 DEF TablesInv, OneActive
  <2>2. CASE j \notin DOMAIN triples /\ k \in DOMAIN triples
    <3>1. Matches(triples[k], s, p, o) /\ Active(triples[k])
      BY <2>2, <1>2, <1>4 DEF Matches
    <3> QED BY <3>1, <2>2, <1>4 DEF IsKnown
  <2>3. CASE j \in DOMAIN triples /\ k \notin DOMAIN triples
    <3>1. Matches(triples[j], s, p, o) /\ Active(triples[j])
      BY <2>3, <1>2, <1>4 DEF Matches
    <3> QED BY <3>1, <2>3, <1>4 DEF IsKnown
  <2>4. CASE j \notin DOMAIN triples /\ k \notin DOMAIN triples
    BY <2>4, <1>4
  <2> QED BY <2>1, <2>2, <2>3, <2>4
<1>7. EntitiesAreThere'
  <2> SUFFICES ASSUME NEW k \in DOMAIN triples'
               PROVE  entities'[triples'[k].subject] # None /\ entities'[triples'[k].object] # None
    BY DEF EntitiesAreThere, Joined
  <2>1. CASE k \in DOMAIN triples
    BY <2>1, <1>2, <1>5 DEF TablesInv, EntitiesAreThere, Joined
  <2>2. CASE k \notin DOMAIN triples
    BY <2>2, <1>2, <1>4
  <2> QED BY <2>1, <2>2
<1>8. ClosetsCommitted'
  BY <1>2, <1>4 DEF TablesInv, ClosetsCommitted
<1>9. FactsStay
  BY <1>2 DEF FactsStay, InGraph, Matches
<1>10. \E k \in DOMAIN triples' : Matches(triples'[k], s, p, o)
  <2>1. CASE IsKnown(s, p, o)
    BY <2>1, <1>2 DEF IsKnown
  <2>2. CASE ~IsKnown(s, p, o)
    <3>1. Len(triples) + 1 \in DOMAIN triples' /\ triples'[Len(triples) + 1] = row
      <4> HIDE DEF row
      <4> QED BY <2>2, <1>1, <1>2
    <3> QED BY <3>1 DEF Matches
  <2> QED BY <2>1, <2>2
<1> QED BY <1>6, <1>7, <1>8, <1>9, <1>10 DEF TablesInv

LEMMA InvalidateKeeps ==
  ASSUME KGTypeOK, TablesInv, NEW s \in Names, NEW o \in Names, NEW p \in Predicates,
         NEW ended \in Dates, Invalidate(s, p, o, ended), UNCHANGED committed
  PROVE  TablesInv' /\ FactsStay
<1>1. /\ entities' = entities /\ DOMAIN triples' = DOMAIN triples
      /\ \A k \in DOMAIN triples :
           \/ triples'[k] = triples[k]
           \/ /\ Active(triples[k]) /\ ~Active(triples'[k])
              /\ triples'[k] = [triples[k] EXCEPT !.to = triples'[k].to]
  BY InvalidateEnds
<1>2. \A k \in DOMAIN triples : triples[k] \in Row
  BY DEF KGTypeOK
<1>3. \A k \in DOMAIN triples :
        /\ triples'[k].subject = triples[k].subject
        /\ triples'[k].predicate = triples[k].predicate
        /\ triples'[k].object = triples[k].object
        /\ triples'[k].closet = triples[k].closet
        /\ Active(triples'[k]) => Active(triples[k])
  BY <1>1, <1>2 DEF Row
<1>4. OneActive'
  BY <1>1, <1>3 DEF TablesInv, OneActive
<1>5. EntitiesAreThere'
  BY <1>1, <1>3 DEF TablesInv, EntitiesAreThere, Joined
<1>6. ClosetsCommitted'
  BY <1>1, <1>3 DEF TablesInv, ClosetsCommitted
<1>7. FactsStay
  BY <1>1, <1>3 DEF FactsStay, InGraph, Matches
<1> QED BY <1>4, <1>5, <1>6, <1>7 DEF TablesInv

\* A call that no writer makes.
LEMMA CallKeepsGraph ==
  ASSUME GraphInv, KGTypeOK', TablesInv', FactsStay, Unchanged
  PROVE  GraphInv'
<1>1. WritersFollow'
  BY DEF GraphInv, WritersFollow, Unchanged
<1>2. FactsAreSomewhere'
  <2> SUFFICES ASSUME NEW d \in committed, NEW j \in DOMAIN FactsOf[d]
               PROVE  InGraph(FactsOf[d][j])' \/ <<d, FactsOf[d][j]>> \in lost
                      \/ IsDue(d, FactsOf[d][j])'
    BY DEF FactsAreSomewhere, Unchanged
  <2>1. FactsOf[d][j] \in Fact
    BY KGAssumption DEF GraphInv, KGTypeOK
  <2>2. IsDue(d, FactsOf[d][j]) => IsDue(d, FactsOf[d][j])'
    BY DEF IsDue, Unchanged
  <2> QED BY <2>1, <2>2 DEF GraphInv, FactsAreSomewhere, FactsStay
<1> QED BY <1>1, <1>2 DEF GraphInv, TablesInv

-----------------------------------------------------------------------------
(* One lemma per step of the graph. *)

LEMMA GraphInit == KGInit => GraphInv
<1> SUFFICES ASSUME KGInit PROVE GraphInv
  OBVIOUS
<1>1. KGTypeOK
  BY KGAssumption DEF KGInit, KGTypeOK, Days, Resting
<1>2. OneActive /\ EntitiesAreThere /\ WritersFollow /\ FactsAreSomewhere /\ ClosetsCommitted
  BY DEF KGInit, OneActive, EntitiesAreThere, WritersFollow, FactsAreSomewhere, ClosetsCommitted,
         Resting
<1> QED BY <1>1, <1>2 DEF GraphInv

LEMMA DatesOfToday ==
  ASSUME KGTypeOK
  PROVE  {NoDate, today, today - 1} \subseteq Dates
  BY KGAssumption DEF KGTypeOK, Dates, Days, NoDate

LEMMA CallsKeepGraph ==
  ASSUME GraphInv, NEW s \in Names, NEW o \in Names, NEW p \in Predicates,
         NEW from \in Dates, Unchanged,
         AddTriple(s, p, o, from, NoDate, None) \/ Invalidate(s, p, o, from)
  PROVE  GraphInv'
<1>1. KGTypeOK /\ TablesInv
  BY DEF GraphInv, TablesInv
<1>2. NoDate \in Dates /\ None \in committed \union {None} /\ UNCHANGED committed
  BY DatesOfToday, <1>1 DEF Unchanged
<1>3. CASE AddTriple(s, p, o, from, NoDate, None)
  <2>1. /\ entities' \in [Ids -> [name : Names, type : Types] \union {None}]
        /\ triples' \in Seq(Row)
    BY <1>1, <1>2, <1>3, AddTripleAppends
  <2>2. KGTypeOK'
    BY <2>1, <1>1 DEF KGTypeOK, Unchanged
  <2>3. TablesInv' /\ FactsStay
    BY <1>1, <1>2, <1>3, AddTripleKeeps
  <2> QED BY <2>2, <2>3, CallKeepsGraph
<1>4. CASE Invalidate(s, p, o, from)
  <2>1. entities' = entities /\ triples' \in Seq(Row)
    BY <1>1, <1>4, InvalidateEnds
  <2>2. KGTypeOK'
    BY <2>1, <1>1 DEF KGTypeOK, Unchanged
  <2>3. TablesInv' /\ FactsStay
    BY <1>1, <1>2, <1>4, InvalidateKeeps
  <2> QED BY <2>2, <2>3, CallKeepsGraph
<1> QED BY <1>3, <1>4

LEMMA AddEntityKeepsGraph ==
  ASSUME GraphInv, NEW n \in Names, NEW type \in Types, AddEntity(n, type), Unchanged
  PROVE  GraphInv'
<1>1. IdOf[n] \in Ids /\ [name |-> n, type |-> type] # None
  BY KGAssumption
<1>2. /\ entities' \in [Ids -> [name : Names, type : Types] \union {None}]
      /\ \A i \in Ids : entities[i] # None => entities'[i] # None
  BY <1>1 DEF AddEntity, GraphInv, KGTypeOK
<1>3. KGTypeOK'
  BY <1>2 DEF AddEntity, GraphInv, KGTypeOK, Unchanged
<1>4. OneActive' /\ FactsStay
  BY DEF AddEntity, GraphInv, OneActive, FactsStay, InGraph
<1>5. ClosetsCommitted'
  BY DEF AddEntity, GraphInv, ClosetsCommitted, Unchanged
<1>6. EntitiesAreThere'
  <2>1. \A k \in DOMAIN triples : triples[k] \in Row
    BY DEF GraphInv, KGTypeOK
  <2>2. \A k \in DOMAIN triples : triples[k].subject \in Ids /\ triples[k].object \in Ids
    BY <2>1 DEF Row
  <2> QED BY <1>2, <2>2 DEF AddEntity, GraphInv, EntitiesAreThere, Joined
<1> QED BY <1>3, <1>4, <1>5, <1>6, CallKeepsGraph DEF TablesInv

LEMMA StoreDrawerKeepsGraph ==
  ASSUME GraphInv, NEW w \in Writers, NEW d \in Docs, StoreDrawer(w, d)
  PROVE  GraphInv'
<1>1. /\ extracting[w].facts = <<>> /\ committed' = committed \union {d}
      /\ extracting' = [extracting EXCEPT ![w] = [doc |-> d, facts |-> FactsOf[d]]]
      /\ UNCHANGED <<entities, triples, today, lost>>
  BY DEF StoreDrawer
<1>2. extracting \in [Writers -> [doc : Docs \union {None}, facts : Seq(Fact)]]
  BY DEF GraphInv, KGTypeOK
<1>3. FactsOf[d] \in Seq(Fact)
  BY KGAssumption
<1>4. KGTypeOK'
  BY <1>1, <1>2, <1>3 DEF GraphInv, KGTypeOK
<1>5. OneActive' /\ EntitiesAreThere' /\ ClosetsCommitted'
  BY <1>1 DEF GraphInv, OneActive, EntitiesAreThere, Joined, ClosetsCommitted
<1>6. WritersFollow'
  BY <1>1, <1>2 DEF GraphInv, WritersFollow
<1>7. FactsAreSomewhere'
  <2> SUFFICES ASSUME NEW c \in committed', NEW j \in DOMAIN FactsOf[c]
               PROVE  InGraph(FactsOf[c][j])' \/ <<c, FactsOf[c][j]>> \in lost'
                      \/ IsDue(c, FactsOf[c][j])'
    BY DEF FactsAreSomewhere
  <2>1. CASE c = d
    <3>1. extracting'[w].doc = c /\ extracting'[w].facts = FactsOf[c]
      BY <2>1, <1>1, <1>2
    <3> QED BY <3>1 DEF IsDue
  <2>2. CASE c # d
    <3>1. InGraph(FactsOf[c][j]) \/ <<c, FactsOf[c][j]>> \in lost \/ IsDue(c, FactsOf[c][j])
      BY <2>2, <1>1 DEF GraphInv, FactsAreSomewhere
    <3>2. IsDue(c, FactsOf[c][j]) => IsDue(c, FactsOf[c][j])'
      <4> SUFFICES ASSUME NEW v \in Writers, extracting[v].doc = c,
                          NEW i \in DOMAIN extracting[v].facts,
                          FactsOf[c][j] = extracting[v].facts[i]
                   PROVE  IsDue(c, FactsOf[c][j])'
        BY DEF IsDue
      <4>1. v # w
        BY <1>1
      <4>2. extracting'[v] = extracting[v]
        BY <4>1, <1>1, <1>2
      <4> QED BY <4>2 DEF IsDue
    <3> QED BY <3>1, <3>2, <1>1 DEF InGraph
  <2> QED BY <2>1, <2>2
<1> QED BY <1>4, <1>5, <1>6, <1>7 DEF GraphInv

\* A fact of w's drawer leaves the queue only for the graph or the lost ones.
LEMMA ExtractNextKeepsGraph ==
  ASSUME GraphInv, NEW w \in Writers, ExtractNext(w)
  PROVE  GraphInv'
<1> DEFINE fs == extracting[w].facts
           d == extracting[w].doc
           f == Head(fs)
<1>1. extracting \in [Writers -> [doc : Docs \union {None}, facts : Seq(Fact)]]
  BY DEF GraphInv, KGTypeOK
<1>2. fs \in Seq(Fact) /\ fs # <<>>
  BY <1>1 DEF ExtractNext
<1>3. d \in committed /\ d \in Docs
  BY <1>2 DEF GraphInv, WritersFollow, KGTypeOK
<1>4. f \in Fact /\ Tail(fs) \in Seq(Fact)
  BY <1>2
<1>5. f.subject \in Names /\ f.predicate \in Predicates /\ f.object \in Names
  BY <1>4 DEF Fact
<1>6. /\ extracting' = [extracting EXCEPT ![w].facts = Tail(fs)]
      /\ today' = today /\ committed' = committed
  BY DEF ExtractNext
<1>7. /\ extracting' \in [Writers -> [doc : Docs \union {None}, facts : Seq(Fact)]]
      /\ extracting'[w].doc = d /\ extracting'[w].facts = Tail(fs)
      /\ \A v \in Writers : v # w => extracting'[v] = extracting[v]
  BY <1>1, <1>4, <1>6
<1>8. KGTypeOK /\ TablesInv /\ today \in Dates /\ NoDate \in Dates
  BY DatesOfToday DEF GraphInv, TablesInv
<1>9. \/ AddTriple(f.subject, f.predicate, f.object, today, NoDate, d) /\ lost' = lost
      \/ lost' = lost \union {<<d, f>>} /\ UNCHANGED <<entities, triples>>
  BY DEF ExtractNext
<1> HIDE DEF fs, d, f
<1>10. /\ KGTypeOK' /\ TablesInv' /\ FactsStay
       /\ lost \subseteq lost'
       /\ (\E k \in DOMAIN triples' : Matches(triples'[k], f.subject, f.predicate, f.object))
          \/ <<d, f>> \in lost'
  <2>1. CASE AddTriple(f.subject, f.predicate, f.object, today, NoDate, d) /\ lost' = lost
    <3>1. /\ entities' \in [Ids -> [name : Names, type : Types] \union {None}]
          /\ triples' \in Seq(Row)
      BY <2>1, <1>3, <1>5, <1>8, AddTripleAppends
    <3>2. KGTypeOK'
      BY <3>1, <2>1, <1>6, <1>7, <1>8 DEF KGTypeOK
    <3>3. d \in committed \union {None}
      BY <1>3
    <3>4. /\ TablesInv' /\ FactsStay
          /\ \E k \in DOMAIN triples' : Matches(triples'[k], f.subject, f.predicate, f.object)
      BY <2>1, <3>3, <1>5, <1>6, <1>8, AddTripleKeeps
    <3> QED BY <3>2, <3>4, <2>1
  <2>2. CASE lost' = lost \union {<<d, f>>} /\ UNCHANGED <<entities, triples>>
    <3>1. KGTypeOK'
      BY <2>2, <1>3, <1>4, <1>6, <1>7, <1>8 DEF KGTypeOK
    <3>2. TablesInv'
      BY <2>2, <1>6, <1>8 DEF TablesInv, OneActive, EntitiesAreThere, Joined, ClosetsCommitted
    <3> QED BY <3>1, <3>2, <2>2 DEF FactsStay, InGraph
  <2> QED BY <2>1, <2>2, <1>9
<1>11. WritersFollow'
  <2> SUFFICES ASSUME NEW v \in Writers, extracting'[v].facts # <<>>
               PROVE  extracting'[v].doc \in committed
    BY <1>6 DEF WritersFollow
  <2> QED BY <1>3, <1>7 DEF GraphInv, WritersFollow
<1>12. FactsAreSomewhere'
  <2> SUFFICES ASSUME NEW c \in committed, NEW j \in DOMAIN FactsOf[c]
               PROVE  InGraph(FactsOf[c][j])' \/ <<c, FactsOf[c][j]>> \in lost'
                      \/ IsDue(c, FactsOf[c][j])'
    BY <1>6 DEF FactsAreSomewhere
  <2>1. FactsOf[c][j] \in Fact
    BY KGAssumption DEF GraphInv, KGTypeOK
  <2>2. InGraph(FactsOf[c][j]) \/ <<c, FactsOf[c][j]>> \in lost \/ IsDue(c, FactsOf[c][j])
    BY DEF GraphInv, FactsAreSomewhere
  <2>3. ASSUME NEW v \in Writers, extracting[v].doc = c, NEW i \in DOMAIN extracting[v].facts,
               FactsOf[c][j] = extracting[v].facts[i]
        PROVE  InGraph(FactsOf[c][j])' \/ <<c, FactsOf[c][j]>> \in lost'
               \/ IsDue(c, FactsOf[c][j])'
    <3>1. CASE v # w
      <4>1. extracting'[v] = extracting[v]
        BY <3>1, <1>7
      <4> QED BY <4>1, <2>3 DEF IsDue
    <3>2. CASE v = w /\ i = 1
      <4>1. FactsOf[c][j] = f /\ c = d
        BY <3>2, <2>3, <1>2 DEF fs, f, d
      <4> QED BY <4>1, <1>10 DEF InGraph
    <3>3. CASE v = w /\ i # 1
      <4>1. i - 1 \in DOMAIN Tail(fs) /\ Tail(fs)[i - 1] = FactsOf[c][j] /\ c = d
        BY <3>3, <2>3, <1>2 DEF fs, d
      <4>2. i - 1 \in DOMAIN extracting'[w].facts /\ extracting'[w].facts[i - 1] = FactsOf[c][j]
            /\ extracting'[w].doc = c
        BY <4>1, <1>7
      <4> QED BY <4>2 DEF IsDue
    <3> QED BY <3>1, <3>2, <3>3
  <2> QED BY <2>1, <2>2, <2>3, <1>10 DEF FactsStay, IsDue
<1> QED BY <1>10, <1>11, <1>12 DEF GraphInv, TablesInv

LEMMA WriterCrashesKeepsGraph ==
  ASSUME GraphInv, NEW w \in Writers, WriterCrashes(w)
  PROVE  GraphInv'
<1> DEFINE fs == extracting[w].facts
           d == extracting[w].doc
<1>1. extracting \in [Writers -> [doc : Docs \union {None}, facts : Seq(Fact)]]
  BY DEF GraphInv, KGTypeOK
<1>2. fs \in Seq(Fact) /\ fs # <<>> /\ d \in committed /\ d \in Docs
  BY <1>1 DEF WriterCrashes, GraphInv, WritersFollow, KGTypeOK
<1>3. /\ extracting' = [extracting EXCEPT ![w] = Resting]
      /\ lost' = lost \union {<<d, fs[k]>> : k \in DOMAIN fs}
      /\ UNCHANGED <<entities, triples, today, committed>>
  BY DEF WriterCrashes
<1>4. /\ extracting' \in [Writers -> [doc : Docs \union {None}, facts : Seq(Fact)]]
      /\ extracting'[w] = Resting
      /\ \A v \in Writers : v # w => extracting'[v] = extracting[v]
  <2>1. Resting \in [doc : Docs \union {None}, facts : Seq(Fact)]
    BY DEF Resting
  <2> QED BY <2>1, <1>1, <1>3
<1>5. KGTypeOK'
  <2>1. {<<d, fs[k]>> : k \in DOMAIN fs} \subseteq Docs \X Fact
    BY <1>2
  <2> QED BY <2>1, <1>3, <1>4 DEF GraphInv, KGTypeOK
<1>6. OneActive' /\ EntitiesAreThere' /\ ClosetsCommitted'
  BY <1>3 DEF GraphInv, OneActive, EntitiesAreThere, Joined, ClosetsCommitted
<1>7. WritersFollow'
  BY <1>3, <1>4 DEF GraphInv, WritersFollow, Resting
<1>8. FactsAreSomewhere'
  <2> SUFFICES ASSUME NEW c \in committed, NEW j \in DOMAIN FactsOf[c]
               PROVE  InGraph(FactsOf[c][j])' \/ <<c, FactsOf[c][j]>> \in lost'
                      \/ IsDue(c, FactsOf[c][j])'
    BY <1>3 DEF FactsAreSomewhere
  <2>1. InGraph(FactsOf[c][j]) \/ <<c, FactsOf[c][j]>> \in lost \/ IsDue(c, FactsOf[c][j])
    BY DEF GraphInv, FactsAreSomewhere
  <2>2. IsDue(c, FactsOf[c][j]) =>
          IsDue(c, FactsOf[c][j])' \/ <<c, FactsOf[c][j]>> \in lost'
    BY <1>3, <1>4 DEF IsDue
  <2> QED BY <2>1, <2>2, <1>3 DEF InGraph
<1> QED BY <1>5, <1>6, <1>7, <1>8 DEF GraphInv

\* Steps that leave both tables and the writers alone.
LEMMA StutterKeepsGraph ==
  ASSUME GraphInv, NextDay \/ UNCHANGED kgVars
  PROVE  GraphInv'
<1>1. UNCHANGED <<entities, triples, committed, extracting, lost>>
  BY DEF NextDay, kgVars
<1>2. KGTypeOK'
  BY <1>1, KGAssumption DEF GraphInv, KGTypeOK, NextDay, kgVars, Days
<1>3. OneActive' /\ EntitiesAreThere' /\ WritersFollow' /\ FactsAreSomewhere' /\ ClosetsCommitted'
  BY <1>1 DEF GraphInv, OneActive, EntitiesAreThere, Joined, WritersFollow, FactsAreSomewhere,
              ClosetsCommitted, InGraph, IsDue
<1> QED BY <1>2, <1>3 DEF GraphInv

-----------------------------------------------------------------------------
(* The tools that write drawers, and the counts. *)

\* What a count that nobody disturbed has seen so far.
CountIsRight(r) ==
    /\ r.step = "counting" /\ r.quiet => r.total = Cardinality(filed) /\ r.offset <= r.total
    /\ r.step = "counted" /\ r.quiet => r.offset = r.total

DrawersInv ==
    /\ filed \subseteq Entry /\ acked \subseteq Entry /\ sent \subseteq Entry
    /\ second \in 1..LastSecond /\ server \in [Servers -> Request]
    /\ IsFiniteSet(filed) /\ filed \subseteq sent
    /\ \A a \in acked : Has(a.key)
    /\ \A s \in Servers : server[s].step = "adding" => server[s].entry \in sent
    /\ \A s \in Servers : CountIsRight(server[s])

LEMMA EntriesAreTyped ==
  ASSUME NEW c \in Contents, second \in 1..LastSecond
  PROVE  /\ \A place \in Rooms : Note(place, c) \in Entry
         /\ \A agent \in Agents : Page(agent, c) \in Entry
<1>1. HeadOf[c] \in Heads /\ 0 \in 0..LastSecond /\ second \in 0..LastSecond
  BY McpAssumption
<1>2. ASSUME NEW place \in Rooms PROVE Note(place, c) \in Entry
  BY <1>1 DEF Note, Entry, Key, Places
<1>3. ASSUME NEW agent \in Agents PROVE Page(agent, c) \in Entry
  BY <1>1 DEF Page, Entry, Key, Places
<1> QED BY <1>2, <1>3

\* Replacing the drawer of a key leaves one of that key, and all other keys.
LEMMA UpsertedKeys ==
  ASSUME NEW e \in Entry, filed \subseteq Entry, IsFiniteSet(filed), filed' = Upserted(e)
  PROVE  /\ filed' \subseteq Entry /\ IsFiniteSet(filed') /\ filed' \subseteq filed \union {e}
         /\ \A key : Has(key) \/ key = e.key => Has(key)'
<1>1. IsFiniteSet({d \in filed : d.key # e.key})
  BY FS_Subset
<1>2. IsFiniteSet(filed')
  BY <1>1, FS_AddElement DEF Upserted
<1> QED BY <1>2 DEF Upserted, Has

\* What Disturb leaves of the counts is right whatever becomes of the drawers.
LEMMA DisturbKeepsCounts ==
  ASSUME NEW s \in Servers, server \in [Servers -> Request], Disturb(s, Idle),
         \A t \in Servers : server[t].step = "adding" => server[t].entry \in sent,
         \A t \in Servers : CountIsRight(server[t]), sent \subseteq sent'
  PROVE  /\ server' \in [Servers -> Request]
         /\ \A t \in Servers : server'[t].step = "adding" => server'[t].entry \in sent'
         /\ \A t \in Servers : CountIsRight(server[t])'
<1> SUFFICES ASSUME NEW t \in Servers
             PROVE  /\ server'[t] \in Request
                    /\ server'[t].step = "adding" => server'[t].entry \in sent'
                    /\ CountIsRight(server[t])'
  <2>1. server' = [u \in Servers |-> server'[u]]
    BY DEF Disturb
  <2> QED BY <2>1
<1>1. server'[t] = IF t = s THEN Idle
                   ELSE IF server[t].step = "counting" THEN [server[t] EXCEPT !.quiet = FALSE]
                   ELSE server[t]
  BY DEF Disturb
<1>2. server[t] \in Request
  OBVIOUS
<1>3. CASE t = s
  BY <1>1, <1>3 DEF Idle, Request, CountIsRight
<1>4. CASE t # s /\ server[t].step = "counting"
  <2>1. server[t] \in [step : {"counting", "counted"}, total : Nat, offset : Nat, quiet : BOOLEAN]
    BY <1>2, <1>4 DEF Request
  <2>2. server'[t] = [server[t] EXCEPT !.quiet = FALSE]
    BY <1>1, <1>4
  <2>3. /\ server'[t] \in [step : {"counting", "counted"}, total : Nat, offset : Nat, quiet : BOOLEAN]
        /\ server'[t].quiet = FALSE /\ server'[t].step = "counting"
    BY <2>1, <2>2, <1>4
  <2> QED BY <2>3 DEF Request, CountIsRight
<1>5. CASE t # s /\ server[t].step # "counting"
  <2>1. server'[t] = server[t]
    BY <1>1, <1>5
  <2>2. CountIsRight(server[t])
    OBVIOUS
  <2> QED BY <2>1, <2>2, <1>2, <1>5 DEF CountIsRight
<1> QED BY <1>3, <1>4, <1>5

LEMMA DrawersInit == McpInit => DrawersInv
<1>1. McpInit => IsFiniteSet(filed) /\ 1 \in 1..LastSecond /\ Idle \in Request
  BY FS_EmptySet, McpAssumption DEF McpInit, Idle, Request
<1> QED BY <1>1 DEF McpInit, DrawersInv, Idle, CountIsRight

\* A server goes from r to a request that is right, and the drawers stay.
LEMMA ServerMoves ==
  ASSUME DrawersInv, NEW s \in Servers, NEW r \in Request,
         server' = [server EXCEPT ![s] = r], UNCHANGED <<filed, second>>,
         sent \subseteq sent', sent' \subseteq Entry,
         acked' \subseteq Entry, \A a \in acked' : Has(a.key),
         r.step = "adding" => r.entry \in sent', CountIsRight(r)
  PROVE  DrawersInv'
<1>1. \A t \in Servers : server'[t] = IF t = s THEN r ELSE server[t]
  BY DEF DrawersInv
<1>2. server' \in [Servers -> Request]
  BY DEF DrawersInv
<1>3. ASSUME NEW t \in Servers PROVE CountIsRight(server[t])'
  <2>1. CountIsRight(server[t])
    BY DEF DrawersInv
  <2> QED BY <2>1, <1>1 DEF CountIsRight
<1>4. ASSUME NEW t \in Servers, server'[t].step = "adding" PROVE server'[t].entry \in sent'
  BY <1>1, <1>4 DEF DrawersInv
<1>5. \A a \in acked' : Has(a.key)'
  BY DEF Has
<1> QED BY <1>2, <1>3, <1>4, <1>5 DEF DrawersInv

LEMMA AddLookKeeps ==
  ASSUME DrawersInv, NEW s \in Servers, NEW place \in Rooms, NEW c \in Contents,
         AddLook(s, place, c)
  PROVE  DrawersInv'
<1> DEFINE e == Note(place, c)
<1>1. e \in Entry
  BY EntriesAreTyped DEF DrawersInv
<1> HIDE DEF e
<1>2. sent' = sent \union {e} /\ UNCHANGED <<filed, second>>
  BY DEF AddLook, e
<1>3. CASE Has(e.key) /\ Ack(e) /\ UNCHANGED server
  <2>1. /\ acked' \subseteq Entry /\ \A a \in acked' : Has(a.key)
        /\ sent' \subseteq Entry /\ sent \subseteq sent'
    BY <1>1, <1>2, <1>3 DEF DrawersInv, Ack
  <2>2. \A t \in Servers : CountIsRight(server[t])'
    BY <1>2, <1>3 DEF DrawersInv, CountIsRight
  <2> QED BY <2>1, <2>2, <1>2, <1>3 DEF DrawersInv, Has
<1>4. CASE /\ server' = [server EXCEPT ![s] = [step |-> "adding", entry |-> e]]
           /\ UNCHANGED acked
  <2>1. [step |-> "adding", entry |-> e] \in Request /\ CountIsRight([step |-> "adding", entry |-> e])
    BY <1>1 DEF Request, CountIsRight
  <2>2. /\ acked' \subseteq Entry /\ \A a \in acked' : Has(a.key)
        /\ sent' \subseteq Entry /\ sent \subseteq sent' /\ e \in sent'
    BY <1>1, <1>2, <1>4 DEF DrawersInv
  <2> QED BY <2>1, <2>2, <1>2, <1>4, ServerMoves
<1> QED BY <1>3, <1>4 DEF AddLook, e

\* A drawer is stored and its key acknowledged.
LEMMA StoringKeeps ==
  ASSUME DrawersInv, NEW s \in Servers, NEW e \in Entry,
         filed' = Upserted(e), Ack(e), Disturb(s, Idle), UNCHANGED second,
         sent \subseteq sent', sent' \subseteq Entry, e \in sent'
  PROVE  DrawersInv'
<1>1. /\ filed' \subseteq Entry /\ IsFiniteSet(filed') /\ filed' \subseteq filed \union {e}
      /\ \A key : Has(key) \/ key = e.key => Has(key)'
  BY UpsertedKeys DEF DrawersInv
<1>2. /\ server' \in [Servers -> Request]
      /\ \A t \in Servers : server'[t].step = "adding" => server'[t].entry \in sent'
      /\ \A t \in Servers : CountIsRight(server[t])'
  BY DisturbKeepsCounts DEF DrawersInv
<1>3. acked' \subseteq Entry /\ \A a \in acked' : Has(a.key)'
  <2>1. \A a \in acked' : Has(a.key) \/ a.key = e.key
    BY DEF DrawersInv, Ack
  <2>2. ASSUME NEW a \in acked' PROVE Has(a.key)'
    <3> DEFINE key == a.key
    <3>1. Has(key) \/ key = e.key
      BY <2>1
    <3> HIDE DEF key
    <3>2. \E x \in filed' : x.key = key
      BY <3>1, <1>1 DEF Has
    <3> QED BY <3>2 DEF Has, key
  <2> QED BY <2>2 DEF DrawersInv, Ack
<1> QED BY <1>1, <1>2, <1>3 DEF DrawersInv

LEMMA AddStoreKeeps ==
  ASSUME DrawersInv, NEW s \in Servers, AddStore(s)
  PROVE  DrawersInv'
<1> DEFINE e == server[s].entry
<1>1. server[s].step = "adding" /\ UNCHANGED <<second, sent>>
  BY DEF AddStore
<1>2. e \in sent /\ sent \subseteq Entry
  BY <1>1 DEF DrawersInv
<1> HIDE DEF e
<1>3. CASE filed' = Upserted(e) /\ Ack(e) /\ Disturb(s, Idle)
  BY <1>1, <1>2, <1>3, StoringKeeps
<1>4. CASE server' = [server EXCEPT ![s] = Idle] /\ UNCHANGED <<filed, acked>>
  <2>1. Idle \in Request /\ CountIsRight(Idle) /\ Idle.step # "adding"
    BY DEF Idle, Request, CountIsRight
  <2>2. acked' \subseteq Entry /\ \A a \in acked' : Has(a.key)
    BY <1>4 DEF DrawersInv
  <2> QED BY <2>1, <2>2, <1>1, <1>2, <1>4, ServerMoves
<1> QED BY <1>3, <1>4 DEF AddStore, e

LEMMA DiaryWriteKeeps ==
  ASSUME DrawersInv, NEW s \in Servers, NEW agent \in Agents, NEW c \in Contents,
         DiaryWrite(s, agent, c)
  PROVE  DrawersInv'
<1> DEFINE e == Page(agent, c)
<1>1. e \in Entry
  BY EntriesAreTyped DEF DrawersInv
<1> HIDE DEF e
<1>2. /\ filed' = Upserted(e) /\ Ack(e) /\ sent' = sent \union {e}
      /\ Disturb(s, Idle) /\ UNCHANGED second
  BY DEF DiaryWrite, e
<1>3. sent \subseteq sent' /\ sent' \subseteq Entry /\ e \in sent'
  BY <1>1, <1>2 DEF DrawersInv
<1> QED BY <1>1, <1>2, <1>3, StoringKeeps

LEMMA DeleteDrawerKeeps ==
  ASSUME DrawersInv, NEW s \in Servers, NEW key, DeleteDrawer(s, key)
  PROVE  DrawersInv'
<1>1. /\ filed' = {d \in filed : d.key # key} /\ acked' = {a \in acked : a.key # key}
      /\ Disturb(s, Idle) /\ UNCHANGED <<second, sent>>
  BY DEF DeleteDrawer
<1>2. IsFiniteSet(filed') /\ filed' \subseteq filed /\ acked' \subseteq acked
  BY <1>1, FS_Subset DEF DrawersInv
<1>3. /\ server' \in [Servers -> Request]
      /\ \A t \in Servers : server'[t].step = "adding" => server'[t].entry \in sent'
      /\ \A t \in Servers : CountIsRight(server[t])'
  BY <1>1, DisturbKeepsCounts DEF DrawersInv
<1>4. ASSUME NEW a \in acked' PROVE \E d \in filed' : d.key = a.key
  BY <1>1 DEF DrawersInv, Has
<1> QED BY <1>1, <1>2, <1>3, <1>4 DEF DrawersInv, Has

LEMMA StatusCountKeeps ==
  ASSUME DrawersInv, NEW s \in Servers, StatusCount(s)
  PROVE  DrawersInv'
<1> DEFINE r == [step |-> "counting", total |-> Cardinality(filed), offset |-> 0, quiet |-> TRUE]
<1>1. Cardinality(filed) \in Nat
  BY FS_CardinalityType DEF DrawersInv
<1>2. r \in Request /\ CountIsRight(r) /\ r.step # "adding"
  BY <1>1 DEF Request, CountIsRight
<1>3. server' = [server EXCEPT ![s] = r] /\ UNCHANGED <<filed, second, acked, sent>>
  BY DEF StatusCount
<1> HIDE DEF r
<1>4. acked' \subseteq Entry /\ (\A a \in acked' : Has(a.key)) /\ sent' \subseteq Entry
  BY <1>3 DEF DrawersInv
<1> QED BY <1>2, <1>3, <1>4, ServerMoves

\* A page that is not full ends at the last drawer.
LEMMA StatusPageKeeps ==
  ASSUME DrawersInv, NEW s \in Servers, StatusPage(s)
  PROVE  DrawersInv'
<1> DEFINE n == PageLen(server[s].offset)
           C == Cardinality(filed)
<1>1. C \in Nat
  BY FS_CardinalityType DEF DrawersInv
<1>2. server[s] \in [step : {"counting", "counted"}, total : Nat, offset : Nat, quiet : BOOLEAN]
  BY DEF StatusPage, DrawersInv, Request
<1>3. PageSize \in Nat \ {0}
  BY McpAssumption
<1>4. /\ n \in Nat
      /\ server[s].offset <= C => /\ server[s].offset + n <= C
                                  /\ n < PageSize => server[s].offset + n = C
  BY <1>1, <1>2, <1>3 DEF PageLen, Lesser
<1>5. server[s].quiet => server[s].total = C /\ server[s].offset <= C
  BY DEF StatusPage, DrawersInv, CountIsRight
<1> HIDE DEF n, C
<1>6. /\ UNCHANGED <<filed, second, acked, sent>> /\ acked' \subseteq Entry
      /\ (\A a \in acked' : Has(a.key)) /\ sent' \subseteq Entry
  BY DEF StatusPage, DrawersInv
<1>7. ASSUME NEW r \in Request, r.step \in {"counting", "counted"}, CountIsRight(r),
             server' = [server EXCEPT ![s] = r]
      PROVE  DrawersInv'
  BY <1>6, <1>7, ServerMoves
<1>8. server[s].step = "counting" /\ server \in [Servers -> Request]
  BY DEF StatusPage, DrawersInv
<1>9. CASE server' = [server EXCEPT ![s].offset = @ + n,
                                    ![s].step = IF n < PageSize THEN "counted" ELSE @]
  <2> DEFINE q == [server[s] EXCEPT !.offset = server[s].offset + n]
             r == [q EXCEPT !.step = IF n < PageSize THEN "counted" ELSE q.step]
  <2>1. /\ q \in [step : {"counting", "counted"}, total : Nat, offset : Nat, quiet : BOOLEAN]
        /\ q.step = "counting" /\ q.total = server[s].total
        /\ q.offset = server[s].offset + n /\ q.quiet = server[s].quiet
    BY <1>2, <1>4, <1>8
  <2>2. server' = [server EXCEPT ![s] = r]
    BY <1>8, <1>9
  <2> HIDE DEF q
  <2>3. /\ r \in [step : {"counting", "counted"}, total : Nat, offset : Nat, quiet : BOOLEAN]
        /\ r.step = IF n < PageSize THEN "counted" ELSE "counting"
        /\ r.total = q.total /\ r.offset = q.offset /\ r.quiet = q.quiet
    BY <2>1
  <2> HIDE DEF r
  <2>4. CountIsRight(r)
    BY <1>1, <1>2, <1>4, <1>5, <2>1, <2>3 DEF CountIsRight, C
  <2>5. r \in Request /\ r.step \in {"counting", "counted"}
    BY <2>3 DEF Request
  <2> QED BY <2>2, <2>4, <2>5, <1>7
<1>10. CASE server' = [server EXCEPT ![s].step = "counted", ![s].quiet = FALSE]
  <2> DEFINE q == [server[s] EXCEPT !.step = "counted"]
             r == [q EXCEPT !.quiet = FALSE]
  <2>1. q \in [step : {"counting", "counted"}, total : Nat, offset : Nat, quiet : BOOLEAN]
    BY <1>2
  <2>2. server' = [server EXCEPT ![s] = r]
    BY <1>8, <1>10
  <2> HIDE DEF q
  <2>3. /\ r \in [step : {"counting", "counted"}, total : Nat, offset : Nat, quiet : BOOLEAN]
        /\ r.quiet = FALSE
    BY <2>1
  <2> HIDE DEF r
  <2>4. r \in Request /\ r.step \in {"counting", "counted"} /\ CountIsRight(r)
    BY <2>3 DEF Request, CountIsRight
  <2> QED BY <2>2, <2>4, <1>7
<1> QED BY <1>9, <1>10 DEF StatusPage, n

\* A crash forgets the request and nothing else.
LEMMA ServerCrashesKeeps ==
  ASSUME DrawersInv, NEW s \in Servers, ServerCrashes(s)
  PROVE  DrawersInv'
<1>1. Idle \in Request /\ CountIsRight(Idle) /\ Idle.step # "adding"
  BY DEF Idle, Request, CountIsRight
<1>2. /\ server' = [server EXCEPT ![s] = Idle] /\ UNCHANGED <<filed, second, acked, sent>>
      /\ acked' \subseteq Entry /\ (\A a \in acked' : Has(a.key)) /\ sent' \subseteq Entry
  BY DEF ServerCrashes, DrawersInv
<1> QED BY <1>1, <1>2, ServerMoves

LEMMA RestKeepsDrawers ==
  ASSUME DrawersInv, NextSecond \/ UNCHANGED mcpVars
  PROVE  DrawersInv'
<1>1. UNCHANGED <<filed, server, acked, sent>> /\ second' \in 1..LastSecond
  BY McpAssumption DEF NextSecond, mcpVars, DrawersInv
<1> QED BY <1>1 DEF DrawersInv, Has, CountIsRight

-----------------------------------------------------------------------------
(* The theorems. *)

McpInv == GraphInv /\ DrawersInv

LEMMA GraphStep ==
  ASSUME GraphInv, KGNext \/ GraphTools \/ UNCHANGED kgVars
  PROVE  GraphInv'
<1>2. {NoDate, today, today - 1} \subseteq Dates
  BY DatesOfToday DEF GraphInv
<1>3. CASE NextDay \/ UNCHANGED kgVars
  BY <1>3, StutterKeepsGraph
<1>4. CASE Use
  <2>1. Unchanged
    BY <1>4 DEF Use, Unchanged
  <2>2. CASE \E n \in Names, type \in Types : AddEntity(n, type)
    BY <2>1, <2>2, AddEntityKeepsGraph
  <2>3. CASE \E s, o \in Names, p \in Predicates, from, to \in {NoDate, today} :
               AddTriple(s, p, o, from, to, None)
    <3>1. PICK s \in Names, o \in Names, p \in Predicates,
               from \in {NoDate, today}, to \in {NoDate, today} :
                 AddTriple(s, p, o, from, to, None)
      BY <2>3
    <3>2. KGTypeOK /\ TablesInv /\ from \in Dates /\ to \in Dates
      BY <1>2 DEF GraphInv, TablesInv
    <3>3. /\ None \in committed \union {None} /\ None \in Docs \union {None}
          /\ UNCHANGED committed
      BY <2>1 DEF Unchanged
    <3>4. /\ entities' \in [Ids -> [name : Names, type : Types] \union {None}]
          /\ triples' \in Seq(Row)
      BY <3>1, <3>2, <3>3, AddTripleAppends
    <3>5. KGTypeOK'
      BY <3>2, <3>4, <2>1 DEF KGTypeOK, Unchanged
    <3>6. TablesInv' /\ FactsStay
      BY <3>1, <3>2, <3>3, AddTripleKeeps
    <3> QED BY <3>5, <3>6, <2>1, CallKeepsGraph
  <2>4. CASE \E s, o \in Names, p \in Predicates, ended \in {NoDate, today - 1} :
               Invalidate(s, p, o, ended)
    BY <1>2, <2>1, <2>4, CallsKeepGraph
  <2> QED BY <1>4, <2>2, <2>3, <2>4 DEF Use
<1>5. CASE \E w \in Writers : Write(w)
  BY <1>5, StoreDrawerKeepsGraph, ExtractNextKeepsGraph, WriterCrashesKeepsGraph DEF Write
<1>6. CASE GraphTools
  <2>1. PICK subject \in Names, object \in Names, p \in Predicates, date \in {NoDate, today} :
          KGAdd(subject, p, object, date) \/ KGInvalidate(subject, p, object, date)
    BY <1>6 DEF GraphTools
  <2>2. Clean[subject] \in Names /\ Clean[object] \in Names /\ date \in Dates
    BY <1>2, McpAssumption
  <2>3. Unchanged
    BY <2>1 DEF KGAdd, KGInvalidate, Unchanged
  <2>4. CASE KGAdd(subject, p, object, date)
    BY <2>2, <2>3, <2>4, CallsKeepGraph DEF KGAdd
  <2>5. CASE KGInvalidate(subject, p, object, date)
    BY <2>2, <2>3, <2>5, CallsKeepGraph DEF KGInvalidate
  <2> QED BY <2>1, <2>4, <2>5
<1> QED BY <1>3, <1>4, <1>5, <1>6 DEF KGNext

LEMMA DrawersStep ==
  ASSUME DrawersInv,
         NextSecond \/ (\E s \in Servers : DrawerTools(s) \/ ServerCrashes(s)) \/ UNCHANGED mcpVars
  PROVE  DrawersInv'
<1>1. CASE NextSecond \/ UNCHANGED mcpVars
  BY <1>1, RestKeepsDrawers
<1>2. CASE \E s \in Servers : ServerCrashes(s)
  BY <1>2, ServerCrashesKeeps
<1>3. CASE \E s \in Servers : DrawerTools(s)
  BY <1>3, AddLookKeeps, AddStoreKeeps, DiaryWriteKeeps, DeleteDrawerKeeps, StatusCountKeeps,
     StatusPageKeeps DEF DrawerTools
<1> QED BY <1>1, <1>2, <1>3

THEOREM McpInvariant == McpSpec => []McpInv
<1>1. McpInit => McpInv
  BY GraphInit, DrawersInit DEF McpInit, McpInv
<1>2. McpInv /\ [McpNext]_allVars => McpInv'
  BY GraphStep, DrawersStep DEF McpInv, McpNext, allVars
<1> QED BY <1>1, <1>2, PTL DEF McpSpec

\* The graph, the drawers and the requests stay well typed, for any servers,
\* writers, names and contents.
THEOREM McpTypes == McpSpec => []McpTypeOK
<1>1. McpInv => McpTypeOK
  BY DEF McpInv, GraphInv, DrawersInv, McpTypeOK
<1> QED BY <1>1, McpInvariant, PTL

\* AddTriple and Invalidate, called by anyone in any order, under whatever
\* names, keep at most one active triple of a fact (kg.go:151-226).
THEOREM McpOneActive == McpSpec => []OneActive
<1>1. McpInv => OneActive
  BY DEF McpInv, GraphInv
<1> QED BY <1>1, McpInvariant, PTL

\* The joins of QueryEntity lose no triple (kg.go:229-330).
THEOREM McpQueriesAreWhole == McpSpec => []QueriesAreWhole
<1>1. McpInv => QueriesAreWhole
  BY DEF McpInv, GraphInv, EntitiesAreThere, Joined, QueriesAreWhole, Outgoing, Incoming
<1> QED BY <1>1, McpInvariant, PTL

\* What AutoExtractKG adds comes of committed drawers, and every fact of one is
\* added, queued or lost to a failure (palace.go:386-407).
THEOREM McpExtractionFollows == McpSpec => []ExtractionFollows
<1>1. McpInv => ExtractionFollows
  BY DEF McpInv, GraphInv, ClosetsCommitted, FactsAreSomewhere, InGraph, IsDue, ExtractionFollows
<1> QED BY <1>1, McpInvariant, PTL

\* No triple is ever deleted, or changed otherwise than by its end.
THEOREM McpHistoryStands == McpSpec => HistoryStands
<1> DEFINE Stands ==
      \A k \in DOMAIN triples :
         /\ k \in DOMAIN triples'
         /\ triples'[k] # triples[k] =>
              /\ Active(triples[k]) /\ ~Active(triples'[k])
              /\ triples'[k] = [triples[k] EXCEPT !.to = triples'[k].to]
<1>1. GraphInv /\ [McpNext]_allVars => [Stands]_kgVars
  <2> SUFFICES ASSUME GraphInv, [McpNext]_allVars PROVE Stands \/ UNCHANGED kgVars
    OBVIOUS
  <2>1. KGTypeOK /\ {NoDate, today, today - 1} \subseteq Dates
    BY DatesOfToday DEF GraphInv
  <2>2. ASSUME NEW s \in Names, NEW o \in Names, NEW p \in Predicates, NEW from \in Dates,
               NEW to \in Dates, NEW closet \in Docs \union {None},
               AddTriple(s, p, o, from, to, closet)
        PROVE  Stands
    BY <2>1, <2>2, AddTripleAppends
  <2>3. ASSUME NEW s \in Names, NEW o \in Names, NEW p \in Predicates, NEW ended \in Dates,
               Invalidate(s, p, o, ended)
        PROVE  Stands
    BY <2>1, <2>3, InvalidateEnds
  <2>4. ASSUME UNCHANGED triples PROVE Stands
    BY <2>4
  <2> HIDE DEF Stands
  <2>5. CASE Use
    BY <2>1, <2>2, <2>3, <2>4, <2>5 DEF Use, AddEntity
  <2>6. CASE GraphTools
    BY <2>1, <2>2, <2>3, <2>6, McpAssumption DEF GraphTools, KGAdd, KGInvalidate
  <2>7. CASE \E w \in Writers : Write(w)
    <3>1. PICK w \in Writers : Write(w)
      BY <2>7
    <3>2. CASE ExtractNext(w)
      <4> DEFINE fs == extracting[w].facts
                 f == Head(fs)
      <4>1. fs \in Seq(Fact) /\ fs # <<>> /\ extracting[w].doc \in Docs \union {None}
        BY <2>1, <3>2 DEF KGTypeOK, ExtractNext
      <4>2. f \in Fact
        BY <4>1
      <4>3. f.subject \in Names /\ f.predicate \in Predicates /\ f.object \in Names
        BY <4>2 DEF Fact
      <4> QED BY <2>1, <2>2, <2>4, <3>2, <4>1, <4>3 DEF ExtractNext
    <3> QED BY <3>1, <3>2, <2>4 DEF Write, StoreDrawer, WriterCrashes
  <2>8. CASE NextDay
    BY <2>4, <2>8 DEF NextDay
  <2>9. CASE UNCHANGED kgVars
    BY <2>9
  <2> QED BY <2>5, <2>6, <2>7, <2>8, <2>9 DEF McpNext, KGNext, allVars
<1>2. McpInv => GraphInv
  BY DEF McpInv
<1> QED BY <1>1, <1>2, McpInvariant, PTL DEF McpSpec, HistoryStands

\* A drawer a tool reported stored is there under its id until a tool deletes
\* it, and with its content unless another text of its id was sent.
THEOREM McpAckStands == McpSpec => []AckStands
<1>1. McpInv => AckStands
  BY DEF McpInv, DrawersInv, Has, AckStands
<1> QED BY <1>1, McpInvariant, PTL

\* The pages of an undisturbed status add up to its count, whatever the size of
\* the palace and of a page.
THEOREM McpStatusAddsUp == McpSpec => []StatusAddsUp
<1>1. McpInv => StatusAddsUp
  BY DEF McpInv, DrawersInv, CountIsRight, StatusAddsUp
<1> QED BY <1>1, McpInvariant, PTL
=============================================================================
