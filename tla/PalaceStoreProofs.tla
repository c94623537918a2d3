-------------------------- MODULE PalaceStoreProofs --------------------------
(***************************************************************************)
(* PalaceStore for every value of its constants: types, the agreement of   *)
(* the two tables, merges that keep partitions, and the refinement of      *)
(* DrawerMap.                                                              *)
(***************************************************************************)
EXTENDS PalaceStore, FiniteSetTheorems, TLAPS

\* What the statements write is well typed (upsertOne, MergeAndDelete).
LEMMA StoredType == \A r \in Row : Stored(r) \in Row /\ VecOf(r) \in VecRow
<1> SUFFICES ASSUME NEW r \in Row PROVE Stored(r) \in Row /\ VecOf(r) \in VecRow
  OBVIOUS
<1>1. Overlay(r.label, Extract[r.doc], "none") \in Labels
  BY StoreAssumption DEF Overlay, Row
<1>2. Stored(r) \in Row
  BY <1>1 DEF Stored, Row
<1>3. VecOf(r) \in VecRow
  BY StoreAssumption DEF VecOf, VecRow, Row
<1> QED
  BY <1>2, <1>3

\* Storing a drawer keeps what DrawerMap knows of it (upsertOne).
LEMMA StoredKeeps ==
  \A r \in Row : /\ Stored(r).doc = r.doc
                 /\ Stored(r).wing = r.wing
                 /\ Stored(r).hall = r.hall
                 /\ Stored(r).src = r.src
BY DEF Stored, Row

\* A merge of metadata is well typed and touches nothing but metadata
\* (MergeAndDelete).
LEMMA MergeType ==
  TypeOK => \A r \in Row, m \in MergedMeta :
              /\ Merge(r, m) \in Row
              /\ Merge(r, m).doc = r.doc
              /\ Merge(r, m).wing = r.wing
              /\ Merge(r, m).hall = r.hall
              /\ Merge(r, m).src = r.src
<1> SUFFICES ASSUME TypeOK, NEW r \in Row, NEW m \in MergedMeta
             PROVE  /\ Merge(r, m) \in Row
                    /\ Merge(r, m).doc = r.doc
                    /\ Merge(r, m).wing = r.wing
                    /\ Merge(r, m).hall = r.hall
                    /\ Merge(r, m).src = r.src
  OBVIOUS
<1>1. Overlay(r.label, m.label, "none") \in Labels
  BY DEF Overlay, Row, MergedMeta
<1>2. Overlay(r.used, m.used, Never) \in Times \cup {Never}
  BY StoreAssumption DEF Overlay, Row, MergedMeta, TypeOK, Times
<1> QED
  BY <1>1, <1>2 DEF Merge, Row

\* Writing rows preserves the types of both tables (upsertOne).
LEMMA PutRowsType ==
  ASSUME TypeOK, NEW b, \A i \in DOMAIN b : b[i] \in Row, PutRows(b)
  PROVE  drawers' \in [Ids -> Row \cup {None}] /\ vecs' \in [Ids -> VecRow \cup {None}]
BY StoredType DEF PutRows, TypeOK

\* Deleting rows preserves the types of both tables (DeleteBatch).
LEMMA DropRowsType ==
  ASSUME TypeOK, NEW S, DropRows(S)
  PROVE  drawers' \in [Ids -> Row \cup {None}] /\ vecs' \in [Ids -> VecRow \cup {None}]
BY DEF DropRows, TypeOK

\* Touching rows preserves the type of drawers (TouchLastAccessed).
LEMMA TouchRowsType ==
  ASSUME TypeOK, NEW S, TouchRows(S)
  PROVE  drawers' \in [Ids -> Row \cup {None}]
<1>1. \A i \in Present : drawers[i] \in Row
  BY DEF Present, TypeOK
<1>2. \A r \in Row : [r EXCEPT !.used = now] \in Row
  BY DEF Row, TypeOK
<1> QED
  BY <1>1, <1>2 DEF TouchRows, TypeOK

\* Every result of a search is the id of a drawer (Query).
LEMMA ResultsAreIds ==
  ASSUME NEW o, NEW A \in Results(o)
  PROVE  A \subseteq Present /\ A \subseteq Ids
BY DEF Results, Trimmed, Joined, Nearest, InScope, Present

\* Every step of the store preserves its types.
LEMMA StoreStepTyped == TypeOK /\ [Next]_vars => TypeOK'
<1> SUFFICES ASSUME TypeOK, [Next]_vars PROVE TypeOK'
  OBVIOUS
<1> USE DEF Outcomes
<1>1. ASSUME NEW c \in Clients, NEW S \in SUBSET Ids, NEW b \in [S -> NewDrawers],
             UpsertBatch(c, b)
      PROVE  TypeOK'
  <2>1. NewDrawers \subseteq Row
    BY StoreAssumption DEF NewDrawers, Row, TypeOK, AllHalls
  <2>2. \A i \in DOMAIN b : b[i] \in Row
    BY <2>1
  <2> QED
    BY <1>1, <2>2, PutRowsType DEF UpsertBatch, Return, TypeOK
<1>2. ASSUME NEW c \in Clients, NEW i \in Ids, Delete(c, i)
      PROVE  TypeOK'
  BY <1>2, DropRowsType DEF Delete, Return, TypeOK
<1>3. ASSUME NEW c \in Clients, NEW S \in SUBSET Ids, DeleteBatch(c, S)
      PROVE  TypeOK'
  BY <1>3, DropRowsType DEF DeleteBatch, Return, TypeOK
<1>4. ASSUME NEW c \in Clients, NEW S \in SUBSET Ids, ArchiveDrawers(c, S)
      PROVE  TypeOK'
  <2>1. \A r \in Row : [r EXCEPT !.hall = Archived] \in Row
    BY DEF Row, AllHalls
  <2>2. \A i \in Present : drawers[i] \in Row
    BY DEF Present, TypeOK
  <2>3. drawers' \in [Ids -> Row \cup {None}]
    BY <1>4, <2>1, <2>2 DEF ArchiveDrawers, TypeOK
  <2> QED
    BY <1>4, <2>3 DEF ArchiveDrawers, Return, TypeOK
<1>5. ASSUME NEW c \in Clients, NEW S \in SUBSET Ids, TouchLastAccessed(c, S)
      PROVE  TypeOK'
  BY <1>5, TouchRowsType DEF TouchLastAccessed, Return, TypeOK
<1>6. ASSUME NEW c \in Clients, NEW w \in Ids, NEW S \in SUBSET Ids,
             NEW m \in MergedMeta, MergeAndDelete(c, w, S, m)
      PROVE  TypeOK'
  <2>1. CASE UNCHANGED tables
    BY <1>6, <2>1 DEF MergeAndDelete, Return, TypeOK, tables
  <2>2. CASE ~UNCHANGED tables
    <3>1. Merge(drawers[w], m) \in Row /\ w \in Present
      BY <1>6, <2>2, MergeType DEF MergeAndDelete, Present, TypeOK, tables
    <3>2. /\ drawers' \in [Ids -> Row \cup {None}]
          /\ vecs' \in [Ids -> VecRow \cup {None}]
      BY <1>6, <2>2, <3>1 DEF MergeAndDelete, TypeOK, tables
    <3> QED
      BY <1>6, <3>2 DEF MergeAndDelete, Return, TypeOK
  <2> QED
    BY <2>1, <2>2
<1>7. ASSUME NEW c \in Clients, NEW o \in Options, Query(c, o)
      PROVE  TypeOK'
  <2>1. PICK A \in Results(o) :
          /\ answer' = [opts |-> o, ids |-> A]
          /\ pending' = [pending EXCEPT ![c] = IF TrackLastAccessed THEN A ELSE {}]
    BY <1>7 DEF Query
  <2>2. A \subseteq Ids
    BY ResultsAreIds
  <2> QED
    BY <1>7, <2>1, <2>2 DEF Query, TypeOK
<1>8. ASSUME NEW c \in Clients, QueryTouch(c)
      PROVE  TypeOK'
  <2>1. drawers' \in [Ids -> Row \cup {None}]
    BY <1>8, TouchRowsType DEF QueryTouch, TypeOK
  <2> QED
    BY <1>8, <2>1 DEF QueryTouch, TypeOK
<1>9. ASSUME NEW c \in Clients, EmbedFails(c) \/ DbFails(c)
      PROVE  TypeOK'
  BY <1>9 DEF EmbedFails, DbFails, Return, tables, TypeOK
<1>10. CASE Tick
  BY <1>10, StoreAssumption DEF Tick, TypeOK, Times
<1>11. CASE UNCHANGED vars
  BY <1>11 DEF vars, TypeOK
<1> QED
  BY <1>1, <1>2, <1>3, <1>4, <1>5, <1>6, <1>7, <1>8, <1>9, <1>10, <1>11
  DEF Next, Call

\* Type correctness of the store.
THEOREM StoreTypes == Spec => []TypeOK
<1>1. Init => TypeOK
  BY StoreAssumption DEF Init, TypeOK, Times, Outcomes
<1> QED
  BY <1>1, StoreStepTyped, PTL DEF Spec

-----------------------------------------------------------------------------
\* Writing rows in both tables keeps them in agreement (upsertOne).
LEMMA PutRowsAgree ==
  ASSUME TypeOK, TablesAgree, NEW b, \A i \in DOMAIN b : b[i] \in Row, PutRows(b)
  PROVE  TablesAgree'
<1> SUFFICES ASSUME NEW i \in Ids
             PROVE  /\ drawers'[i] # None <=> vecs'[i] # None
                    /\ drawers'[i] # None =>
                         /\ vecs'[i].emb = Norm[drawers'[i].doc]
                         /\ vecs'[i].wing = drawers'[i].wing
                         /\ vecs'[i].src = drawers'[i].src
                         /\ vecs'[i].hall # drawers'[i].hall
                              => drawers'[i].hall = Archived
  BY DEF TablesAgree, Present, Indexed
<1>1. CASE i \in DOMAIN b
  <2>1. drawers'[i] = Stored(b[i]) /\ vecs'[i] = VecOf(b[i])
    BY <1>1 DEF PutRows
  <2>2. Stored(b[i]) \in Row /\ VecOf(b[i]) \in VecRow
    BY <1>1, StoredType
  <2>3. drawers'[i] # None /\ vecs'[i] # None
    BY <2>1, <2>2, StoreAssumption
  <2> QED
    BY <1>1, <2>1, <2>3, StoredKeeps DEF VecOf
<1>2. CASE i \notin DOMAIN b
  BY <1>2 DEF PutRows, TablesAgree, Present, Indexed
<1> QED
  BY <1>1, <1>2

\* Deleting in both tables keeps them in agreement (DeleteBatch).
LEMMA DropRowsAgree ==
  ASSUME TablesAgree, NEW S, DropRows(S)
  PROVE  TablesAgree'
BY DEF DropRows, TablesAgree, Present, Indexed

\* A step that changes no shadow row, and no drawer beyond its metadata, keeps
\* the tables in agreement.
LEMMA MetadataAgree ==
  ASSUME TypeOK, TablesAgree, UNCHANGED vecs,
         \A i \in Ids : \/ drawers'[i] = drawers[i]
                        \/ /\ i \in Present /\ drawers'[i] \in Row
                           /\ drawers'[i].doc = drawers[i].doc
                           /\ drawers'[i].wing = drawers[i].wing
                           /\ drawers'[i].src = drawers[i].src
                           /\ drawers'[i].hall \in {drawers[i].hall, Archived}
  PROVE  TablesAgree'
BY StoreAssumption DEF TablesAgree, Present, Indexed

\* A touch is such a step (TouchLastAccessed).
LEMMA TouchRowsAgree ==
  ASSUME TypeOK, TablesAgree, NEW S, TouchRows(S), UNCHANGED vecs
  PROVE  TablesAgree'
<1>1. \A r \in Row : LET t == [r EXCEPT !.used = now]
                     IN  /\ t \in Row
                         /\ t.doc = r.doc /\ t.wing = r.wing
                         /\ t.src = r.src /\ t.hall = r.hall
  BY DEF Row, TypeOK
<1>2. \A i \in Present : drawers[i] \in Row
  BY DEF Present, TypeOK
<1> QED
  BY <1>1, <1>2, MetadataAgree DEF TouchRows

\* The two tables agree in every reachable state, so a search sees every
\* drawer under its own partition and by the text it holds now.
THEOREM StoreTablesAgree == Spec => []TablesAgree
<1>1. Init => TablesAgree
  BY DEF Init, TablesAgree, Present, Indexed
<1>2. TypeOK /\ TablesAgree /\ [Next]_vars => TablesAgree'
  <2> SUFFICES ASSUME TypeOK, TablesAgree, [Next]_vars PROVE TablesAgree'
    OBVIOUS
  <2>1. ASSUME NEW c \in Clients, NEW S \in SUBSET Ids, NEW b \in [S -> NewDrawers],
               UpsertBatch(c, b)
        PROVE  TablesAgree'
    <3>1. \A i \in DOMAIN b : b[i] \in Row
      BY StoreAssumption DEF NewDrawers, Row, TypeOK, AllHalls
    <3> QED
      BY <2>1, <3>1, PutRowsAgree DEF UpsertBatch
  <2>2. ASSUME NEW c \in Clients, NEW i \in Ids, Delete(c, i)
        PROVE  TablesAgree'
    BY <2>2, DropRowsAgree DEF Delete
  <2>3. ASSUME NEW c \in Clients, NEW S \in SUBSET Ids, DeleteBatch(c, S)
        PROVE  TablesAgree'
    BY <2>3, DropRowsAgree DEF DeleteBatch
  <2>4. ASSUME NEW c \in Clients, NEW S \in SUBSET Ids, ArchiveDrawers(c, S)
        PROVE  TablesAgree'
    <3>1. \A r \in Row : LET a == [r EXCEPT !.hall = Archived]
                         IN  /\ a \in Row
                             /\ a.doc = r.doc /\ a.wing = r.wing
                             /\ a.src = r.src /\ a.hall = Archived
      BY DEF Row, AllHalls
    <3>2. \A i \in Present : drawers[i] \in Row
      BY DEF Present, TypeOK
    <3> QED
      BY <2>4, <3>1, <3>2, MetadataAgree DEF ArchiveDrawers
  <2>5. ASSUME NEW c \in Clients, NEW S \in SUBSET Ids, TouchLastAccessed(c, S)
        PROVE  TablesAgree'
    BY <2>5, TouchRowsAgree DEF TouchLastAccessed
  <2>6. ASSUME NEW c \in Clients, NEW w \in Ids, NEW S \in SUBSET Ids,
               NEW m \in MergedMeta, MergeAndDelete(c, w, S, m)
        PROVE  TablesAgree'
    <3>1. CASE UNCHANGED tables
      BY <3>1 DEF tables, TablesAgree, Present, Indexed
    <3>2. CASE ~UNCHANGED tables
      <4> DEFINE found == (S \ {w}) \cap Present
      <4>1. /\ w \in Present
            /\ drawers' = [i \in Ids |-> IF i \in found THEN None
                                         ELSE IF i = w THEN Merge(drawers[i], m)
                                         ELSE drawers[i]]
            /\ vecs' = [i \in Ids |-> IF i \in found THEN None ELSE vecs[i]]
        BY <2>6, <3>2 DEF MergeAndDelete, tables
      <4>2. /\ Merge(drawers[w], m) \in Row
            /\ Merge(drawers[w], m).doc = drawers[w].doc
            /\ Merge(drawers[w], m).wing = drawers[w].wing
            /\ Merge(drawers[w], m).hall = drawers[w].hall
            /\ Merge(drawers[w], m).src = drawers[w].src
        BY <4>1, MergeType DEF Present, TypeOK
      <4> HIDE DEF found
      <4> QED
        BY <4>1, <4>2, StoreAssumption DEF TablesAgree, Present, Indexed
    <3> QED
      BY <3>1, <3>2
  <2>7. ASSUME NEW c \in Clients, NEW o \in Options, Query(c, o)
        PROVE  TablesAgree'
    BY <2>7 DEF Query, TablesAgree, Present, Indexed
  <2>8. ASSUME NEW c \in Clients, QueryTouch(c)
        PROVE  TablesAgree'
    <3>1. CASE TouchRows(pending[c])
      BY <2>8, <3>1, TouchRowsAgree DEF QueryTouch
    <3>2. CASE UNCHANGED drawers
      BY <2>8, <3>2 DEF QueryTouch, TablesAgree, Present, Indexed
    <3> QED
      BY <2>8, <3>1, <3>2 DEF QueryTouch
  <2>9. ASSUME NEW c \in Clients, EmbedFails(c) \/ DbFails(c)
        PROVE  TablesAgree'
    BY <2>9 DEF EmbedFails, DbFails, tables, TablesAgree, Present, Indexed
  <2>10. CASE Tick
    BY <2>10 DEF Tick, TablesAgree, Present, Indexed
  <2>11. CASE UNCHANGED vars
    BY <2>11 DEF vars, TablesAgree, Present, Indexed
  <2> QED
    BY <2>1, <2>2, <2>3, <2>4, <2>5, <2>6, <2>7, <2>8, <2>9, <2>10, <2>11
    DEF Next, Call
<1> QED
  BY <1>1, <1>2, StoreTypes, PTL DEF Spec

-----------------------------------------------------------------------------
\* A successful merge, and whatever may follow it before the next call
\* returns, leaves every (wing, hall, source_file) partition inhabited
\* (MergeAndDelete).
THEOREM StoreMergeKeepsPartitions == Spec => MergeKeepsPartitions
<1>1. TypeOK /\ [Next]_vars => [reply' = "merged" => Partitions' = Partitions]_vars
  <2> SUFFICES ASSUME TypeOK, Next, reply' = "merged" PROVE Partitions' = Partitions
    BY DEF vars
  <2>1. ASSUME \A i \in Ids :
                 \/ drawers'[i] = drawers[i]
                 \/ /\ i \in Present /\ drawers'[i] \in Row
                    /\ drawers'[i].wing = drawers[i].wing
                    /\ drawers'[i].hall = drawers[i].hall
                    /\ drawers'[i].src = drawers[i].src
        PROVE  Partitions' = Partitions
    BY <2>1, StoreAssumption DEF Partitions, Present
  <2>2. ASSUME NEW c \in Clients, NEW w \in Ids, NEW S \in SUBSET Ids,
               NEW m \in MergedMeta, MergeAndDelete(c, w, S, m)
        PROVE  Partitions' = Partitions
    <3> DEFINE found == (S \ {w}) \cap Present
    <3>1. /\ w \in Present
          /\ \A i \in found : Partition(drawers[i]) = Partition(drawers[w])
          /\ drawers' = [i \in Ids |-> IF i \in found THEN None
                                       ELSE IF i = w THEN Merge(drawers[i], m)
                                       ELSE drawers[i]]
      BY <2>2 DEF MergeAndDelete, Return
    <3>2. /\ Merge(drawers[w], m) \in Row
          /\ Merge(drawers[w], m).wing = drawers[w].wing
          /\ Merge(drawers[w], m).hall = drawers[w].hall
          /\ Merge(drawers[w], m).src = drawers[w].src
      BY <3>1, MergeType DEF Present, TypeOK
    <3>3. \A i \in found : /\ drawers[i].wing = drawers[w].wing
                           /\ drawers[i].hall = drawers[w].hall
                           /\ drawers[i].src = drawers[w].src
      BY <3>1 DEF Partition
    <3>4. Present' = Present \ found
      BY <3>1, <3>2, StoreAssumption DEF Present
    <3>5. w \in Present \ found
      BY <3>1
    <3> HIDE DEF found
    <3>6. \A i \in Present \ found : /\ drawers'[i].wing = drawers[i].wing
                                     /\ drawers'[i].hall = drawers[i].hall
                                     /\ drawers'[i].src = drawers[i].src
      BY <3>1, <3>2 DEF Present
    <3>7. Partitions' \subseteq Partitions
      BY <3>4, <3>6 DEF Partitions
    <3>8. Partitions \subseteq Partitions'
      <4> SUFFICES ASSUME NEW i \in Present
                   PROVE  \E j \in Present' :
                            <<drawers[i].wing, drawers[i].hall, drawers[i].src>>
                              = <<drawers'[j].wing, drawers'[j].hall, drawers'[j].src>>
        BY DEF Partitions
      <4>1. CASE i \in found
        BY <4>1, <3>3, <3>4, <3>5, <3>6
      <4>2. CASE i \notin found
        BY <4>2, <3>4, <3>6
      <4> QED
        BY <4>1, <4>2
    <3> QED
      BY <3>7, <3>8
  <2>3. ASSUME NEW c \in Clients, QueryTouch(c)
        PROVE  Partitions' = Partitions
    <3>1. \A r \in Row : LET t == [r EXCEPT !.used = now]
                         IN  /\ t \in Row /\ t.wing = r.wing
                             /\ t.src = r.src /\ t.hall = r.hall
      BY DEF Row, TypeOK
    <3>2. \A i \in Present : drawers[i] \in Row
      BY DEF Present, TypeOK
    <3> QED
      BY <2>1, <2>3, <3>1, <3>2 DEF QueryTouch, TouchRows
  <2>4. CASE Tick
    BY <2>4 DEF Tick, Partitions, Present
  <2> QED
    BY <2>2, <2>3, <2>4
    DEF Next, Call, UpsertBatch, Delete, DeleteBatch, ArchiveDrawers,
        TouchLastAccessed, Query, EmbedFails, DbFails, Return
<1> QED
  BY <1>1, StoreTypes, PTL DEF Spec, MergeKeepsPartitions

-----------------------------------------------------------------------------
\* A row and the drawer a user sees under the same id.
LEMMA DrawerOfType == \A r \in Row : DrawerOf(r) \in Map!Drawer /\ DrawerOf(r) # None
BY StoreAssumption DEF DrawerOf, Row, Map!Drawer

\* What the map keeps is what the table of drawers holds, under the same
\* partition keys.
LEMMA ContentsAt ==
  ASSUME TypeOK
  PROVE  /\ Map!Kept = Present
         /\ \A i \in Present : /\ Contents[i] = DrawerOf(drawers[i])
                               /\ Contents[i].wing = drawers[i].wing
                               /\ Contents[i].hall = drawers[i].hall
<1>1. \A i \in Present : drawers[i] \in Row
  BY DEF Present, TypeOK
<1>2. \A i \in Present : Contents[i] = DrawerOf(drawers[i])
  BY DEF Present, Contents
<1>3. Map!Kept = Present
  BY <1>1, DrawerOfType DEF Map!Kept, Present, Contents
<1>4. \A r : DrawerOf(r).wing = r.wing /\ DrawerOf(r).hall = r.hall
  BY DEF DrawerOf
<1> QED
  BY <1>2, <1>3, <1>4

\* The map counts with the same Cardinality.
LEMMA SameCardinality == \A S : Map!Cardinality(S) = Cardinality(S)
BY Zenon DEF Map!Cardinality, Cardinality

\* Every answer computed from the shadow table is one the map allows (Query).
LEMMA SearchRefines ==
  ASSUME TypeOK, TablesAgree, NEW o \in Options, NEW A \in Results(o)
  PROVE  /\ A \subseteq Map!Visible(o)
         /\ Cardinality(A) <= o.n
         /\ o.label = "none" /\ Cardinality(Map!Kept) <= o.n => A = Map!Visible(o)
<1>1. PICK S \in Nearest(o) : A \in Trimmed(o, Joined(o, S))
  BY DEF Results
<1> DEFINE J == Joined(o, S)
<1>2. S \subseteq InScope(o) /\ J \subseteq S /\ A \subseteq J
  BY <1>1 DEF Nearest, Joined, Trimmed
<1>3. Present \subseteq Ids /\ InScope(o) \subseteq Present
  BY DEF Present, Indexed, InScope, TablesAgree
<1>4. /\ IsFiniteSet(Present)
      /\ IsFiniteSet(InScope(o)) /\ Cardinality(InScope(o)) <= Cardinality(Present)
      /\ IsFiniteSet(S) /\ IsFiniteSet(J) /\ IsFiniteSet(A)
      /\ Cardinality(J) <= Cardinality(S)
      /\ Cardinality(S) <= Cardinality(InScope(o))
  BY <1>2, <1>3, StoreAssumption, FS_Subset
<1>5. /\ Cardinality(Present) \in Nat /\ Cardinality(InScope(o)) \in Nat
      /\ Cardinality(S) \in Nat /\ Cardinality(J) \in Nat
      /\ o.n \in Nat
  BY <1>4, FS_CardinalityType, StoreAssumption DEF Options
<1>6. Cardinality(A) = Lesser(o.n, Cardinality(J))
  BY <1>1 DEF Trimmed
<1>7. \A i \in InScope(o) \cap Present :
        drawers[i].hall # Archived => i \in Map!Visible(o)
  <2> SUFFICES ASSUME NEW i \in InScope(o), i \in Present, drawers[i].hall # Archived
               PROVE  i \in Map!Visible(o)
    OBVIOUS
  <2>1. vecs[i].wing = drawers[i].wing /\ vecs[i].hall = drawers[i].hall
    BY <1>3 DEF TablesAgree
  <2>2. /\ i \in Map!Kept
        /\ Contents[i].hall = drawers[i].hall
        /\ Contents[i].wing = drawers[i].wing
    BY ContentsAt
  <2> QED
    BY <2>1, <2>2 DEF InScope, Map!Visible
<1>8. \A i \in Map!Visible(o) :
        /\ i \in InScope(o) /\ i \in Present /\ drawers[i].hall # Archived
  <2> SUFFICES ASSUME NEW i \in Map!Visible(o)
               PROVE  i \in InScope(o) /\ i \in Present /\ drawers[i].hall # Archived
    OBVIOUS
  <2>1. i \in Present
    BY ContentsAt DEF Map!Visible
  <2>2. /\ Contents[i].hall = drawers[i].hall
        /\ Contents[i].wing = drawers[i].wing
    BY <2>1, ContentsAt
  <2>3. drawers[i].hall # Archived
    BY <2>2 DEF Map!Visible
  <2>4. /\ i \in Indexed
        /\ vecs[i].wing = drawers[i].wing /\ vecs[i].hall = drawers[i].hall
    BY <1>3, <2>1, <2>3 DEF TablesAgree
  <2> QED
    BY <2>1, <2>2, <2>3, <2>4 DEF Map!Visible, InScope
<1>9. A \subseteq Map!Visible(o)
  BY <1>2, <1>7 DEF Joined
<1>10. Cardinality(A) <= o.n
  BY <1>5, <1>6 DEF Lesser
<1>11. ASSUME o.label = "none", Cardinality(Map!Kept) <= o.n
       PROVE  A = Map!Visible(o)
  <2>1. Cardinality(Present) <= o.n
    BY <1>11, ContentsAt
  <2>2. Cardinality(S) = Cardinality(InScope(o))
    BY <1>1, <1>4, <1>5, <1>11, <2>1 DEF Nearest, Reach, Lesser
  <2>3. S = InScope(o)
    BY <1>2, <1>4, <2>2, FS_Subset
  <2>4. Cardinality(A) = Cardinality(J)
    BY <1>4, <1>5, <1>6, <2>1 DEF Lesser
  <2>5. A = J
    BY <1>2, <1>4, <2>4, FS_Subset
  <2>6. J = {i \in InScope(o) \cap Present : drawers[i].hall # Archived}
    BY <1>11, <2>3 DEF Joined
  <2> QED
    BY <1>7, <1>8, <2>5, <2>6
<1> QED
  BY <1>9, <1>10, <1>11

\* The store implements the map of drawers: upserts store, deletes and merges
\* forget, archiving archives, and a search through the shadow table answers
\* as one over the drawers would.
THEOREM StoreImplementsMap == Spec => ImplementsMap
<1>1. Init => Map!Init
  BY DEF Init, Map!Init, Contents
<1>2. TypeOK /\ TablesAgree /\ [Next]_vars => [Map!Next]_(Map!mapVars)
  <2> SUFFICES ASSUME TypeOK, TablesAgree, [Next]_vars
               PROVE  [Map!Next]_(Map!mapVars)
    OBVIOUS
  <2> USE DEF Map!Next
  <2>0. \A i \in Present : drawers[i] \in Row
    BY DEF Present, TypeOK
  <2>1. ASSUME NEW c \in Clients, NEW S \in SUBSET Ids, NEW b \in [S -> NewDrawers],
               UpsertBatch(c, b)
        PROVE  Map!Store
    <3> DEFINE d == [i \in S |-> DrawerOf(b[i])]
    <3>1. \A i \in S : b[i] \in Row
      BY StoreAssumption DEF NewDrawers, Row, TypeOK, AllHalls
    <3>2. d \in [S -> Map!Drawer]
      BY <3>1, DrawerOfType
    <3>3. \A i \in S : drawers'[i] # None /\ DrawerOf(drawers'[i]) = d[i]
      BY <2>1, <3>1, StoredKeeps, StoredType, StoreAssumption
      DEF UpsertBatch, PutRows, DrawerOf
    <3>4. Contents' = [i \in Ids |-> IF i \in S THEN d[i] ELSE Contents[i]]
      BY <2>1, <3>3 DEF UpsertBatch, PutRows, Contents
    <3> HIDE DEF d
    <3> QED
      BY <2>1, <3>2, <3>4 DEF Map!Store, UpsertBatch, Return
  <2>2. ASSUME NEW S \in SUBSET Ids, answer' = NoAnswer,
               drawers' = [i \in Ids |-> IF i \in S THEN None ELSE drawers[i]]
        PROVE  Map!Forget
    BY <2>2 DEF Map!Forget, Contents
  <2>3. ASSUME answer' = NoAnswer,
               \A i \in Ids : \/ drawers'[i] = drawers[i]
                              \/ /\ i \in Present /\ drawers'[i] # None
                                 /\ DrawerOf(drawers'[i]) = DrawerOf(drawers[i])
        PROVE  Map!Quiet
    BY <2>3 DEF Map!Quiet, Contents, Present
  <2>4. ASSUME NEW c \in Clients, NEW S \in SUBSET Ids, ArchiveDrawers(c, S)
        PROVE  Map!Archive
    <3> DEFINE T == S \cap Present
    <3>1. \A r \in Row : LET a == [r EXCEPT !.hall = Archived]
                         IN  /\ a \in Row
                             /\ DrawerOf(a) = [DrawerOf(r) EXCEPT !.hall = Archived]
      BY DEF Row, AllHalls, DrawerOf
    <3>2. Contents' = [i \in Ids |-> IF i \in T
                                     THEN [Contents[i] EXCEPT !.hall = Archived]
                                     ELSE Contents[i]]
      BY <2>4, <2>0, <3>1, ContentsAt, StoreAssumption DEF ArchiveDrawers, Contents, Present
    <3>3. T \in SUBSET Map!Kept
      BY ContentsAt
    <3> HIDE DEF T
    <3> QED
      BY <2>4, <3>2, <3>3 DEF Map!Archive, ArchiveDrawers, Return
  <2>5. ASSUME NEW S, TouchRows(S)
        PROVE  \A i \in Ids : \/ drawers'[i] = drawers[i]
                              \/ /\ i \in Present /\ drawers'[i] # None
                                 /\ DrawerOf(drawers'[i]) = DrawerOf(drawers[i])
    <3>1. \A r \in Row : LET t == [r EXCEPT !.used = now]
                         IN  t \in Row /\ DrawerOf(t) = DrawerOf(r)
      BY DEF Row, TypeOK, DrawerOf
    <3> QED
      BY <2>0, <2>5, <3>1, StoreAssumption DEF TouchRows
  <2>6. ASSUME NEW c \in Clients, NEW w \in Ids, NEW S \in SUBSET Ids,
               NEW m \in MergedMeta, MergeAndDelete(c, w, S, m)
        PROVE  Map!Forget \/ Map!Quiet
    <3>1. CASE UNCHANGED tables
      BY <2>3, <2>6, <3>1 DEF MergeAndDelete, Return, tables
    <3>2. CASE ~UNCHANGED tables
      <4> DEFINE found == (S \ {w}) \cap Present
      <4>1. /\ w \in Present
            /\ drawers' = [i \in Ids |-> IF i \in found THEN None
                                         ELSE IF i = w THEN Merge(drawers[i], m)
                                         ELSE drawers[i]]
            /\ answer' = NoAnswer
        BY <2>6, <3>2 DEF MergeAndDelete, tables, Return
      <4>2. drawers'[w] # None /\ DrawerOf(drawers'[w]) = DrawerOf(drawers[w])
        BY <2>0, <4>1, MergeType, StoreAssumption DEF DrawerOf
      <4>3. found \in SUBSET Ids
        OBVIOUS
      <4> HIDE DEF found
      <4>4. Contents' = [i \in Ids |-> IF i \in found THEN None ELSE Contents[i]]
        BY <4>1, <4>2 DEF Contents, Present
      <4> QED
        BY <4>1, <4>3, <4>4 DEF Map!Forget
    <3> QED
      BY <3>1, <3>2
  <2>7. ASSUME NEW c \in Clients, NEW o \in Options, Query(c, o)
        PROVE  Map!Search
    <3>1. PICK A \in Results(o) : answer' = [opts |-> o, ids |-> A]
      BY <2>7 DEF Query
    <3>2. Contents' = Contents
      BY <2>7 DEF Query, Contents
    <3>3. o \in Map!Options
      BY DEF Options, Map!Options
    <3> QED
      BY <3>1, <3>2, <3>3, SearchRefines, SameCardinality DEF Map!Search
  <2>8. CASE \E c \in Clients : Call(c)
    <3> PICK c \in Clients : Call(c)
      BY <2>8
    <3>1. CASE \E i \in Ids : Delete(c, i)
      BY <3>1, <2>2 DEF Delete, DropRows, Return
    <3>2. CASE \E S \in SUBSET Ids : DeleteBatch(c, S)
      BY <3>2, <2>2 DEF DeleteBatch, DropRows, Return
    <3>3. CASE \E S \in SUBSET Ids : TouchLastAccessed(c, S)
      BY <3>3, <2>3, <2>5 DEF TouchLastAccessed, Return
    <3>4. CASE QueryTouch(c)
      BY <3>4, <2>3, <2>5 DEF QueryTouch
    <3>5. CASE EmbedFails(c) \/ DbFails(c)
      BY <3>5, <2>3 DEF EmbedFails, DbFails, tables, Return
    <3> QED
      BY <2>1, <2>4, <2>6, <2>7, <3>1, <3>2, <3>3, <3>4, <3>5 DEF Call
  <2>9. CASE Tick
    BY <2>9, <2>3 DEF Tick
  <2>10. CASE UNCHANGED vars
    BY <2>10 DEF vars, Map!mapVars, Contents
  <2> QED
    BY <2>8, <2>9, <2>10 DEF Next
<1> QED
  BY <1>1, <1>2, StoreTypes, StoreTablesAgree, PTL DEF Spec, ImplementsMap, Map!MapSpec

-----------------------------------------------------------------------------
(* Pages.  What lists the palace by pages (LIMIT and OFFSET) cuts them by  *)
(* the position of each drawer among those present, ids numbered in the    *)
(* order of the listing.                                                   *)

\* The position of i in S.
Rank(S, i) == Cardinality({j \in S : j < i})

\* Positions run from zero up and go with the ids.
LEMMA RankGoesUp ==
  ASSUME NEW S \in SUBSET Nat, IsFiniteSet(S), NEW i \in S
  PROVE  /\ Rank(S, i) \in 0..(Cardinality(S) - 1)
         /\ \A j \in S : j < i => Rank(S, j) < Rank(S, i)
<1> DEFINE Below(k) == {j \in S : j < k}
<1>1. \A k : Rank(S, k) = Cardinality(Below(k))
  BY DEF Rank
<1>2. \A k : Below(k) \subseteq S
  OBVIOUS
<1>3. \A k \in S : k \notin Below(k)
  OBVIOUS
<1>4. \A j \in S : j < i => Below(j) \cup {j} \subseteq Below(i)
  <2> SUFFICES ASSUME NEW j \in S, j < i, NEW k \in Below(j) \cup {j} PROVE k \in Below(i)
    OBVIOUS
  <2>1. k \in S /\ i \in Nat /\ j \in Nat /\ k \in Nat /\ (k < j \/ k = j)
    OBVIOUS
  <2> QED
    BY <2>1
<1> HIDE DEF Below
<1>5. Cardinality(S) \in Nat
  BY FS_CardinalityType
<1>6. ASSUME NEW k \in S
      PROVE  /\ IsFiniteSet(Below(k)) /\ Cardinality(Below(k)) \in Nat
             /\ Cardinality(Below(k) \cup {k}) = Cardinality(Below(k)) + 1
             /\ Cardinality(Below(k)) + 1 <= Cardinality(S)
  <2>1. IsFiniteSet(Below(k))
    BY <1>2, FS_Subset
  <2>2. Cardinality(Below(k)) \in Nat
    BY <2>1, FS_CardinalityType
  <2>3. Cardinality(Below(k) \cup {k}) = Cardinality(Below(k)) + 1
    BY <2>1, <1>3, FS_AddElement
  <2>4. Below(k) \cup {k} \subseteq S
    BY <1>2
  <2>5. Cardinality(Below(k) \cup {k}) <= Cardinality(S)
    BY <2>4, FS_Subset
  <2> QED
    BY <2>1, <2>2, <2>3, <2>5
<1>7. ASSUME NEW j \in S, j < i
      PROVE  Cardinality(Below(j)) + 1 <= Cardinality(Below(i))
  <2>1. Cardinality(Below(j) \cup {j}) <= Cardinality(Below(i))
    BY <1>4, <1>6, <1>7, FS_Subset
  <2> QED
    BY <2>1, <1>6
<1>8. Rank(S, i) \in 0..(Cardinality(S) - 1)
  <2>1. Rank(S, i) \in Nat /\ Rank(S, i) + 1 <= Cardinality(S)
    BY <1>1, <1>6
  <2> QED
    BY <2>1, <1>5
<1>9. ASSUME NEW j \in S, j < i PROVE Rank(S, j) < Rank(S, i)
  <2>1. Cardinality(Below(j)) \in Nat /\ Cardinality(Below(i)) \in Nat
    BY <1>6
  <2> QED
    BY <2>1, <1>1, <1>7, <1>9
<1> QED
  BY <1>8, <1>9

\* Every position is taken, and by one drawer.
LEMMA RankCounts ==
  ASSUME NEW S \in SUBSET Nat, IsFiniteSet(S)
  PROVE  [i \in S |-> Rank(S, i)] \in Bijection(S, 0..(Cardinality(S) - 1))
<1> DEFINE T == 0..(Cardinality(S) - 1)
           f == [i \in S |-> Rank(S, i)]
<1>1. Cardinality(S) \in Nat
  BY FS_CardinalityType
<1>2. IsFiniteSet(T) /\ Cardinality(T) = Cardinality(S)
  <2>1. Cardinality(S) - 1 \in Int
    BY <1>1
  <2>2. /\ IsFiniteSet(T)
        /\ Cardinality(T) = IF 0 > Cardinality(S) - 1 THEN 0 ELSE Cardinality(S) - 1 - 0 + 1
    BY <2>1, FS_Interval
  <2> QED
    BY <2>2, <1>1
<1>3. f \in [S -> T]
  BY RankGoesUp
<1>4. \A i, j \in S : i # j => Rank(S, i) # Rank(S, j)
  <2> SUFFICES ASSUME NEW i \in S, NEW j \in S, i < j PROVE Rank(S, i) # Rank(S, j)
    OBVIOUS
  <2> QED
    BY RankGoesUp
<1>5. f \in Injection(S, T)
  BY <1>3, <1>4 DEF Injection, IsInjective
<1>6. f \in Surjection(S, T)
  BY <1>2, <1>5, FS_Injection
<1> QED
  BY <1>5, <1>6 DEF Bijection

\* A page holds no more than it asks for; a page that is not full reaches to the
\* end; and a page that holds anything lies within the table (Get with LIMIT n
\* OFFSET k).
LEMMA PageReach ==
  ASSUME NEW S \in SUBSET Nat, IsFiniteSet(S), NEW k \in Nat, NEW n \in Nat,
         NEW P, P = {i \in S : Rank(S, i) \in k..(k + n - 1)}
  PROVE  /\ Cardinality(P) \in 0..n
         /\ Cardinality(P) < n => \A i \in S : Rank(S, i) < k + n
         /\ P # {} => k + Cardinality(P) <= Cardinality(S)
<1> DEFINE N == Cardinality(S)
           m == IF k + n <= N THEN k + n ELSE N
           T == k..(m - 1)
           f == [i \in P |-> Rank(S, i)]
           g == [i \in S |-> Rank(S, i)]
<1>1. N \in Nat /\ \A i \in S : Rank(S, i) \in 0..(N - 1)
  BY FS_CardinalityType, RankGoesUp
<1>2. g \in Bijection(S, 0..(N - 1))
  BY RankCounts
<1>3. f \in Bijection(P, T)
  <2>1. f \in [P -> T]
    <3>1. ASSUME NEW i \in P PROVE Rank(S, i) \in T
      <4>1. Rank(S, i) \in k..(k + n - 1) /\ Rank(S, i) \in 0..(N - 1)
        BY <1>1
      <4>2. N \in Nat
        BY <1>1
      <4> HIDE DEF N
      <4> QED
        BY <4>1, <4>2
    <3> QED
      BY <3>1
  <2>2. f \in Injection(P, T)
    BY <2>1, <1>2 DEF Bijection, Injection, IsInjective
  <2>3. ASSUME NEW r \in T PROVE \E i \in P : f[i] = r
    <3>1. r \in 0..(N - 1)
      BY <1>1
    <3>2. PICK i \in S : g[i] = r
      BY <3>1, <1>2 DEF Bijection, Surjection
    <3>3. Rank(S, i) \in k..(k + n - 1)
      BY <3>2, <1>1
    <3> QED
      BY <3>2, <3>3
  <2> QED
    BY <2>1, <2>2, <2>3 DEF Bijection, Surjection
<1>4. IsFiniteSet(P)
  BY FS_Subset
<1>5. Cardinality(P) = IF k > m - 1 THEN 0 ELSE m - k
  <2>1. Cardinality(T) = Cardinality(P)
    BY <1>3, <1>4, FS_Bijection DEF ExistsBijection
  <2>2. m \in Int /\ m - 1 \in Int
    BY <1>1
  <2> HIDE DEF m
  <2>3. Cardinality(T) = IF k > m - 1 THEN 0 ELSE (m - 1) - k + 1
    BY <2>2, FS_Interval
  <2> QED
    BY <2>1, <2>2, <2>3
<1>6. ASSUME Cardinality(P) < n PROVE m = N /\ N <= k + n
  BY <1>1, <1>5, <1>6
<1>7. ASSUME P # {} PROVE k + Cardinality(P) <= N
  <2>1. PICK i \in P : TRUE
    BY <1>7
  <2>2. k <= N - 1
    BY <2>1, <1>1
  <2>3. m \in Int /\ m <= N
    BY <1>1
  <2> HIDE DEF m, N
  <2> QED
    BY <2>2, <2>3, <1>1, <1>5
<1>8. Cardinality(P) \in 0..n
  BY <1>1, <1>5
<1>9. Cardinality(P) < n => \A i \in S : Rank(S, i) < k + n
  BY <1>1, <1>6
<1> QED
  BY <1>7, <1>8, <1>9

\* Every place of a page is taken by one drawer.
LEMMA PageRows ==
  ASSUME NEW S \in SUBSET Nat, IsFiniteSet(S), NEW k \in Nat, NEW n \in Nat,
         NEW P, P = {i \in S : Rank(S, i) \in k..(k + n - 1)},
         NEW m \in 1..Cardinality(P)
  PROVE  \E i \in P : Rank(S, i) = k + m - 1
<1>1. Cardinality(P) \in 0..n /\ Cardinality(S) \in Nat
  BY PageReach, FS_CardinalityType
<1>2. P # {}
  <2>1. Cardinality(P) # 0
    BY <1>1
  <2> QED
    BY <2>1, FS_EmptySet
<1>3. k + Cardinality(P) <= Cardinality(S)
  BY <1>2, PageReach
<1>4. k + m - 1 \in 0..(Cardinality(S) - 1) /\ k + m - 1 \in k..(k + n - 1)
  BY <1>1, <1>3
<1>5. \E i \in S : [j \in S |-> Rank(S, j)][i] = k + m - 1
  BY <1>4, RankCounts DEF Bijection, Surjection
<1> QED
  BY <1>4, <1>5
=============================================================================
