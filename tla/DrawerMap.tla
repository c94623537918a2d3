------------------------------ MODULE DrawerMap ------------------------------
(***************************************************************************)
(* What a palace promises its callers: a map from drawer ids to drawers,   *)
(* and a search that answers from that map alone.  There is no vector      *)
(* table here, no timestamps and no classification; PalaceStore implements *)
(* this with two tables that its transactions have to keep in step.        *)
(***************************************************************************)
EXTENDS Integers, FiniteSets

CONSTANTS
    Ids,        \* drawer ids
    Docs,       \* verbatim documents
    Wings,      \* wings
    AllHalls,   \* halls, the archive included
    Srcs,       \* source files
    Archived,   \* halls.HallArchived
    MaxResults, \* the largest NResults a caller asks for
    Unfiltered,        \* an empty filter of QueryOptions
    None,       \* no drawer under this id
    NoAnswer    \* the last call was not a search

VARIABLES
    contents,   \* id |-> drawer or None
    answer      \* what the last call, if it was a search, returned

mapVars == <<contents, answer>>

Drawer == [doc : Docs, wing : Wings, hall : AllHalls, src : Srcs]

\* QueryOptions; label "none" is the empty Classification.
Options == [n : 1..MaxResults, wing : Wings \cup {Unfiltered},
            hall : AllHalls \cup {Unfiltered}, label : {"none", "match"}]

Kept == {i \in Ids : contents[i] # None}

\* The drawers a search with options o may show, judged by the drawers alone.
Visible(o) ==
    {i \in Kept : /\ contents[i].hall # Archived
                  /\ o.wing \in {Unfiltered, contents[i].wing}
                  /\ o.hall \in {Unfiltered, contents[i].hall}}

Init ==
    /\ contents = [i \in Ids |-> None]
    /\ answer = NoAnswer

\* Any set of drawers is written in one step.
Store ==
    /\ \E S \in SUBSET Ids : \E b \in [S -> Drawer] :
         contents' = [i \in Ids |-> IF i \in S THEN b[i] ELSE contents[i]]
    /\ answer' = NoAnswer

\* Any set of drawers is forgotten in one step.
Forget ==
    /\ \E S \in SUBSET Ids :
         contents' = [i \in Ids |-> IF i \in S THEN None ELSE contents[i]]
    /\ answer' = NoAnswer

\* Any set of kept drawers moves to the archive, and changes in no other way.
Archive ==
    /\ \E S \in SUBSET Kept :
         contents' = [i \in Ids |-> IF i \in S
                                    THEN [contents[i] EXCEPT !.hall = Archived]
                                    ELSE contents[i]]
    /\ answer' = NoAnswer

\* A call that leaves the drawers as they are.
Quiet ==
    /\ answer' = NoAnswer
    /\ UNCHANGED contents

\* A search returns at most n visible drawers.  When it asks for as many as
\* the palace keeps, and does not filter by classification, it returns every
\* visible drawer: nothing stored and visible is out of a search's reach.
Search ==
    /\ \E o \in Options : \E A \in SUBSET Visible(o) :
         /\ Cardinality(A) <= o.n
         /\ o.label = "none" /\ Cardinality(Kept) <= o.n => A = Visible(o)
         /\ answer' = [opts |-> o, ids |-> A]
    /\ UNCHANGED contents

Next == Store \/ Forget \/ Archive \/ Quiet \/ Search

MapSpec == Init /\ [][Next]_mapVars
=============================================================================
