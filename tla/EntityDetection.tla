---------------------------- MODULE EntityDetection ----------------------------
(***************************************************************************)
(* entity.Detect (pkg/entity/detector.go) and kg.AutoExtractTriples        *)
(* (pkg/kg/extract.go), which runs on what it finds. A document is a       *)
(* sequence of words; which words a pass recognises is given, and so is    *)
(* what the signals around a name add up to. Spans, gaps and offsets count *)
(* words, not bytes.                                                       *)
(***************************************************************************)
EXTENDS Integers, Sequences, FiniteSets, FiniteSetsExt

CONSTANTS
    Documents,          \* sequences of words
    Passes,             \* <<type, the words of that type>>, in their order
    Capitalised, Stopwords, PlaceSuffixes, Verbs,   \* sets of words
    Scorings,           \* [single : functions from words to types, multi : types]
    NoSignal,           \* the type of a name that is dropped
    SubjectTypes, ObjectTypes, MaxGap

ASSUME DetectionAssumption ==
    /\ Documents \subseteq Seq(STRING) /\ Passes \in Seq(STRING \X SUBSET STRING)
    /\ \A p \in DOMAIN Passes : Passes[p][1] # "place"
    /\ \A p, q \in DOMAIN Passes : Passes[p][1] = Passes[q][1] => p = q
    /\ Stopwords \cup PlaceSuffixes \subseteq Capitalised
    /\ MaxGap \in Nat

VARIABLES
    document, score,    \* never change
    pass,               \* the next pass: the Passes, places, names, triples
    entities,           \* [from, to, type]
    verb,               \* the word AutoExtractTriples is at
    triples             \* of two names
detectionVars == <<document, score, pass, entities, verb, triples>>

Words == DOMAIN document
Places == Len(Passes) + 1
Names == Len(Passes) + 2
Triples == Len(Passes) + 3

NameOfSpan(s) == SubSeq(document, s.from, s.to)
\* classifyPersonProject; all names of several words have the same signals.
ScoreOf(s) == IF s.from = s.to THEN score.single[document[s.from]] ELSE score.multi

Overlap(s, t) == s.from <= t.to /\ t.from <= s.to
IsClaimed(s, by) == \E e \in by : Overlap(s, e)
Span(a, b, t) == [from |-> a, to |-> b, type |-> t]

DetectionTypeOK ==
    /\ pass \in 1..(Triples + 1) /\ verb \in 0..Len(document)
    /\ \A e \in entities : e.from \in Words /\ e.to \in e.from..Len(document)
    /\ \A t \in triples : t[1] # <<>> /\ t[2] # <<>>

-----------------------------------------------------------------------------
(* What the expressions find. *)

\* The stretches of capitalised words.
IsRun(a, b) ==
    /\ \A k \in a..b : document[k] \in Capitalised
    /\ a - 1 \in Words => document[a - 1] \notin Capitalised
    /\ b + 1 \in Words => document[b + 1] \notin Capitalised
Runs == {r \in Words \X Words : r[1] <= r[2] /\ IsRun(r[1], r[2])}

\* placeMultiWordRe: a run up to its last suffix, or one that a suffix opens.
PlaceSpans ==
    {Span(r[1], Max({k \in (r[1] + 1)..r[2] : document[k] \in PlaceSuffixes}), "place") :
        r \in {r \in Runs : \E k \in (r[1] + 1)..r[2] : document[k] \in PlaceSuffixes}}
    \cup
    {Span(r[1], r[2], "place") :
        r \in {r \in Runs : r[1] < r[2] /\ document[r[1]] \in PlaceSuffixes
                            /\ \A k \in (r[1] + 1)..r[2] : document[k] \notin PlaceSuffixes}}

\* unicodeMultiWordRe: the runs of two words and more.
MultiWordSpans == {Span(r[1], r[2], "name") : r \in {r \in Runs : r[1] < r[2]}}

\* unicodeSingleWordRe takes the blank behind a word for the end of its match,
\* so that the next word of a run has none before it and is passed over.
SingleWordSpans ==
    UNION {{Span(k, k, "name") : k \in {k \in r[1]..r[2] : (k - r[1]) % 2 = 0}} : r \in Runs}

\* What a pass looks at: the spans of one pass never overlap, but for names.
Matches(p) ==
    CASE p <= Len(Passes) ->
           {Span(k, k, Passes[p][1]) : k \in {k \in Words : document[k] \in Passes[p][2]}}
      [] p = Places -> PlaceSpans
      [] p = Names -> MultiWordSpans \cup SingleWordSpans

-----------------------------------------------------------------------------
(* Detect *)

\* Mutant: only an exact match is claimed.
ClaimExact ==
    entities' = entities \cup {s \in Matches(pass) : \A e \in entities : e.from # s.from \/ e.to # s.to}

Claim == entities' = entities \cup {s \in Matches(pass) : ~IsClaimed(s, entities)}

DetectPass ==
    /\ pass <= Places
    /\ Claim
    /\ pass' = pass + 1
    /\ UNCHANGED <<document, score, verb, triples>>

Candidates ==
    {s \in Matches(Names) :
        /\ \A k \in s.from..s.to : document[k] \notin Stopwords
        /\ ~IsClaimed(s, entities) /\ ScoreOf(s) # NoSignal}

\* The candidates are taken by offset and then by name: of two that start at
\* one word, the single word comes first, and what it claims is not a name any
\* more.
DetectNames ==
    /\ pass = Names
    /\ LET taken[k \in 0..Len(document)] ==
               IF k = 0 THEN {}
               ELSE LET here == {s \in Candidates : s.from = k /\ ~IsClaimed(s, taken[k - 1])}
                    IN  taken[k - 1] \cup
                        {s \in here : \A t \in here : s.to <= t.to}
       IN  entities' = entities \cup
             {Span(s.from, s.to, ScoreOf(s)) : s \in taken[Len(document)]}
    /\ pass' = pass + 1
    /\ UNCHANGED <<document, score, verb, triples>>

-----------------------------------------------------------------------------
(* AutoExtractTriples *)

\* The last entity before the verb that may be its subject, if it is near, and
\* the first one after it that may be its object.
SubjectsOf(v) ==
    LET near == {e \in entities : e.to < v /\ v - e.to - 1 <= MaxGap /\ e.type \in SubjectTypes}
    IN  {e \in near : \A f \in near : f.to <= e.to}

ObjectsOf(v) ==
    LET near == {e \in entities : v < e.from /\ e.from - v - 1 <= MaxGap /\ e.type \in ObjectTypes}
    IN  {e \in near : \A f \in near : e.from <= f.from}

ExtractAtVerb ==
    /\ pass = Triples
    /\ LET later == {v \in Words : v > verb /\ document[v] \in Verbs}
       IN  IF later = {} THEN pass' = pass + 1 /\ UNCHANGED <<verb, triples>>
           ELSE /\ verb' = Min(later) /\ UNCHANGED pass
                /\ triples' = triples \cup
                     {<<NameOfSpan(s), NameOfSpan(o)>> : s \in SubjectsOf(Min(later)), o \in ObjectsOf(Min(later))}
    /\ UNCHANGED <<document, score, entities>>

DetectionInit ==
    /\ document \in Documents /\ score \in Scorings
    /\ pass = 1 /\ entities = {} /\ verb = 0 /\ triples = {}

DetectionNext == DetectPass \/ DetectNames \/ ExtractAtVerb

DetectionSpec == DetectionInit /\ [][DetectionNext]_detectionVars

-----------------------------------------------------------------------------
(* Properties. *)

\* No word is in two entities ("a byte range once claimed by a higher-priority
\* type is not considered by lower-priority passes", detector.go:183).
SpansAreDisjoint == \A e, f \in entities : Overlap(e, f) => e = f

\* What an expression finds is an entity, or part of it is in one that comes
\* before it in the order URL, email, date, tool, place, name, or further left
\* ("detection priority", detector.go:179): nothing is lost to a later pass.
RankOf(type) ==
    IF type = "place" THEN Places
    ELSE IF \E p \in DOMAIN Passes : Passes[p][1] = type
         THEN CHOOSE p \in DOMAIN Passes : Passes[p][1] = type ELSE Names
PriorityHolds ==
    pass > Names =>
        /\ \A p \in 1..Places : \A s \in Matches(p) :
             s \in entities \/ \E e \in entities : Overlap(s, e) /\ RankOf(e.type) < p
        /\ \A s \in Matches(Names) :
             (/\ \A k \in s.from..s.to : document[k] \notin Stopwords
              /\ ScoreOf(s) # NoSignal) =>
                 \E e \in entities : Overlap(s, e) /\ (RankOf(e.type) < Names \/ e.from <= s.from)

\* A triple is said somewhere: its names stand on both sides of a verb, within
\* reach of it, with no subject after the one and no object before the other,
\* so that of two clauses neither takes the other's names.
TriplesAreSaid ==
    \A t \in triples : \E v \in Words, s, o \in entities :
        /\ document[v] \in Verbs /\ s.to < v /\ v < o.from
        /\ <<NameOfSpan(s), NameOfSpan(o)>> = t
        /\ s.type \in SubjectTypes /\ o.type \in ObjectTypes
        /\ ~ \E e \in entities : \/ e.type \in SubjectTypes /\ s.to < e.from /\ e.to < v
                                 \/ e.type \in ObjectTypes /\ v < e.from /\ e.to < o.from

\* What is found in a text is in it, once, by the rule that comes first
\* (detector.go:172-352, extract.go:85-230).
FindingsAreInTheText == DetectionTypeOK /\ SpansAreDisjoint /\ PriorityHolds /\ TriplesAreSaid
=============================================================================
