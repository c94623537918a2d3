---------------------------- MODULE LegacyRegistry ----------------------------
(***************************************************************************)
(* internal/entity.Registry: people, projects, flags of ambiguous names    *)
(* and a cache of Wikipedia answers, in one JSON file that is loaded whole *)
(* and written whole, by processes that know nothing of each other.        *)
(* Aliases, confidences and contexts are left out.                         *)
(***************************************************************************)
EXTENDS Integers

CONSTANTS
    Words,
    CommonWords,    \* commonEnglishWords: names that are words too
    Clients,        \* processes with a registry
    ProjectLists,   \* the sets of projects that are seeded
    Researched,     \* the words that are looked up in Wikipedia
    Answers,        \* the types that are inferred, "unknown" among them
    Absent

ASSUME LegacyAssumption ==
    /\ CommonWords \subseteq Words /\ Researched \subseteq Words
    /\ ProjectLists \subseteq SUBSET Words /\ "unknown" \in Answers

VARIABLES
    jsonFile,       \* entity_registry.json: a registry, NoRegistry or Partial
    memory,         \* of each client: data
    client,         \* of each client: "none", "ready", "saving"
    careless,       \* history: a Save was cut short, or two clients overlapped
    everSaved       \* history: people a complete Save has put on disk
legacyVars == <<jsonFile, memory, client, careless, everSaved>>

CachedAnswer == [type : Answers, confirmed : BOOLEAN]
EmptyData == [valid |-> TRUE, people |-> {}, projects |-> {}, flags |-> {},
              cache |-> [w \in Words |-> Absent]]
NoRegistry == [EmptyData EXCEPT !.valid = FALSE]
Partial == [NoRegistry EXCEPT !.flags = Words]
RegistryData ==
    [valid : BOOLEAN, people : SUBSET Words, projects : SUBSET Words, flags : SUBSET Words,
     cache : [Words -> CachedAnswer \union {Absent}]]

LegacyTypeOK ==
    /\ jsonFile \in RegistryData /\ memory \in [Clients -> RegistryData]
    /\ client \in [Clients -> {"none", "ready", "saving"}]
    /\ careless \in BOOLEAN /\ everSaved \subseteq Words

LegacyInit ==
    /\ jsonFile = NoRegistry
    /\ memory = [p \in Clients |-> EmptyData]
    /\ client = [p \in Clients |-> "none"]
    /\ careless = FALSE /\ everSaved = {}

-----------------------------------------------------------------------------
\* A file that does not parse is one that is not there.
LoadRegistry(p) ==
    /\ client[p] = "none"
    /\ memory' = [memory EXCEPT ![p] = IF jsonFile.valid THEN jsonFile ELSE EmptyData]
    /\ client' = [client EXCEPT ![p] = "ready"]
    /\ careless' = (careless \/ \E q \in Clients : client[q] # "none")
    /\ UNCHANGED <<jsonFile, everSaved>>

\* Save, os.WriteFile: the file is emptied, then written.
Truncates(p) ==
    /\ client' = [client EXCEPT ![p] = "saving"]
    /\ jsonFile' = Partial

SaveEnds(p) ==
    /\ client[p] = "saving"
    /\ jsonFile' = memory[p]
    /\ everSaved' = everSaved \union memory[p].people
    /\ client' = [client EXCEPT ![p] = "ready"]
    /\ UNCHANGED <<memory, careless>>

Save(p) ==
    /\ client[p] = "ready" /\ Truncates(p)
    /\ UNCHANGED <<memory, careless, everSaved>>

\* Seed: people are added, projects replaced, the flags computed anew from all
\* the people. Nothing is saved.
Seed(p, people, projects) ==
    /\ client[p] = "ready"
    /\ memory' = [memory EXCEPT
         ![p].people = @ \union people,
         ![p].projects = projects,
         ![p].flags = (memory[p].people \union people) \intersect CommonWords]
    /\ UNCHANGED <<jsonFile, client, careless, everSaved>>

\* Mutant: what is learned is not flagged.
LearnFromTextUnflagged(p, persons) ==
    LET learned == persons \ (memory[p].people \union memory[p].projects)
    IN  /\ client[p] = "ready" /\ learned # {}
        /\ memory' = [memory EXCEPT ![p].people = @ \union learned]
        /\ Truncates(p)
        /\ UNCHANGED <<careless, everSaved>>

\* LearnFromText: persons are the candidates whose score says so.
LearnFromText(p, persons) ==
    LET learned == persons \ (memory[p].people \union memory[p].projects)
    IN  /\ client[p] = "ready" /\ learned # {}
        /\ memory' = [memory EXCEPT
             ![p].people = @ \union learned,
             ![p].flags = @ \union (learned \intersect CommonWords)]
        /\ Truncates(p)
        /\ UNCHANGED <<careless, everSaved>>

\* Research: a failure to reach Wikipedia is the answer "unknown", and is
\* cached like the others.
Research(p, w, type, autoConfirm) ==
    /\ client[p] = "ready" /\ memory[p].cache[w] = Absent
    /\ memory' = [memory EXCEPT ![p].cache[w] = [type |-> type, confirmed |-> autoConfirm]]
    /\ Truncates(p)
    /\ UNCHANGED <<careless, everSaved>>

\* The process ends, or dies in a Save.
Leave(p) ==
    /\ client[p] # "none"
    /\ client' = [client EXCEPT ![p] = "none"]
    /\ memory' = [memory EXCEPT ![p] = EmptyData]
    /\ careless' = (careless \/ client[p] = "saving")
    /\ UNCHANGED <<jsonFile, everSaved>>

LegacyNext ==
    \E p \in Clients :
        \/ LoadRegistry(p) \/ Save(p) \/ SaveEnds(p) \/ Leave(p)
        \/ \E people \in SUBSET Words, projects \in ProjectLists : Seed(p, people, projects)
        \/ \E persons \in SUBSET Words : LearnFromText(p, persons)
        \/ \E w \in Researched, type \in Answers, ok \in BOOLEAN : Research(p, w, type, ok)

LegacySpec == LegacyInit /\ [][LegacyNext]_legacyVars

-----------------------------------------------------------------------------
\* Lookup: what is said of a word. favours is what disambiguate makes of the
\* context, "" when there is none or the scores are equal.
Lookup(data, w, favours) ==
    IF w \in data.people
    THEN IF w \in data.flags /\ favours # "" THEN favours ELSE "person"
    ELSE IF w \in data.projects THEN "project"
    ELSE IF data.cache[w] # Absent /\ data.cache[w].confirmed THEN data.cache[w].type
    ELSE "unknown"

(* Properties. *)

\* Nobody is taken for a person where the context says the word is meant: each
\* person whose name is a word is flagged, however it came to be known and
\* whatever was seeded, learned, saved and loaded before or after.
ContextDecides ==
    \A p \in Clients, w \in CommonWords :
        client[p] # "none" /\ w \in memory[p].people => Lookup(memory[p], w, "concept") = "concept"

\* As long as one process at a time has the registry and none dies in a Save,
\* who was saved once is on disk, or about to be again. (A Save cut short
\* leaves a file the next LoadRegistry takes for none, registry.go:154.)
PeopleStay ==
    ~careless => \/ everSaved \subseteq jsonFile.people
                 \/ \E p \in Clients : client[p] = "saving" /\ everSaved \subseteq memory[p].people

\* Who was told to the registry stays a person, and is looked up as one where the
\* context does not say otherwise (registry.go:129-548).
PeopleAreKnown == LegacyTypeOK /\ ContextDecides /\ PeopleStay
=============================================================================
