-------------------------------- MODULE Layers --------------------------------
(***************************************************************************)
(* The wake-up text of a palace (pkg/layers/layers.go): L1 reads the       *)
(* drawers by pages, LIMIT and OFFSET in the order of Palace.Get, while    *)
(* others file and delete some; it takes those of most importance, groups  *)
(* them by room, and shows them room by room until its budget is used up.  *)
(***************************************************************************)
EXTENDS Integers, Sequences, FiniteSets, FiniteSetsExt, SequencesExt

CONSTANTS
    Palaces,        \* sets of [slot, weight, room, size]
    Newcomers,      \* the drawers that others may file
    BatchSize, MaxDrawers, MaxChars,
    TitleLine, RoomLine, MoreLine, \* the sizes of the first, a room's and the last line
    MaxMoves        \* bound: on what others do while the palace is read

\* A slot is a place in the order of Get: wing, room, file and chunk.
Drawer == [slot : Nat, weight : Nat, room : Nat, size : Nat]

ASSUME LayersAssumption ==
    /\ {MaxDrawers, MaxChars, TitleLine, RoomLine, MoreLine, MaxMoves} \subseteq Nat
    /\ BatchSize \in Nat \ {0} /\ Newcomers \subseteq Drawer
    /\ \A drawers \in Palaces :
         /\ IsFiniteSet(drawers) /\ drawers \subseteq Drawer
         /\ \A d, e \in drawers : d.slot = e.slot => d = e

VARIABLES
    stored,         \* the drawers of the palace
    reading,        \* "pages", "done", "lost"
    held,           \* those that were read, one page behind the other
    top,            \* those that were picked, by their places in held
    due,            \* those still to be shown, in their order
    story,          \* those shown
    used,           \* of the budget
    long,           \* how long the text is
    told,           \* "no", "all", "cut"
    stayed,         \* history: the drawers that were there all the time
    came, went      \* history: how many came and went while the palace was read
layersVars == <<stored, reading, held, top, due, story, used, long, told, stayed, came, went>>
palaceVars == <<stored, stayed, came, went>>
storyVars == <<top, due, story, used, long, told>>

LayersTypeOK ==
    /\ top \subseteq DOMAIN held /\ Range(due) \cup Range(story) \subseteq top
    /\ used \in Nat /\ long \in Nat /\ told \in {"no", "all", "cut"}
    /\ reading \in {"pages", "done", "lost"} /\ stayed \subseteq stored
    /\ \A i, j \in DOMAIN story : story[i] = story[j] => i = j

-----------------------------------------------------------------------------
Standing(d) == Cardinality({e \in stored : e.slot <= d.slot})

\* What is behind the first n in the order of Get, as many as a page holds.
BatchAt(n) == {d \in stored : n < Standing(d) /\ Standing(d) <= n + BatchSize}

\* The offset is how many were read. A short page is the last one.
ReadBatch ==
    /\ reading = "pages"
    /\ \E batch \in SetToSeqs(BatchAt(Len(held))) :
         /\ \A i, j \in DOMAIN batch : i < j => batch[i].slot < batch[j].slot
         /\ held' = held \o batch
         /\ reading' = IF Len(batch) < BatchSize THEN "done" ELSE "pages"
    /\ UNCHANGED <<palaceVars, storyVars>>

\* An error is taken for the end: what was read is all there is.
LoseBatch ==
    /\ reading = "pages" /\ reading' = "lost"
    /\ UNCHANGED <<palaceVars, held, storyVars>>

\* Others file and delete drawers between the pages.
Come ==
    /\ reading = "pages" /\ came + went < MaxMoves
    /\ \E d \in Newcomers :
         /\ \A e \in stored : e.slot # d.slot
         /\ stored' = stored \cup {d}
    /\ came' = came + 1
    /\ UNCHANGED <<reading, held, stayed, went, storyVars>>

Go ==
    /\ reading = "pages" /\ came + went < MaxMoves
    /\ \E d \in stored : stored' = stored \ {d} /\ stayed' = stayed \ {d}
    /\ went' = went + 1
    /\ UNCHANGED <<reading, held, came, storyVars>>

\* Mutant: the least important first.
PrecedesRising(i, j) ==
    held[i].weight < held[j].weight \/ (held[i].weight = held[j].weight /\ i < j)

\* The sort is stable: drawers of one weight stay in the order of Get.
Precedes(i, j) ==
    held[i].weight > held[j].weight \/ (held[i].weight = held[j].weight /\ i < j)

\* Rooms come in the order of their names.
Grouped(i, j) ==
    held[i].room < held[j].room \/ (held[i].room = held[j].room /\ Precedes(i, j))

PickTop ==
    /\ reading # "pages" /\ told = "no" /\ top = {} /\ held # <<>>
    /\ top' = {i \in DOMAIN held :
                  Cardinality({j \in DOMAIN held : Precedes(j, i)}) < MaxDrawers}
    /\ \E order \in SetToSeqs(top') :
         /\ \A i, j \in DOMAIN order : i < j => Grouped(order[i], order[j])
         /\ due' = order
    /\ long' = TitleLine
    /\ UNCHANGED <<palaceVars, reading, held, story, used, told>>

\* Whether the room of this drawer is still to be named, and the size of its name.
IsNewRoom(i) == story = <<>> \/ held[story[Len(story)]].room # held[i].room
Heading(i) == IF IsNewRoom(i) THEN RoomLine ELSE 0

FitsBudget(i) == used + Heading(i) + held[i].size <= MaxChars

Rest == Tail(due)

\* The line of the next drawer, or the last one: "(more in L3 search)". Each line
\* comes behind a newline; of these, the title and the last line the budget
\* knows nothing.
Tell ==
    /\ told = "no" /\ due # <<>>
    /\ LET i == due[1]
           named == long + (IF IsNewRoom(i) THEN 1 + RoomLine ELSE 0)
       IN  IF FitsBudget(i)
           THEN /\ story' = Append(story, i)
                /\ used' = used + Heading(i) + held[i].size
                /\ long' = named + 1 + held[i].size
                /\ due' = Rest
                /\ told' = IF Len(due) = 1 THEN "all" ELSE "no"
           ELSE /\ used' = used + Heading(i) /\ told' = "cut"
                /\ long' = named + 1 + MoreLine
                /\ UNCHANGED <<story, due>>
    /\ UNCHANGED <<palaceVars, reading, held, top>>

LayersInit ==
    /\ stored \in Palaces /\ stayed = stored /\ came = 0 /\ went = 0
    /\ reading = "pages" /\ held = <<>>
    /\ top = {} /\ due = <<>> /\ story = <<>> /\ used = 0 /\ long = 0 /\ told = "no"

LayersNext == ReadBatch \/ LoseBatch \/ Come \/ Go \/ PickTop \/ Tell

LayersSpec == LayersInit /\ [][LayersNext]_layersVars

-----------------------------------------------------------------------------
(* Properties. *)

\* Of the drawers that stayed, as many may be missing from a palace read to its
\* end as went, and as many be there more than once as came; all are there, once
\* each, when nobody was about and nothing failed.
PagesAreOffByOthersOnly ==
    /\ reading = "done" => Cardinality(stayed \ Range(held)) <= went
    /\ Cardinality({d \in stayed : \E i, j \in DOMAIN held : i # j /\ held[i] = d /\ held[j] = d})
         <= came

\* The lines of rooms and drawers keep to the budget, but for the room the text is
\* cut in, which is named before the budget is looked at. The text is longer by
\* its title, its last line and a newline for each line.
StoryFits ==
    /\ used <= MaxChars + (IF told = "cut" THEN RoomLine ELSE 0)
    /\ Len(story) <= MaxDrawers
    /\ long <= MaxChars + TitleLine + 2 * Len(story)
                 + (IF told = "cut" THEN RoomLine + MoreLine + 2 ELSE 0)

\* In each room what is shown weighs no less than what is left out, be it for
\* the number of drawers or for the budget; between rooms, names decide.
RoomsShowTheirBest ==
    told # "no" =>
        \A i \in Range(story), j \in DOMAIN held \ Range(story) :
            held[i].room = held[j].room => held[i].weight >= held[j].weight

\* As long as the budget lasts, the drawers shown are those of most weight of all
\* that were read, and when the palace was read to its end and none went, no
\* drawer that was there all the time and is not shown weighs more.
StoryIsTheTop ==
    told = "all" =>
        /\ Len(story) = Min({MaxDrawers, Len(held)})
        /\ \A i \in Range(story) :
             /\ \A j \in DOMAIN held \ Range(story) : held[i].weight >= held[j].weight
             /\ reading = "done" /\ went = 0 =>
                  \A d \in stayed \ {held[j] : j \in Range(story)} : held[i].weight >= d.weight

\* The story is of the best, as far as the budget goes (layers.go:67-168).
StoryIsOfTheBest ==
    /\ LayersTypeOK /\ PagesAreOffByOthersOnly
    /\ StoryFits /\ RoomsShowTheirBest /\ StoryIsTheTop
=============================================================================
