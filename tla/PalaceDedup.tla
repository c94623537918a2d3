----------------------------- MODULE PalaceDedup -----------------------------
(***************************************************************************)
(* dedup.Run over a palace other clients may be using: list the drawers by *)
(* pages, group them, and for one group after another read its drawers,    *)
(* judge them longest first by a search each, and remove the losers, by    *)
(* one merge or by one Delete each.  Judgements are about the drawers as   *)
(* they were read; the search and the removal meet the palace of later.    *)
(*                                                                         *)
(* Ids are numbered in the order Get lists them, by wing, room, source and *)
(* chunk, which an id is computed from; as texts they compare by IdText.   *)
(* The options that narrow a pass to a wing, a hall or some sources are    *)
(* left out, as is what a dry run reports.                                 *)
(***************************************************************************)
EXTENDS PalaceStore, Sequences

CONSTANTS
    Deduper,        \* the client the pass runs in
    MinCount,       \* DedupOptions.MinCount
    GroupPage,      \* page of getSourceGroups, 1000
    JudgeSlack,     \* results a search asks for beyond the kept drawers, 5
    JudgeMax,       \* its most, 50
    IdText,         \* [Ids -> Nat], the order of ids as texts
    Size,           \* [Docs -> Nat], bytes of a document
    ShortSize,      \* shortDocThreshold
    Near,           \* pairs of texts as similar as the threshold or more
    NoSource, Unknown   \* source files "" and "unknown"

ASSUME DedupAssumption ==
    /\ Deduper \in Clients
    /\ Ids \subseteq Nat
    /\ IdText \in [Ids -> Nat] /\ \A i, j \in Ids : IdText[i] = IdText[j] => i = j
    /\ MinCount \in Nat \ {0} /\ GroupPage \in Nat \ {0}
    /\ JudgeSlack \in Nat \ {0} /\ JudgeMax \in 1..MaxResults
    /\ Size \in [Docs -> Nat] /\ ShortSize \in Nat
    /\ Near \subseteq Texts \X Texts
    /\ Unknown \in Srcs
    /\ None \notin Ids

VARIABLE dedup  \* the pass that runs

dedupVars == <<vars, dedup>>

\* groupKey; drawers without a source file go under "unknown".
GroupKey(r) == <<r.wing, r.hall, IF r.src = NoSource THEN Unknown ELSE r.src>>

Keys == Wings \X AllHalls \X Srcs

Metas == [label : Labels, used : Times \cup {Never}]

NoMeta == [label |-> "none", used |-> Never]

\* listed: what the pages held; groups: those to go; of the group at hand, key,
\* the items to judge as they were read, winner, kept, dups and short, and the
\* metadata gathered from dups.
Pass == [step : {"rest", "failed", "list", "pick", "judge", "write"},
         mode : {"delete", "merge", "dry"}, alone : BOOLEAN,
         listed : Seq(Keys \X Ids), groups : SUBSET [key : Keys, ids : SUBSET Ids],
         key : Keys \cup {None}, items : UNION {[S -> Row] : S \in SUBSET Ids},
         winner : Ids \cup {None}, kept : SUBSET Ids, dups : SUBSET Ids,
         short : SUBSET Ids, meta : Metas]

DedupTypeOK == TypeOK /\ dedup \in Pass

\* No pass runs: what it knew is gone, but for how it ended.
Ended(step) ==
    [step |-> step, mode |-> "dry", alone |-> FALSE, listed |-> <<>>, groups |-> {},
     key |-> None, items |-> <<>>, winner |-> None, kept |-> {}, dups |-> {},
     short |-> {}, meta |-> NoMeta]

DedupInit == Init /\ dedup = Ended("rest")

-----------------------------------------------------------------------------
(* getSourceGroups. *)

StartDedup ==
    /\ dedup.step \in {"rest", "failed"}
    /\ \E mode \in {"delete", "merge", "dry"}, alone \in BOOLEAN :
         dedup' = [dedup EXCEPT !.step = "list", !.mode = mode, !.alone = alone]
    /\ UNCHANGED vars

\* Get with LIMIT n OFFSET k, in order.
Listing(k, n) ==
    LET before(i) == Cardinality({j \in Present : j < i})
        found == {i \in Present : before(i) \in k..(k + n - 1)}
    IN  [m \in 1..Cardinality(found) |-> CHOOSE i \in found : before(i) = k + m - 1]

\* The drawers listed under key, with a drawer that two pages held counted twice.
Count(list, key) == Cardinality({n \in DOMAIN list : list[n][1] = key})

Members(list, key) == {i \in Ids : \E n \in DOMAIN list : list[n] = <<key, i>>}

ListPage ==
    LET found == Listing(Len(dedup.listed), GroupPage)
        list == dedup.listed \o [n \in DOMAIN found |-> <<GroupKey(drawers[found[n]]), found[n]>>]
    IN  /\ dedup.step = "list"
        /\ dedup' = IF Len(found) = GroupPage
                    THEN [dedup EXCEPT !.listed = list]
                    ELSE [dedup EXCEPT
                            !.step = "pick", !.listed = <<>>,
                            !.groups = {[key |-> k, ids |-> Members(list, k)] :
                                          k \in {key \in Keys : Count(list, key) >= MinCount}}]
        /\ UNCHANGED vars

\* A page cannot be read, and the pass ends; or its process dies.
PassFails ==
    /\ dedup.step \notin {"rest", "failed"}
    /\ dedup' = Ended("failed")
    /\ UNCHANGED vars

-----------------------------------------------------------------------------
(* dedupSourceGroup. *)

\* Longest first, and of equally long ones the lesser id.
Precedes(items, i, j) ==
    \/ Size[items[i].doc] > Size[items[j].doc]
    \/ Size[items[i].doc] = Size[items[j].doc] /\ IdText[i] < IdText[j]

First(items) ==
    CHOOSE i \in DOMAIN items : \A j \in DOMAIN items \ {i} : Precedes(items, i, j)

Only(items, S) == [i \in DOMAIN items \cap S |-> items[i]]

\* The map of groups is walked in any order, and a group whose drawers cannot
\* be read is passed over.  Short drawers are dropped unjudged; the longest of
\* the others is kept, and is the winner.
PickGroup ==
    /\ dedup.step = "pick"
    /\ \E g \in dedup.groups :
         LET rows == [i \in g.ids \cap Present |-> drawers[i]]
             short == {i \in DOMAIN rows : Size[rows[i].doc] < ShortSize}
             long == Only(rows, Ids \ short)
             rest == [dedup EXCEPT !.groups = @ \ {g}]
         IN  dedup' \in
               {rest,
                IF DOMAIN long = {}
                THEN [rest EXCEPT !.step = "write", !.key = g.key, !.short = short]
                ELSE [rest EXCEPT !.step = "judge", !.key = g.key, !.short = short,
                                  !.winner = First(long), !.kept = {First(long)},
                                  !.items = Only(long, Ids \ {First(long)})]}
    /\ UNCHANGED vars

\* merged[k] = v for every key of a loser.
Gather(meta, r) == [label |-> Overlay(meta.label, r.label, "none"),
                    used |-> Overlay(meta.used, r.used, Never)]

\* What the search for a duplicate asks for.
JudgeOptions ==
    [n |-> Lesser(Cardinality(dedup.kept) + JudgeSlack, JudgeMax),
     wing |-> dedup.key[1], hall |-> dedup.key[2], label |-> "none"]

\* Mutant: a drawer that is to go itself may be the twin of another.
IsDupOfJudged(text, found) ==
    \E i \in found \cap (dedup.kept \cup dedup.dups) : <<text, vecs[i].emb>> \in Near

\* A kept drawer is among the results and similar enough.
IsDup(text, found) == \E i \in found \cap dedup.kept : <<text, vecs[i].emb>> \in Near

\* The next item is judged; one whose search fails is kept.
Judge ==
    LET i == First(dedup.items)
        r == dedup.items[i]
        rest == [dedup EXCEPT !.items = Only(@, Ids \ {i})]
        keep == [rest EXCEPT !.kept = @ \cup {i}]
        lose == [rest EXCEPT !.dups = @ \cup {i}, !.meta = Gather(@, r)]
    IN  /\ dedup.step = "judge"
        /\ Idle(Deduper)
        /\ DOMAIN dedup.items # {}
        /\ \/ /\ Query(Deduper, JudgeOptions)
              /\ dedup' = IF IsDup(Norm[r.doc], answer'.ids) THEN lose ELSE keep
           \/ /\ EmbedFails(Deduper) \/ DbFails(Deduper)
              /\ dedup' = keep

\* The touch of its results, which Query makes before it returns.
JudgeTouch ==
    /\ QueryTouch(Deduper)
    /\ UNCHANGED dedup

Judged ==
    /\ dedup.step = "judge"
    /\ Idle(Deduper)
    /\ DOMAIN dedup.items = {}
    /\ dedup' = [dedup EXCEPT !.step = "write"]
    /\ UNCHANGED vars

\* Done with a group.
GroupEnds ==
    dedup' = [dedup EXCEPT !.step = "pick", !.key = None, !.winner = None, !.kept = {},
                           !.dups = {}, !.short = {}, !.meta = NoMeta]

Losers == dedup.dups \cup dedup.short

Merging == dedup.mode = "merge" /\ dedup.winner # None /\ Losers # {}

\* One MergeAndDelete, whatever becomes of it.
MergeGroup ==
    /\ dedup.step = "write"
    /\ Merging
    /\ MergeAndDelete(Deduper, dedup.winner, Losers, dedup.meta) \/ DbFails(Deduper)
    /\ GroupEnds

\* A Delete for each loser, duplicates first; a failure is only logged.
DeleteLoser ==
    /\ dedup.step = "write"
    /\ dedup.mode # "dry" /\ ~Merging
    /\ \E i \in (IF dedup.dups # {} THEN dedup.dups ELSE dedup.short) :
         /\ Delete(Deduper, i) \/ DbFails(Deduper)
         /\ dedup' = [dedup EXCEPT !.dups = @ \ {i}, !.short = @ \ {i}]

Written ==
    /\ dedup.step = "write"
    /\ dedup.mode = "dry" \/ Losers = {}
    /\ GroupEnds
    /\ UNCHANGED vars

DedupDone ==
    /\ dedup.step = "pick"
    /\ dedup.groups = {}
    /\ dedup' = Ended("rest")
    /\ UNCHANGED vars

\* What the other clients do; the clock runs on.
Others ==
    /\ \/ Tick
       \/ /\ ~dedup.alone
          /\ \E c \in Clients \ {Deduper} : Call(c)
    /\ UNCHANGED dedup

DedupNext ==
    \/ StartDedup \/ ListPage \/ PassFails \/ PickGroup \/ Judge \/ JudgeTouch
    \/ Judged \/ MergeGroup \/ DeleteLoser \/ Written \/ DedupDone \/ Others

DedupSpec == DedupInit /\ [][DedupNext]_dedupVars

-----------------------------------------------------------------------------
(* Properties. *)

\* A pass that runs alone removes a drawer that is not short only while its
\* group keeps one that is at least as long and similar enough to it, however
\* the judgements chain ("merges their metadata into the longest kept drawer",
\* dedup.go:3; "greedy longest-first dedup within one partition", dedup.go:183).
DedupKeepsTwin ==
    [][dedup.step = "write" /\ dedup.alone =>
         \A i \in Present \ Present' :
           Size[drawers[i].doc] >= ShortSize =>
             \E j \in Present \cap Present' :
               /\ GroupKey(drawers[j]) = GroupKey(drawers[i])
               /\ Size[drawers[j].doc] >= Size[drawers[i].doc]
               /\ <<Norm[drawers[i].doc], Norm[drawers[j].doc]>> \in Near]_dedupVars

\* A merge by a pass that runs alone loses no classification: if the winner or a
\* duplicate it absorbs had one, the winner has one ("merges each loser's metadata
\* into the kept winner", dedup.go:55).
DedupKeepsMeta ==
    [][dedup.step = "write" /\ dedup.alone /\ dedup.mode = "merge" =>
         \A i \in dedup.dups \cap (Present \ Present') :
           (\E j \in {i, dedup.winner} : drawers[j].label # "none") =>
              drawers'[dedup.winner].label # "none"]_dedupVars

\* Whatever a pass does, however its judgements and removals interleave with
\* other clients, is what calls of the palace could have done: the promises of
\* PalaceStore stand ("Runs through the palace.Palace API only", dedup.go:4).
DedupIsCalls == Spec

\* A pass that runs alone costs the palace no text that has no twin and no
\* classification (dedup.go:183-350).
LonePassLosesNothing == []DedupTypeOK /\ DedupKeepsTwin /\ DedupKeepsMeta
=============================================================================
