------------------------------ MODULE Compressing ------------------------------
(***************************************************************************)
(* `mempalace compress` (cmd/mempalace/main.go): a loop over pages of the  *)
(* drawers, LIMIT and OFFSET in the order of Palace.Get, that replaces     *)
(* each document by its summary in AAAK, while another process files and   *)
(* deletes drawers. A drawer's number is its place in that order.          *)
(***************************************************************************)
EXTENDS Integers, FiniteSets, FiniteSetsExt

CONSTANTS
    Slots,          \* a set of numbers: the drawers there can be
    PageSize,
    MaxChanges      \* bound: on what the other process does

ASSUME CompressingAssumption ==
    Slots \subseteq Nat /\ IsFiniteSet(Slots) /\ PageSize \in Nat \ {0} /\ MaxChanges \in Nat

VARIABLES
    palace,         \* the drawers there are; how often each was summarised, up to 2
    offset,
    page,           \* the drawers of the page in hand, as they were read
    stage,          \* "read", "write", "ended"
    failed,         \* history: a read or a write of the palace failed
    kept,           \* history: the drawers that were there all the time
    arrived, left   \* history: how many came and went since the run began
compressVars == <<palace, offset, page, stage, failed, kept, arrived, left>>

CompressingTypeOK ==
    /\ DOMAIN palace \subseteq Slots /\ \A d \in DOMAIN palace : palace[d] \in 0..2
    /\ DOMAIN page \subseteq Slots /\ Cardinality(DOMAIN page) <= PageSize
    /\ kept \subseteq DOMAIN palace
    /\ (stage = "write") = (page # <<>>)

-----------------------------------------------------------------------------
\* The drawers behind the first n in the order of Get, as many as a page holds.
PageAt(n) ==
    LET Place(d) == Cardinality({e \in DOMAIN palace : e <= d})
    IN  {d \in DOMAIN palace : n < Place(d) /\ Place(d) <= n + PageSize}

\* A short page is the last one.
ReadPage ==
    /\ stage = "read"
    /\ page' = [d \in PageAt(offset) |-> palace[d]]
    /\ stage' = IF PageAt(offset) = {} THEN "ended" ELSE "write"
    /\ UNCHANGED <<palace, offset, failed, kept, arrived, left>>

\* Mutant: the next page starts one further.
NextOffsetSkips == offset + Cardinality(DOMAIN page) + 1

NextOffset == offset + Cardinality(DOMAIN page)

\* UpsertBatch writes every drawer of the page back, one that was deleted in
\* the meantime too.
WritePage ==
    /\ stage = "write"
    /\ palace' = [d \in DOMAIN palace \cup DOMAIN page |->
                     IF d \in DOMAIN page THEN Min({page[d] + 1, 2}) ELSE palace[d]]
    /\ arrived' = arrived + Cardinality(DOMAIN page \ DOMAIN palace)
    /\ offset' = NextOffset
    /\ stage' = IF Cardinality(DOMAIN page) < PageSize THEN "ended" ELSE "read"
    /\ page' = <<>>
    /\ UNCHANGED <<failed, kept, left>>

\* The run ends here, with an error when it was the write, and as if all were
\* done when it was the read.
Fail ==
    /\ stage # "ended"
    /\ stage' = "ended" /\ page' = <<>> /\ failed' = TRUE
    /\ UNCHANGED <<palace, offset, kept, arrived, left>>

File ==
    /\ stage # "ended" /\ arrived + left < MaxChanges
    /\ \E d \in Slots \ DOMAIN palace :
         palace' = [e \in DOMAIN palace \cup {d} |-> IF e = d THEN 0 ELSE palace[e]]
    /\ arrived' = arrived + 1
    /\ UNCHANGED <<offset, page, stage, failed, kept, left>>

Delete ==
    /\ stage # "ended" /\ arrived + left < MaxChanges
    /\ \E d \in DOMAIN palace :
         /\ palace' = [e \in DOMAIN palace \ {d} |-> palace[e]]
         /\ kept' = kept \ {d}
    /\ left' = left + 1
    /\ UNCHANGED <<offset, page, stage, failed, arrived>>

CompressingInit ==
    /\ palace \in UNION {[D -> {0}] : D \in SUBSET Slots}
    /\ kept = DOMAIN palace
    /\ offset = 0 /\ page = <<>> /\ stage = "read" /\ failed = FALSE
    /\ arrived = 0 /\ left = 0

CompressingNext == ReadPage \/ WritePage \/ Fail \/ File \/ Delete

CompressingFairness == WF_compressVars(ReadPage) /\ WF_compressVars(WritePage)
CompressingSpec == CompressingInit /\ [][CompressingNext]_compressVars /\ CompressingFairness

-----------------------------------------------------------------------------
(* Properties. *)

\* A drawer is summarised once. When others file and delete meanwhile, as many
\* may be passed over as went, and as many be summarised again, and lose more
\* of their text, as came; no more, however the changes fall between the pages.
MissedWentDoubledCame ==
    stage = "ended" /\ ~failed =>
        /\ Cardinality({d \in kept : palace[d] = 0}) <= left
        /\ Cardinality({d \in kept : palace[d] > 1}) <= arrived

\* The loop ends, as long as the others do.
CompressingEnds == <>(stage = "ended")

\* What a loop by offset does wrong is bounded by what others did meanwhile
\* (main.go:744-780).
LoopIsOffByOthersOnly == CompressingTypeOK /\ MissedWentDoubledCame
=============================================================================
