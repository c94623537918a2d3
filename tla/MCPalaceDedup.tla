---------------------------- MODULE MCPalaceDedup ----------------------------
(* Values for PalaceDedup on small instances. *)
EXTENDS PalaceDedup

CONSTANTS d1, d2, d3, d4, x1, x2, x3

\* d1 is like d2 and d2 like d3, but d1 is not like d3; d4 says what d1 does, in
\* few words.
MCNorm == [d \in Docs |-> CASE d = d2 -> x2 [] d = d3 -> x3 [] OTHER -> x1]
MCExtract == [d \in Docs |-> IF d = d2 THEN "match" ELSE "none"]
MCSize == [d \in Docs |-> CASE d = d1 -> 4 [] d = d2 -> 3 [] d = d3 -> 2 [] OTHER -> 1]
\* As texts, the ids compare the other way round than they are listed.
MCIdText == [i \in Ids |-> 4 - i]
MCNear == {<<s, t>> \in Texts \X Texts : {s, t} # {x1, x3}}

\* Passes begin in a palace no search has touched, others do not track their
\* searches, and passes that are not alone go over few drawers.
Bound ==
    /\ \A c \in Clients \ {Deduper} : pending[c] = {}
    /\ ~dedup.alone => \A i \in Present : drawers[i].used = Never
    /\ \/ dedup.step \in {"rest", "failed"} \/ dedup.alone
       \/ \A i \in Present : i \in {1, 2} /\ drawers[i].doc \in {d2, d4}

\* What the next steps depend on: how the last call ended decides nothing.
View == <<drawers, vecs, now, pending, dedup>>
=============================================================================
