---------------------------- MODULE MCPalaceStore ----------------------------
(* Values for PalaceStore on small instances. *)
EXTENDS PalaceStore, TLC

CONSTANTS d1, d2, x1, x2

\* d1 holds the classification searches filter by, d2 holds none.
MCNorm == [d \in Docs |-> IF d = d1 THEN x1 ELSE x2]
MCExtract == [d \in Docs |-> IF d = d1 THEN "match" ELSE "none"]

Symmetry == Permutations(Ids) \cup Permutations(Clients) \cup Permutations(Srcs)
=============================================================================
