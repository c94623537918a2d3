--------------------------- MODULE MCPalaceCompact ---------------------------
(* Values for PalaceCompact on small instances. *)
EXTENDS PalaceCompact, TLC

MCNorm == [d \in Docs |-> CHOOSE t \in Texts : TRUE]
MCExtract == [d \in Docs |-> "none"]

\* A machine west of UTC while the clock stands at 1.
MCOffset == [t \in Times |-> IF t = 1 THEN -1 ELSE 0]

Symmetry == Permutations(Ids)
=============================================================================
