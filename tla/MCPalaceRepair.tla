--------------------------- MODULE MCPalaceRepair ---------------------------
(* Values for PalaceRepair on small instances. *)
EXTENDS PalaceRepair

CONSTANTS d1, d2, x1, x2

MCNorm == [d \in Docs |-> IF d = d1 THEN x1 ELSE x2]
MCExtract == [d \in Docs |-> "none"]
=============================================================================
