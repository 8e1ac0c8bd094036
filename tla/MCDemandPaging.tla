--------------------------- MODULE MCDemandPaging ---------------------------
(* Instances of DemandPaging for TLC.                                      *)
EXTENDS DemandPaging, TLC

CONSTANTS Modest, ModestBudget, OtherBudget

MCBudget == [t \in Transaction |-> IF t = Modest THEN ModestBudget ELSE OtherBudget]

Symmetry == Permutations(Transaction \ {Modest})
=============================================================================
