----------------------------- MODULE MCCrossRoot -----------------------------
(* Small instances of CrossRoot.                                           *)
EXTENDS CrossRoot

(* Every root is registered under the first, which is the anchor "/".      *)
AnchorReach == [r \in Root |-> IF r = 1 THEN Root ELSE {r}]

(* A plan is executed as a cross-root transaction when it spans two or     *)
(* more roots.                                                             *)
Several == {S \in SUBSET Root : Cardinality(S) > 1}
=============================================================================
