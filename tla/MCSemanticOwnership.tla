------------------------- MODULE MCSemanticOwnership -------------------------
(* Symmetric identities.                                                     *)
EXTENDS SemanticOwnership, TLC
Symmetry == Permutations(Ids)
=============================================================================
