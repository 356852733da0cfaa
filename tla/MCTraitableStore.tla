-------------------------- MODULE MCTraitableStore --------------------------
(***************************************************************************)
(* Small instances of TraitableStore: two clients that share one document. *)
(***************************************************************************)
EXTENDS TraitableStore, TLC

CONSTANTS c1, c2, i1, v1, v2, v3

MCClient == {c1, c2}
MCId == {i1}
MCValue == {v1, v2, v3}

MCSymmetry == Permutations(MCClient) \cup Permutations(MCValue)
=============================================================================
