----------------------------- MODULE MCMetaSync -----------------------------
(* Instances of MetaSync for TLC. *)
EXTENDS MetaSync, TLC

CONSTANTS p1, p2

\* The pods are alike.
Symmetry == Permutations(Pods)
=============================================================================
