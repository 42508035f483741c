-------------------------- MODULE MCLeaderElection --------------------------
(* Instances of LeaderElection for TLC. *)
EXTENDS LeaderElection, TLC

PodSymmetry == Permutations(Pods)

=============================================================================
