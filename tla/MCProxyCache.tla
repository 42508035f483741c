---------------------------- MODULE MCProxyCache ----------------------------
(* Instances of ProxyCache for TLC.                                         *)
EXTENDS ProxyCache, TLC

\* Clients are alike, and so are contents.
Symmetry == Permutations(Clients) \cup Permutations(Contents)
=============================================================================
