--------------------------- MODULE MCWalShipping ----------------------------
(* Instances of WalShipping for TLC. *)
EXTENDS WalShipping
=============================================================================
