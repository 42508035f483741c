---------------------------- MODULE MCBlobStore -----------------------------
(* Instances of BlobStore for TLC. *)
EXTENDS BlobStore, TLC

Symmetry == Permutations(Blobs) \cup Permutations(Paths)
=============================================================================
