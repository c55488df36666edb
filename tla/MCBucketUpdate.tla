---------------------------- MODULE MCBucketUpdate ----------------------------
(* Small instances of BucketUpdate.                                         *)
EXTENDS BucketUpdate, TLC

Symmetric == Permutations(Clients)

=============================================================================
