---------------------------- MODULE MCSecretKeys ----------------------------
(* Instances of SecretKeys for TLC: a primary key and one subkey. *)
EXTENDS SecretKeys, TLC

Symmetry == Permutations(Calls) \cup Permutations(Pass)
=============================================================================
