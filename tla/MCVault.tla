------------------------------- MODULE MCVault -------------------------------
(* Small instances of Vault. *)
EXTENDS Vault, TLC

MCOneOwner == {1}
MCTwoOwners == {1, 2}

\* Callers, values and key IDs are interchangeable.
Symmetry == Permutations(Procs) \cup Permutations(Values) \cup Permutations(KeyIDs)
=============================================================================
