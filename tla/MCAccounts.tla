----------------------------- MODULE MCAccounts -----------------------------
(* A small instance of Accounts: one user with a password whose hash is weak, *)
(* and one without a password.                                               *)
EXTENDS Accounts, TLC

MCUsers == {1, 2}
MCCallers == {1}
Symmetry == Permutations(Procs) \cup Permutations(Passwords)
=============================================================================
