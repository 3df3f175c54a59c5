---------------------------- MODULE MCTupleCache ----------------------------
(* A small instance of TupleCache. *)
EXTENDS TupleCache, TLC

\* Tuples, replicas and receipts are interchangeable; one replica reads.
Symmetry == Permutations(Tuples) \cup Permutations(Receipts) \cup Permutations(Replicas \ Readers)
=============================================================================
