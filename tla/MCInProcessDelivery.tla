------------------------ MODULE MCInProcessDelivery ------------------------
(* Small instances of InProcessDelivery. *)
EXTENDS InProcessDelivery, TLC

\* Keys, callers and workers are interchangeable.
Symmetry == Permutations(Keys) \cup Permutations(Callers) \cup Permutations(Workers)
=============================================================================
