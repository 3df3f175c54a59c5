------------------------- MODULE MCRefreshRotation -------------------------
(* Small instances of RefreshRotation. *)
EXTENDS RefreshRotation, TLC

\* Window and idle timeout both off, each alone, and both on.
MCPolicies == {[window |-> w, idle |-> i] : w \in {0, 1}, i \in {0, 2}}

\* The window alone.
MCWindowOnly == {[window |-> 1, idle |-> 0]}

Symmetry == Permutations(Requests)
=============================================================================
