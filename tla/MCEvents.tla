------------------------------ MODULE MCEvents ------------------------------
(* A small instance of Events. *)
EXTENDS Events
=============================================================================
