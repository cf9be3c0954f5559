------------------------------ MODULE MCStack -------------------------------
(* Small instances of Stack. *)
EXTENDS Stack
=============================================================================
