------------------------------ MODULE MCDrain -------------------------------
(* Small instances of Drain. *)
EXTENDS Drain
=============================================================================
