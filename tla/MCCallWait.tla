----------------------------- MODULE MCCallWait -----------------------------
(* Small instances of CallWait. *)
EXTENDS CallWait

Signalling == [t \in Threads |-> {"Answer", "Hangup"}]
=============================================================================
