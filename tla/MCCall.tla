------------------------------- MODULE MCCall -------------------------------
(* Small instances of Call. *)
EXTENDS Call, TLC

CONSTANTS t1, t2

\* The test's goroutine signals; a helper sends and records, and hangs up, as Stop
\* does too.
Roles ==
  (t1 :> {"Trying", "Ringing", "SendEarlyMedia183", "Answer", "Reject", "HangupWithHeaders"}) @@
  (t2 :> {"StartRecording", "StopRecording", "SendSilence", "SendWAV", "Hangup"})
=============================================================================
