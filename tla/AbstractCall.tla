---------------------------- MODULE AbstractCall ----------------------------
(***************************************************************************)
(* What a Call of internal/sip/call.go promises to those that hold it, with *)
(* no goroutine, lock or SIP exchange in sight: it ends once and for one   *)
(* reason (Done, EndReason), it leaves the Call-ID registry after it has   *)
(* ended and for good, and every recording goes from its first to its last *)
(* state in one order, so that a file is archived only when it is whole.   *)
(* Module Call implements it (ImplementsCall there).                       *)
(***************************************************************************)
EXTENDS Naturals

CONSTANTS Recs,     \* recording sessions
          Reasons   \* reasons a call ends for, "none" apart

VARIABLES
  answered,  \* AnsweredAt is set
  closes,    \* how often Done was closed
  reason,    \* EndReason; "none" until the call ends
  listed,    \* requests with its Call-ID find the call
  take       \* each recording: its audio and its file

vars == <<answered, closes, reason, listed, take>>

Init ==
  /\ answered = FALSE
  /\ closes = 0
  /\ reason = "none"
  /\ listed = TRUE
  /\ take = [r \in Recs |-> "none"]

\* An INVITE may still be answered when the call has ended: nothing takes that back.
Answered ==
  /\ answered' = TRUE
  /\ UNCHANGED <<closes, reason, listed, take>>

Ended(why) ==
  /\ closes = 0
  /\ closes' = 1
  /\ reason' = why
  /\ UNCHANGED <<answered, listed, take>>

Unlisted ==
  /\ closes = 1
  /\ listed' = FALSE
  /\ UNCHANGED <<answered, closes, reason, take>>

\* A recording starts, its pump stops writing, its file is closed, and archived.
Moves(r, from, to) ==
  /\ take[r] = from
  /\ take' = [take EXCEPT ![r] = to]
  /\ UNCHANGED <<answered, closes, reason, listed>>

Recording(r) ==
  \/ Moves(r, "none", "recording")
  \/ Moves(r, "recording", "drained")
  \/ Moves(r, "drained", "closed")
  \/ Moves(r, "closed", "archived")

Next ==
  \/ Answered \/ Unlisted
  \/ \E why \in Reasons : Ended(why)
  \/ \E r \in Recs : Recording(r)

Spec == Init /\ [][Next]_vars
=============================================================================
