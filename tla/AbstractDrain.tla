--------------------------- MODULE AbstractDrain ----------------------------
(***************************************************************************)
(* What drainCalls (internal/sip/drain.go) promises to Stack.Stop, with no *)
(* timer, goroutine or channel in sight: when it returns, a Hangup has     *)
(* been begun on every call it was given, and the calls it reports ended   *)
(* had ended; nothing changes its report afterwards.  Module Drain         *)
(* implements it (ImplementsDrain there), and module Stack assumes it.     *)
(***************************************************************************)
CONSTANT Calls

VARIABLES
  over,      \* calls that have ended
  begun,     \* calls whose Hangup was begun
  reported,  \* calls the results say have ended
  returned   \* drainCalls has returned

vars == <<over, begun, reported, returned>>

Init ==
  /\ over \subseteq Calls
  /\ begun = {} /\ reported = {}
  /\ returned = FALSE

\* A call ends, by a BYE or by the Hangup, in the drain or after it.
Ends(c) ==
  /\ over' = over \cup {c}
  /\ UNCHANGED <<begun, reported, returned>>

Begins(c) ==
  /\ ~returned
  /\ begun' = begun \cup {c}
  /\ UNCHANGED <<over, reported, returned>>

Reports(c) ==
  /\ ~returned
  /\ c \in over \cap begun
  /\ reported' = reported \cup {c}
  /\ UNCHANGED <<over, begun, returned>>

Returns ==
  /\ begun = Calls
  /\ returned' = TRUE
  /\ UNCHANGED <<over, begun, reported>>

Next == Returns \/ \E c \in Calls : Ends(c) \/ Begins(c) \/ Reports(c)

Spec == Init /\ [][Next]_vars
=============================================================================
