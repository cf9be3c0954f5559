------------------------------- MODULE Stack --------------------------------
(***************************************************************************)
(* The SIP stack of internal/sip/uas.go, uac.go and uac_cancel.go: Start   *)
(* registers it, inbound INVITEs are dispatched and outbound calls placed, *)
(* or left unanswered to be cancelled, while it serves, and Stop drains    *)
(* its live calls, deregisters, cancels the serve context and closes the   *)
(* UA, in that order.  Calls are abstracted to what the stack sees of      *)
(* them; the drain to what AbstractDrain says of it and module Drain shows *)
(* it implements: every call handed to it is hung up before it returns.    *)
(* dialog.Close releases our side only: it sends neither BYE nor CANCEL.   *)
(***************************************************************************)
EXTENDS Naturals

CONSTANTS Calls,            \* call legs that may be born on the stack
          Stoppers,         \* goroutines that call Stop
          RegisterAttempts  \* registerAttempts (3 in the code)

ASSUME AttemptsAssumption == RegisterAttempts \in Nat \ {0}

VARIABLES
  start,     \* Start: registering, or how it ended
  attempt,   \* register's loop variable
  regTx,     \* Stack.regTx is set
  binding,   \* the registrar holds our contact (external)
  ctx,       \* Stack.ctx is not cancelled
  ua,        \* the UA and its transports are open
  handler,   \* Stack.handler is set
  leg,       \* each leg: where it is in dispatchInbound, Invite or InviteEarlyMedia
  state,     \* each leg's Call: none yet, live, or ended
  tracked,   \* Stack.calls
  late,      \* legs tracked after Stop took its snapshot (history)
  hungUp,    \* legs on which Hangup was begun while the UA was open
  snapshot,  \* liveCalls' result in Stop
  stop,      \* the body of Stop, run once
  caller     \* each goroutine that calls Stop

regVars  == <<start, attempt, regTx, binding>>
callVars == <<leg, state, tracked, late, hungUp>>
vars     == <<regVars, ctx, ua, handler, callVars, snapshot, stop, caller>>

TypeOK ==
  /\ start \in {"registering", "serving", "failed"}
  /\ attempt \in 1..RegisterAttempts
  /\ regTx \in BOOLEAN /\ binding \in BOOLEAN
  /\ ctx \in BOOLEAN /\ ua \in BOOLEAN /\ handler \in BOOLEAN
  /\ leg \in [Calls -> {"none", "dispatched", "handled", "hangingUp", "refused",
                     "inviting", "placed", "failed", "early", "pending", "cancelled",
                     "released",     \* closed here after a CANCEL
                     "abandoned"}]   \* closed here, still open at the peer
  /\ state \in [Calls -> {"none", "live", "ended"}]
  /\ tracked \subseteq Calls
  /\ late \subseteq Calls
  /\ hungUp \subseteq Calls
  /\ snapshot \subseteq Calls
  /\ stop \in {"no", "drain", "deregister", "cancel", "close", "done"}
  /\ caller \in [Stoppers -> {"idle", "stopping", "returned"}]

\* The serve goroutine is started before the REGISTER goes out.  Without
\* credentials Start does not register.
Init ==
  /\ start \in {"registering", "serving"}
  /\ attempt = 1
  /\ regTx = FALSE /\ binding = FALSE
  /\ ctx = TRUE /\ ua = TRUE
  /\ handler \in BOOLEAN
  /\ leg = [c \in Calls |-> "none"]
  /\ state = [c \in Calls |-> "none"]
  /\ tracked = {} /\ late = {} /\ hungUp = {} /\ snapshot = {}
  /\ stop = "no"
  /\ caller = [s \in Stoppers |-> "idle"]

-----------------------------------------------------------------------------
\* Registration.

\* registerOnce succeeds.
RegisterOk ==
  /\ start = "registering"
  /\ start' = "serving"
  /\ regTx' = TRUE /\ binding' = TRUE
  /\ UNCHANGED <<attempt, ctx, ua, handler, callVars, snapshot, stop, caller>>

\* The registrar's final rejection is not retried; Start cancels and fails.
RegisterRejected ==
  /\ start = "registering"
  /\ start' = "failed" /\ ctx' = FALSE
  /\ UNCHANGED <<attempt, regTx, binding, ua, handler, callVars, snapshot, stop, caller>>

\* Another attempt follows a transport failure, unless the context is done.
Retries == attempt < RegisterAttempts /\ ctx

\* The attempt fails in the transport; the registrar may have seen it.
RegisterLost ==
  /\ start = "registering"
  /\ binding' \in {binding, TRUE}
  /\ IF Retries
     THEN attempt' = attempt + 1 /\ UNCHANGED <<start, ctx>>
     ELSE start' = "failed" /\ ctx' = FALSE /\ UNCHANGED attempt
  /\ UNCHANGED <<regTx, ua, handler, callVars, snapshot, stop, caller>>

\* The serve context derives from the one Start was given, which its caller may
\* cancel at any time, also before Stop.
CallerCancels ==
  /\ ctx
  /\ ctx' = FALSE
  /\ UNCHANGED <<regVars, ua, handler, callVars, snapshot, stop, caller>>

\* QualifyLoop refreshes the binding until ctx is cancelled (diago).
Qualify ==
  /\ regTx /\ ctx
  /\ binding' = TRUE
  /\ UNCHANGED <<start, attempt, regTx, ctx, ua, handler, callVars, snapshot, stop, caller>>

-----------------------------------------------------------------------------
\* Calls.

SetHandler ==
  /\ start = "serving"
  /\ handler' = ~handler
  /\ UNCHANGED <<regVars, ctx, ua, callVars, snapshot, stop, caller>>

\* track appends the leg to Stack.calls.
Track(c) ==
  /\ tracked' = tracked \cup {c}
  /\ late' = IF stop = "no" THEN late ELSE late \cup {c}

\* An inbound INVITE while the stack serves: the leg is tracked and handed to the
\* handler; without one it is rejected with 480, which may fail unnoticed.
DispatchInbound(c) ==
  /\ ctx /\ ua
  /\ leg[c] = "none"
  /\ Track(c)
  /\ leg' = [leg EXCEPT ![c] = IF handler THEN "dispatched" ELSE "refused"]
  /\ \E s \in IF handler THEN {"live"} ELSE {"live", "ended"} :
       state' = [state EXCEPT ![c] = s]
  /\ UNCHANGED <<regVars, ctx, ua, handler, hungUp, snapshot, stop, caller>>

\* Mutant: dispatchInbound leaves a live leg to whoever wants it.
LeftToOthers(c) == FALSE

\* dispatchInbound closes a leg its handler left live.
HandlerLeftLive(c) == state[c] # "ended"

\* The handler returns, with or without having ended the call.
HandlerReturns(c) ==
  /\ leg[c] = "dispatched"
  /\ leg' = [leg EXCEPT ![c] = IF HandlerLeftLive(c) THEN "hangingUp" ELSE "handled"]
  /\ hungUp' = IF HandlerLeftLive(c) /\ ua THEN hungUp \cup {c} ELSE hungUp
  /\ UNCHANGED <<regVars, ctx, ua, handler, state, tracked, late, snapshot, stop, caller>>

\* That Hangup returns, with the call ended.
DispatchHangup(c) ==
  /\ leg[c] = "hangingUp"
  /\ leg' = [leg EXCEPT ![c] = "handled"]
  /\ state' = [state EXCEPT ![c] = "ended"]
  /\ UNCHANGED <<regVars, ctx, ua, handler, tracked, late, hungUp, snapshot, stop, caller>>

\* A leg that no call is made of.
Untracked == <<regVars, ctx, ua, handler, state, tracked, late, hungUp, snapshot, stop, caller>>

\* Invite, or InviteEarlyMedia, makes a dialog, sends the INVITE and blocks.
Invite(c) ==
  /\ start = "serving" /\ ua
  /\ leg[c] = "none"
  /\ leg' \in {[leg EXCEPT ![c] = "inviting"], [leg EXCEPT ![c] = "early"]}
  /\ UNCHANGED Untracked

\* Mutant: an outbound call is not tracked.
InviteUntracked(c) ==
  /\ leg[c] = "inviting" /\ ua
  /\ leg' = [leg EXCEPT ![c] = "placed"]
  /\ state' = [state EXCEPT ![c] = "live"]
  /\ UNCHANGED <<regVars, ctx, ua, handler, tracked, late, hungUp, snapshot, stop, caller>>

\* It is answered: the call is made and tracked.
InviteAnswered(c) ==
  /\ leg[c] = "inviting" /\ ua
  /\ leg' = [leg EXCEPT ![c] = "placed"]
  /\ state' = [state EXCEPT ![c] = "live"]
  /\ Track(c)
  /\ UNCHANGED <<regVars, ctx, ua, handler, hungUp, snapshot, stop, caller>>

\* It is rejected, or its context ends and diago cancels it; the dialog is closed.
InviteFails(c) ==
  /\ leg[c] \in {"inviting", "early"}
  /\ leg' = [leg EXCEPT ![c] = "failed"]
  /\ UNCHANGED Untracked

\* It is answered and the ACK fails: the dialog is closed, without a BYE.
AckFails(c) ==
  /\ leg[c] = "inviting"
  /\ leg' = [leg EXCEPT ![c] = "abandoned"]
  /\ UNCHANGED Untracked

\* InviteEarlyMedia meets an 18x with SDP and returns a PendingInvite.
EarlyMedia(c) ==
  /\ leg[c] = "early" /\ ua
  /\ leg' = [leg EXCEPT ![c] = "pending"]
  /\ UNCHANGED Untracked

\* The peer answers outright: there is nothing to cancel and the dialog is closed,
\* without a BYE for the call that is up.
AnsweredOutright(c) ==
  /\ leg[c] = "early" /\ ua
  /\ leg' = [leg EXCEPT ![c] = "abandoned"]
  /\ UNCHANGED Untracked

\* CancelWithHeaders returns: the CANCEL was answered with 200, or it failed.
CancelWithHeaders(c) ==
  /\ leg[c] = "pending"
  /\ leg' \in {leg, [leg EXCEPT ![c] = "cancelled"]}
  /\ UNCHANGED Untracked

\* PendingInvite.Close: an INVITE that was not cancelled goes on ringing at the peer.
ClosePending(c) ==
  /\ leg[c] \in {"pending", "cancelled"}
  /\ leg' = [leg EXCEPT ![c] = IF leg[c] = "cancelled" THEN "released" ELSE "abandoned"]
  /\ UNCHANGED Untracked

\* The call ends: the peer's BYE, or a Hangup that returns.
CallEnds(c) ==
  /\ state[c] = "live" /\ ua
  /\ state' = [state EXCEPT ![c] = "ended"]
  /\ UNCHANGED <<regVars, ctx, ua, handler, leg, tracked, late, hungUp, snapshot, stop, caller>>

-----------------------------------------------------------------------------
\* Stop.

\* liveCalls: the tracked calls whose Done is not closed.
LiveCalls == {c \in tracked : state[c] # "ended"}

\* stopOnce.Do: the first caller runs the body, the others wait for it.
Stop(s) ==
  /\ start = "serving"
  /\ caller[s] = "idle"
  /\ caller' = [caller EXCEPT ![s] = "stopping"]
  /\ IF stop = "no"
     THEN stop' = "drain" /\ snapshot' = LiveCalls
     ELSE UNCHANGED <<stop, snapshot>>
  /\ UNCHANGED <<regVars, ctx, ua, handler, callVars>>

\* drainCalls begins the Hangup of a call of the snapshot.
DrainHangup(c) ==
  /\ stop = "drain"
  /\ c \in snapshot \ hungUp
  /\ hungUp' = hungUp \cup {c}
  /\ UNCHANGED <<regVars, ctx, ua, handler, leg, state, tracked, late, snapshot, stop, caller>>

\* Mutant: the drain waits for the calls to end, however long that takes.
DrainWaits ==
  /\ stop = "drain"
  /\ \A c \in snapshot : state[c] = "ended"
  /\ stop' = "deregister"
  /\ UNCHANGED <<regVars, ctx, ua, handler, callVars, snapshot, caller>>

\* drainCalls returns: every Hangup was begun; not every call need have ended.
DrainReturns ==
  /\ stop = "drain"
  /\ snapshot \subseteq hungUp
  /\ stop' = "deregister"
  /\ UNCHANGED <<regVars, ctx, ua, handler, callVars, snapshot, caller>>

\* Unregister, which may fail or time out, if there is a registration.
Deregister ==
  /\ stop = "deregister"
  /\ stop' = "cancel"
  /\ binding' \in IF regTx THEN {FALSE, binding} ELSE {binding}
  /\ UNCHANGED <<start, attempt, regTx, ctx, ua, handler, callVars, snapshot, caller>>

Cancel ==
  /\ stop = "cancel"
  /\ stop' = "close" /\ ctx' = FALSE
  /\ UNCHANGED <<regVars, ua, handler, callVars, snapshot, caller>>

CloseUA ==
  /\ stop = "close"
  /\ stop' = "done" /\ ua' = FALSE
  /\ UNCHANGED <<regVars, ctx, handler, callVars, snapshot, caller>>

StopReturns(s) ==
  /\ caller[s] = "stopping" /\ stop = "done"
  /\ caller' = [caller EXCEPT ![s] = "returned"]
  /\ UNCHANGED <<regVars, ctx, ua, handler, callVars, snapshot, stop>>

-----------------------------------------------------------------------------

StopStep ==
  \/ \E c \in Calls : DrainHangup(c)
  \/ DrainReturns \/ Deregister \/ Cancel \/ CloseUA
  \/ \E s \in Stoppers : StopReturns(s)

Next ==
  \/ RegisterOk \/ RegisterRejected \/ RegisterLost \/ CallerCancels \/ Qualify \/ SetHandler
  \/ \E c \in Calls :
       \/ DispatchInbound(c) \/ HandlerReturns(c) \/ DispatchHangup(c)
       \/ Invite(c) \/ InviteAnswered(c) \/ InviteFails(c) \/ AckFails(c) \/ CallEnds(c)
       \/ EarlyMedia(c) \/ AnsweredOutright(c) \/ CancelWithHeaders(c) \/ ClosePending(c)
  \/ \E s \in Stoppers : Stop(s)
  \/ StopStep

\* Stop's steps are bounded by timeouts; handlers watch their context and Hangup
\* returns (HangupReturns of module Call).
Fairness ==
  /\ WF_vars(StopStep)
  /\ \A c \in Calls :
       /\ WF_vars(~ctx /\ HandlerReturns(c))
       /\ WF_vars(DispatchHangup(c))

Spec == Init /\ [][Next]_vars /\ Fairness

-----------------------------------------------------------------------------

\* When the UA is closed, a call is live without a Hangup under way only if it was
\* born after Stop looked: every inbound and outbound call there was is drained
\* while its transport is open.
OnlyLateCallsUndrained ==
  ~ua => \A c \in Calls : state[c] = "live" => c \in hungUp \cup late

\* Once the stack is cancelled, every dispatched call is torn down, whatever its
\* handler did with it (InboundHandler: "the Call is torn down").
CancelledCallsEnd == \A c \in Calls : leg[c] = "dispatched" /\ ~ctx ~> state[c] = "ended"

\* Every goroutine that calls Stop returns from it, even when no call ever ends
\* and another goroutine got there first.
StopEnds == \A s \in Stoppers : caller[s] = "stopping" ~> caller[s] = "returned"

\* What Stop's comment says: it drains any calls still live on the stack.
\* Violated: an INVITE answered or dispatched after the snapshot and before the
\* cancel is left live on a closed UA.
StopDrainsAll == ~ua => \A c \in Calls : state[c] = "live" => c \in hungUp
=============================================================================
