------------------------------- MODULE Drain --------------------------------
(***************************************************************************)
(* drainCalls of internal/sip/drain.go: hang up a slice of calls           *)
(* concurrently and wait for each to end, each bounded by a timer (perCall) *)
(* and all of them by one deadline (total).                                *)
(*                                                                         *)
(* The calls are seen through the drainable interface: Done() and          *)
(* Hangup().  Call.Hangup returns at once from a call in StateEnded and    *)
(* otherwise exchanges SIP, which may outlast the drain's budget.  Done    *)
(* stays closed once a call has ended, but a late setState(StateAnswered)  *)
(* can move the call out of StateEnded again (EndedIsFinal of module Call, *)
(* "revived" here).                                                        *)
(***************************************************************************)
EXTENDS Naturals

CONSTANT Draining   \* the calls handed to drainCalls

VARIABLES
  noWait,   \* perCall <= 0 or total <= 0
  call,     \* each call: its Done channel and its State()
  pc,       \* drainOne of each call
  hangup,   \* the Hangup of each call, and its result on the way to drainOne
  doneRef,  \* drainOne's local done is not nil
  timer,    \* perCall has elapsed
  deadline, \* total has elapsed
  res,      \* the DrainResult of each call
  returned  \* wg.Wait has returned

drainVars == <<noWait, call, pc, hangup, doneRef, timer, deadline, res, returned>>

DrainTypeOK ==
  /\ noWait \in BOOLEAN
  /\ call \in [Draining -> {"live", "ended", "revived"}]
  /\ pc \in [Draining -> {"start", "sync", "wait", "returned"}]
  /\ hangup \in [Draining -> {"none", "called", "busy", "ok", "error", "received"}]
  /\ doneRef \in [Draining -> BOOLEAN]
  /\ timer \in [Draining -> BOOLEAN]
  /\ deadline \in BOOLEAN
  /\ res \in [Draining -> [ended: BOOLEAN, err: {"none", "error"}]]
  /\ returned \in BOOLEAN

\* Done() is closed.
Done(c) == call[c] # "live"

\* Some calls may have ended since the slice was made.
DrainInit ==
  /\ noWait \in BOOLEAN
  /\ call \in [Draining -> {"live", "ended"}]
  /\ pc = [c \in Draining |-> "start"]
  /\ hangup = [c \in Draining |-> "none"]
  /\ doneRef = [c \in Draining |-> TRUE]
  /\ timer = [c \in Draining |-> FALSE]
  /\ deadline = FALSE
  /\ res = [c \in Draining |-> [ended |-> FALSE, err |-> "none"]]
  /\ returned = FALSE

\* Mutant: a call that has already ended is reported without a Hangup.
DrainOneSkipping(c) ==
  /\ pc[c] = "start"
  /\ IF Done(c)
     THEN /\ pc' = [pc EXCEPT ![c] = "returned"]
          /\ res' = [res EXCEPT ![c].ended = TRUE]
          /\ UNCHANGED hangup
     ELSE /\ pc' = [pc EXCEPT ![c] = IF noWait THEN "sync" ELSE "wait"]
          /\ hangup' = [hangup EXCEPT ![c] = "called"]
          /\ UNCHANGED res
  /\ UNCHANGED <<noWait, call, doneRef, timer, deadline, returned>>

\* The head of drainOne.  A call that has ended, and every call under noWait, is
\* hung up in drainOne's own goroutine; the others in a goroutine of their own.
DrainOne(c) ==
  /\ pc[c] = "start"
  /\ pc' = [pc EXCEPT ![c] = IF Done(c) \/ noWait THEN "sync" ELSE "wait"]
  /\ hangup' = [hangup EXCEPT ![c] = "called"]
  /\ UNCHANGED <<noWait, call, doneRef, timer, deadline, res, returned>>

\* Hangup reads State(): it has nothing to do in StateEnded.
HangupChecks(c) ==
  /\ hangup[c] = "called"
  /\ hangup' = [hangup EXCEPT ![c] = IF call[c] = "ended" THEN "ok" ELSE "busy"]
  /\ UNCHANGED <<noWait, call, pc, doneRef, timer, deadline, res, returned>>

\* Hangup returns with the call ended, or panics and safeHangup turns that into an
\* error.  The goroutine that made it sends the outcome on hangupCh, whose buffer
\* of 1 never blocks it.
HangupReturns(c) ==
  /\ hangup[c] = "busy"
  /\ \/ /\ hangup' = [hangup EXCEPT ![c] = "ok"]
        /\ call' = [call EXCEPT ![c] = "ended"]
     \/ /\ hangup' = [hangup EXCEPT ![c] = "error"]
        /\ UNCHANGED call
  /\ UNCHANGED <<noWait, pc, doneRef, timer, deadline, res, returned>>

ErrOf(outcome) == IF outcome = "error" THEN "error" ELSE "none"

\* A Hangup made in drainOne's own goroutine has returned.
SyncReturns(c) ==
  /\ pc[c] = "sync"
  /\ hangup[c] \in {"ok", "error"}
  /\ res' = [res EXCEPT ![c] = [ended |-> Done(c), err |-> ErrOf(hangup[c])]]
  /\ pc' = [pc EXCEPT ![c] = "returned"]
  /\ hangup' = [hangup EXCEPT ![c] = "received"]
  /\ UNCHANGED <<noWait, call, doneRef, timer, deadline, returned>>

\* Mutants: either event alone ends the wait; both together do not.
EitherSeen(hangupSeen, ended) == hangupSeen \/ ended
NeverBoth(hangupSeen, ended) == FALSE

\* The loop of drainOne ends when it has seen both.
BothSeen(hangupSeen, ended) == hangupSeen /\ ended

AfterEvent(c, hangupSeen, ended) ==
  pc' = [pc EXCEPT ![c] = IF BothSeen(hangupSeen, ended) THEN "returned" ELSE @]

\* case err := <-hangupCh
SelectHangup(c) ==
  /\ pc[c] = "wait"
  /\ hangup[c] \in {"ok", "error"}
  /\ res' = [res EXCEPT ![c].err = ErrOf(hangup[c])]
  /\ hangup' = [hangup EXCEPT ![c] = "received"]
  /\ AfterEvent(c, TRUE, res[c].ended)
  /\ UNCHANGED <<noWait, call, doneRef, timer, deadline, returned>>

\* case <-done, whose local reference is then nil.
SelectDone(c) ==
  /\ pc[c] = "wait"
  /\ doneRef[c] /\ Done(c)
  /\ res' = [res EXCEPT ![c].ended = TRUE]
  /\ doneRef' = [doneRef EXCEPT ![c] = FALSE]
  /\ AfterEvent(c, hangup[c] = "received", TRUE)
  /\ UNCHANGED <<noWait, call, hangup, timer, deadline, returned>>

\* Mutant: the select lacks its ctx.Done() case.
TimerOnly(c) == timer[c]

TimedOut(c) == timer[c] \/ deadline

\* What the result says of a call given up on.
EndedAtTimeout(c) == res[c].ended

\* case <-timer.C and case <-ctx.Done()
SelectTimeout(c) ==
  /\ pc[c] = "wait"
  /\ TimedOut(c)
  /\ pc' = [pc EXCEPT ![c] = "returned"]
  /\ res' = [res EXCEPT ![c].ended = EndedAtTimeout(c)]
  /\ UNCHANGED <<noWait, call, hangup, doneRef, timer, deadline, returned>>

\* wg.Wait returns.
WaitReturns ==
  /\ ~returned
  /\ \A c \in Draining : pc[c] = "returned"
  /\ returned' = TRUE
  /\ UNCHANGED <<noWait, call, pc, hangup, doneRef, timer, deadline, res>>

\* perCall elapses for one call; total elapses.
PerCallElapses(c) ==
  /\ pc[c] = "wait" /\ ~timer[c]
  /\ timer' = [timer EXCEPT ![c] = TRUE]
  /\ UNCHANGED <<noWait, call, pc, hangup, doneRef, deadline, res, returned>>

TotalElapses ==
  /\ ~deadline
  /\ deadline' = TRUE
  /\ UNCHANGED <<noWait, call, pc, hangup, doneRef, timer, res, returned>>

\* The peer's BYE ends a call.
PeerEnds(c) ==
  /\ call[c] = "live"
  /\ call' = [call EXCEPT ![c] = "ended"]
  /\ UNCHANGED <<noWait, pc, hangup, doneRef, timer, deadline, res, returned>>

\* A late setState(StateAnswered) moves an ended call out of StateEnded.
Revive(c) ==
  /\ call[c] = "ended"
  /\ call' = [call EXCEPT ![c] = "revived"]
  /\ UNCHANGED <<noWait, pc, hangup, doneRef, timer, deadline, res, returned>>

DrainStep(c) ==
  \/ DrainOne(c) \/ HangupChecks(c) \/ SyncReturns(c)
  \/ SelectHangup(c) \/ SelectDone(c) \/ SelectTimeout(c)

DrainNext ==
  \/ WaitReturns \/ TotalElapses
  \/ \E c \in Draining : \/ DrainStep(c) \/ HangupReturns(c)
                      \/ PerCallElapses(c) \/ PeerEnds(c) \/ Revive(c)

\* The goroutines of the drain run.  A Hangup that exchanges SIP may never return
\* and no timer has to elapse.
DrainFairness ==
  /\ WF_drainVars(WaitReturns)
  /\ \A c \in Draining : WF_drainVars(DrainStep(c))

DrainSpec == DrainInit /\ [][DrainNext]_drainVars /\ DrainFairness

-----------------------------------------------------------------------------

Promised == INSTANCE AbstractDrain WITH
  Calls <- Draining,
  over <- {c \in Draining : Done(c)},
  begun <- {c \in Draining : hangup[c] # "none"},
  reported <- {c \in Draining : res[c].ended}

\* The goroutines, timers and channels amount to what AbstractDrain promises: when
\* the drain returns every call has been hung up, or its Hangup is under way in a
\* goroutine that outlives the drain; a result says Ended only of a call whose Done
\* was closed, whichever of the Hangup, the BYE, the timer and the deadline came
\* first; and the results are final then.
ImplementsDrain == Promised!Spec

\* A drainOne that returns before perCall and total have elapsed has the outcome
\* of its Hangup, and reports the call ended unless told not to wait.
NoEarlyGiveUp ==
  \A c \in Draining :
    pc[c] = "returned" /\ ~timer[c] /\ ~deadline
      => hangup[c] = "received" /\ (res[c].ended \/ noWait)

\* drainCalls never blocks longer than total, even if a Hangup never returns, as
\* long as ended calls stay ended.  A revived call is the exception: drainOne hangs
\* it up in its own goroutine, outside the select with the deadline.
BoundedByTotal ==
  [](\A c \in Draining : call[c] # "revived") => (deadline /\ ~noWait ~> returned)

\* Once every call has ended and every Hangup has returned, drainCalls returns
\* without waiting for a timer.
PromptWhenEnded ==
  (\A c \in Draining : Done(c) /\ hangup[c] \in {"ok", "error", "received"}) ~> returned
=============================================================================
