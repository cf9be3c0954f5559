------------------------------ MODULE CallWait ------------------------------
(***************************************************************************)
(* Goroutines blocked in Call.WaitState, beside the ones that change the   *)
(* state (module Call).  stateCh is a Go channel of capacity 1: a send is  *)
(* handed to the goroutine that has been parked on the channel longest, if *)
(* there is one, otherwise it is buffered, otherwise (setState's select    *)
(* has a default) dropped.                                                 *)
(***************************************************************************)
EXTENDS Call, Sequences

CONSTANT Waiters   \* goroutines that call WaitState

VARIABLES
  target,          \* the state each of them waits for
  wpc,             \* where each of them is in WaitState
  recvq            \* those parked on stateCh, in the order they came

waitVars == <<target, wpc, recvq>>
allVars  == <<vars, waitVars>>

WPCs == {"idle",
         "check",        \* about to read State()
         "select",       \* has read it, not yet parked on the channel
         "parked",       \* blocked in the select
         "reached",      \* returned nil
         "unreachable",  \* returned ErrInvalidState
         "expired"}      \* returned ctx.Err()

WaitTypeOK ==
  /\ TypeOK
  /\ target \in [Waiters -> States]
  /\ wpc \in [Waiters -> WPCs]
  /\ recvq \in Seq(Waiters)

WaitInit ==
  /\ Init
  /\ target \in [Waiters -> States \ {"init"}]
  /\ wpc = [w \in Waiters |-> "idle"]
  /\ recvq = << >>

WaitGoto(w, pc) ==
  /\ wpc' = [wpc EXCEPT ![w] = pc]
  /\ UNCHANGED target

\* Someone who holds the call waits on it.
WaitState(w) ==
  /\ wpc[w] = "idle" /\ ~Inviting
  /\ WaitGoto(w, "check")
  /\ UNCHANGED <<vars, recvq>>

\* The head of the loop reads State() under mu.
WaitCheck(w) ==
  /\ wpc[w] = "check"
  /\ WaitGoto(w, CASE state = target[w] -> "reached"
                   [] state = "ended" /\ target[w] # "ended" -> "unreachable"
                   [] OTHER -> "select")
  /\ UNCHANGED <<vars, recvq>>

\* The select takes a buffered token, or parks.
WaitSelect(w) ==
  /\ wpc[w] = "select"
  /\ WaitGoto(w, IF stateCh = 1 THEN "check" ELSE "parked")
  /\ recvq' = IF stateCh = 1 THEN recvq ELSE Append(recvq, w)
  /\ stateCh' = 0
  /\ UNCHANGED <<sigVars, registered, mediaVars, thr>>

\* ctx expires.
WaitExpire(w) ==
  /\ wpc[w] \in {"select", "parked"}
  /\ WaitGoto(w, "expired")
  /\ recvq' = SelectSeq(recvq, LAMBDA v : v # w)
  /\ UNCHANGED vars

\* A send of setState's wake loop, with the receivers there are.
WakeWaiter(g) ==
  IF recvq = << >>
  THEN Wake(g) /\ UNCHANGED waitVars
  ELSE /\ WakeOnce(g, 0)
       /\ WaitGoto(Head(recvq), "check")
       /\ recvq' = Tail(recvq)

WaitNext ==
  \/ Env /\ UNCHANGED waitVars
  \/ \E g \in Goroutines : QuietStep(g) /\ UNCHANGED waitVars
  \/ \E g \in Goroutines : WakeWaiter(g)
  \/ \E w \in Waiters : WaitState(w) \/ WaitCheck(w) \/ WaitSelect(w) \/ WaitExpire(w)

\* Goroutines run; a context need not expire.
WaitFairness ==
  /\ \A g \in Goroutines : WF_allVars((QuietStep(g) /\ UNCHANGED waitVars) \/ WakeWaiter(g))
  /\ \A w \in Waiters : WF_allVars(WaitCheck(w) \/ WaitSelect(w))

WaitSpec == WaitInit /\ [][WaitNext]_allVars /\ WaitFairness

-----------------------------------------------------------------------------

\* The state a waiter has to be told of.
Due(w) == state = target[w] \/ state = "ended"

\* "wake all WaitState watchers" (setState): a goroutine waiting for a state the call
\* is in, or for a call that has ended, does not stay in WaitState until its context
\* expires.  Violated by two watchers that have read State() and are not parked yet when
\* the sends come: one token is buffered, the others are dropped, and the first of them
\* takes it.
WatchersWoken ==
  \A w \in Waiters :
    wpc[w] \in {"check", "select", "parked"} /\ Due(w)
      ~> wpc[w] \notin {"check", "select", "parked"} \/ ~Due(w)
=============================================================================
