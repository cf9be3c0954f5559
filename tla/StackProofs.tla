---------------------------- MODULE StackProofs -----------------------------
(***************************************************************************)
(* For any number of legs and of goroutines that call Stop: what Stop has  *)
(* drained when it closes the UA.  And, for any slice of calls: that       *)
(* drainCalls does what Stack takes from it.                               *)
(***************************************************************************)
EXTENDS Stack, Drain, TLAPS

\* A live call is tracked.  Once Stop has taken its snapshot, a live call is in it or
\* is late; once the drain is over, the snapshot is hung up.  The UA is closed last.
Drained == {"deregister", "cancel", "close", "done"}

StopInv ==
  /\ TypeOK
  /\ \A c \in Calls : state[c] = "live" => c \in tracked
  /\ stop # "no" => \A c \in Calls : state[c] = "live" => c \in snapshot \cup late
  /\ stop \in Drained => snapshot \subseteq hungUp
  /\ ~ua => stop = "done"

LEMMA InitStop == Init => StopInv
  <1> SUFFICES ASSUME Init PROVE StopInv
    OBVIOUS
  <1>1. TypeOK
    <2>1. attempt \in 1..RegisterAttempts
      BY AttemptsAssumption DEF Init
    <2>2. /\ start \in {"registering", "serving", "failed"}
          /\ regTx \in BOOLEAN /\ binding \in BOOLEAN
          /\ ctx \in BOOLEAN /\ ua \in BOOLEAN /\ handler \in BOOLEAN
      BY DEF Init
    <2> QED
      BY <2>1, <2>2 DEF Init, TypeOK
  <1> QED
    BY <1>1 DEF Init, StopInv, Drained

LEMMA StepStop == StopInv /\ [Next]_vars => StopInv'
  <1> SUFFICES ASSUME StopInv, [Next]_vars PROVE StopInv'
    OBVIOUS
  <1> USE AttemptsAssumption DEF StopInv, TypeOK, Drained, regVars, callVars
  <1>0. CASE RegisterOk \/ RegisterRejected \/ CallerCancels \/ Qualify \/ SetHandler
    BY <1>0, ZenonT(60) DEF RegisterOk, RegisterRejected, CallerCancels, Qualify, SetHandler
  <1>1. CASE RegisterLost
    <2>1. attempt' \in 1..RegisterAttempts
      BY <1>1 DEF RegisterLost, Retries
    <2>2. binding' \in BOOLEAN
      BY <1>1 DEF RegisterLost
    <2> QED
      BY <1>1, <2>1, <2>2 DEF RegisterLost
  <1>2. ASSUME NEW c \in Calls, DispatchInbound(c) PROVE StopInv'
    BY <1>2 DEF DispatchInbound, Track
  <1>3. ASSUME NEW c \in Calls, HandlerReturns(c) PROVE StopInv'
    BY <1>3 DEF HandlerReturns, HandlerLeftLive
  <1>4. ASSUME NEW c \in Calls, DispatchHangup(c) PROVE StopInv'
    BY <1>4 DEF DispatchHangup
  <1>5. ASSUME NEW c \in Calls, Invite(c) PROVE StopInv'
    BY <1>5 DEF Invite, Untracked
  <1>6. ASSUME NEW c \in Calls, InviteAnswered(c) PROVE StopInv'
    BY <1>6 DEF InviteAnswered, Track
  <1>7. ASSUME NEW c \in Calls, InviteFails(c) \/ AckFails(c) \/ EarlyMedia(c) \/ AnsweredOutright(c)
        PROVE  StopInv'
    BY <1>7 DEF InviteFails, AckFails, EarlyMedia, AnsweredOutright, Untracked
  <1>8. ASSUME NEW c \in Calls, CancelWithHeaders(c) \/ ClosePending(c) PROVE StopInv'
    BY <1>8 DEF CancelWithHeaders, ClosePending, Untracked
  <1>9. ASSUME NEW c \in Calls, CallEnds(c) PROVE StopInv'
    BY <1>9 DEF CallEnds
  <1>10. ASSUME NEW s \in Stoppers, Stop(s) PROVE StopInv'
    BY <1>10 DEF Stop, LiveCalls
  <1>11. ASSUME NEW c \in Calls, DrainHangup(c) PROVE StopInv'
    BY <1>11 DEF DrainHangup
  <1>12. CASE DrainReturns \/ Deregister \/ Cancel \/ CloseUA
    BY <1>12 DEF DrainReturns, Deregister, Cancel, CloseUA
  <1>13. ASSUME NEW s \in Stoppers, StopReturns(s) PROVE StopInv'
    BY <1>13 DEF StopReturns
  <1>14. CASE UNCHANGED vars
    BY <1>14 DEF vars
  <1> QED
    BY <1>0, <1>1, <1>2, <1>3, <1>4, <1>5, <1>6, <1>7, <1>8, <1>9, <1>10, <1>11, <1>12, <1>13,
       <1>14
    DEF Next, StopStep

\* However calls arrive, are placed and end while Stop runs, and whoever called it: a
\* call that is live on the closed UA has a Hangup under way or is younger than Stop's
\* snapshot.
THEOREM StopDrains == Spec => []OnlyLateCallsUndrained
  <1>1. StopInv => OnlyLateCallsUndrained
    BY DEF StopInv, OnlyLateCallsUndrained, Drained
  <1> QED
    BY <1>1, InitStop, StepStop, PTL DEF Spec

-----------------------------------------------------------------------------
\* drainCalls.  The inductive invariant says what each drainOne knows of its call at
\* each of its steps.

\* A Hangup is begun with drainOne and never undone; one made in drainOne's own
\* goroutine is of a call that had ended, or of one it will not wait for; a result is
\* honest; wg.Wait returns after every drainOne.
Begun(c)  == pc[c] = "start" <=> hangup[c] = "none"
Sync(c)   == pc[c] = "sync" => Done(c) \/ noWait
Honest(c) == res[c].ended => Done(c) /\ hangup[c] # "none"
Joined    == returned => \A c \in Draining : pc[c] = "returned"

DrainInv ==
  /\ DrainTypeOK /\ Joined /\ NoEarlyGiveUp
  /\ \A c \in Draining : Begun(c) /\ Sync(c) /\ Honest(c)

LEMMA InitDrain == DrainInit => DrainInv
  <1> SUFFICES ASSUME DrainInit PROVE DrainInv
    OBVIOUS
  <1>1. DrainTypeOK
    BY DEF DrainInit, DrainTypeOK
  <1>2. Joined /\ NoEarlyGiveUp
    BY DEF DrainInit, Joined, NoEarlyGiveUp
  <1>3. \A c \in Draining : Begun(c) /\ Sync(c) /\ Honest(c)
    BY DEF DrainInit, Begun, Sync, Honest
  <1> QED
    BY <1>1, <1>2, <1>3 DEF DrainInv

\* Each step keeps it.
LEMMA StepDrain == DrainInv /\ [DrainNext]_drainVars => DrainInv'
  <1> SUFFICES ASSUME DrainInv, [DrainNext]_drainVars PROVE DrainInv'
    OBVIOUS
  <1> USE DEF DrainInv, DrainTypeOK, Joined, NoEarlyGiveUp, Begun, Sync, Honest, Done
  <1>1. CASE WaitReturns
    BY <1>1 DEF WaitReturns
  <1>2. CASE TotalElapses
    BY <1>2 DEF TotalElapses
  <1>3. ASSUME NEW c \in Draining, DrainOne(c) PROVE DrainInv'
    BY <1>3 DEF DrainOne
  <1>4. ASSUME NEW c \in Draining, HangupChecks(c) PROVE DrainInv'
    BY <1>4 DEF HangupChecks
  <1>5. ASSUME NEW c \in Draining, SyncReturns(c) PROVE DrainInv'
    BY <1>5, ZenonT(60) DEF SyncReturns, ErrOf
  <1>6. ASSUME NEW c \in Draining, SelectHangup(c) PROVE DrainInv'
    BY <1>6 DEF SelectHangup, AfterEvent, BothSeen, ErrOf
  <1>7. ASSUME NEW c \in Draining, SelectDone(c) PROVE DrainInv'
    BY <1>7, ZenonT(60) DEF SelectDone, AfterEvent, BothSeen
  <1>8. ASSUME NEW c \in Draining, SelectTimeout(c) PROVE DrainInv'
    BY <1>8 DEF SelectTimeout, TimedOut, EndedAtTimeout
  <1>9. ASSUME NEW c \in Draining, HangupReturns(c) PROVE DrainInv'
    BY <1>9 DEF HangupReturns
  <1>10. ASSUME NEW c \in Draining, PerCallElapses(c) PROVE DrainInv'
    BY <1>10 DEF PerCallElapses
  <1>11. ASSUME NEW c \in Draining, PeerEnds(c) PROVE DrainInv'
    BY <1>11 DEF PeerEnds
  <1>12. ASSUME NEW c \in Draining, Revive(c) PROVE DrainInv'
    BY <1>12 DEF Revive
  <1>13. CASE UNCHANGED drainVars
    BY <1>13 DEF drainVars
  <1> QED
    BY <1>1, <1>2, <1>3, <1>4, <1>5, <1>6, <1>7, <1>8, <1>9, <1>10, <1>11, <1>12, <1>13
    DEF DrainNext, DrainStep

-----------------------------------------------------------------------------
\* The initial states map to initial states.
LEMMA InitPromised == DrainInit => Promised!Init
  BY DEF DrainInit, Promised!Init, Done

\* Every step maps to a step of AbstractDrain or to none.
LEMMA StepPromised == DrainInv /\ [DrainNext]_drainVars => [Promised!Next]_(Promised!vars)
  <1> SUFFICES ASSUME DrainInv, [DrainNext]_drainVars PROVE [Promised!Next]_(Promised!vars)
    OBVIOUS
  <1> USE DEF DrainInv, DrainTypeOK, Joined, Begun, Sync, Honest, Done, Promised!vars
  <1>1. CASE WaitReturns
    <2>1. Promised!Returns
      BY <1>1 DEF WaitReturns, Promised!Returns
    <2> QED
      BY <2>1 DEF Promised!Next
  <1>2. CASE TotalElapses
    BY <1>2 DEF TotalElapses
  <1>3. ASSUME NEW c \in Draining, DrainOne(c) PROVE Promised!Begins(c)
    BY <1>3 DEF DrainOne, Promised!Begins
  <1>4. ASSUME NEW c \in Draining, HangupChecks(c) PROVE UNCHANGED Promised!vars
    BY <1>4 DEF HangupChecks
  <1>5. ASSUME NEW c \in Draining, SyncReturns(c)
        PROVE  Promised!Reports(c) \/ UNCHANGED Promised!vars
    BY <1>5 DEF SyncReturns, Promised!Reports
  <1>6. ASSUME NEW c \in Draining, SelectHangup(c) PROVE UNCHANGED Promised!vars
    BY <1>6 DEF SelectHangup, AfterEvent
  <1>7. ASSUME NEW c \in Draining, SelectDone(c) PROVE Promised!Reports(c)
    BY <1>7 DEF SelectDone, AfterEvent, Promised!Reports
  <1>8. ASSUME NEW c \in Draining, SelectTimeout(c) PROVE UNCHANGED Promised!vars
    BY <1>8 DEF SelectTimeout, EndedAtTimeout
  <1>9. ASSUME NEW c \in Draining, HangupReturns(c)
        PROVE  Promised!Ends(c) \/ UNCHANGED Promised!vars
    BY <1>9 DEF HangupReturns, Promised!Ends
  <1>10. ASSUME NEW c \in Draining, PerCallElapses(c) PROVE UNCHANGED Promised!vars
    BY <1>10 DEF PerCallElapses
  <1>11. ASSUME NEW c \in Draining, PeerEnds(c) PROVE Promised!Ends(c)
    BY <1>11 DEF PeerEnds, Promised!Ends
  <1>12. ASSUME NEW c \in Draining, Revive(c) PROVE UNCHANGED Promised!vars
    BY <1>12 DEF Revive
  <1>13. CASE UNCHANGED drainVars
    BY <1>13 DEF drainVars
  <1> QED
    BY <1>1, <1>2, <1>3, <1>4, <1>5, <1>6, <1>7, <1>8, <1>9, <1>10, <1>11, <1>12, <1>13
    DEF DrainNext, DrainStep, Promised!Next

\* For any number of calls and any interleaving of Hangups, BYEs and timers,
\* drainCalls hangs every call up before it returns and reports ended only those that
\* are.
THEOREM DrainRefines == DrainSpec => ImplementsDrain
  BY InitDrain, StepDrain, InitPromised, StepPromised, PTL
  DEF DrainSpec, ImplementsDrain, Promised!Spec

\* And drainOne returns before perCall and total have elapsed only with the outcome of
\* its Hangup and the end of its call.
THEOREM PatientDrain == DrainSpec => []NoEarlyGiveUp
  <1>1. DrainInv => NoEarlyGiveUp
    BY DEF DrainInv
  <1> QED
    BY <1>1, InitDrain, StepDrain, PTL DEF DrainSpec
=============================================================================
