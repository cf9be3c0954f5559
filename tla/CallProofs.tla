----------------------------- MODULE CallProofs -----------------------------
(* Theorems about Call, for any number of goroutines, sessions and loops: what  *)
(* one call keeps, and that it implements AbstractCall.                        *)
EXTENDS Call, TLAPS

USE DEF Goroutines

-----------------------------------------------------------------------------
\* Type correctness.

\* A goroutine record with some of its fields replaced is a goroutine record.
LEMMA AtType ==
  ASSUME NEW pc \in PCs, NEW op \in Ops
  PROVE  At(pc, op) \in Goroutine
  BY WakeSendsAssumption DEF At, Goroutine, Reasons

\* The fields the steps assign, replaced one or several at a time.
LEMMA FieldType ==
  ASSUME NEW q \in Goroutine, NEW pc \in PCs
  PROVE  /\ [q EXCEPT !.pc = pc] \in Goroutine
         /\ \A s \in Reasons : [q EXCEPT !.pc = pc, !.reason = s] \in Goroutine
         /\ \A r \in Recs \cup {None} : [q EXCEPT !.pc = pc, !.rec = r] \in Goroutine
         /\ [q EXCEPT !.pc = pc, !.endedNow = TRUE] \in Goroutine
         /\ \A n \in 0..WakeSends :
              [q EXCEPT !.pc = pc, !.endedNow = FALSE, !.wakes = n] \in Goroutine
  BY DEF Goroutine

\* Likewise for a recording session.
LEMMA SessionType ==
  ASSUME NEW q \in Session
  PROVE  /\ [q EXCEPT !.cancelled = TRUE] \in Session
         /\ [q EXCEPT !.file = "closed"] \in Session
         /\ [q EXCEPT !.pump = "done"] \in Session
         /\ [q EXCEPT !.pump = "running", !.file = "open"] \in Session
  BY DEF Session

\* A goroutine outside every method is well typed.
LEMMA IdleType == Idle \in Goroutine
  BY AtType DEF Idle, PCs, Ops

\* So is one that goes on after stopMedia.
LEMMA AfterStopType ==
  ASSUME TypeOK, NEW g \in Goroutines
  PROVE  AfterStop(g) \in Goroutine
  BY IdleType DEF AfterStop, TypeOK, Goroutine, PCs

\* The initial state is well typed.
LEMMA InitType == Init => TypeOK
  <1> SUFFICES ASSUME Init PROVE TypeOK
    OBVIOUS
  <1>1. thr \in [Goroutines -> Goroutine]
    BY AtType, IdleType DEF Init, PCs, Ops
  <1>2. rec \in [Recs -> Session]
    BY DEF Init, Session
  <1>3. /\ recording \in Recs \cup {None}
        /\ silenceCancel \in Sils \cup {None}
        /\ silence \in [Sils -> {"none", "running", "cancelled", "exited"}]
    BY DEF Init
  <1>4. /\ direction \in Directions
        /\ state \in States
        /\ endReason \in Reasons
        /\ doneCloses \in Nat
        /\ stateCh \in 0..1
    BY DEF Init, States, Reasons
  <1>5. answeredAt \in BOOLEAN /\ endedAt \in BOOLEAN /\ registered \in BOOLEAN
    BY DEF Init
  <1> QED
    BY <1>1, <1>2, <1>3, <1>4, <1>5 DEF TypeOK

\* Replacing the record of one goroutine by another record keeps thr's type.
LEMMA ThrType ==
  ASSUME TypeOK, NEW g \in Goroutines, NEW q \in Goroutine,
         thr' = [thr EXCEPT ![g] = q]
  PROVE  thr' \in [Goroutines -> Goroutine]
  BY DEF TypeOK

\* Likewise for one recording session.
LEMMA RecType ==
  ASSUME TypeOK, NEW r \in Recs, NEW q \in Session, rec' = [rec EXCEPT ![r] = q]
  PROVE  rec' \in [Recs -> Session]
  BY DEF TypeOK

\* A method's head changes one goroutine only.
LEMMA EnterType ==
  ASSUME TypeOK, NEW t \in Threads, NEW op \in Ops, NEW pc \in PCs,
         NEW permitted \in BOOLEAN, Enter(t, op, pc, permitted)
  PROVE  TypeOK'
  BY AtType DEF Enter, TypeOK, sigVars, mediaVars

\* Every step keeps the types.
LEMMA StepType == TypeOK /\ [Next]_vars => TypeOK'
  <1> SUFFICES ASSUME TypeOK, [Next]_vars PROVE TypeOK'
    OBVIOUS
  <1> USE DEF sigVars, mediaVars
  <1>1. ASSUME NEW t \in Threads, Begin(t) PROVE TypeOK'
    <2> USE EnterType DEF PCs, Ops
    <2>1. CASE Trying(t)             BY <2>1 DEF Trying
    <2>2. CASE Ringing(t)            BY <2>2 DEF Ringing
    <2>3. CASE SendEarlyMedia183(t)  BY <2>3 DEF SendEarlyMedia183
    <2>4. CASE Answer(t)             BY <2>4 DEF Answer
    <2>5. CASE Reject(t)             BY <2>5 DEF Reject
    <2>6. CASE Hangup(t)             BY <2>6 DEF Hangup
    <2>7. CASE HangupWithHeaders(t)  BY <2>7 DEF HangupWithHeaders
    <2>8. CASE StartRecording(t)     BY <2>8 DEF StartRecording
    <2>9. CASE StopRecording(t)      BY <2>9 DEF StopRecording
    <2>10. CASE SendSilence(t)       BY <2>10 DEF SendSilence
    <2>11. CASE SendWAV(t)           BY <2>11 DEF SendWAV
    <2> QED
      BY <1>1, <2>1, <2>2, <2>3, <2>4, <2>5, <2>6, <2>7, <2>8, <2>9, <2>10, <2>11
      DEF Begin
  <1>2. CASE OnState
    <2>1. [At("setState", "OnState") EXCEPT !.reason = "remote-bye"] \in Goroutine
      <3>1. At("setState", "OnState") \in Goroutine
        BY AtType DEF PCs, Ops
      <3> QED
        BY <3>1 DEF Goroutine, Reasons
    <2> QED
      BY <1>2, <2>1 DEF OnState, TypeOK
  <1>3. ASSUME NEW r \in Recs, PumpExit(r) PROVE TypeOK'
    BY <1>3 DEF PumpExit, TypeOK, Session
  <1>4. ASSUME NEW s \in Sils, SilenceExit(s) PROVE TypeOK'
    BY <1>4 DEF SilenceExit, TypeOK
  <1>5. ASSUME NEW g \in Goroutines, Step(g) PROVE TypeOK'
    <2> USE DEF TypeOK
    <2>1. CASE Recheck(g)
      BY <2>1 DEF Recheck, Goto, Goroutine, PCs, Reasons
    <2>2. CASE SipOk(g)
      BY <2>2 DEF SipOk, Goroutine, PCs, Reasons
    <2>3. CASE SipErr(g)
      BY <2>3, IdleType DEF SipErr, Return, Goroutine, PCs, Reasons
    <2>4. CASE SetState(g)
      <3>1. Target(thr[g].op) \in States
        BY DEF Target, States
      <3>2. thr' \in [Goroutines -> Goroutine]
        <4>1. /\ [thr[g] EXCEPT !.pc = "tail"] \in Goroutine
              /\ [thr[g] EXCEPT !.pc = "tail", !.endedNow = TRUE] \in Goroutine
          BY FieldType DEF PCs
        <4> QED
          BY <2>4, <4>1, IdleType DEF SetState, Return, Goto
      <3>3. doneCloses' \in Nat /\ state' \in States /\ direction' \in Directions
        BY <2>4, <3>1 DEF SetState
      <3>4. endReason' \in Reasons
        BY <2>4 DEF SetState, Goroutine
      <3>5. answeredAt' \in BOOLEAN /\ endedAt' \in BOOLEAN
        BY <2>4 DEF SetState
      <3> QED
        BY <2>4, <3>2, <3>3, <3>4, <3>5 DEF SetState
    <2>5. CASE SetStateTail(g)
      <3>1. [thr[g] EXCEPT !.pc = "wake", !.endedNow = FALSE, !.wakes = WakeSends] \in Goroutine
        <4>1. WakeSends \in 0..WakeSends
          BY WakeSendsAssumption
        <4> QED
          BY <4>1, FieldType DEF PCs
      <3>2. At("take", "stopMedia") \in Goroutine
        BY AtType DEF PCs, Ops
      <3> QED
        BY <2>5, <3>1, <3>2 DEF SetStateTail, Unregisters
    <2>6. CASE Wake(g)
      BY <2>6, IdleType, WakeSendsAssumption DEF Wake, WakeOnce, Buffered, Return, Goroutine
    <2>7. CASE TakeRecording(g)
      <3>1. thr' \in [Goroutines -> Goroutine]
        <4>1. \A r \in Recs \cup {None} :
                [thr[g] EXCEPT !.pc = "await", !.rec = r] \in Goroutine
          BY FieldType DEF PCs
        <4> QED
          BY <2>7, <4>1, AfterStopType DEF TakeRecording
      <3>2. rec' \in [Recs -> Session]
        BY <2>7, SessionType, RecType DEF TakeRecording
      <3>3. /\ recording' \in Recs \cup {None}
            /\ silenceCancel' \in Sils \cup {None}
            /\ silence' \in [Sils -> {"none", "running", "cancelled", "exited"}]
        BY <2>7 DEF TakeRecording, LeftInCall, CancelSilence
      <3> QED
        BY <2>7, <3>1, <3>2, <3>3 DEF TakeRecording
    <2>8. CASE PumpStopped(g)
      <3>1. thr' \in [Goroutines -> Goroutine]
        BY <2>8, FieldType DEF PumpStopped, Goto, PCs
      <3>2. thr[g].rec \in Recs => rec' \in [Recs -> Session]
        BY <2>8, SessionType, RecType DEF PumpStopped
      <3>3. thr[g].rec \notin Recs => rec' = rec
        BY <2>8 DEF PumpStopped
      <3> QED
        BY <2>8, <3>1, <3>2, <3>3 DEF PumpStopped
    <2>9. CASE GraceExpired(g)
      BY <2>9, AfterStopType DEF GraceExpired
    <2>10. CASE FinalizeRecording(g)
      BY <2>10, AfterStopType DEF FinalizeRecording, Session
    <2>11. CASE InstallRecording(g)
      BY <2>11, IdleType DEF InstallRecording, Return, Session
    <2>12. CASE InstallSilence(g)
      BY <2>12, IdleType DEF InstallSilence, Return
    <2>13. CASE StopSilence(g)
      BY <2>13, IdleType DEF StopSilence, Return, CancelSilence
    <2>14. CASE MediaRefused(g)
      BY <2>14, IdleType DEF MediaRefused, Return
    <2> QED
      BY <1>5, <2>1, <2>2, <2>3, <2>4, <2>5, <2>6, <2>7, <2>8, <2>9, <2>10, <2>11,
         <2>12, <2>13, <2>14
      DEF Step, QuietStep
  <1>6. CASE UNCHANGED vars
    BY <1>6 DEF vars, TypeOK
  <1> QED
    BY <1>1, <1>2, <1>3, <1>4, <1>5, <1>6 DEF Next, Env

\* Every field of a Call keeps its type in every reachable state.
THEOREM TypeCorrect == Spec => []TypeOK
  BY InitType, StepType, PTL DEF Spec

-----------------------------------------------------------------------------
\* The end of a call.

\* DoneClosedOnce and EndedIsUnregistered are inductive once it is known that
\* only the setState that ended the call carries endedNow, and only in its tail.
EndInv ==
  /\ DoneClosedOnce
  /\ \A g \in Goroutines : thr[g].endedNow => thr[g].pc = "tail" /\ endedAt
  /\ endedAt => ~registered \/ \E g \in Goroutines : thr[g].endedNow

\* A new call has not ended and is registered.
LEMMA InitEnd == Init => EndInv
  <1> SUFFICES ASSUME Init PROVE EndInv
    OBVIOUS
  <1>1. \A g \in Goroutines : thr[g].endedNow = FALSE
    BY DEF Init, At, Idle
  <1>2. doneCloses = 0 /\ ~endedAt
    BY DEF Init
  <1> QED
    BY <1>1, <1>2 DEF EndInv, DoneClosedOnce

\* A step of one goroutine that is not in setState's tail and does not end the
\* call keeps EndInv.
LEMMA QuietEnd ==
  ASSUME EndInv, NEW g \in Goroutines,
         thr[g].pc # "tail", ~thr'[g].endedNow,
         \A h \in Goroutines : h # g => thr'[h] = thr[h],
         UNCHANGED <<endedAt, doneCloses, registered>>
  PROVE  EndInv'
  <1>1. ~thr[g].endedNow
    BY DEF EndInv
  <1>2. \A h \in Goroutines : thr'[h].endedNow <=> thr[h].endedNow
    BY <1>1
  <1>3. \A h \in Goroutines : thr'[h].endedNow => thr'[h].pc = "tail" /\ endedAt'
    BY <1>1, <1>2 DEF EndInv
  <1>4. endedAt' => ~registered' \/ \E h \in Goroutines : thr'[h].endedNow
    BY <1>2 DEF EndInv
  <1>5. DoneClosedOnce'
    BY DEF EndInv, DoneClosedOnce
  <1> QED
    BY <1>3, <1>4, <1>5 DEF EndInv

\* Every step keeps EndInv.
LEMMA StepEnd == TypeOK /\ EndInv /\ [Next]_vars => EndInv'
  <1> SUFFICES ASSUME TypeOK, EndInv, [Next]_vars PROVE EndInv'
    OBVIOUS
  <1> USE DEF sigVars, mediaVars
  <1>0. \A g \in Goroutines : thr[g].pc # "tail" => ~thr[g].endedNow
    BY DEF EndInv
  <1>1. ASSUME NEW t \in Threads, Begin(t) PROVE EndInv'
    <2>1. PICK op, pc, permitted : Enter(t, op, pc, permitted)
      BY <1>1 DEF Begin, Trying, Ringing, SendEarlyMedia183, Answer, Reject, Hangup,
                  HangupWithHeaders, StartRecording, StopRecording, SendSilence, SendWAV
    <2> QED
      BY <2>1, QuietEnd DEF Enter, At, TypeOK
  <1>2. CASE OnState
    BY <1>2, QuietEnd DEF OnState, At, TypeOK
  <1>3. ASSUME NEW r \in Recs, PumpExit(r) PROVE EndInv'
    BY <1>3 DEF PumpExit, EndInv, DoneClosedOnce
  <1>4. ASSUME NEW s \in Sils, SilenceExit(s) PROVE EndInv'
    BY <1>4 DEF SilenceExit, EndInv, DoneClosedOnce
  <1>5. ASSUME NEW g \in Goroutines, Step(g) PROVE EndInv'
    <2>0. ~AfterStop(g).endedNow \/ thr[g].endedNow
      BY DEF AfterStop, Idle, At, TypeOK, Goroutine
    <2>1. CASE SetState(g)
      <3>1. ~thr[g].endedNow /\ \A h \in Goroutines : h # g => thr'[h] = thr[h]
        BY <2>1, <1>0 DEF SetState, Return, Goto, TypeOK
      <3>2. CASE EndsNow(Target(thr[g].op)) /\ Target(thr[g].op) # state
        <4>1. /\ endedAt' /\ ~endedAt /\ doneCloses' = doneCloses + 1
              /\ thr'[g].endedNow /\ thr'[g].pc = "tail"
          BY <2>1, <3>2 DEF SetState, EndsNow, TypeOK, Goroutine
        <4>2. DoneClosedOnce'
          BY <4>1 DEF EndInv, DoneClosedOnce
        <4> QED
          BY <3>1, <4>1, <4>2 DEF EndInv
      <3>3. CASE ~(EndsNow(Target(thr[g].op)) /\ Target(thr[g].op) # state)
        <4>1. ~thr'[g].endedNow /\ UNCHANGED <<endedAt, doneCloses, registered>>
          BY <2>1, <3>1, <3>3 DEF SetState, Return, Goto, Idle, At, TypeOK, Goroutine
        <4> QED
          BY <2>1, <3>1, <4>1, QuietEnd DEF SetState
      <3> QED
        BY <3>2, <3>3
    <2>2. CASE SetStateTail(g)
      <3>1. \A h \in Goroutines : thr'[h].endedNow => thr[h].endedNow /\ h # g /\ thr'[h] = thr[h]
        BY <2>2 DEF SetStateTail, At, TypeOK, Goroutine
      <3>2. ~thr[g].endedNow => \A h \in Goroutines : h # g => thr'[h] = thr[h]
        BY <2>2 DEF SetStateTail, SpawnsReaper
      <3>3. registered' = (registered /\ ~thr[g].endedNow)
        BY <2>2 DEF SetStateTail, Unregisters
      <3>4. endedAt' => ~registered' \/ \E h \in Goroutines : thr'[h].endedNow
        BY <2>2, <3>2, <3>3 DEF SetStateTail, EndInv
      <3>5. DoneClosedOnce' /\ endedAt' = endedAt
        BY <2>2 DEF SetStateTail, EndInv, DoneClosedOnce
      <3> QED
        BY <3>1, <3>4, <3>5 DEF EndInv
    <2>3. CASE /\ thr[g].pc # "tail"
               /\ ~thr'[g].endedNow
               /\ \A h \in Goroutines : h # g => thr'[h] = thr[h]
               /\ UNCHANGED <<endedAt, doneCloses, registered>>
      BY <2>3, QuietEnd
    <2> USE <1>0 DEF TypeOK, Goroutine
    <2>4. CASE Recheck(g)           BY <2>3, <2>4 DEF Recheck, Goto
    <2>5. CASE SipOk(g)             BY <2>3, <2>5 DEF SipOk
    <2>6. CASE SipErr(g)            BY <2>3, <2>6 DEF SipErr, Return, Idle, At
    <2>7. CASE Wake(g)              BY <2>3, <2>7 DEF Wake, WakeOnce, Return, Idle, At
    <2>8. CASE TakeRecording(g)     BY <2>0, <2>3, <2>8 DEF TakeRecording
    <2>9. CASE PumpStopped(g)       BY <2>3, <2>9 DEF PumpStopped, Goto
    <2>10. CASE GraceExpired(g)     BY <2>0, <2>3, <2>10 DEF GraceExpired
    <2>11. CASE FinalizeRecording(g) BY <2>0, <2>3, <2>11 DEF FinalizeRecording
    <2>12. CASE InstallRecording(g) BY <2>3, <2>12 DEF InstallRecording, Return, Idle, At
    <2>13. CASE InstallSilence(g)   BY <2>3, <2>13 DEF InstallSilence, Return, Idle, At
    <2>14. CASE StopSilence(g)      BY <2>3, <2>14 DEF StopSilence, Return, Idle, At
    <2>15. CASE MediaRefused(g)     BY <2>3, <2>15 DEF MediaRefused, Return, Idle, At
    <2> QED
      BY <1>5, <2>1, <2>2, <2>4, <2>5, <2>6, <2>7, <2>8, <2>9, <2>10, <2>11, <2>12,
         <2>13, <2>14, <2>15
      DEF Step, QuietStep
  <1>6. CASE UNCHANGED vars
    BY <1>6 DEF vars, EndInv, DoneClosedOnce
  <1> QED
    BY <1>1, <1>2, <1>3, <1>4, <1>5, <1>6 DEF Next, Env

\* doneCh is closed exactly when the call first ends, and the registry lets go
\* of the call, however many goroutines hang up, reject or answer it meanwhile.
THEOREM EndsOnce == Spec => [](DoneClosedOnce /\ EndedIsUnregistered)
  <1>1. EndInv => DoneClosedOnce /\ EndedIsUnregistered
    BY DEF EndInv, EndedIsUnregistered
  <1> QED
    BY <1>1, InitEnd, StepEnd, InitType, StepType, PTL DEF Spec

\* The reason of the first end is kept: no step of a call that has ended writes
\* endReason.
THEOREM FirstReason == Spec => FirstReasonSticks
  <1>1. [Next]_vars => [endedAt => endReason' = endReason]_vars
    <2> SUFFICES ASSUME [Next]_vars, endedAt PROVE endReason' = endReason
      OBVIOUS
    <2> USE DEF sigVars
    <2>1. ASSUME NEW t \in Threads, Begin(t) PROVE endReason' = endReason
      BY <2>1 DEF Begin, Trying, Ringing, SendEarlyMedia183, Answer, Reject, Hangup,
                  HangupWithHeaders, StartRecording, StopRecording, SendSilence,
                  SendWAV, Enter
    <2>2. ASSUME NEW g \in Goroutines, Step(g) PROVE endReason' = endReason
      <3>1. CASE SetState(g)
        BY <3>1 DEF SetState, EndsNow
      <3>2. CASE ~SetState(g)
        BY <2>2, <3>2
        DEF Step, QuietStep, Recheck, SipOk, SipErr, SetStateTail, Wake, WakeOnce,
            TakeRecording, PumpStopped, GraceExpired, FinalizeRecording,
            InstallRecording, InstallSilence, StopSilence, MediaRefused
      <3> QED
        BY <3>1, <3>2
    <2>3. CASE Env
      BY <2>1, <2>3 DEF Env, OnState, PumpExit, SilenceExit
    <2>4. CASE UNCHANGED vars
      BY <2>4 DEF vars
    <2> QED
      BY <2>2, <2>3, <2>4 DEF Next
  <1> QED
    BY <1>1, PTL DEF Spec, FirstReasonSticks

-----------------------------------------------------------------------------
\* Recordings.

Stopping(g) == thr[g].pc \in {"await", "finalize"}

\* A session moves from Call.recording to the one goroutine that stops it, and
\* its file and archive flag say how far that goroutine is.
MediaInv ==
  /\ \A g \in Goroutines : IF Stopping(g) THEN thr[g].rec \in Recs ELSE thr[g].rec = None
  /\ SingleFinalizer
  /\ \A g \in Goroutines :
       /\ thr[g].pc = "await" => rec[thr[g].rec].file = "open"
       /\ thr[g].pc = "finalize" => /\ rec[thr[g].rec].file = "closed"
                                    /\ ~rec[thr[g].rec].archived
  /\ recording # None => rec[recording].file = "open"
  /\ \A r \in Recs : rec[r].file = "none" => rec[r].pump = "none"
  /\ ArchivedWhole

\* A new call has no media.
LEMMA InitMedia == Init => MediaInv
  <1> SUFFICES ASSUME Init PROVE MediaInv
    OBVIOUS
  <1>1. \A g \in Goroutines : thr[g].rec = None /\ ~Stopping(g)
    BY DEF Init, At, Idle, Stopping
  <1>2. \A r \in Recs : /\ rec[r].file = "none" /\ rec[r].pump = "none"
                        /\ ~rec[r].archived /\ rec[r].hooks = 0
    BY DEF Init
  <1>3. recording = None
    BY DEF Init
  <1> QED
    BY <1>1, <1>2, <1>3 DEF MediaInv, SingleFinalizer, ArchivedWhole, Stopping

\* A step that touches no session, and after which the goroutines that moved hold
\* none, keeps MediaInv.
LEMMA QuietMedia ==
  ASSUME MediaInv, UNCHANGED <<recording, rec>>,
         \A h \in Goroutines :
           thr'[h] = thr[h] \/ (thr'[h].rec = None /\ thr'[h].pc \notin {"await", "finalize"})
  PROVE  MediaInv'
  <1>1. \A h \in Goroutines : /\ Stopping(h)' => thr'[h] = thr[h]
                              /\ thr'[h].rec # None => thr'[h] = thr[h]
    BY DEF Stopping, MediaInv
  <1>2. SingleFinalizer'
    BY <1>1 DEF MediaInv, SingleFinalizer
  <1>3. ArchivedWhole'
    BY DEF MediaInv, ArchivedWhole
  <1> QED
    BY <1>1, <1>2, <1>3 DEF MediaInv, Stopping

\* A step of goroutine g that changes the session r, which g holds or takes out
\* of the call.
LEMMA OthersMedia ==
  ASSUME TypeOK, MediaInv, NEW g \in Goroutines, NEW r \in Recs,
         \A h \in Goroutines : h # g => thr'[h] = thr[h],
         \A q \in Recs : q # r => rec'[q] = rec[q],
         thr[g].rec = r \/ recording = r
  PROVE  \A h \in Goroutines :
           h # g => /\ thr'[h] = thr[h]
                    /\ thr[h].rec # r
                    /\ Stopping(h) => rec'[thr[h].rec] = rec[thr[h].rec]
  <1> TAKE h \in Goroutines
  <1> HAVE h # g
  <1>1. thr[h].rec # r
    BY NilAssumption DEF MediaInv, SingleFinalizer, Stopping
  <1> QED
    BY <1>1 DEF MediaInv, Stopping

\* Every step keeps MediaInv.
LEMMA StepMedia == TypeOK /\ MediaInv /\ [Next]_vars => MediaInv'
  <1> SUFFICES ASSUME TypeOK, MediaInv, [Next]_vars PROVE MediaInv'
    OBVIOUS
  <1> USE DEF sigVars, mediaVars
  <1>0. \A g \in Goroutines : ~Stopping(g) => thr[g].rec = None
    BY DEF MediaInv
  <1>1. ASSUME NEW t \in Threads, Begin(t) PROVE MediaInv'
    <2>1. PICK op, pc, permitted :
            /\ Enter(t, op, pc, permitted)
            /\ pc \in {"sip", "setState", "take", "media"}
      BY <1>1 DEF Begin, Trying, Ringing, SendEarlyMedia183, Answer, Reject, Hangup,
                  HangupWithHeaders, StartRecording, StopRecording, SendSilence, SendWAV
    <2> QED
      BY <2>1, QuietMedia DEF Enter, At, TypeOK
  <1>2. CASE OnState
    BY <1>2, QuietMedia DEF OnState, At, TypeOK
  <1>3. ASSUME NEW r \in Recs, PumpExit(r) PROVE MediaInv'
    <2>1. \A q \in Recs : /\ rec'[q].file = rec[q].file
                          /\ rec'[q].archived = rec[q].archived
                          /\ rec'[q].hooks = rec[q].hooks
                          /\ rec[q].pump = "done" => rec'[q].pump = "done"
                          /\ rec'[q].pump # rec[q].pump => rec[q].pump = "running"
      BY <1>3 DEF PumpExit, TypeOK, Session
    <2>2. UNCHANGED <<thr, recording>>
      BY <1>3 DEF PumpExit
    <2>3. ArchivedWhole'
      <3> SUFFICES ASSUME NEW q \in Recs
                   PROVE  /\ rec'[q].file = "closed" => rec'[q].pump = "done"
                          /\ rec'[q].archived => rec'[q].file = "closed"
                          /\ rec'[q].hooks = IF rec'[q].archived THEN 1 ELSE 0
        BY DEF ArchivedWhole
      <3>1. /\ rec[q].file = "closed" => rec[q].pump = "done"
            /\ rec[q].archived => rec[q].file = "closed"
            /\ rec[q].hooks = IF rec[q].archived THEN 1 ELSE 0
        BY DEF MediaInv, ArchivedWhole
      <3> QED
        BY <2>1, <3>1
    <2>4. SingleFinalizer'
      BY <2>2 DEF MediaInv, SingleFinalizer
    <2>5. \A g \in Goroutines :
            Stopping(g) => /\ rec'[thr[g].rec].file = rec[thr[g].rec].file
                           /\ rec'[thr[g].rec].archived = rec[thr[g].rec].archived
      BY <2>1 DEF MediaInv
    <2>6. recording # None => rec'[recording].file = rec[recording].file
      BY <2>1 DEF TypeOK
    <2>7. \A q \in Recs : rec'[q].file = "none" => rec'[q].pump = "none"
      BY <2>1 DEF MediaInv
    <2> QED
      BY <2>2, <2>3, <2>4, <2>5, <2>6, <2>7 DEF MediaInv, Stopping
  <1>4. ASSUME NEW s \in Sils, SilenceExit(s) PROVE MediaInv'
    BY <1>4, QuietMedia DEF SilenceExit
  <1>5. ASSUME NEW g \in Goroutines, Step(g) PROVE MediaInv'
    <2> USE <1>0 DEF TypeOK, Goroutine
    <2>0. AfterStop(g).rec = None /\ AfterStop(g).pc \notin {"await", "finalize"}
      BY DEF AfterStop, Idle, At
    <2>1. CASE /\ UNCHANGED <<recording, rec>>
               /\ \A h \in Goroutines :
                    \/ thr'[h] = thr[h]
                    \/ thr'[h].rec = None /\ thr'[h].pc \notin {"await", "finalize"}
      BY <2>1, QuietMedia
    <2>2. CASE Recheck(g)       BY <2>1, <2>2 DEF Recheck, Goto, Stopping
    <2>3. CASE SipOk(g)         BY <2>1, <2>3 DEF SipOk, Stopping
    <2>4. CASE SipErr(g)        BY <2>1, <2>4 DEF SipErr, Return, Idle, At, Stopping
    <2>5. CASE SetState(g)      BY <2>1, <2>5 DEF SetState, Return, Goto, Idle, At, Stopping
    <2>6. CASE SetStateTail(g)  BY <2>1, <2>6 DEF SetStateTail, At, Stopping
    <2>7. CASE Wake(g)          BY <2>1, <2>7 DEF Wake, WakeOnce, Return, Idle, At, Stopping
    <2>8. CASE GraceExpired(g)  BY <2>0, <2>1, <2>8 DEF GraceExpired
    <2>9. CASE InstallSilence(g) BY <2>1, <2>9 DEF InstallSilence, Return, Idle, At
    <2>10. CASE StopSilence(g)  BY <2>1, <2>10 DEF StopSilence, Return, Idle, At
    <2>11. CASE MediaRefused(g) BY <2>1, <2>11 DEF MediaRefused, Return, Idle, At
    <2>12. CASE TakeRecording(g)
      <3>1. CASE recording = None
        BY <2>0, <2>1, <2>12, <3>1 DEF TakeRecording, LeftInCall
      <3>2. CASE recording # None
        <4>1. /\ recording \in Recs /\ recording' = None
              /\ thr'[g].pc = "await" /\ thr'[g].rec = recording
              /\ \A h \in Goroutines : h # g => thr'[h] = thr[h]
          BY <2>12, <3>2 DEF TakeRecording, LeftInCall
        <4>2. \A q \in Recs : /\ rec'[q].file = rec[q].file
                              /\ rec'[q].archived = rec[q].archived
                              /\ rec'[q].hooks = rec[q].hooks
                              /\ rec'[q].pump = rec[q].pump
          BY <2>12, <3>2 DEF TakeRecording, Session
        <4>3. \A h \in Goroutines : h # g => thr[h].rec # recording
          BY <3>2 DEF MediaInv, SingleFinalizer
        <4>4. ArchivedWhole'
          BY <4>2 DEF MediaInv, ArchivedWhole
        <4>5. SingleFinalizer'
          BY <4>1, <4>3 DEF MediaInv, SingleFinalizer
        <4>6. \A h \in Goroutines :
                Stopping(h) => /\ rec'[thr[h].rec].file = rec[thr[h].rec].file
                               /\ rec'[thr[h].rec].archived = rec[thr[h].rec].archived
          BY <4>2 DEF MediaInv
        <4>7. rec'[recording].file = "open"
          BY <3>2, <4>1, <4>2 DEF MediaInv
        <4>8. \A q \in Recs : rec'[q].file = "none" => rec'[q].pump = "none"
          BY <4>2 DEF MediaInv
        <4> QED
          BY <4>1, <4>4, <4>5, <4>6, <4>7, <4>8 DEF MediaInv, Stopping
      <3> QED
        BY <3>1, <3>2
    <2>13. CASE PumpStopped(g)
      <3> DEFINE r == thr[g].rec
      <3>1. r \in Recs /\ rec[r].file = "open" /\ rec[r].pump = "done" /\ r # recording
        BY <2>13, NilAssumption
        DEF PumpStopped, PumpDone, MediaInv, Stopping, SingleFinalizer
      <3>2. /\ thr'[g].pc = "finalize" /\ thr'[g].rec = r
            /\ \A h \in Goroutines : h # g => thr'[h] = thr[h]
            /\ recording' = recording
        BY <2>13 DEF PumpStopped, Goto
      <3>3. /\ \A q \in Recs : q # r => rec'[q] = rec[q]
            /\ rec'[r].file = "closed" /\ rec'[r].pump = "done"
            /\ rec'[r].archived = rec[r].archived /\ rec'[r].hooks = rec[r].hooks
        BY <2>13, <3>1 DEF PumpStopped, Session
      <3>4. ~rec[r].archived
        BY <3>1 DEF MediaInv, ArchivedWhole
      <3>5. ArchivedWhole'
        BY <3>1, <3>3 DEF MediaInv, ArchivedWhole
      <3>6. SingleFinalizer'
        BY <3>2 DEF MediaInv, SingleFinalizer
      <3>7. \A h \in Goroutines :
              h # g /\ Stopping(h) => rec'[thr[h].rec] = rec[thr[h].rec]
        BY <3>1, <3>2, <3>3, OthersMedia
      <3> QED
        BY <3>1, <3>2, <3>3, <3>4, <3>5, <3>6, <3>7 DEF MediaInv, Stopping
    <2>14. CASE FinalizeRecording(g)
      <3> DEFINE r == thr[g].rec
      <3>1. /\ r \in Recs /\ rec[r].file = "closed" /\ ~rec[r].archived
            /\ r # recording /\ rec[r].pump = "done" /\ rec[r].hooks = 0
        BY <2>14, NilAssumption
        DEF FinalizeRecording, MediaInv, Stopping, SingleFinalizer, ArchivedWhole
      <3>2. /\ thr'[g].rec = None /\ thr'[g].pc \notin {"await", "finalize"}
            /\ \A h \in Goroutines : h # g => thr'[h] = thr[h]
            /\ recording' = recording
        BY <2>0, <2>14 DEF FinalizeRecording
      <3>3. /\ \A q \in Recs : q # r => rec'[q] = rec[q]
            /\ rec'[r].file = "closed" /\ rec'[r].pump = "done"
            /\ rec'[r].archived /\ rec'[r].hooks = 1
        BY <2>14, <3>1 DEF FinalizeRecording, Session
      <3>4. ArchivedWhole'
        BY <3>1, <3>3 DEF MediaInv, ArchivedWhole
      <3>5. SingleFinalizer'
        BY <3>2 DEF MediaInv, SingleFinalizer
      <3>6. \A h \in Goroutines :
              h # g /\ Stopping(h) => rec'[thr[h].rec] = rec[thr[h].rec]
        BY <3>1, <3>2, <3>3, OthersMedia
      <3> QED
        BY <3>1, <3>2, <3>3, <3>4, <3>5, <3>6 DEF MediaInv, Stopping
    <2>15. CASE InstallRecording(g)
      <3>1. PICK r \in Recs :
              /\ rec[r].file = "none" /\ recording' = r /\ recording = None
              /\ rec' = [rec EXCEPT ![r].pump = "running", ![r].file = "open"]
        BY <2>15 DEF InstallRecording
      <3>2. /\ thr'[g].rec = None /\ thr'[g].pc = "idle"
            /\ \A h \in Goroutines : h # g => thr'[h] = thr[h]
        BY <2>15 DEF InstallRecording, Return, Idle, At
      <3>3. /\ \A q \in Recs : q # r => rec'[q] = rec[q]
            /\ rec'[r].file = "open" /\ rec'[r].pump = "running"
            /\ rec'[r].archived = rec[r].archived /\ rec'[r].hooks = rec[r].hooks
        BY <3>1 DEF Session
      <3>4. \A h \in Goroutines :
              h # g => /\ thr[h].rec # r
                       /\ Stopping(h) => rec'[thr[h].rec] = rec[thr[h].rec]
        <4> TAKE h \in Goroutines
        <4> HAVE h # g
        <4>1. thr[h].rec # r
          BY <3>1, NilAssumption DEF MediaInv, Stopping
        <4> QED
          BY <3>3, <4>1 DEF MediaInv, Stopping
      <3>5. ArchivedWhole'
        BY <3>1, <3>3 DEF MediaInv, ArchivedWhole
      <3>6. SingleFinalizer'
        BY <3>1, <3>2, <3>4 DEF MediaInv, SingleFinalizer
      <3> QED
        BY <3>1, <3>2, <3>3, <3>4, <3>5, <3>6 DEF MediaInv, Stopping
    <2> QED
      BY <1>5, <2>2, <2>3, <2>4, <2>5, <2>6, <2>7, <2>8, <2>9, <2>10, <2>11, <2>12,
         <2>13, <2>14, <2>15
      DEF Step, QuietStep
  <1>6. CASE UNCHANGED vars
    BY <1>6, QuietMedia DEF vars
  <1> QED
    BY <1>1, <1>2, <1>3, <1>4, <1>5, <1>6 DEF Next, Env

\* Whichever of StopRecording, Hangup and the end of the call get to a recording,
\* one of them closes it, after its pump has stopped, and it is archived at most
\* once.
THEOREM RecordingsSafe == Spec => [](SingleFinalizer /\ ArchivedWhole)
  <1>1. MediaInv => SingleFinalizer /\ ArchivedWhole
    BY DEF MediaInv
  <1> QED
    BY <1>1, InitMedia, StepMedia, InitType, StepType, PTL DEF Spec

-----------------------------------------------------------------------------
\* The silence loops.

\* What a step may do to the silence loops: nothing, cancel the installed one,
\* install one where none is, or see one return.
LEMMA LoopMoves ==
  ASSUME TypeOK, [Next]_vars
  PROVE  \/ UNCHANGED <<silenceCancel, silence>>
         \/ silence' = CancelSilence
         \/ /\ silenceCancel = None
            /\ \E s \in Sils : /\ silenceCancel' = s
                               /\ silence' = [silence EXCEPT ![s] = "running"]
         \/ /\ silenceCancel' = silenceCancel
            /\ \E s \in Sils : silence' = [silence EXCEPT ![s] = "exited"]
  <1> USE DEF sigVars, mediaVars
  <1>1. ASSUME NEW t \in Threads, Begin(t) PROVE UNCHANGED <<silenceCancel, silence>>
    BY <1>1 DEF Begin, Trying, Ringing, SendEarlyMedia183, Answer, Reject, Hangup,
                HangupWithHeaders, StartRecording, StopRecording, SendSilence, SendWAV,
                Enter
  <1>2. ASSUME NEW g \in Goroutines,
               Recheck(g) \/ SipOk(g) \/ SipErr(g) \/ SetState(g) \/ SetStateTail(g)
        PROVE  UNCHANGED <<silenceCancel, silence>>
    BY <1>2 DEF Recheck, SipOk, SipErr, SetState, SetStateTail
  <1>3. ASSUME NEW g \in Goroutines,
               \/ Wake(g) \/ PumpStopped(g) \/ GraceExpired(g) \/ FinalizeRecording(g)
               \/ InstallRecording(g) \/ MediaRefused(g)
        PROVE  UNCHANGED <<silenceCancel, silence>>
    BY <1>3 DEF Wake, WakeOnce, PumpStopped, GraceExpired, FinalizeRecording,
                InstallRecording, MediaRefused
  <1>4. ASSUME NEW g \in Goroutines, TakeRecording(g)
        PROVE  UNCHANGED <<silenceCancel, silence>> \/ silence' = CancelSilence
    BY <1>4 DEF TakeRecording
  <1>5. CASE OnState \/ UNCHANGED vars \/ \E r \in Recs : PumpExit(r)
    BY <1>5 DEF OnState, vars, PumpExit
  <1> QED
    BY <1>1, <1>2, <1>3, <1>4, <1>5
    DEF Next, Env, Step, QuietStep, InstallSilence, StopSilence, SilenceExit

\* However SendSilence, SendWAV and the end of the call interleave, every loop
\* still writing silence is the one Call.silenceCancel stops.
THEOREM SilenceReachable == Spec => []NoOrphanSilence
  <1>1. Init => NoOrphanSilence
    BY DEF Init, NoOrphanSilence
  <1>2. TypeOK /\ NoOrphanSilence /\ [Next]_vars => NoOrphanSilence'
    <2> SUFFICES ASSUME TypeOK, NoOrphanSilence, [Next]_vars,
                        NEW s \in Sils, silence'[s] = "running"
                 PROVE  silenceCancel' = s
      BY DEF NoOrphanSilence
    <2>1. silence \in [Sils -> {"none", "running", "cancelled", "exited"}]
      BY DEF TypeOK
    <2>2. silence' # CancelSilence
      BY <2>1 DEF CancelSilence, NoOrphanSilence
    <2>3. silence[s] = "running" => silenceCancel = s
      BY DEF NoOrphanSilence
    <2> QED
      BY <2>1, <2>2, <2>3, LoopMoves, NilAssumption
  <1> QED
    BY <1>1, <1>2, InitType, StepType, PTL DEF Spec


-----------------------------------------------------------------------------
\* Every end has a reason.

SipOps == {"Trying", "Ringing", "SendEarlyMedia183", "Answer", "Reject", "Hangup",
           "HangupWithHeaders"}

\* A goroutine about to end the call knows why.
Knows(q) ==
  /\ q.pc = "sip" => q.op \in SipOps
  /\ q.pc = "recheck" => q.op = "HangupWithHeaders"
  /\ q.pc = "setState" /\ Target(q.op) = "ended" => q.reason # "none"

ReasonInv == \A g \in Goroutines : Knows(thr[g])

\* No goroutine is about to end a new call.
LEMMA InitReason == Init => ReasonInv
  BY DEF Init, ReasonInv, Knows, At, Idle, Target

\* A step after which the goroutines that moved know their reason.
LEMMA QuietReason ==
  ASSUME ReasonInv, \A h \in Goroutines : thr'[h] = thr[h] \/ Knows(thr'[h])
  PROVE  ReasonInv'
  BY DEF ReasonInv

\* The places a goroutine goes to that need no reason.
LEMMA NoReason ==
  ASSUME NEW q \in Goroutine, q.pc \notin {"sip", "recheck", "setState"}
  PROVE  Knows(q)
  BY DEF Knows

\* Every step keeps ReasonInv.
LEMMA StepReason == TypeOK /\ ReasonInv /\ [Next]_vars => ReasonInv'
  <1> SUFFICES ASSUME TypeOK, ReasonInv, [Next]_vars PROVE ReasonInv'
    OBVIOUS
  <1> USE DEF TypeOK
  <1>0. Knows(Idle)
    BY DEF Knows, Idle, At
  <1>1. ASSUME NEW t \in Threads, Begin(t) PROVE ReasonInv'
    <2>1. PICK op, pc, permitted :
            /\ Enter(t, op, pc, permitted)
            /\ \/ pc \in {"take", "media"}
               \/ pc = "sip" /\ op \in SipOps
               \/ pc = "setState" /\ op = "Answer"
      BY <1>1 DEF Begin, Trying, Ringing, SendEarlyMedia183, Answer, Reject, Hangup,
                  HangupWithHeaders, StartRecording, StopRecording, SendSilence, SendWAV,
                  SipOps
    <2>2. Knows(At(pc, op))
      BY <2>1 DEF Knows, At, Target
    <2> QED
      BY <2>1, <2>2, QuietReason DEF Enter
  <1>2. CASE OnState
    BY <1>2, QuietReason DEF OnState, Knows, At
  <1>3. ASSUME NEW g \in Goroutines, Step(g) PROVE ReasonInv'
    <2>0. Knows(AfterStop(g)) /\ Knows(thr[g])
      BY <1>0 DEF AfterStop, Knows, SipOps, Goroutine, ReasonInv
    <2>1. CASE \A h \in Goroutines : thr'[h] = thr[h] \/ Knows(thr'[h])
      BY <2>1, QuietReason
    <2> USE DEF Goroutine
    <2>2. CASE Recheck(g)
      BY <2>0, <2>1, <2>2 DEF Recheck, Goto, Knows, SipOps
    <2>3. CASE SipOk(g)
      <3>1. Knows(thr'[g])
        BY <2>0, <2>3 DEF SipOk, Knows, SipOps, Target
      <3> QED
        BY <2>1, <2>3, <3>1 DEF SipOk
    <2>4. CASE SipErr(g)
      BY <1>0, <2>1, <2>4 DEF SipErr, Return, Knows
    <2>5. CASE SetState(g)
      BY <1>0, <2>1, <2>5 DEF SetState, Return, Goto, Knows
    <2>6. CASE SetStateTail(g)
      BY <2>1, <2>6 DEF SetStateTail, At, Knows
    <2>7. CASE Wake(g)
      BY <1>0, <2>1, <2>7 DEF Wake, WakeOnce, Return, Knows
    <2>8. CASE TakeRecording(g)
      <3>1. Knows(thr'[g])
        BY <2>0, <2>8 DEF TakeRecording, Knows
      <3> QED
        BY <2>1, <2>8, <3>1 DEF TakeRecording
    <2>9. CASE PumpStopped(g)
      BY <2>1, <2>9 DEF PumpStopped, Goto, Knows
    <2>10. CASE GraceExpired(g)      BY <2>0, <2>1, <2>10 DEF GraceExpired
    <2>11. CASE FinalizeRecording(g) BY <2>0, <2>1, <2>11 DEF FinalizeRecording
    <2>12. CASE InstallRecording(g)  BY <1>0, <2>1, <2>12 DEF InstallRecording, Return
    <2>13. CASE InstallSilence(g)    BY <1>0, <2>1, <2>13 DEF InstallSilence, Return
    <2>14. CASE StopSilence(g)       BY <1>0, <2>1, <2>14 DEF StopSilence, Return
    <2>15. CASE MediaRefused(g)      BY <1>0, <2>1, <2>15 DEF MediaRefused, Return
    <2> QED
      BY <1>3, <2>2, <2>3, <2>4, <2>5, <2>6, <2>7, <2>8, <2>9, <2>10, <2>11, <2>12,
         <2>13, <2>14, <2>15
      DEF Step, QuietStep
  <1>4. CASE UNCHANGED thr
    BY <1>4, QuietReason
  <1> QED
    BY <1>1, <1>2, <1>3, <1>4
    DEF Next, Env, PumpExit, SilenceExit, vars

-----------------------------------------------------------------------------
\* The refinement.

\* A step that leaves the abstract call alone, sessions included.
LEMMA QuietCall ==
  ASSUME UNCHANGED <<answeredAt, doneCloses, endReason, registered>>,
         \A r \in Recs : TakeOf(r)' = TakeOf(r)
  PROVE  UNCHANGED Promised!vars
  BY DEF Promised!vars

\* A step that takes one recording to its next state.
LEMMA TakeMoves ==
  ASSUME UNCHANGED <<answeredAt, doneCloses, endReason, registered>>,
         NEW r \in Recs, \A q \in Recs : q # r => rec'[q] = rec[q],
         \/ TakeOf(r) = "none" /\ TakeOf(r)' = "recording"
         \/ TakeOf(r) = "recording" /\ TakeOf(r)' = "drained"
         \/ TakeOf(r) = "drained" /\ TakeOf(r)' = "closed"
         \/ TakeOf(r) = "closed" /\ TakeOf(r)' = "archived"
  PROVE  Promised!Next
  <1>1. \A q \in Recs : q # r => TakeOf(q)' = TakeOf(q)
    BY DEF TakeOf
  <1>2. [q \in Recs |-> TakeOf(q)'] = [[q \in Recs |-> TakeOf(q)] EXCEPT ![r] = TakeOf(r)']
    BY <1>1
  <1>3. Promised!Recording(r)
    BY <1>2 DEF Promised!Recording, Promised!Moves
  <1> QED
    BY <1>3 DEF Promised!Next

\* A new call is a new abstract call.
LEMMA InitCall == Init => Promised!Init
  BY DEF Init, Promised!Init, TakeOf

\* Every step of a call is a step of the abstract call, or none.
LEMMA StepCall ==
  TypeOK /\ EndInv /\ MediaInv /\ ReasonInv /\ [Next]_vars => [Promised!Next]_(Promised!vars)
  <1> SUFFICES ASSUME TypeOK, EndInv, MediaInv, ReasonInv, [Next]_vars
               PROVE  Promised!Next \/ UNCHANGED Promised!vars
    OBVIOUS
  <1> USE DEF sigVars, mediaVars
  <1>0. CASE UNCHANGED <<answeredAt, doneCloses, endReason, registered, rec>>
    <2>1. \A r \in Recs : TakeOf(r)' = TakeOf(r)
      BY <1>0 DEF TakeOf
    <2> QED
      BY <1>0, <2>1, QuietCall
  <1>1. ASSUME NEW t \in Threads, Begin(t)
        PROVE  Promised!Next \/ UNCHANGED Promised!vars
    <2>1. UNCHANGED <<answeredAt, doneCloses, endReason, registered, rec>>
      BY <1>1 DEF Begin, Trying, Ringing, SendEarlyMedia183, Answer, Reject, Hangup,
                  HangupWithHeaders, StartRecording, StopRecording, SendSilence, SendWAV,
                  Enter
    <2> QED
      BY <1>0, <2>1
  <1>2. CASE OnState
    BY <1>0, <1>2 DEF OnState
  <1>3. ASSUME NEW r \in Recs, PumpExit(r)
        PROVE  Promised!Next \/ UNCHANGED Promised!vars
    <2>1. /\ \A q \in Recs : q # r => rec'[q] = rec[q]
          /\ rec[r].pump = "running" /\ rec'[r].pump = "done"
          /\ rec'[r].file = rec[r].file /\ rec'[r].archived = rec[r].archived
      BY <1>3 DEF PumpExit, TypeOK, Session
    <2>2. rec[r].file = "open" /\ ~rec[r].archived /\ ~rec'[r].archived
      BY <2>1 DEF MediaInv, ArchivedWhole, TypeOK, Session
    <2>3. TakeOf(r) = "recording" /\ TakeOf(r)' = "drained"
      BY <2>1, <2>2 DEF TakeOf
    <2> QED
      BY <1>3, <2>1, <2>3, TakeMoves DEF PumpExit
  <1>4. ASSUME NEW s \in Sils, SilenceExit(s)
        PROVE  Promised!Next \/ UNCHANGED Promised!vars
    BY <1>0, <1>4 DEF SilenceExit
  <1>5. ASSUME NEW g \in Goroutines, Step(g)
        PROVE  Promised!Next \/ UNCHANGED Promised!vars
    <2>1. CASE SetState(g)
      <3>0. UNCHANGED [r \in Recs |-> TakeOf(r)]
        BY <2>1 DEF SetState, TakeOf
      <3>1. CASE Target(thr[g].op) = state
        BY <1>0, <2>1, <3>1 DEF SetState
      <3>2. CASE Target(thr[g].op) # state /\ EndsNow(Target(thr[g].op))
        <4>1. doneCloses = 0 /\ doneCloses' = 1
          BY <2>1, <3>2 DEF SetState, EndsNow, EndInv, DoneClosedOnce
        <4>2. endReason' \in Reasons \ {"none"}
          BY <2>1, <3>2 DEF SetState, EndsNow, ReasonInv, Knows, TypeOK, Goroutine
        <4>3. answeredAt' = answeredAt /\ registered' = registered
          BY <2>1, <3>2 DEF SetState, EndsNow, TypeOK
        <4>4. Promised!Ended(endReason')
          BY <3>0, <4>1, <4>3 DEF Promised!Ended
        <4> QED
          BY <4>2, <4>4 DEF Promised!Next
      <3>3. CASE Target(thr[g].op) # state /\ ~EndsNow(Target(thr[g].op))
        <4>1. UNCHANGED <<doneCloses, endReason, registered>>
          BY <2>1, <3>3 DEF SetState
        <4>2. answeredAt' = answeredAt \/ answeredAt' = TRUE
          BY <2>1, <3>3 DEF SetState, TypeOK
        <4> QED
          BY <3>0, <4>1, <4>2 DEF Promised!Next, Promised!Answered, Promised!vars
      <3> QED
        BY <3>1, <3>2, <3>3
    <2>2. CASE SetStateTail(g)
      <3>1. /\ UNCHANGED <<answeredAt, doneCloses, endReason>>
            /\ UNCHANGED [r \in Recs |-> TakeOf(r)]
        BY <2>2 DEF SetStateTail, TakeOf
      <3>2. CASE thr[g].endedNow
        <4>1. doneCloses = 1
          BY <3>2 DEF EndInv, DoneClosedOnce
        <4>2. registered' = FALSE
          BY <2>2, <3>2 DEF SetStateTail, Unregisters
        <4> QED
          BY <3>1, <4>1, <4>2 DEF Promised!Next, Promised!Unlisted
      <3>3. CASE ~thr[g].endedNow
        BY <1>0, <2>2, <3>3 DEF SetStateTail, Unregisters, TypeOK
      <3> QED
        BY <3>2, <3>3
    <2>3. CASE TakeRecording(g)
      <3>1. \A r \in Recs : /\ rec'[r].file = rec[r].file /\ rec'[r].pump = rec[r].pump
                            /\ rec'[r].archived = rec[r].archived
        BY <2>3 DEF TakeRecording, TypeOK, Session
      <3>2. \A r \in Recs : TakeOf(r)' = TakeOf(r)
        BY <3>1 DEF TakeOf
      <3> QED
        BY <2>3, <3>2, QuietCall DEF TakeRecording
    <2>4. CASE PumpStopped(g)
      <3>1. PICK r \in Recs : /\ r = thr[g].rec
                              /\ rec[r].file = "open" /\ rec[r].pump = "done"
                              /\ ~rec[r].archived
        BY <2>4 DEF PumpStopped, PumpDone, MediaInv, Stopping, ArchivedWhole
      <3>2. /\ \A q \in Recs : q # r => rec'[q] = rec[q]
            /\ rec'[r].file = "closed" /\ ~rec'[r].archived
        BY <2>4, <3>1 DEF PumpStopped, TypeOK, Session
      <3>3. TakeOf(r) = "drained" /\ TakeOf(r)' = "closed"
        BY <3>1, <3>2 DEF TakeOf
      <3> QED
        BY <2>4, <3>2, <3>3, TakeMoves DEF PumpStopped
    <2>5. CASE FinalizeRecording(g)
      <3>1. PICK r \in Recs : /\ r = thr[g].rec
                              /\ rec[r].file = "closed" /\ ~rec[r].archived
        BY <2>5 DEF FinalizeRecording, MediaInv, Stopping
      <3>2. /\ \A q \in Recs : q # r => rec'[q] = rec[q]
            /\ rec'[r].archived
        BY <2>5, <3>1 DEF FinalizeRecording, TypeOK, Session
      <3>3. TakeOf(r) = "closed" /\ TakeOf(r)' = "archived"
        BY <3>1, <3>2 DEF TakeOf
      <3> QED
        BY <2>5, <3>2, <3>3, TakeMoves DEF FinalizeRecording
    <2>6. CASE InstallRecording(g)
      <3>1. PICK r \in Recs :
              /\ rec[r].file = "none"
              /\ rec' = [rec EXCEPT ![r].pump = "running", ![r].file = "open"]
        BY <2>6 DEF InstallRecording
      <3>2. rec[r].pump = "none" /\ ~rec[r].archived
        BY <3>1 DEF MediaInv, ArchivedWhole
      <3>3. /\ \A q \in Recs : q # r => rec'[q] = rec[q]
            /\ rec'[r].file = "open" /\ rec'[r].pump = "running"
            /\ rec'[r].archived = rec[r].archived
        BY <3>1 DEF TypeOK, Session
      <3>4. TakeOf(r) = "none" /\ TakeOf(r)' = "recording"
        BY <3>1, <3>2, <3>3 DEF TakeOf
      <3> QED
        BY <2>6, <3>3, <3>4, TakeMoves DEF InstallRecording
    <2>7. CASE \/ Recheck(g) \/ SipOk(g) \/ SipErr(g) \/ Wake(g) \/ GraceExpired(g)
               \/ InstallSilence(g) \/ StopSilence(g) \/ MediaRefused(g)
      BY <1>0, <2>7 DEF Recheck, SipOk, SipErr, Wake, WakeOnce, GraceExpired,
                        InstallSilence, StopSilence, MediaRefused
    <2> QED
      BY <1>5, <2>1, <2>2, <2>3, <2>4, <2>5, <2>6, <2>7 DEF Step, QuietStep
  <1>6. CASE UNCHANGED vars
    BY <1>0, <1>6 DEF vars
  <1> QED
    BY <1>1, <1>2, <1>3, <1>4, <1>5, <1>6 DEF Next, Env

\* A Call shared by any number of goroutines implements the call AbstractCall
\* promises: ended once, unlisted after its end, every recording in order.
THEOREM CallRefines == Spec => ImplementsCall
  <1> QED
    BY InitType, StepType, InitEnd, StepEnd, InitMedia, StepMedia, InitReason, StepReason,
       InitCall, StepCall, PTL
    DEF Spec, ImplementsCall, Promised!Spec
=============================================================================
