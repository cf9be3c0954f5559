-------------------------------- MODULE Call --------------------------------
(***************************************************************************)
(* One call leg of the harness: the Call of internal/sip/call.go, shared   *)
(* by the goroutines that hold it.  State() is read under Call.mu and the  *)
(* lock is dropped before the SIP operation and the later setState, so     *)
(* each method is a small program of several steps and the steps of        *)
(* different goroutines interleave.  Media is guarded by a second lock,    *)
(* mediaMu; a critical section of either lock is one step.                 *)
(*                                                                         *)
(* Goroutines: the API goroutines (a test body, a handler, Stack.Stop's    *)
(* drain), diago's dialog-state callback (Peer), the stopMedia goroutine   *)
(* setState starts when the call ends (Reaper), and one audio pump and one *)
(* silence loop per media session.                                         *)
(***************************************************************************)
EXTENDS Naturals

CONSTANTS Threads,   \* goroutines that call methods of this Call
          Methods,   \* the methods each of them calls
          Owner,     \* the one that placed the call, when it is outbound
          Peer,      \* diago's dialog-state callback
          Reaper,    \* the goroutine of "go c.stopMedia()" in setState
          Recs,      \* recording sessions StartRecording may create
          Sils,      \* silence loops SendSilence may create
          None,      \* Go's nil
          WakeSends  \* sends of setState's wake loop (4 in the code)

ASSUME OwnerAssumption == Owner \in Threads
ASSUME GoroutinesAssumption ==
  /\ Peer \notin Threads
  /\ Reaper \notin Threads
  /\ Peer # Reaper
ASSUME NilAssumption == None \notin Recs /\ None \notin Sils
ASSUME WakeSendsAssumption == WakeSends \in Nat \ {0}

Goroutines == Threads \cup {Peer, Reaper}

States == {"init", "trying", "ringing", "answered", "ended"}

Directions == {"inbound", "outbound"}

\* Why a call ended; "none" is the empty string.
Reasons == {"none", "remote-bye", "local-hangup", "hangup-err", "rejected"}

Ops == {"none", "Invite", "Trying", "Ringing", "SendEarlyMedia183", "Answer",
        "Reject", "Hangup", "HangupWithHeaders", "StartRecording",
        "StopRecording", "SendSilence", "SendWAV", "OnState", "stopMedia"}

PCs == {"idle",     \* not inside a method
        "armed",    \* Peer before the dialog ends
        "unborn",   \* Reaper before setState starts it
        "sip",      \* waiting for diago / the peer
        "recheck",  \* HangupWithHeaders entering doInDialog
        "setState", \* about to take mu in setState
        "tail",     \* setState after mu is released
        "wake",     \* setState's wake loop
        "take",     \* about to take mediaMu in stopMedia / StopRecording
        "await",    \* waiting for the audio pump to close rec.done
        "finalize", \* file closed, about to run finalizeRecording
        "media"}    \* about to take mediaMu to start or stop media

VARIABLES
  direction,     \* Call.direction, immutable
  state,         \* Call.state
  answeredAt,    \* Call.answeredAt is set
  endedAt,       \* Call.endedAt is set
  endReason,     \* Call.endReason
  doneCloses,    \* how often doneCh was closed; Go panics on the second
  stateCh,       \* tokens in stateCh, capacity 1
  registered,    \* the Call-ID registry of observer.go holds this Call
  recording,     \* Call.recording
  rec,           \* every recording session: its pump, file and archive flag
  silenceCancel, \* Call.silenceCancel, as the loop it cancels
  silence,       \* every silence loop
  thr            \* the goroutines: program counter and local variables

sigVars   == <<direction, state, answeredAt, endedAt, endReason, doneCloses>>
mediaVars == <<recording, rec, silenceCancel, silence>>
vars      == <<sigVars, stateCh, registered, mediaVars, thr>>

Session == [pump     : {"none", "running", "done"},
            cancelled: BOOLEAN,
            file     : {"none", "open", "closed"},
            archived : BOOLEAN,
            hooks    : Nat]

Goroutine == [op      : Ops,
              pc      : PCs,
              rec     : Recs \cup {None},  \* session taken out of Call.recording
              reason  : Reasons,           \* reason argument of setState
              endedNow: BOOLEAN,           \* setState's local
              wakes   : 0..WakeSends]      \* sends left in the wake loop

TypeOK ==
  /\ direction \in Directions
  /\ state \in States
  /\ answeredAt \in BOOLEAN
  /\ endedAt \in BOOLEAN
  /\ endReason \in Reasons
  /\ doneCloses \in Nat
  /\ stateCh \in 0..1
  /\ registered \in BOOLEAN
  /\ recording \in Recs \cup {None}
  /\ rec \in [Recs -> Session]
  /\ silenceCancel \in Sils \cup {None}
  /\ silence \in [Sils -> {"none", "running", "cancelled", "exited"}]
  /\ thr \in [Goroutines -> Goroutine]

-----------------------------------------------------------------------------

At(pc, op) == [op |-> op, pc |-> pc, rec |-> None, reason |-> "none",
               endedNow |-> FALSE, wakes |-> 0]

Idle == At("idle", "none")

\* newInboundCall, or newOutboundCall followed by Invite's own
\* setState(StateAnswered): Invite returns the call only after that, and
\* meanwhile Stack.Stop may already drain it (it was tracked).
Init ==
  /\ direction \in Directions
  /\ state = "init"
  /\ answeredAt = FALSE
  /\ endedAt = FALSE
  /\ endReason = "none"
  /\ doneCloses = 0
  /\ stateCh = 0
  /\ registered = TRUE
  /\ recording = None
  /\ rec = [r \in Recs |-> [pump |-> "none", cancelled |-> FALSE,
                            file |-> "none", archived |-> FALSE, hooks |-> 0]]
  /\ silenceCancel = None
  /\ silence = [s \in Sils |-> "none"]
  /\ thr = [g \in Goroutines |->
              CASE g = Peer   -> At("armed", "none")
                [] g = Reaper -> At("unborn", "none")
                [] g = Owner /\ direction = "outbound" -> At("setState", "Invite")
                [] OTHER      -> Idle]

Goto(g, pc) == thr' = [thr EXCEPT ![g].pc = pc]
Return(g)   == thr' = [thr EXCEPT ![g] = Idle]

\* Invite has not returned the call yet: only Stack.Stop can reach it.
Inviting == thr[Owner].op = "Invite"

\* The head of a method: the direction check and the read of State(); mu is
\* released again before the first step at pc.  A refused call returns an error
\* and changes nothing.
Enter(t, op, pc, permitted) ==
  /\ thr[t].pc = "idle"
  /\ op \in Methods[t]
  /\ op = "Hangup" \/ ~Inviting
  /\ permitted
  /\ thr' = [thr EXCEPT ![t] = At(pc, op)]
  /\ UNCHANGED <<sigVars, stateCh, registered, mediaVars>>

Trying(t) ==
  Enter(t, "Trying", "sip", direction = "inbound" /\ state = "init")

Ringing(t) ==
  Enter(t, "Ringing", "sip", direction = "inbound" /\ state \in {"init", "trying"})

SendEarlyMedia183(t) ==
  Enter(t, "SendEarlyMedia183", "sip",
        direction = "inbound" /\ state \in {"init", "trying", "ringing"})

\* On an outbound call no SIP is sent; the transition alone is made.
Answer(t) ==
  Enter(t, "Answer", IF direction = "inbound" THEN "sip" ELSE "setState",
        state \notin {"answered", "ended"})

Reject(t) ==
  Enter(t, "Reject", "sip", direction = "inbound" /\ state \notin {"answered", "ended"})

Hangup(t) == Enter(t, "Hangup", "take", state # "ended")

HangupWithHeaders(t) == Enter(t, "HangupWithHeaders", "take", state = "answered")

StartRecording(t) == Enter(t, "StartRecording", "media", state = "answered")

StopRecording(t) == Enter(t, "StopRecording", "take", TRUE)

SendSilence(t) == Enter(t, "SendSilence", "media", state = "answered")

SendWAV(t) == Enter(t, "SendWAV", "media", state = "answered")

\* diago reports the dialog ended, which it does once: the peer's BYE or CANCEL.
OnState ==
  /\ thr[Peer].pc = "armed"
  /\ thr' = [thr EXCEPT ![Peer] = [At("setState", "OnState") EXCEPT !.reason = "remote-bye"]]
  /\ UNCHANGED <<sigVars, stateCh, registered, mediaVars>>

-----------------------------------------------------------------------------
\* Signalling steps.

\* doInDialog's own check of the state, after stopMedia.
Recheck(t) ==
  /\ thr[t].pc = "recheck"
  /\ IF state = "answered"
     THEN Goto(t, "sip")
     ELSE thr' = [thr EXCEPT ![t].pc = "setState", ![t].reason = "hangup-err"]
  /\ UNCHANGED <<sigVars, stateCh, registered, mediaVars>>

\* The SIP exchange succeeded.
SipOk(t) ==
  /\ thr[t].pc = "sip"
  /\ thr' = [thr EXCEPT ![t].pc = "setState",
                        ![t].reason = CASE thr[t].op = "Reject" -> "rejected"
                                        [] thr[t].op \in {"Hangup", "HangupWithHeaders"}
                                             -> "local-hangup"
                                        [] OTHER -> "none"]
  /\ UNCHANGED <<sigVars, stateCh, registered, mediaVars>>

\* It failed, or Hangup's 10s context expired.  A hangup ends the call all the
\* same; the other methods return the error.
SipErr(t) ==
  /\ thr[t].pc = "sip"
  /\ IF thr[t].op \in {"Hangup", "HangupWithHeaders"}
     THEN thr' = [thr EXCEPT ![t].pc = "setState", ![t].reason = "hangup-err"]
     ELSE Return(t)
  /\ UNCHANGED <<sigVars, stateCh, registered, mediaVars>>

\* The state argument each caller of setState passes.
Target(op) ==
  CASE op = "Trying" -> "trying"
    [] op \in {"Ringing", "SendEarlyMedia183"} -> "ringing"
    [] op \in {"Answer", "Invite"} -> "answered"
    [] OTHER -> "ended"

\* Mutant: without the endedAt.IsZero() test.
EndsAgain(s) == s = "ended"

\* This setState is the one that ends the call.
EndsNow(s) == s = "ended" /\ ~endedAt

\* The critical section of setState.
SetState(g) ==
  LET s == Target(thr[g].op) IN
  /\ thr[g].pc = "setState"
  /\ IF s = state
     THEN /\ Return(g)
          /\ UNCHANGED sigVars
     ELSE /\ state' = s
          /\ answeredAt' = (answeredAt \/ s = "answered")
          /\ IF EndsNow(s)
             THEN /\ endedAt' = TRUE
                  /\ endReason' = thr[g].reason
                  /\ doneCloses' = doneCloses + 1
                  /\ thr' = [thr EXCEPT ![g].pc = "tail", ![g].endedNow = TRUE]
             ELSE /\ Goto(g, "tail")
                  /\ UNCHANGED <<endedAt, endReason, doneCloses>>
          /\ UNCHANGED direction
  /\ UNCHANGED <<stateCh, registered, mediaVars>>

\* Mutants: the entry stays when a local call ended the leg; nothing stops the
\* media of a call the peer ended.
UnregistersOnBye(g) == thr[g].endedNow /\ thr[g].op = "OnState"
SpawnsNothing(g) == FALSE

\* What the setState that ended the call does once mu is released: it takes the
\* call out of the registry and starts the asynchronous stopMedia.
Unregisters(g) == thr[g].endedNow
SpawnsReaper(g) == thr[g].endedNow

SetStateTail(g) ==
  /\ thr[g].pc = "tail"
  /\ registered' = (registered /\ ~Unregisters(g))
  /\ thr' = [h \in Goroutines |->
               IF h = g THEN [thr[g] EXCEPT !.pc = "wake", !.endedNow = FALSE,
                                            !.wakes = WakeSends]
               ELSE IF h = Reaper /\ SpawnsReaper(g) THEN At("take", "stopMedia")
               ELSE thr[h]]
  /\ UNCHANGED <<sigVars, stateCh, mediaVars>>

\* Tokens in stateCh after a send nobody is parked for: its capacity is 1, and a
\* send that finds it full is dropped.
Buffered == 1

\* One iteration of the wake loop, a send that does not block and leaves ch
\* tokens in the channel.
WakeOnce(g, ch) ==
  /\ thr[g].pc = "wake"
  /\ stateCh' = ch
  /\ IF thr[g].wakes > 1
     THEN thr' = [thr EXCEPT ![g].wakes = @ - 1]
     ELSE Return(g)
  /\ UNCHANGED <<sigVars, registered, mediaVars>>

Wake(g) == WakeOnce(g, Buffered)

-----------------------------------------------------------------------------
\* Media steps.

\* Mutant: the cancel function is forgotten without being called.
ForgetSilence == silence

\* The loops once silenceCancel was called.
CancelSilence == [s \in Sils |-> IF s = silenceCancel /\ silence[s] = "running"
                                 THEN "cancelled" ELSE silence[s]]

\* Where a method goes on after stopMedia (or the body of StopRecording).
AfterStop(g) ==
  CASE thr[g].op = "Hangup" -> [thr[g] EXCEPT !.pc = "sip", !.rec = None]
    [] thr[g].op = "HangupWithHeaders" -> [thr[g] EXCEPT !.pc = "recheck", !.rec = None]
    [] OTHER -> Idle

\* Mutant: the session is read but not taken out.
LeaveSession == recording

\* What stopMedia and StopRecording leave in Call.recording.
LeftInCall == None

\* The critical section at the head of stopMedia and StopRecording: take the
\* session out of the call and cancel its pump.  Only stopMedia stops silence.
TakeRecording(g) ==
  /\ thr[g].pc = "take"
  /\ IF thr[g].op = "StopRecording"
     THEN UNCHANGED <<silenceCancel, silence>>
     ELSE /\ silence' = CancelSilence
          /\ silenceCancel' = None
  /\ recording' = LeftInCall
  /\ IF recording = None
     THEN /\ thr' = [thr EXCEPT ![g] = AfterStop(g)]
          /\ UNCHANGED rec
     ELSE /\ rec' = [rec EXCEPT ![recording].cancelled = TRUE]
          /\ thr' = [thr EXCEPT ![g].pc = "await", ![g].rec = recording]
  /\ UNCHANGED <<sigVars, stateCh, registered>>

\* Mutant: the file is closed without waiting for the pump.
NoWait(r) == TRUE

\* rec.done is closed.
PumpDone(r) == rec[r].pump = "done"

\* The pump has exited, so the file can be closed.
PumpStopped(g) ==
  /\ thr[g].pc = "await"
  /\ PumpDone(thr[g].rec)
  /\ rec' = [rec EXCEPT ![thr[g].rec].file = "closed"]
  /\ Goto(g, "finalize")
  /\ UNCHANGED <<sigVars, stateCh, registered, recording, silenceCancel, silence>>

\* Mutant: stopMedia waits for the pump without a timer.
NoGrace(g) == FALSE

\* recordingStopGrace expires first: stopMedia gives the recording up and leaves
\* its file open.  StopRecording has no such timer.
GraceExpired(g) ==
  /\ thr[g].pc = "await"
  /\ thr[g].op # "StopRecording"
  /\ thr' = [thr EXCEPT ![g] = AfterStop(g)]
  /\ UNCHANGED <<sigVars, stateCh, registered, mediaVars>>

\* finalizeRecording, with an archive hook installed and an owner set.
FinalizeRecording(g) ==
  LET r == thr[g].rec IN
  /\ thr[g].pc = "finalize"
  /\ IF rec[r].archived
     THEN UNCHANGED rec
     ELSE rec' = [rec EXCEPT ![r].archived = TRUE, ![r].hooks = @ + 1]
  /\ thr' = [thr EXCEPT ![g] = AfterStop(g)]
  /\ UNCHANGED <<sigVars, stateCh, registered, recording, silenceCancel, silence>>

\* StartRecording under mediaMu installs a session and starts its pump.
InstallRecording(t) ==
  /\ thr[t].pc = "media" /\ thr[t].op = "StartRecording"
  /\ recording = None
  /\ \E r \in Recs :
       /\ rec[r].file = "none"
       /\ recording' = r
       /\ rec' = [rec EXCEPT ![r].pump = "running", ![r].file = "open"]
  /\ Return(t)
  /\ UNCHANGED <<sigVars, stateCh, registered, silenceCancel, silence>>

\* SendSilence under mediaMu starts a loop unless one is installed.
InstallSilence(t) ==
  /\ thr[t].pc = "media" /\ thr[t].op = "SendSilence"
  /\ silenceCancel = None
  /\ \E s \in Sils :
       /\ silence[s] = "none"
       /\ silenceCancel' = s
       /\ silence' = [silence EXCEPT ![s] = "running"]
  /\ Return(t)
  /\ UNCHANGED <<sigVars, stateCh, registered, recording, rec>>

\* SendWAV under mediaMu cancels the loop, so that silence and speech do not mix.
StopSilence(t) ==
  /\ thr[t].pc = "media" /\ thr[t].op = "SendWAV"
  /\ silence' = CancelSilence
  /\ silenceCancel' = None
  /\ Return(t)
  /\ UNCHANGED <<sigVars, stateCh, registered, recording, rec>>

\* StartRecording or SendSilence returns without installing anything: one is
\* installed already, or the file, reader, decoder or writer cannot be had.
MediaRefused(t) ==
  /\ thr[t].pc = "media" /\ thr[t].op \in {"StartRecording", "SendSilence"}
  /\ Return(t)
  /\ UNCHANGED <<sigVars, stateCh, registered, mediaVars>>

\* pumpAudio returns: cancelled, or its read failed.  It may also stay blocked
\* in a read for ever, when no RTP arrives.
PumpExit(r) ==
  /\ rec[r].pump = "running"
  /\ rec' = [rec EXCEPT ![r].pump = "done"]
  /\ UNCHANGED <<sigVars, stateCh, registered, recording, silenceCancel, silence, thr>>

\* The silence loop returns: cancelled, or a write failed.
SilenceExit(s) ==
  /\ silence[s] \in {"running", "cancelled"}
  /\ silence' = [silence EXCEPT ![s] = "exited"]
  /\ UNCHANGED <<sigVars, stateCh, registered, recording, rec, silenceCancel, thr>>

-----------------------------------------------------------------------------

\* A test goroutine calls a method.
Begin(t) ==
  \/ Trying(t) \/ Ringing(t) \/ SendEarlyMedia183(t) \/ Answer(t) \/ Reject(t)
  \/ Hangup(t) \/ HangupWithHeaders(t)
  \/ StartRecording(t) \/ StopRecording(t) \/ SendSilence(t) \/ SendWAV(t)

\* A goroutine takes the next step of the method it is in, the sends on stateCh
\* apart.
QuietStep(g) ==
  \/ Recheck(g) \/ SipOk(g) \/ SipErr(g)
  \/ SetState(g) \/ SetStateTail(g)
  \/ TakeRecording(g) \/ PumpStopped(g) \/ GraceExpired(g) \/ FinalizeRecording(g)
  \/ InstallRecording(g) \/ InstallSilence(g) \/ StopSilence(g) \/ MediaRefused(g)

Step(g) == QuietStep(g) \/ Wake(g)

\* Steps of the call's environment: its users, diago, and the media goroutines.
Env ==
  \/ \E t \in Threads : Begin(t)
  \/ OnState
  \/ \E r \in Recs : PumpExit(r)
  \/ \E s \in Sils : SilenceExit(s)

Next == Env \/ \E g \in Goroutines : Step(g)

Spec == Init /\ [][Next]_vars

\* Every goroutine that can run does.  Nothing obliges a test to call a method,
\* the peer to hang up, or RTP to arrive and release a blocked pump.
Fairness == \A g \in Goroutines : WF_vars(Step(g))

FairSpec == Spec /\ Fairness
-----------------------------------------------------------------------------
\* Properties.

\* doneCh is closed when the call ends and never a second time, which would
\* panic: a late setState(StateAnswered) can move an ended call to answered, and
\* a later hangup then reaches StateEnded again (setState, call.go).
DoneClosedOnce == doneCloses = IF endedAt THEN 1 ELSE 0

\* The reason a call ended is the first one reported, whatever hangups, rejects
\* and callbacks follow (EndReason, call.go).
FirstReasonSticks == [][endedAt => endReason' = endReason]_vars

\* How far a recording has come, whoever works on it.
TakeOf(r) ==
  IF rec[r].archived THEN "archived"
  ELSE IF rec[r].file = "closed" THEN "closed"
  ELSE IF rec[r].pump = "done" THEN "drained"
  ELSE IF rec[r].file = "open" THEN "recording" ELSE "none"

Promised == INSTANCE AbstractCall WITH
  Reasons <- Reasons \ {"none"},
  answered <- answeredAt, closes <- doneCloses, reason <- endReason,
  listed <- registered, take <- [r \in Recs |-> TakeOf(r)]

\* The goroutines, their locks and the exchanges they wait for amount to what
\* AbstractCall promises: one end with its first reason, a registry entry that goes
\* after the end and never returns, and recordings that are closed once their pump
\* has stopped and archived once closed.
ImplementsCall == Promised!Spec

\* Once a call has ended and the setState that ended it is past its tail, the
\* Call-ID registry does not hold it: no entry outlives its call (observer.go).
EndedIsUnregistered ==
  endedAt /\ (\A g \in Goroutines : ~(thr[g].pc = "tail" /\ thr[g].endedNow))
    => ~registered

\* A recording session belongs to the call or to exactly one goroutine that is
\* stopping it, so no two of StopRecording, Hangup and the end of the call
\* close or archive the same file.
SingleFinalizer ==
  \A g, h \in Goroutines :
    /\ thr[g].rec # None => thr[g].rec # recording
    /\ thr[g].rec # None /\ thr[g].rec = thr[h].rec => g = h

\* A file is closed, and archived as WAV, only after its pump has stopped
\* writing to it, and it is archived at most once (finalizeRecording).
ArchivedWhole ==
  \A r \in Recs :
    /\ rec[r].file = "closed" => rec[r].pump = "done"
    /\ rec[r].archived => rec[r].file = "closed"
    /\ rec[r].hooks = IF rec[r].archived THEN 1 ELSE 0

\* Every silence loop still running can be cancelled through the call: none is
\* orphaned by SendWAV, stopMedia or a second SendSilence.
NoOrphanSilence == \A s \in Sils : silence[s] = "running" => silenceCancel = s

\* A Hangup that has begun returns with the call ended, even when the audio pump
\* never leaves its read and the peer never answers the BYE.
HangupReturns ==
  \A t \in Threads : thr[t].op = "Hangup" ~> thr[t].pc = "idle" /\ endedAt

\* What the call is recording and sending at the moment it ends is stopped,
\* whoever ended it.
EndStopsMedia ==
  LET Ending == \E g \in Goroutines : thr[g].pc = "tail" /\ thr[g].endedNow IN
  /\ \A r \in Recs : Ending /\ recording = r ~> recording # r
  /\ \A s \in Sils : Ending /\ silenceCancel = s ~> silence[s] # "running"

\* What state.go says of StateEnded: the call is terminated.  Violated: a method
\* that read the state before the peer's BYE sets its own state after it.
EndedIsFinal == [][state = "ended" => state' = "ended"]_vars

\* What StartRecording's comment says: a recording stops when the call ends.
\* Violated: a StartRecording that read StateAnswered installs its session after
\* the call's own stopMedia has run, and nothing stops it any more.
RecordingAutoStops == \A r \in Recs : endedAt /\ recording = r ~> recording # r
=============================================================================
