# TLA+ verification of the jambonz smoke tester

The smoke tester runs Go tests against a live jambonz cluster. A test scripts an
answer for jambonz's webhooks, places or receives SIP calls, exchanges media, and
asserts on what came back. Everything runs in parallel, against a shared cluster:
goroutines share a call leg, tests share a webhook server, processes share a
service provider account. This project models those parts, checks them with TLC
and proves every safety property they are checked for with TLAPS.

## 1. The system

| component | state it keeps | operations | hard behaviour |
|---|---|---|---|
| call leg (`internal/sip/call.go`) | state, end reason, `doneCh`, `stateCh`; under a second lock the recording session and the silence loop | Trying, Ringing, Answer, Reject, Hangup, StartRecording, StopRecording, SendSilence, SendWAV, WaitState, diago's callback | two locks, `State()` is read and used later, the peer's BYE comes at any time, the pump may never leave its RTP read |
| DTMF sender (`call.go`) | the RTP packet writer, shared with the silence loop | SendDTMFWithDuration | shared timestamp, uint16 durations |
| drain (`internal/sip/drain.go`) | one goroutine, one timer and one result per call, a deadline | drainCalls | five events race in one select; a Hangup wedges or panics |
| SIP stack (`uas.go`, `uac.go`, `uac_cancel.go`) | registration, serve context, handler, tracked calls; the dialog of a pending INVITE | Start, dispatchInbound, Invite, InviteEarlyMedia, CancelWithHeaders, Stop | calls arrive while Stop runs; lost REGISTER answers; an INVITE meant to be cancelled is answered |
| message observer (`observer.go`, `messages.go`) | Call-ID registry, message lists of each call | register, unregister, observeRequestMiddleware, Respond, AwaitReceivedRequest, AnsweredResponse | the call is looked up when a request arrives and again when it is answered, and may be registered or end in between |
| webhook server (`internal/webhook/registry.go`, `server.go`, `correlation.go`) | sessions by test ID, `call_sid` index, script and bounded callback queue of each session | three HTTP hooks, New, Release, Script…, WaitCallback… | the registry lock is dropped between the steps of one request; hooks after the release |
| application WebSocket (`appws.go`) | the session chosen for a socket, the socket of a session | read loop, ackVerbs, SendCommand | first frame without a test ID; two writers on one socket |
| audio WebSocket (`ws.go`) | bounded inbound queue, two channels to close, metadata | handleWS, WaitWSMessage, WaitWSMark, CollectWS | queue at its limit, close between two closes, second connection |
| suite account and sweeper (`internal/provision`) | accounts, API keys, SIP clients, calls of the cluster | Sweep, SetupSuiteAccount, Teardown, ManagedSIPClient, ManagedCall | several processes, crashes, lost answers, DELETEs that do not cascade |
| recording archiver (`internal/recording`) | wiped directories, numbers given to roles | Archive, reserve | the file is written after the lock is released; the wipe may fail unnoticed |
| prompt cache (`internal/tts`) | WAV files named by a hash of the prompt | EnsureWAV, read by SendWAV | files written in place by parallel tests |
| managed resources (`internal/provision/*.go`, `Managed…`) | the resources of a test at the API server, its cleanups | Managed…, Create…, Delete… | a test fails between two creations; a resource in use cannot be deleted; requests fail on either side |
| speech to text (`internal/stt`) | attempts and deadlines of an upload | Transcribe, TranscribeMulawWAV | an upload that hangs |
| schema contracts, configuration, tunnel, DNS and TLS set-up, probe command | little or none | | |

How they interact: a test claims a session of the webhook server and places a call
through the stack; jambonz posts the hooks of that call to the server, which must
file them under the test that owns it. The stack wraps every dialog in a Call and
tracks it; `Stop` hands the live ones to the drain, which uses nothing of them but
`Done` and `Hangup`. A Call registers with the observer until it ends, and hands a
finished recording to the archiver. TestMain sweeps what crashed runs left behind,
creates an account, runs the tests, and tears the account down.

What makes each part correct:

* a call ends once, its end is seen by all who wait for it and stops its media, a
  recording is closed and archived by one goroutine and only when it is complete;
* a drain attempts every call, reports honestly and returns in time;
* a stopped stack has hung up every call it knew of;
* a callback reaches the session of the test whose call it is about, is answered
  from that test's script, and is not lost silently;
* a reader of a queue gets what was queued and is released when the socket closes;
* a sweep deletes every orphan and nothing else, and a teardown that reports
  success has deleted what it should;
* the record of a live call has no holes, and a wait on it returns the peer's request;
* files of one test are not overwritten by another's;
* a test cleans up what it created unless a request of its own failed.

`PROJECT.json` lists the hazards, each at its line, with the properties aimed at it.

## 2. Modules

| module | models | actions and state |
|---|---|---|
| `Call` | one `Call` and its goroutines | `thr[g]` is a goroutine's program counter and locals. `Enter` reads `State()` (the method's guard), `SipOk`/`SipErr` end the SIP exchange, `SetState`, `SetStateTail` and `Wake` are the critical section of `setState`, its tail, and its wake loop; `TakeRecording`, `PumpStopped`, `GraceExpired`, `FinalizeRecording` are the stages of `stopMedia` and `StopRecording`; `InstallRecording`, `InstallSilence`, `StopSilence` the sections under `mediaMu`; `OnState` is diago's callback, `Reaper` the `go c.stopMedia()` |
| `CallWait` (extends `Call`) | `WaitState` and the wake-up channel | a waiter checks, selects, parks; a send goes to the waiter parked longest (`recvq`), the buffer, or nowhere |
| `AbstractCall` | what a Call promises to those that hold it | `answered`, `closes`, `reason`, `listed`, `take`: five variables, no goroutine or lock |
| `CallProofs` | theorems about `Call`; that it implements `AbstractCall` | |
| `Observer` | the Call-ID registry, the request middleware and the recorded messages | `owner` builds, registers, hooks, answers or places and at last hangs up the call; `req[q]` is diago's handler of a request of the peer, recorded by `Observe` and answered through `Respond`; `send[x]` is an INFO or re-INVITE of the test; `wait[w]` an AwaitReceivedRequest. The two lookups of one request are separate steps |
| `ObserverProofs` | theorems about `Observer` | |
| `AbstractDrain` | what `drainCalls` promises to `Stop` | `over`, `begun`, `reported`, `returned` |
| `Drain` | `drainCalls`, `drainOne`, `safeHangup` | `pc`, `hangup`, `doneRef`, `timer`, `deadline`, `res`; one action for each case of the select |
| `StackProofs` | theorems about `Stack` and `Drain`; that `Drain` implements `AbstractDrain` | |
| `Stack` | `Start`, `dispatchInbound`, `Invite`, `InviteEarlyMedia`, `CancelWithHeaders`, `Stop` | `leg` is where a call is in dispatch, Invite or InviteEarlyMedia ("abandoned" when our side was closed without BYE or CANCEL), `stop` the stage of Stop's body, `late` records calls born after its snapshot; `CallerCancels` is the end of the context `Start` was given |
| `Webhook` | registry, sessions, HTTP handlers | `obj` holds Session objects, `sessions` and `bySid` are the registry's maps, `req` the handlers; one action for each critical section of a request. `scripted` is the set of hooks a session has a script for: `callHook` and the keys of `actionHooks` |
| `WebhookProofs` | theorems about `Webhook`, and about `AppWS` beside it | |
| `AppWS` (extends `Webhook`) | the application socket beside the HTTP hooks | `conn` is the read loop, `appConn` what `BindAppConn` stored, `cmd` a SendCommand in progress; a write has a beginning and an end |
| `WSStream` | the audio socket of a session | `loop`, the bounded `inbound`, the two closes as two steps, `reader`; a connection for an unknown session is served by the shared `_anon` session and leaves this one alone (`ServedElsewhere`) |
| `WSStreamProofs` | theorems about `WSStream` | |
| `Suite` | test processes on one service provider | `acct`, `client`, `call` are the cluster's tables, `run` the processes; a REST request is refused, takes effect and is answered, or takes effect and its answer is lost. A hangup is accepted (`asked`) and the call ends later, if it does |
| `SuiteProofs` | theorems about `Suite` | |
| `Archive` | `Archiver.Archive` and `reserve` | `clearedTest`, `usedRole`, `disk`; reserve, MkdirAll and WriteFile are separate steps that may fail, os.RemoveAll with its error ignored (`unwiped`) |
| `Dtmf` | `SendDTMFWithDuration` | the packets on the wire; uint16 products are taken modulo 2^16 |
| `DtmfProofs` | theorems about `Dtmf`, in `Helpers` | |
| `Fixture` | `EnsureWAV` and the reading of its file | `file` is a sequence of segments, written one at a time at each writer's own offset |
| `Managed` | the `Managed…` helpers | `server` is what exists at the API server, `cleanups[t]` a test's `t.Cleanup` stack; a request is answered, fails before it takes effect, or after |
| `Transcribe` | `transcribeWithRetry` and its callers | `tries`, `budget`, `spent`, in units of `transcribeAttemptTimeout` |
| `Helpers` (extends `Managed`, `Fixture`, `Archive`, `Transcribe`, `Dtmf`) | the helpers a test calls | `part` chooses the helper at work |
| `HelpersProofs` | theorems about the other four helpers | |

`MC<Module>` modules define the constants of the instances that the `.cfg` files
select. Operators marked "Mutant:" are faulty variants of the definition below them;
`PROJECT.json` says which property each must break.

Composition: `CallWait` and `AppWS` extend the component they run beside. `Drain` sees
a call as the pair Done and `State()`, and lets a call whose Done is closed be revived,
the one thing module `Call` shows to be possible and the drain does not expect. `Stack`
uses of the drain what `AbstractDrain` promises and `Drain` implements: every call handed
over is hung up, and the drain returns. `Helpers` puts five components in one
specification that share no variable in the code either (files of the cache, files of the
archive, rows at the API server, uploads, packets). A behaviour runs one of them, with several
tests at a time: interleaving steps of two components that do not see each other adds
states and no case.

Assumed of code outside this repository, from how it is used: diago reports the end
of a dialog once, and not at all if it ended before `OnState` was called; it answers a
request through the transaction the middleware gave it, and ends the dialog of a BYE
before or after it answers; its packet writer sends with the current timestamp and then
advances it by what the caller asked, an audio frame by 160; a SIP exchange ends with
success or an error (a Hangup carries a timeout); jambonz posts hooks only for calls
that were placed, with or without the test ID, at any later time, once or often;
DELETE of an account does not cascade to its SIP clients and fails while there is
one; DELETE of another resource in use is refused, or deletes what hangs off it
(`tests/rest/errors_test.go`, `TestError_422_InUse`); a killed process stops between any two steps.

## 3. Runs

CHECK_DEADLOCK is FALSE throughout: a call that has ended, a stack that has stopped or
a test that has finished has nothing left to do. That nobody hangs is stated by
liveness properties instead.

| run | instance | checks |
|---|---|---|
| `call` | the test's goroutine over the signalling methods, a helper that sends, records and hangs up, the peer, the reaper; one recording, one silence loop | `ImplementsCall`: every step is one of `AbstractCall` or none, so the call ends once, for one reason, and recordings are archived complete. `EndedIsUnregistered`. `SingleFinalizer`: a recording is closed by one goroutine. `NoOrphanSilence`: no silence loop loses its cancel function. `HangupReturns`, although the pump may never stop. `EndStopsMedia` |
| `wait` | two watchers beside a goroutine that answers and hangs up, and the peer | `WatchersWoken`: a watcher is woken for the state it waits for, which the code violates |
| `observer` | a call of either direction; the peer sends an INFO and a BYE or cancels, the test an INFO and a re-INVITE, another waits for an INFO | `AwaitHonest`: the wait returns the peer's request, never the answer to ours. `AnswerOnRecord`: an answered call finds its 200. `LossMeansEnd`: only an ended call loses an answer. `EveryCallEnds`: a dialog that ends at any point of the construction leaves an ended, unregistered call |
| `drain` | two calls that end, are revived, wedge or panic | `ImplementsDrain`: results are honest and every call is hung up. `NoEarlyGiveUp`, `BoundedByTotal` (if no call is revived), `PromptWhenEnded` |
| `stack` | two legs: inbound, outbound or cancellable; a caller that may cancel its context; two goroutines in Stop | `OnlyLateCallsUndrained`, `CancelledCallsEnd`, `StopEnds` |
| `webhook` | two tests that run twice, a call of one of them, two handlers, all hooks, early and late; scripts for the call hook and one verb, set when the test likes | `SureRouting`, `RoutedToOwner`, `ScriptAnswered`: a hook is answered from the script for its own kind. `LossIsFlagged` |
| `appws` | two tests, a call, one socket on the shared path or its own, HTTP hooks beside | `HooksKeepTheirTest` (unless a socket sits on a placeholder), `SocketSureRouting` (unless another socket of the call does), `CommandsOnOwnCall` |
| `ws_stream` | two connections to a session, a queue of two, three frames | `CollectsEverything`, `NoMarkMissed`, `ReadersReleased` |
| `suite` | two processes beside a foreign account | `OthersSpared`: foreign accounts and those of a running suite are left alone. `OrphansSwept`, `TeardownHonest` (unless the confirming read failed), `BackstopAsksCalls`: a call that is still up was asked to end, unless a cleanup of the test hid it |
| `suite_calls` | one process with a call | `ManagedCallsHungUp`, which the code violates |
| `helpers` | three overlapping users of one prompt, one with a longer answer; three legs of two tests, with wipes, directories and writes that fail; two tests with a carrier, a number and a gateway, and an account and an application; two uploads with time for one to three attempts; up to two digits, four tone lengths, two silence frames | `SettledWhole`: when the last writer is done the prompt has every sample its header announces. `LegsKept`: no recording is overwritten or lost, or mixed with an earlier run's unless the wipe failed. `LeaksHaveCause`: what a test leaves behind saw a request of its own fail, or is held by one that did. `OneHangForgiven`: a sick connection costs two attempts at most, and one is forgiven. `DigitsHeard`; `EventsWellFormed`: the packets of an event share a timestamp (without silence frames) and their duration grows (while the products fit in a uint16) |
| `appws_writes` | a command and an acknowledgement on one socket | `NoConcurrentWrite`, which the code violates |

The modules state their type invariant (`TypeOK`, `DrainTypeOK`, `AppTypeOK`, …) to document
their variables. They are proved, `WaitTypeOK` of `CallWait` excepted, which holds in its run when
it is added to the cfg.

### Where the code departs from what it says

Three runs show the violation of a comment.

* `appws_writes`: `registry.go:115` has `appConnMu` serialize the writes on an application
  socket, and `ackVerbs` writes without it.
* `wait`: `call.go:167` says that `setState` wakes all WaitState watchers. It makes four
  non-blocking sends on a channel of capacity 1. Watchers that are parked get one each; of
  those that have read `State()` and not reached the select, one gets the buffered token and
  the others park, until their context expires if no other change comes. One watcher is always
  woken: the trace needs two.
* `suite_calls`: `calls.go:190` says that the cleanup of `ManagedCall` hangs the call up. It
  calls `DeleteCall`, which drops the Redis record (`calls.go:100`); the call goes on, and
  Teardown's backstop, which finds calls by their record, does not see it.

The modules also state other sentences of the comments that the code does not keep. They
are not runs of their own; TLC shows each when the cfg named here is changed as it says.

| comment | what the code does | to see it |
|---|---|---|
| `state.go:14`, StateEnded is final | `setState` overwrites it: an Answer that read `State()` before the BYE marks the ended call answered | `EndedIsFinal` as the property of `MCCallWait.cfg` |
| `call.go:871`, a recording auto-stops | one installed after the call's own `stopMedia` is never stopped | `RecordingAutoStops` as a property in `MCCall.cfg` |
| `drain.go:32`, never blocks longer than total | a revived call is hung up outside the select with the deadline | the consequent of `BoundedByTotal` alone |
| `uas.go:191`, Stop drains any call still live | one born between its snapshot and its cancel stays up, and a PendingInvite is never tracked | `StopDrainsAll` in `MCStack.cfg` |
| `appws.go:89`, a socket leaves the placeholder | it keeps the session of an untagged first frame, and its frames take the call's binding from the test that had it | `PlaceholderSwitched`, `SureRouting` in `MCAppWS.cfg` |
| `ws.go:320`, frames are read until the socket closes | a second connection sends on the queue the first one closed, which panics | `NoSendOnClosed` in `MCWSStream.cfg` |
| `ws.go:125`, no metadata if the first frame was binary | the first JSON frame is taken, whenever it comes | `NilIfBinaryFirst` in `MCWSStream.cfg` |
| `accounts.go:112`, a refused DELETE surfaces | not when the confirming read fails | `TeardownHonest` without its exception |
| `suite.go:126`, the backstop hangs up any live call | ManagedCall's cleanup hides a live call from it, and jambonz need not have ended the others: it applies an accepted hangup later, best-effort (`calls.go:176`) | `BackstopAsksCalls` without `dropped`, or without `asked` |
| `archive.go:14`, a re-run never mixes stale legs with fresh ones | it does when os.RemoveAll fails: the error is ignored and `clearedTest` set | `LegsKept` without `unwiped` |
| `archive.go:115`, collision-free names | roles `greeting` and `greeting-1` collide, and so do test names that sanitize alike | in `MCHelpers`, three legs of one test with roles `<<"c">>`, `<<"c">>`, `<<"c", 1>>`, or one directory for both tests |
| `call.go:1079`, the packets of an event share a timestamp | silence frames move it | `SharedTimestamp` without its exception |
| `call.go:1025`, the duration grows | it wraps from 8.2 s on | `DurationGrows` without its exception |
| `call.go:1026`, three end packets | one is sent | `ThreeEndPackets` in `MCHelpers.cfg` |
| `deepgram.go:51`, a path to a telephony WAV | a file that is being written, or was cut short, is a hit, and reading it panics; so is, for ever, one in which a longer answer left its end, which is read as chunks | `ReturnsReadable` in `MCHelpers.cfg` |
| `messages.go:35`, Method is "" for responses, and `call.go:829`, responses are skipped | `newResponseMsg` copies the method of the CSeq, so `MethodsReceived` and `ReceivedByMethod` count the answers to our own requests | `ResponseMsg` of `Observer` |
| `observer.go:76`, the 200 to a BYE is captured | not when the callback ended the call before diago answered | `LossMeansEnd` with `FALSE` for `ended` |
| `call.go:367`, SendInfo is captured by the observer middleware | `doInDialog` records both messages itself; the middleware sees requests of the peer only | `RecordSend`, `SendAnswered` of `Observer` |
| `call.go:723`, AnsweredStatus is that of the INVITE the call was opened with | after a re-INVITE it is that of the re-INVITE (as `call.go:406` says) | `AnswerOnRecord` with `AnsweredResponse.of = Invite` alone |
| `docs/adr/0008…:21`, `docs/coverage-matrix.md:61`, the sweep covers every resource type | accounts only; what a failed cleanup leaves under the service provider stays | `Suite`, `LeaksHaveCause` without its exception |

### Bounds

Every bound is a constant of the module that uses it.

* The hazards are races of two actors over one object, so there are two of most kinds:
  goroutines, HTTP handlers, tests, processes, draining calls, connections. `Call` adds the
  peer and the reaper; `wait` has a goroutine, the peer and two watchers; `Archive` and
  `Fixture` (run `helpers`) have three legs and users, because a third is needed between two (a wipe
  between two writes, a reader beside two writers).
* `webhook` and `appws` have two tests and one call: the second test is the one a hook could
  be misfiled under. `appws` has one socket and one HTTP handler. With `Conns =
  {k1, k2}`, `MaxPosts = 2` and `SYMMETRY SocketSymmetry` the same run has two sockets of one call (1.9 million states).
* `WakeSends` is the code's 4 in `wait` and 1 in `call`, where no one waits.
  `RegisterAttempts` is the code's 3.
* `QueueCap` is 1 (32 in the code) and `InboundCap` 2 (256): the queue is full, and
  overflows, within `MaxPosts` and `MaxFrames`, which is all the capacity is for.
* `MaxPosts` is 2 hooks in `webhook`, where a test runs twice (`MaxClaims` 2, `go test
  -count=2`), and 3 hooks and frames in `appws`: one to bind the call, one to disturb the
  binding, one to be misrouted.
* In `observer` each side sends two requests: one that ends or renews the dialog and one that
  does not. `MaxBudget` is 3 attempt timeouts: less than, as much as and more than two
  attempts need. Test `t1` of `Managed` has two resources under one that cascades (a carrier), `t2` one
  under one that does not (an account).
* `Objs` bounds the Session objects: `New` waits when there is none left. `webhook` has three:
  one for each claim of the test whose call it is, and one for whoever comes between.
* `Scripts` says which hooks a test may script: the call hook and one verb in `webhook`, the
  verb in `appws`.
* `PerTones` has a tone of one packet, of two, and the two on either side of the uint16
  limit (409 and 410 packets). Silence frames come in the first `SilenceUntil` packets.
* In `Fixture` one of three answers is a segment longer than the others: its end can be left
  behind the shorter ones, or be truncated, or carry the header.
* Symmetry is declared for interchangeable objects only (Session objects, handlers, users,
  SIDs), and in no run with a liveness property.

### Fairness

* `Call`: weak fairness of each goroutine's own steps once it is inside a method. A SIP
  exchange is such a step because it runs with a timeout; the pump's read is not, nor
  are the peer and the calls tests make. The grace timer makes `GraceExpired` a step of
  the goroutine that waits. `CallWait` adds the steps of a watcher that can move.
* `Drain`: the drain's own goroutines and its two timers by way of them. No Hangup is
  obliged to return, except one of an ended call, which does nothing.
* `Stack`: Stop's body, the Hangup at the end of a dispatch, and a handler whose context
  was cancelled. Handlers otherwise run as long as they like.
* `Observer`: the Owner (every test hangs its call up in the end, in its body, its cleanup or
  through the stack's drain), diago's callback and the tail of `setState`. The peer owes nothing.
* `WSStream`: the handlers that hold a frame or are closing, and a reader that has
  something to receive. Nobody is obliged to send.
* The other modules have safety properties only and no fairness.

## 4. Proofs

Every invariant, action property and refinement that a passing run checks is also a theorem, for
every value of the constants. An invariant is seldom inductive: below, what each proof adds
and why. The inductive invariants were checked by TLC on the runs' instances before they were
proved.

`CallProofs`, for any goroutines, methods, recordings, silence loops and number of wake
sends:

* `TypeCorrect`: `TypeOK`, action by action.
* `EndsOnce`: `DoneClosedOnce` and `EndedIsUnregistered`. Neither is inductive alone,
  since the unregistering is done by whichever `setState` saw `endedNow`, after it dropped
  the lock. `EndInv` adds that a goroutine with `endedNow` is at the tail of `setState` on a
  call that has ended, and that an ended call is unregistered or such a goroutine exists.
* `FirstReason`: the action property `FirstReasonSticks`.
* `RecordingsSafe`: `SingleFinalizer` and `ArchivedWhole`. `MediaInv` adds what the owner of a
  session knows of its file at each stage: open while it waits for the pump, closed and
  not yet archived when it finalizes; and that the session installed in the call is open.
* `SilenceReachable`: `NoOrphanSilence`, from `LoopMoves`, which lists all a step can do to the
  loops: cancel the installed one, install one where there is none, see one return.
* `CallRefines`: `Call` implements `AbstractCall`. Besides the invariants above it needs
  `ReasonInv`: a goroutine on its way to end the call carries a reason that is not "none".
  `StepCall` maps each action; `TakeOf` reads a recording's abstract state off its pump, file and
  archive flags, and `MediaInv` is what makes those flags change one at a time.

`StackProofs`, for any calls, stoppers and number of REGISTER attempts:

* `StopDrains`: `OnlyLateCallsUndrained`. `StopInv` adds that a live call is tracked, that from
  the snapshot on it is in it or late, and that past the drain all of the snapshot is hung up.
* `DrainRefines`: `Drain` implements `AbstractDrain`. `DrainInv` says that a `drainOne` that
  has returned has begun its Hangup (`Begun`), that a result says ended only when Done was
  closed (`Honest`), and that the drain returns after all of them (`Joined`).
* `PatientDrain`: `NoEarlyGiveUp`, a conjunct of `DrainInv`.

`ObserverProofs`, for any requests of the peer, sends and waits of the test, in both directions:

* `ObserverTypeCorrect`: `TypeOK`. `Received` and `Emitted` say once what an entry of each list can
  be and at which point it is made; the other proofs rest on these two.
* `AwaitIsHonest`: `AwaitHonest`. `RecvHonest` says of the whole list what the property says of
  the one entry a wait returned: an entry without a status code is a request of the peer.
* `AnswerIsOnRecord`: `AnswerOnRecord`. `AnswerFiled` says from which step on the 200 is in
  the list of its direction; `Life` that the call is in the registry from its
  registration to its end.
* `LossIsTheEnd`: `LossMeansEnd`, with `ThroughRegistry`: a request that is on record came
  after the call was registered, so the second lookup misses only if the call has left since.

`WebhookProofs`, for any tests, calls, handlers, sockets and capacity:

* `WebhookTypeCorrect`: `TypeOK`, which includes that no queue exceeds its capacity. It
  needs `Shape`, what a handler's locals hold at each stage.
* `RoutingSafe` (`HeldSessionStable` and `SureRouting`) and `ParallelSafe` (`RoutedToOwner`).
  `RouteInv` is the conjunction of `TypeOK`, `Shape`, `Filed` (the registry maps an ID to an object
  of that ID, and objects are not shared), `Carries` (a request is about the call of its test and
  was routed to that test or to no test's session), `HeldSessionStable`, `SureInv` (why a
  correlated request must find the session, at each stage before it has it) and `RoutedToOwner`.
* `AnsweredByScript`: `ScriptAnswered`. `ScriptInv` carries the promise from the arrival of a
  request to its answer: the session its test holds has a script for its kind of hook and keeps it.
* `EveryLossFlagged`: `LossIsFlagged`, an equation between a cardinality and a counter. A step that
  drops a callback adds one to both only because the callback is new to the session:
  `Numbered` says that requests have different numbers and that no session has seen one before its
  handler records it.
* `AppWSTypeCorrect`: `AppTypeOK`.
* `CommandsReachOwnCall`: `CommandsOnOwnCall`. `ServeInv` says that a socket is served by a session
  of its test or by the placeholder, and that a call is bound to its test, or to the placeholder
  while one of its sockets sits there; `HandsOut` that the socket of a test's session is of that test.
* `SocketsReachTheirTest` (`SocketSureRouting`) and `HooksReachTheirTest` (`HooksKeepTheirTest`).
  `OnTrack` and `HookOnTrack` say that the search for the session cannot fall through: at each of its
  steps something still to be tried names the test.

`WSStreamProofs`, for any connections, frames and capacity:

* `StreamTypeCorrect`: `TypeOK`.
* `MarksAreSeen` (`NoMarkMissed`) and `CollectIsComplete` (the action property
  `CollectsEverything`). Both follow from `Conserved`: what entered the queue is in the queue or
  with the test. `MarkLast` remembers that a WaitWSMark that saw the end saw an empty closed
  queue, into which nothing is sent any more; `ReadsMatch` that only CollectWS drains.

`SuiteProofs`, for any processes, accounts and clients:

* `SuiteTypeCorrect`: `TypeOK`.
* `ForeignSafe`: `ForeignUntouched`, with or without the age gate. `OwnInv` says at each stage whose
  account a process works on (`Holds`): the suite account it created, or one that `shouldSweep`
  chose; and that the clients on its list are of that account.
* `OthersSafe`: `OthersSpared`, if `AgeGate` (the sweeper's MinAge is set, as TestMain sets it): a
  sweep of another process deletes old accounts only. `Live` follows the account from its creation.
* `TeardownSafe`: `TeardownHonest`, from `DeletionEnds`: a deletion ends with the account gone, or
  with an error or a fault on the books.
* `BackstopSafe`: `BackstopAsksCalls`. A call that is up has the record by which Teardown finds it,
  was asked to end, or lost the record to a cleanup, or an error was noted (`Backstop`).
* `SweepSafe`: `OrphansSwept`. `Sweeps` says where an orphan is: gone, on the list of the sweep with
  all its clients listed, or being deleted with its last clients at hand; nobody adds a
  client to an orphan, as no process that is still running owns it.

`DtmfProofs`, for any digits, tones and number of silence frames:

* `DtmfTypeCorrect`: `DtmfTypeOK`.
* `AllDigitsHeard`: `DigitsHeard`. `Heard` is the property for the digits sent so far, with a
  timestamp that has moved past theirs.
* `EventsAreWhole`: `EventsWellFormed`. `Middle` says what the last packet of an unfinished event
  has: the samples so far and the writer's timestamp; `OfDigits` that a new event has a new digit.

`HelpersProofs`, for any tests, users, legs and uploads:

* `HangForgiven`: `OneHangForgiven`; `SttInv` relates attempts, time spent and budget.
* `PromptsSettle`: `SettledWhole`, for answers of any lengths. `LastWriter` says that since the last
  truncation its writer has put a header in place; `HeaderKept` that whoever the header is of has all
  it wrote in the file, since it wrote the header after that truncation; `LastKept` that the last
  segment is where its writer is; `Wrote` that a writer that returned has written all.
* `CleanupsSuffice`: `LeaksHaveCause`. The cleanups of a test are a prefix of what it created
  (`CleanupsArePrefix`), so deleting a resource takes away nothing a leaked one is held by.
* `RecordingsKept`: `LegsKept`, if tests have directories of their own and no role reads like the
  numbered name of another (`DistinctNames`, which the tests see to and `Archive` does not; the
  table above shows what happens otherwise). `usedRole` counts the legs of a role, so no two have
  one name, and a directory is wiped before its first leg is written and not again, whether the wipe
  failed or not (`OnDisk`).

The other assumptions are the ASSUMEs of the modules: goroutines, requests, resources are distinct, nil
is none of the objects, a call has one owner, reserved IDs are not test names, a resource hangs off one
its test created before (`SidsAssumption` of `Managed`), bounds are naturals. TLC evaluates them in
every run of these modules.

The attempts at these proofs corrected the models. A second socket of a call that another socket's
frames have bound to the placeholder is served there too, so `SocketSureRouting` did not hold for two sockets,
where the run has one: the property now says so, TLC was run with two, and the theorem is for any number. `LegsKept` and
`LeaksHaveCause` needed to have said which names and SIDs the tests may choose.

Only model-checked: the liveness properties (`HangupReturns`, `EndStopsMedia`, `EveryCallEnds`, `BoundedByTotal`, `PromptWhenEnded`, `CancelledCallsEnd`, `StopEnds`,
`ReadersReleased`), since fairness and ENABLED are outside the prover's reach, and the
counterexamples of `wait`, `appws_writes` and `suite_calls`, which are one behaviour each.

## 5. Not modelled

* SendRefer, whose subscription diago keeps, HangupWithHeaders in the message record, the RTP
  statistics, header and SDP accessors: one SIP exchange or one read each.
* SendWSText, SendWSBinary: one write under a lock.
* Payloads, JSON, logging, audio samples: no property depends on them.
* Lists, reads and updates of the REST wrappers: one request each, nothing kept.
* Tunnel, DNS responder (it answers each query from a fixed map), TLS, configuration, schema
  validation (a cache under one lock), text normalisation and the probe command: a parser, a
  lookup, or a call of a library.

## 6. Plan

Done, in this order: the call leg and its proofs, WaitState, the drain, the stack, the webhook
server and its proofs, the two sockets, the suite account, the archiver, DTMF, the prompt cache;
then the abstract call and drain with the proofs that `Call` and `Drain` implement them, the
message observer, cancellable INVITEs in `Stack` with its proofs, managed resources and
transcription; then the proofs of the remaining safety properties of all modules.

Next:

1. Theorems that join components: that the stack, with `Drain` in place of its abstraction, keeps
   `OnlyLateCallsUndrained`; that `CallWait` keeps the invariants of `Call`.
2. HangupWithHeaders as a send of `Observer` that ends the call.
3. The chunk walk of `readTelephonyWAV` against the files `writeTelephonyWAV` and the archiver
   write.
