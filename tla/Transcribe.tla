----------------------------- MODULE Transcribe -----------------------------
(***************************************************************************)
(* stt.Transcribe and TranscribeMulawWAV (internal/stt/deepgram.go): a     *)
(* recording is uploaded to Deepgram, which may answer, fail or hang.      *)
(* Each attempt has a deadline of its own under that of the caller, and    *)
(* one that fails for a transient reason is made once more.  Time is       *)
(* counted in transcribeAttemptTimeouts.                                   *)
(***************************************************************************)
EXTENDS Naturals

CONSTANTS Uploaders, \* the tests that transcribe a recording
          MaxBudget  \* bound on what is left of a test's context

ASSUME BudgetAssumption == MaxBudget \in Nat \ {0}

Attempts == 2

VARIABLES
  stt,     \* each test's Transcribe
  tries,   \* attempts made
  budget,  \* what was left of the caller's context when Transcribe was called
  spent,   \* time it took
  fatal    \* an attempt failed for good, or the answer held no transcript

sttVars == <<stt, tries, budget, spent, fatal>>

SttTypeOK ==
  /\ stt \in [Uploaders -> {"idle", "attempt", "ok", "failed", "skipped"}]
  /\ tries \in [Uploaders -> 0..Attempts]
  /\ budget \in [Uploaders -> 0..MaxBudget]
  /\ spent \in [Uploaders -> 0..MaxBudget]
  /\ fatal \in [Uploaders -> BOOLEAN]

SttInit ==
  /\ stt = [t \in Uploaders |-> "idle"]
  /\ tries = [t \in Uploaders |-> 0]
  /\ budget = [t \in Uploaders |-> 0]
  /\ spent = [t \in Uploaders |-> 0]
  /\ fatal = [t \in Uploaders |-> FALSE]

\* Without a key there is nothing to do (ErrNoCredentials).
BeginTranscribe(t) ==
  /\ stt[t] = "idle"
  /\ \/ /\ stt' = [stt EXCEPT ![t] = "attempt"]
        /\ \E b \in 1..MaxBudget : budget' = [budget EXCEPT ![t] = b]
     \/ /\ stt' = [stt EXCEPT ![t] = "skipped"]
        /\ UNCHANGED budget
  /\ UNCHANGED <<tries, spent, fatal>>

\* The answer holds a transcript, or no channel or alternative.
FromFileAnswers(t) ==
  /\ stt[t] = "attempt"
  /\ \E ok \in BOOLEAN :
       /\ stt' = [stt EXCEPT ![t] = IF ok THEN "ok" ELSE "failed"]
       /\ fatal' = [fatal EXCEPT ![t] = ~ok]
  /\ tries' = [tries EXCEPT ![t] = @ + 1]
  /\ UNCHANGED <<budget, spent>>

\* Mutant: an attempt has the whole time of its caller.
ParentDeadline(t) == budget[t] - spent[t]

\* The deadline of an attempt: its own, under the caller's.
AttemptDeadline(t) == IF budget[t] > spent[t] THEN 1 ELSE 0

\* isRetryableTranscribeErr, a context still alive and an attempt left.
Retries(t, retryable) ==
  retryable /\ spent'[t] < budget[t] /\ tries'[t] < Attempts

\* The attempt fails at once, for a transient reason or for good, or it hangs until
\* its deadline.
FromFileFails(t) ==
  /\ stt[t] = "attempt"
  /\ tries' = [tries EXCEPT ![t] = @ + 1]
  /\ \E retryable, hangs \in BOOLEAN :
       /\ hangs => retryable
       /\ spent' = [spent EXCEPT ![t] = IF hangs THEN @ + AttemptDeadline(t) ELSE @]
       /\ fatal' = [fatal EXCEPT ![t] = ~retryable]
       /\ stt' = [stt EXCEPT ![t] = IF Retries(t, retryable) THEN "attempt" ELSE "failed"]
  /\ UNCHANGED budget

SttStep(t) == BeginTranscribe(t) \/ FromFileAnswers(t) \/ FromFileFails(t)

-----------------------------------------------------------------------------

\* A sick connection costs a test no more than two attempt timeouts, however much
\* time it has, and a test with time for two attempts fails for transient errors
\* only if both met one (transcribeWithRetry: "the smallest fix that protects the
\* suite").
OneHangForgiven ==
  \A t \in Uploaders :
    /\ spent[t] <= Attempts
    /\ stt[t] = "failed" /\ ~fatal[t] /\ budget[t] >= Attempts => tries[t] = Attempts
=============================================================================
