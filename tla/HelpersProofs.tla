---------------------------- MODULE HelpersProofs ---------------------------
(* Theorems about the helpers of the tests, for any tests, resources,      *)
(* users, legs and uploads.                                                *)
EXTENDS Helpers, FiniteSetTheorems, TLAPS

-----------------------------------------------------------------------------
(* Transcribe.                                                             *)

(* A running Transcribe has an attempt left; it spends at most one timeout *)
(* on each; one that failed for a transient reason has run out of attempts *)
(* or of time.                                                             *)
SttInv ==
  /\ SttTypeOK
  /\ \A t \in Uploaders :
       /\ spent[t] <= tries[t]
       /\ stt[t] = "idle" => tries[t] = 0
       /\ stt[t] = "attempt" => tries[t] < Attempts
       /\ spent[t] <= budget[t]
       /\ stt[t] = "failed" /\ ~fatal[t] =>
            tries[t] = Attempts \/ spent[t] = budget[t]

\* Every step of a transcription keeps its invariant.
LEMMA SttStepInv ==
  ASSUME SttInv, NEW u \in Uploaders, SttStep(u)
  PROVE  SttInv'
  <1> USE BudgetAssumption DEF Attempts
  <1>0. SttTypeOK
    BY DEF SttInv
  <1>1. CASE BeginTranscribe(u)
    BY <1>0, <1>1 DEF BeginTranscribe, SttInv, SttTypeOK
  <1>2. CASE FromFileAnswers(u)
    <2>1. PICK ok \in BOOLEAN :
            /\ stt' = [stt EXCEPT ![u] = IF ok THEN "ok" ELSE "failed"]
            /\ fatal' = [fatal EXCEPT ![u] = ~ok]
      BY <1>2 DEF FromFileAnswers
    <2>2. /\ tries' = [tries EXCEPT ![u] = @ + 1]
          /\ budget' = budget /\ spent' = spent /\ stt[u] = "attempt"
      BY <1>2 DEF FromFileAnswers
    <2>3. SttTypeOK'
      BY <1>0, <2>1, <2>2 DEF SttInv, SttTypeOK
    <2>4. stt'[u] \in {"ok", "failed"} /\ (stt'[u] = "failed" => fatal'[u])
      BY <1>0, <2>1 DEF SttTypeOK
    <2>5. \A t \in Uploaders \ {u} : stt'[t] = stt[t] /\ fatal'[t] = fatal[t]
      BY <1>0, <2>1 DEF SttTypeOK
    <2> QED
      BY <1>0, <2>2, <2>3, <2>4, <2>5 DEF SttInv, SttTypeOK
  <1>3. CASE FromFileFails(u)
    <2>1. PICK retryable \in BOOLEAN, hangs \in BOOLEAN :
            /\ hangs => retryable
            /\ spent' = [spent EXCEPT ![u] = IF hangs THEN @ + AttemptDeadline(u) ELSE @]
            /\ fatal' = [fatal EXCEPT ![u] = ~retryable]
            /\ stt' = [stt EXCEPT ![u] = IF Retries(u, retryable) THEN "attempt"
                                                                 ELSE "failed"]
      BY <1>3 DEF FromFileFails
    <2>2. /\ tries' = [tries EXCEPT ![u] = @ + 1]
          /\ budget' = budget /\ stt[u] = "attempt"
      BY <1>3 DEF FromFileFails
    <2>3. /\ tries'[u] = tries[u] + 1 /\ tries[u] \in 0..1
          /\ spent[u] <= tries[u] /\ spent[u] <= budget[u]
          /\ spent[u] \in 0..MaxBudget /\ budget[u] \in 0..MaxBudget
      BY <1>0, <2>2 DEF SttInv, SttTypeOK
    <2>4. spent'[u] = IF hangs THEN spent[u] + AttemptDeadline(u) ELSE spent[u]
      BY <1>0, <2>1 DEF SttTypeOK
    <2>5. /\ spent'[u] \in 0..MaxBudget
          /\ spent'[u] <= tries'[u] /\ spent'[u] <= budget[u]
      BY <2>3, <2>4 DEF AttemptDeadline
    <2>6. \/ stt'[u] = "attempt" /\ tries'[u] < Attempts
          \/ stt'[u] = "failed" /\ fatal'[u]
          \/ /\ stt'[u] = "failed"
             /\ tries'[u] = Attempts \/ spent'[u] = budget[u]
      <3>1. CASE Retries(u, retryable)
        BY <1>0, <2>1, <3>1 DEF SttTypeOK, Retries
      <3>2. CASE ~retryable
        BY <1>0, <2>1, <3>2 DEF SttTypeOK, Retries
      <3>3. CASE retryable /\ ~Retries(u, retryable)
        <4>1. stt'[u] = "failed"
          BY <1>0, <2>1, <3>3 DEF SttTypeOK
        <4>2. ~(spent'[u] < budget[u]) \/ ~(tries'[u] < Attempts)
          BY <3>3 DEF Retries
        <4> QED
          BY <2>3, <2>5, <4>1, <4>2
      <3> QED
        BY <3>1, <3>2, <3>3
    <2>7. \A t \in Uploaders \ {u} :
            stt'[t] = stt[t] /\ fatal'[t] = fatal[t] /\ spent'[t] = spent[t]
      BY <1>0, <2>1 DEF SttTypeOK
    <2>8. SttTypeOK'
      <3>1. stt' \in [Uploaders -> {"idle", "attempt", "ok", "failed", "skipped"}]
        BY <1>0, <2>1 DEF SttTypeOK
      <3>2. fatal' \in [Uploaders -> BOOLEAN]
        BY <1>0, <2>1 DEF SttTypeOK
      <3>3. spent' \in [Uploaders -> 0..MaxBudget]
        BY <1>0, <2>1, <2>5 DEF SttTypeOK
      <3>4. tries' \in [Uploaders -> 0..Attempts]
        BY <1>0, <2>2, <2>3 DEF SttTypeOK
      <3> QED
        BY <1>0, <2>2, <3>1, <3>2, <3>3, <3>4 DEF SttTypeOK
    <2>9. \A t \in Uploaders \ {u} : tries'[t] = tries[t]
      BY <1>0, <2>2 DEF SttTypeOK
    <2> QED
      BY <2>2, <2>5, <2>6, <2>7, <2>8, <2>9 DEF SttInv
  <1> QED
    BY <1>1, <1>2, <1>3 DEF SttStep

\* A hanging connection costs a test two timeouts and no more, and a test with
\* time for two attempts makes both before it gives up on transient errors, for
\* any budget and any number of tests (transcribeWithRetry).
THEOREM HangForgiven == Spec => []OneHangForgiven
  <1>1. Init => SttInv
    BY BudgetAssumption DEF Init, SttInit, SttInv, SttTypeOK, Attempts
  <1>2. SttInv /\ [Next]_vars => SttInv'
    <2> SUFFICES ASSUME SttInv, [Next]_vars PROVE SttInv'
      OBVIOUS
    <2>1. CASE Listen
      BY <2>1, SttStepInv DEF Listen
    <2>2. CASE UNCHANGED sttVars
      BY <2>2 DEF sttVars, SttInv, SttTypeOK
    <2> QED
      BY <2>1, <2>2 DEF Next, Provision, Speak, Record, Press, vars
  <1>3. SttInv => OneHangForgiven
    BY BudgetAssumption DEF SttInv, SttTypeOK, OneHangForgiven, Attempts
  <1> QED
    BY <1>1, <1>2, <1>3, PTL DEF Spec

-----------------------------------------------------------------------------
(* Fixture.                                                                *)

(* Who has written is a writer, and one that returned has written all.     *)
Wrote(u) ==
  off[u] >= 1 =>
    /\ prompt[u] \in {"write", "returned", "sent", "failed", "crashed"}
    /\ prompt[u] \in {"returned", "sent"} => off[u] = Length[u]

(* Once a file is there some writer truncated it last.  All that writer    *)
(* has written since is in the file, the header first, its own or that of  *)
(* a writer that began later.                                              *)
LastWriter(w) ==
  /\ prompt[w] \in {"write", "returned", "sent", "failed", "crashed"}
  /\ off[w] >= 1 => file # << >> /\ file[1] \in Users
  /\ prompt[w] \in {"returned", "sent"} => off[w] >= 1

(* The writer of the header wrote it after the last truncation, and so all *)
(* it has written since is there; the last segment is where its writer is. *)
HeaderKept ==
  file # << >> /\ file[1] \in Users =>
    /\ off[file[1]] >= 1 /\ off[file[1]] <= Len(file)
    /\ \A n \in 1..off[file[1]] : file[n] # Hole
LastKept ==
  file # << >> =>
    /\ file[Len(file)] \in Users /\ off[file[Len(file)]] = Len(file)

PromptInv ==
  /\ PromptTypeOK
  /\ \A u \in Users : Wrote(u)
  /\ \A u \in Users : prompt[u] = "write" => file # Absent
  /\ file # Absent =>
       /\ \E w \in Users : LastWriter(w)
       /\ HeaderKept /\ LastKept

\* A write lengthens the file to its own end at most, sets its own segment and
\* keeps the others.
LEMMA WrittenFile ==
  ASSUME NEW u \in Users, file \in Seq(Users \cup {Hole}), off[u] \in Nat
  PROVE  /\ Written(u) \in Seq(Users \cup {Hole})
         /\ Len(Written(u)) = IF Len(file) > off[u] + 1 THEN Len(file) ELSE off[u] + 1
         /\ Written(u)[off[u] + 1] = u
         /\ \A n \in 1..Len(file) : n # off[u] + 1 => Written(u)[n] = file[n]
  <1> DEFINE j == off[u] + 1
             m == IF Len(file) > j THEN Len(file) ELSE j
             seg(n) == IF n = j THEN u ELSE IF n <= Len(file) THEN file[n] ELSE Hole
  <1>1. /\ Len(file) \in Nat /\ j \in Nat \ {0} /\ m \in Nat
        /\ j \in 1..m /\ 1..Len(file) \subseteq 1..m
    OBVIOUS
  <1>2. \A n \in 1..m : seg(n) \in Users \cup {Hole}
    <2> SUFFICES ASSUME NEW n \in 1..m PROVE seg(n) \in Users \cup {Hole}
      OBVIOUS
    <2>1. n <= Len(file) => file[n] \in Users \cup {Hole}
      BY <1>1
    <2> QED
      BY <2>1
  <1>3. Written(u) = [n \in 1..m |-> seg(n)]
    BY DEF Written
  <1> HIDE DEF m
  <1>4. Written(u) \in Seq(Users \cup {Hole}) /\ Len(Written(u)) = m
    BY <1>1, <1>2, <1>3
  <1>5. /\ Written(u)[j] = u
        /\ \A n \in 1..Len(file) : n # j => Written(u)[n] = file[n]
    BY <1>1, <1>3
  <1> QED
    BY <1>4, <1>5 DEF m

\* A write keeps the header's samples and ends the file where its writer is.
LEMMA WriteKeeps ==
  ASSUME PromptInv, NEW u \in Users, WriteSegment(u)
  PROVE  /\ file # Absent /\ file' # Absent /\ PromptTypeOK'
         /\ file' # << >>
         /\ file[1] \in Users /\ file # << >> => file'[1] \in Users
         /\ HeaderKept' /\ LastKept'
         /\ \A w \in Users : off'[w] = IF w = u THEN off[w] + 1 ELSE off[w]
         /\ off[u] = 0 => file'[1] = u
  <1>1. /\ file' = Written(u) /\ off' = [off EXCEPT ![u] = @ + 1]
        /\ prompt' = prompt /\ read' = read
        /\ prompt[u] = "write" /\ off[u] < Length[u]
    BY DEF WriteSegment, More
  <1>2. /\ off \in [Users -> Nat] /\ off[u] \in Nat /\ Length[u] \in Nat
        /\ PromptTypeOK
    BY LengthAssumption DEF PromptInv, PromptTypeOK
  <1>3. file # Absent /\ HeaderKept /\ LastKept
    BY <1>1 DEF PromptInv
  <1>4. file \in Seq(Users \cup {Hole}) /\ Len(file) \in Nat
    BY <1>2, <1>3 DEF PromptTypeOK
  <1> DEFINE j == off[u] + 1
  <1>5. /\ file' \in Seq(Users \cup {Hole})
        /\ Len(file') = IF Len(file) > j THEN Len(file) ELSE j
        /\ file'[j] = u
        /\ \A n \in 1..Len(file) : n # j => file'[n] = file[n]
    BY <1>1, <1>2, <1>4, WrittenFile
  <1>6. \A w \in Users : off'[w] = IF w = u THEN off[w] + 1 ELSE off[w]
    BY <1>1, <1>2
  <1>7. PromptTypeOK'
    BY <1>1, <1>2, <1>5 DEF PromptTypeOK
  <1>8. file' # Absent
    BY <1>5, MarksAssumption
  <1>9. j \in Nat /\ j >= 1 /\ off'[u] = j
    BY <1>2, <1>6
  <1> HIDE DEF j
  <1>10. Len(file') \in Nat /\ Len(file') >= 1 /\ file' # << >>
    BY <1>4, <1>5, <1>9
  <1>11. file # << >> => Len(file) >= 1
    BY <1>4
  <1>12. HeaderKept'
    <2> SUFFICES ASSUME file'[1] \in Users
                 PROVE  /\ off'[file'[1]] >= 1 /\ off'[file'[1]] <= Len(file')
                        /\ \A n \in 1..off'[file'[1]] : file'[n] # Hole
      BY DEF HeaderKept
    <2>1. CASE j = 1
      <3>1. file'[1] = u /\ off'[u] = 1 /\ u # Hole
        BY <1>5, <1>9, <2>1, MarksAssumption
      <3> QED
        BY <1>10, <3>1
    <2>2. CASE j # 1
      <3>1. file # << >>
        <4> SUFFICES ASSUME file = << >> PROVE FALSE
          OBVIOUS
        <4>1. Len(file) = 0
          OBVIOUS
        <4>2. file'[1] = Hole
          BY <1>1, <1>9, <2>2, <4>1 DEF Written, j
        <4> QED
          BY <4>2, MarksAssumption
      <3>2. 1 \in 1..Len(file) /\ file'[1] = file[1] /\ file[1] \in Users
        BY <1>4, <1>5, <1>11, <2>2, <3>1
      <3>3. /\ off[file[1]] >= 1 /\ off[file[1]] <= Len(file)
            /\ \A n \in 1..off[file[1]] : file[n] # Hole
        BY <1>3, <3>1, <3>2 DEF HeaderKept
      <3>4. off[file[1]] \in Nat
        BY <1>2, <3>2
      <3>5. \A n \in 1..off[file[1]] : n \in 1..Len(file) /\ file'[n] # Hole
        BY <1>4, <1>5, <3>3, <3>4, MarksAssumption
      <3>6. CASE file[1] = u
        <4>1. off'[file'[1]] = j /\ j = off[file[1]] + 1
          BY <1>9, <3>2, <3>6 DEF j
        <4>2. \A n \in 1..j : n \in 1..off[file[1]] \/ n = j
          BY <1>9, <3>4, <4>1
        <4>3. j <= Len(file')
          BY <1>4, <1>5, <1>9
        <4> QED
          BY <1>5, <1>9, <3>5, <4>1, <4>2, <4>3, MarksAssumption
      <3>7. CASE file[1] # u
        <4>1. off'[file'[1]] = off[file[1]]
          BY <1>6, <3>2, <3>7
        <4>2. Len(file) <= Len(file')
          BY <1>4, <1>5, <1>9
        <4> QED
          BY <1>4, <1>10, <3>3, <3>4, <3>5, <4>1, <4>2
      <3> QED
        BY <3>6, <3>7
    <2> QED
      BY <2>1, <2>2
  <1>13. LastKept'
    <2>1. CASE Len(file) > j
      <3>1. /\ Len(file') = Len(file) /\ file # << >>
            /\ Len(file) \in 1..Len(file) /\ Len(file) # j
        BY <1>4, <1>5, <1>9, <2>1
      <3>2. file'[Len(file')] = file[Len(file)]
        BY <1>5, <3>1
      <3>3. file[Len(file)] \in Users /\ off[file[Len(file)]] = Len(file)
        BY <1>3, <3>1 DEF LastKept
      <3>4. file[Len(file)] # u
        BY <1>2, <1>4, <2>1, <3>3, <1>5, <1>9 DEF j
      <3> QED
        BY <1>6, <3>1, <3>2, <3>3, <3>4 DEF LastKept
    <2>2. CASE ~(Len(file) > j)
      BY <1>5, <1>9, <2>2 DEF LastKept
    <2> QED
      BY <2>1, <2>2
  <1>14. ASSUME file[1] \in Users, file # << >> PROVE file'[1] \in Users
    <2>1. 1 \in 1..Len(file)
      BY <1>4, <1>11, <1>14
    <2> QED
      BY <1>5, <1>14, <2>1
  <1>15. off[u] = 0 => file'[1] = u
    BY <1>5 DEF j
  <1> QED
    BY <1>3, <1>6, <1>7, <1>8, <1>10, <1>12, <1>13, <1>14, <1>15

\* Every step of a user of the cache keeps its invariant.
LEMMA PromptStepInv ==
  ASSUME PromptInv, NEW u \in Users, PromptStep(u)
  PROVE  PromptInv'
  <1>0. /\ PromptTypeOK /\ \A v \in Users : Wrote(v)
        /\ \A v \in Users : Length[v] \in Nat /\ Length[v] >= 2
    BY LengthAssumption DEF PromptInv
  <1>1. CASE EnsureWAV(u) \/ Stat(u) \/ FetchLPCM(u)
    <2>1. /\ file' = file /\ off' = off /\ read' = read
          /\ prompt[u] \in {"idle", "stat", "fetch"}
          /\ \E p \in {"stat", "returned", "fetch", "open", "failed"} :
                prompt' = [prompt EXCEPT ![u] = p]
      BY <1>1 DEF EnsureWAV, Stat, FetchLPCM, PromptGoto
    <2>2. PromptTypeOK'
      BY <1>0, <2>1 DEF PromptTypeOK
    <2>3. \A w \in Users : LastWriter(w) => w # u /\ LastWriter(w)'
      BY <1>0, <2>1 DEF LastWriter, PromptTypeOK
    <2>4. \A v \in Users : Wrote(v)'
      BY <1>0, <2>1 DEF Wrote, PromptTypeOK
    <2>5. (HeaderKept => HeaderKept') /\ (LastKept => LastKept')
      BY <2>1 DEF HeaderKept, LastKept
    <2>6. \A v \in Users : prompt'[v] = "write" => prompt[v] = "write"
      BY <1>0, <2>1 DEF PromptTypeOK
    <2> QED
      BY <2>1, <2>2, <2>3, <2>4, <2>5, <2>6 DEF PromptInv
  <1>2. CASE Truncate(u)
    <2>1. /\ file' = << >> /\ off' = [off EXCEPT ![u] = 0] /\ read' = read
          /\ prompt' = [prompt EXCEPT ![u] = "write"]
      BY <1>2 DEF Truncate, PromptGoto
    <2>2. PromptTypeOK'
      BY <1>0, <2>1 DEF PromptTypeOK
    <2>3. LastWriter(u)'
      BY <1>0, <2>1 DEF LastWriter, PromptTypeOK
    <2>4. file' # Absent
      <3>1. << >> \in Seq(Users \cup {Hole})
        OBVIOUS
      <3> QED
        BY <2>1, <3>1, MarksAssumption
    <2>5. \A v \in Users : Wrote(v)'
      BY <1>0, <2>1 DEF Wrote, PromptTypeOK
    <2>6. HeaderKept' /\ LastKept'
      BY <2>1 DEF HeaderKept, LastKept
    <2> QED
      BY <2>2, <2>3, <2>4, <2>5, <2>6 DEF PromptInv
  <1>3. CASE WriteSegment(u)
    <2>1. /\ prompt' = prompt /\ prompt[u] = "write"
      BY <1>3 DEF WriteSegment
    <2>2. /\ file # Absent /\ file' # Absent /\ PromptTypeOK'
          /\ file' # << >>
          /\ file[1] \in Users /\ file # << >> => file'[1] \in Users
          /\ HeaderKept' /\ LastKept'
          /\ \A w \in Users : off'[w] = IF w = u THEN off[w] + 1 ELSE off[w]
          /\ off[u] = 0 => file'[1] = u
      BY <1>3, WriteKeeps
    <2>3. off \in [Users -> Nat]
      BY <1>0 DEF PromptTypeOK
    <2>4. \A v \in Users : Wrote(v)'
      BY <1>0, <2>1, <2>2, <2>3 DEF Wrote
    <2>5. ASSUME NEW w \in Users, LastWriter(w) PROVE LastWriter(w)'
      <3>1. off'[w] >= 1 => file'[1] \in Users
        <4>1. CASE off[w] >= 1
          BY <2>2, <2>5, <4>1 DEF LastWriter
        <4>2. CASE ~(off[w] >= 1)
          BY <2>2, <2>3, <4>2
        <4> QED
          BY <4>1, <4>2
      <3>2. off'[w] >= off[w]
        BY <2>2, <2>3
      <3>3. off'[w] \in Nat /\ off[w] \in Nat
        BY <2>2, <2>3
      <3> QED
        BY <2>1, <2>2, <2>5, <3>1, <3>2, <3>3 DEF LastWriter
    <2> QED
      BY <2>1, <2>2, <2>4, <2>5 DEF PromptInv
  <1>4. CASE WriteReturns(u) \/ WriteFails(u) \/ Crash(u) \/ SendWAV(u)
    <2>1. /\ file' = file /\ off' = off
          /\ \E p \in {"returned", "failed", "crashed", "sent"} :
                /\ prompt' = [prompt EXCEPT ![u] = p]
                /\ p = "returned" => prompt[u] = "write" /\ ~More(u)
                /\ p = "sent" => prompt[u] = "returned"
      BY <1>4 DEF WriteReturns, WriteFails, Crash, SendWAV, PromptGoto
    <2>2. read' \in [Users -> {"none", "ok", "error", "panic"}]
      BY <1>0, <1>4 DEF WriteReturns, WriteFails, Crash, SendWAV, Reads, PromptTypeOK
    <2>3. PromptTypeOK'
      BY <1>0, <2>1, <2>2 DEF PromptTypeOK
    <2>4. \A w \in Users : LastWriter(w) => LastWriter(w)'
      BY <1>0, <2>1 DEF LastWriter, PromptTypeOK, More
    <2>5. \A v \in Users : Wrote(v)'
      BY <1>0, <2>1 DEF Wrote, PromptTypeOK, More
    <2>6. (HeaderKept => HeaderKept') /\ (LastKept => LastKept')
      BY <2>1 DEF HeaderKept, LastKept
    <2>7. \A v \in Users : prompt'[v] = "write" => prompt[v] = "write"
      BY <1>0, <2>1 DEF PromptTypeOK
    <2> QED
      BY <2>1, <2>3, <2>4, <2>5, <2>6, <2>7 DEF PromptInv
  <1> QED
    BY <1>1, <1>2, <1>3, <1>4 DEF PromptStep

\* Whatever number of tests fetch one text at once, however long their answers and
\* however their writes overlap, the file they leave has a header and all the
\* samples it announces, if none of them failed half-way.
THEOREM PromptsSettle == Spec => []SettledWhole
  <1>1. Init => PromptInv
    BY LengthAssumption DEF Init, PromptInit, PromptInv, PromptTypeOK, Wrote
  <1>2. PromptInv /\ [Next]_vars => PromptInv'
    <2> SUFFICES ASSUME PromptInv, [Next]_vars PROVE PromptInv'
      OBVIOUS
    <2>1. CASE Speak
      BY <2>1, PromptStepInv DEF Speak
    <2>2. CASE UNCHANGED promptVars
      BY <2>2 DEF promptVars, PromptInv, PromptTypeOK, LastWriter, Wrote, HeaderKept, LastKept
    <2> QED
      BY <2>1, <2>2 DEF Next, Provision, Listen, Record, Press, vars
  <1>3. PromptInv => SettledWhole
    <2> SUFFICES ASSUME PromptInv, file # Absent, Settled
                 PROVE  /\ file # << >> /\ file[1] \in Users
                        /\ Length[file[1]] <= Len(file)
                        /\ \A n \in 1..Length[file[1]] : file[n] # Hole
                        /\ file[Len(file)] \in Users
                        /\ Length[file[Len(file)]] = Len(file)
      BY DEF SettledWhole
    <2>1. PICK w \in Users : LastWriter(w)
      BY DEF PromptInv
    <2>2. prompt[w] \in {"returned", "sent"}
      BY <2>1 DEF LastWriter, Settled
    <2>3. file # << >> /\ file[1] \in Users
      BY <2>1, <2>2 DEF LastWriter
    <2>4. \A v \in Users : off[v] >= 1 => off[v] = Length[v]
      BY DEF PromptInv, Wrote, Settled
    <2>5. HeaderKept /\ LastKept
      BY DEF PromptInv
    <2>6. off[file[1]] = Length[file[1]]
      BY <2>3, <2>4, <2>5 DEF HeaderKept
    <2>7. file \in Seq(Users \cup {Hole}) /\ Len(file) >= 1
      BY <2>3 DEF PromptInv, PromptTypeOK
    <2>8. file[Len(file)] \in Users /\ off[file[Len(file)]] = Len(file)
      BY <2>3, <2>5 DEF LastKept
    <2> QED
      BY <2>3, <2>4, <2>5, <2>6, <2>7, <2>8 DEF HeaderKept
  <1> QED
    BY <1>1, <1>2, <1>3, PTL DEF Spec

-----------------------------------------------------------------------------
(* Managed.                                                                *)

(* The cleanups of a test are a prefix of its plan: all it has created     *)
(* until it starts to clean up, and none when it has ended.                *)
CleanupsArePrefix ==
  \A t \in Tests :
    /\ made[t] <= Len(Plan[t])
    /\ Len(cleanups[t]) <= made[t]
    /\ \A i \in 1..Len(cleanups[t]) : cleanups[t][i] = Plan[t][i]
    /\ test[t] \in {"creating", "body"} => Len(cleanups[t]) = made[t]
    /\ test[t] = "ended" => cleanups[t] = << >>

(* What exists was created by a test.                                      *)
Planned == \A r \in server : \E t \in Tests : \E i \in 1..Len(Plan[t]) : r = Plan[t][i]

(* A resource that no cleanup is left for does not exist, had a request go *)
(* wrong, or is in use.                                                    *)
Accounted ==
  \A t \in Tests : \A i \in 1..Len(Plan[t]) :
    i > Len(cleanups[t]) /\ Plan[t][i] \in server =>
      Plan[t][i] \in lost \/ Dependents(Plan[t][i]) # {}

ManagedInv == ManagedTypeOK /\ CleanupsArePrefix /\ Planned /\ Accounted

\* The types of a plan.
LEMMA PlanType ==
  ASSUME NEW t \in Tests
  PROVE  /\ Plan[t] \in Seq(Resources) /\ Len(Plan[t]) \in Nat
         /\ \A i \in 1..Len(Plan[t]) : Plan[t][i] \in Resources
  BY PlanAssumption

\* Deleting a resource whose cleanup is still to run takes away nothing that
\* hangs off a resource without one: that was created later by the same test,
\* and its own cleanup has run.
LEMMA DeleteSpares ==
  ASSUME ManagedInv, NEW t \in Tests, NEW k \in 1..Len(cleanups[t]),
         NEW u \in Tests, NEW i \in 1..Len(Plan[u]), i > Len(cleanups[u]),
         NEW d \in Dependents(Plan[u][i])
  PROVE  d \in AfterDelete(cleanups[t][k])
  <1> DEFINE r == cleanups[t][k]
  <1>1. d \in server /\ Parent[d] = Plan[u][i] /\ d # Plan[u][i]
    BY DEF Dependents
  <1>a. PICK v \in Tests : \E j \in 1..Len(Plan[v]) : d = Plan[v][j]
    BY <1>1 DEF ManagedInv, Planned
  <1>2. PICK j \in 1..Len(Plan[v]) : d = Plan[v][j]
    BY <1>a
  <1>3. v = u /\ i <= j
    BY <1>1, <1>2, SidsAssumption
  <1>4. /\ r = Plan[t][k] /\ k \in 1..Len(Plan[t])
        /\ Len(cleanups[t]) \in Nat /\ Len(cleanups[u]) \in Nat
    BY PlanType, SMTT(30) DEF ManagedInv, ManagedTypeOK, CleanupsArePrefix
  <1>5. d # r
    <2> SUFFICES ASSUME d = r PROVE FALSE
      OBVIOUS
    <2>0. Plan[u][j] = Plan[t][k] /\ j \in 1..Len(Plan[u])
      BY <1>2, <1>3, <1>4
    <2>1. u = t /\ j = k
      BY <1>4, <2>0, SidsAssumption
    <2> QED
      BY <1>3, <1>4, <2>1, PlanType
  <1>6. Parent[d] # r
    <2> SUFFICES ASSUME Parent[d] = r PROVE FALSE
      OBVIOUS
    <2>0. Plan[u][i] = Plan[t][k]
      BY <1>1, <1>4
    <2>1. u = t /\ i = k
      BY <1>4, <2>0, SidsAssumption
    <2> QED
      BY <1>4, <2>1, PlanType
  <1> QED
    BY <1>1, <1>5, <1>6 DEF AfterDelete, Dependents

\* A deletion that leaves no cleanup behind keeps the account of resources.
LEMMA DeleteAccounted ==
  ASSUME ManagedInv, NEW t \in Tests, NEW k \in 1..Len(cleanups[t]),
         server' \in {server, AfterDelete(cleanups[t][k])},
         NEW u \in Tests, NEW i \in 1..Len(Plan[u]), i > Len(cleanups[u]),
         lost \subseteq lost', Plan[u][i] \in server'
  PROVE  Plan[u][i] \in lost' \/ Dependents(Plan[u][i])' # {}
  <1>1. Plan[u][i] \in server
    BY DEF AfterDelete
  <1>2. CASE Plan[u][i] \in lost
    BY <1>2
  <1>3. CASE Plan[u][i] \notin lost
    <2>1. PICK d : d \in Dependents(Plan[u][i])
      BY <1>1, <1>3 DEF ManagedInv, Accounted
    <2>2. d \in server'
      BY <2>1, DeleteSpares DEF Dependents
    <2> QED
      BY <2>1, <2>2 DEF Dependents
  <1> QED
    BY <1>2, <1>3

\* Every step of a test keeps the account of its resources.
LEMMA ManagedStepInv ==
  ASSUME ManagedInv, NEW t \in Tests, ManagedStep(t)
  PROVE  ManagedInv'
  <1>0. /\ ManagedTypeOK /\ CleanupsArePrefix /\ Planned /\ Accounted
        /\ \A u \in Tests : /\ cleanups[u] \in Seq(Resources)
                            /\ Len(cleanups[u]) \in Nat /\ made[u] \in Nat
    BY DEF ManagedInv, ManagedTypeOK
  <1>1. CASE Create(t)
    <2> DEFINE r == Plan[t][made[t] + 1]
    <2>1. /\ test[t] = "creating" /\ made[t] < Len(Plan[t])
          /\ server' = server \cup {r}
          /\ cleanups' = [cleanups EXCEPT ![t] = Append(@, r)]
          /\ made' = [made EXCEPT ![t] = @ + 1]
          /\ test' = test /\ lost' = lost
      BY <1>1 DEF Create
    <2>2. made[t] + 1 \in 1..Len(Plan[t]) /\ r \in Resources
      BY <1>0, <2>1, PlanType
    <2>3. Len(cleanups[t]) = made[t]
      BY <1>0, <2>1 DEF CleanupsArePrefix
    <2>4. ManagedTypeOK'
      BY <1>0, <2>1, <2>2 DEF ManagedTypeOK
    <2>5. /\ cleanups'[t] = Append(cleanups[t], r) /\ made'[t] = made[t] + 1
          /\ \A u \in Tests \ {t} : cleanups'[u] = cleanups[u] /\ made'[u] = made[u]
      BY <1>0, <2>1 DEF ManagedTypeOK
    <2>6. CleanupsArePrefix'
      <3> SUFFICES ASSUME NEW u \in Tests
                   PROVE  /\ made'[u] <= Len(Plan[u])
                          /\ Len(cleanups'[u]) <= made'[u]
                          /\ \A i \in 1..Len(cleanups'[u]) : cleanups'[u][i] = Plan[u][i]
                          /\ test'[u] \in {"creating", "body"} =>
                               Len(cleanups'[u]) = made'[u]
                          /\ test'[u] = "ended" => cleanups'[u] = << >>
        BY DEF CleanupsArePrefix
      <3>1. CASE u = t
        <4>1. /\ Len(cleanups'[t]) = made[t] + 1
              /\ \A i \in 1..made[t] : cleanups'[t][i] = cleanups[t][i]
              /\ cleanups'[t][made[t] + 1] = r
          BY <1>0, <2>2, <2>3, <2>5
        <4>2. \A i \in 1..made[t] : cleanups[t][i] = Plan[t][i]
          BY <1>0, <2>3 DEF CleanupsArePrefix
        <4>3. \A i \in 1..Len(cleanups'[t]) : cleanups'[t][i] = Plan[t][i]
          <5> SUFFICES ASSUME NEW i \in 1..Len(cleanups'[t])
                       PROVE  cleanups'[t][i] = Plan[t][i]
            OBVIOUS
          <5>1. i \in 1..made[t] \/ i = made[t] + 1
            BY <1>0, <4>1
          <5> QED
            BY <4>1, <4>2, <5>1
        <4> QED
          BY <1>0, <2>1, <2>2, <2>5, <3>1, <4>1, <4>3
      <3>2. CASE u # t
        BY <1>0, <2>1, <2>5, <3>2 DEF CleanupsArePrefix
      <3> QED
        BY <3>1, <3>2
    <2>7. Planned'
      BY <1>0, <2>1, <2>2 DEF Planned
    <2>8. Accounted'
      <3> SUFFICES ASSUME NEW u \in Tests, NEW i \in 1..Len(Plan[u]),
                          i > Len(cleanups'[u]), Plan[u][i] \in server'
                   PROVE  Plan[u][i] \in lost' \/ Dependents(Plan[u][i])' # {}
        BY DEF Accounted
      <3>1. i > Len(cleanups[u]) /\ (u = t => i > made[t] + 1)
        BY <1>0, <2>2, <2>3, <2>5, PlanType
      <3>2. Plan[u][i] # r
        BY <2>2, <3>1, SidsAssumption, PlanType, <1>0
      <3>3. Plan[u][i] \in lost \/ Dependents(Plan[u][i]) # {}
        BY <1>0, <2>1, <3>1, <3>2 DEF Accounted
      <3>4. Dependents(Plan[u][i]) \subseteq Dependents(Plan[u][i])'
        BY <2>1 DEF Dependents
      <3> QED
        BY <2>1, <3>3, <3>4
    <2> QED
      BY <2>4, <2>6, <2>7, <2>8 DEF ManagedInv
  <1>2. CASE CreateFails(t)
    <2> DEFINE r == Plan[t][made[t] + 1]
    <2>1. /\ test[t] = "creating" /\ made[t] < Len(Plan[t])
          /\ \/ server' = server /\ lost' = lost
             \/ server' = server \cup {r} /\ lost' = lost \cup {r}
          /\ test' = [test EXCEPT ![t] = "cleaning"]
          /\ made' = made /\ cleanups' = cleanups
      BY <1>2 DEF CreateFails
    <2>2. made[t] + 1 \in 1..Len(Plan[t]) /\ r \in Resources
      BY <1>0, <2>1, PlanType
    <2>3. ManagedTypeOK'
      BY <1>0, <2>1, <2>2 DEF ManagedTypeOK
    <2>4. CleanupsArePrefix'
      BY <1>0, <2>1 DEF CleanupsArePrefix, ManagedTypeOK
    <2>5. Planned'
      BY <1>0, <2>1, <2>2 DEF Planned
    <2>6. Accounted'
      <3> SUFFICES ASSUME NEW u \in Tests, NEW i \in 1..Len(Plan[u]),
                          i > Len(cleanups'[u]), Plan[u][i] \in server'
                   PROVE  Plan[u][i] \in lost' \/ Dependents(Plan[u][i])' # {}
        BY DEF Accounted
      <3>1. CASE Plan[u][i] \in server
        <4>1. Plan[u][i] \in lost \/ Dependents(Plan[u][i]) # {}
          BY <1>0, <2>1, <3>1 DEF Accounted
        <4>2. Dependents(Plan[u][i]) \subseteq Dependents(Plan[u][i])'
          BY <2>1 DEF Dependents
        <4> QED
          BY <2>1, <4>1, <4>2
      <3>2. CASE Plan[u][i] \notin server
        BY <2>1, <3>2
      <3> QED
        BY <3>1, <3>2
    <2> QED
      BY <2>3, <2>4, <2>5, <2>6 DEF ManagedInv
  <1>3. CASE Created(t) \/ EndBody(t) \/ EndTest(t)
    <2>1. /\ server' = server /\ lost' = lost /\ made' = made
          /\ cleanups' = cleanups
          /\ \E p \in {"body", "cleaning", "ended"} :
               /\ test' = [test EXCEPT ![t] = p]
               /\ p = "body" => test[t] = "creating"
               /\ p = "ended" => cleanups[t] = << >>
      BY <1>3 DEF Created, EndBody, EndTest
    <2>2. ManagedTypeOK'
      BY <1>0, <2>1 DEF ManagedTypeOK
    <2>3. CleanupsArePrefix'
      BY <1>0, <2>1 DEF CleanupsArePrefix, ManagedTypeOK
    <2>4. Planned' /\ Accounted'
      BY <1>0, <2>1 DEF Planned, Accounted, Dependents
    <2> QED
      BY <2>2, <2>3, <2>4 DEF ManagedInv
  <1>4. CASE DeleteInBody(t)
    <2>1. PICK r \in ToSet(cleanups[t]) : server' = AfterDelete(r)
      BY <1>4 DEF DeleteInBody
    <2>2. PICK k \in 1..Len(cleanups[t]) : r = cleanups[t][k]
      BY <1>0, <2>1 DEF ToSet
    <2>3. /\ test' = test /\ made' = made /\ cleanups' = cleanups /\ lost' = lost
      BY <1>4 DEF DeleteInBody
    <2>4. server' \subseteq server
      BY <2>1 DEF AfterDelete
    <2>5. ManagedTypeOK' /\ CleanupsArePrefix' /\ Planned'
      BY <1>0, <2>3, <2>4 DEF ManagedTypeOK, CleanupsArePrefix, Planned
    <2>6. Accounted'
      <3> SUFFICES ASSUME NEW u \in Tests, NEW i \in 1..Len(Plan[u]),
                          i > Len(cleanups'[u]), Plan[u][i] \in server'
                   PROVE  Plan[u][i] \in lost' \/ Dependents(Plan[u][i])' # {}
        BY DEF Accounted
      <3> QED
        BY <2>1, <2>2, <2>3, DeleteAccounted
    <2> QED
      BY <2>5, <2>6 DEF ManagedInv
  <1>5. CASE Cleanup(t)
    <2> DEFINE n == Len(cleanups[t])
               r == cleanups[t][n]
    <2>1. /\ test[t] = "cleaning" /\ cleanups[t] # << >>
          /\ \/ server' = AfterDelete(r) /\ lost' = lost
             \/ server' \in {server, AfterDelete(r)} /\ lost' = lost \cup {r}
          /\ cleanups' = [cleanups EXCEPT ![t] = RemoveAt(@, n)]
          /\ test' = test /\ made' = made
      BY <1>5 DEF Cleanup, Latest
    <2>2. n \in Nat \ {0} /\ n \in 1..n
      BY <1>0, <2>1
    <2>3. /\ cleanups'[t] \in Seq(Resources)
          /\ Len(cleanups'[t]) = n - 1
          /\ \A i \in 1..(n - 1) : cleanups'[t][i] = cleanups[t][i]
      <3>1. SubSeq(cleanups[t], n + 1, Len(cleanups[t])) = << >>
        BY <1>0, <2>2
      <3>2. cleanups'[t] = SubSeq(cleanups[t], 1, n - 1) \o << >>
        BY <1>0, <2>1, <3>1 DEF RemoveAt, ManagedTypeOK
      <3> QED
        BY <1>0, <2>2, <3>2
    <2>4. \A u \in Tests \ {t} : cleanups'[u] = cleanups[u]
      BY <1>0, <2>1 DEF ManagedTypeOK
    <2>5. r = Plan[t][n] /\ n \in 1..Len(Plan[t]) /\ r \in Resources
      BY <1>0, <2>2, PlanType DEF CleanupsArePrefix
    <2>6. server' \subseteq server /\ server' \in {server, AfterDelete(r)}
      BY <2>1 DEF AfterDelete
    <2>7. lost \subseteq lost' /\ lost' \subseteq lost \cup {r}
      BY <2>1
    <2>8. ManagedTypeOK'
      BY <1>0, <2>1, <2>3, <2>4, <2>5, <2>6, <2>7 DEF ManagedTypeOK
    <2>9. CleanupsArePrefix'
      BY <1>0, <2>1, <2>2, <2>3, <2>4, SMTT(30) DEF CleanupsArePrefix
    <2>10. Planned'
      BY <1>0, <2>6 DEF Planned
    <2>11. Accounted'
      <3> SUFFICES ASSUME NEW u \in Tests, NEW i \in 1..Len(Plan[u]),
                          i > Len(cleanups'[u]), Plan[u][i] \in server'
                   PROVE  Plan[u][i] \in lost' \/ Dependents(Plan[u][i])' # {}
        BY DEF Accounted
      <3>1. CASE i > Len(cleanups[u])
        BY <2>2, <2>6, <2>7, <3>1, DeleteAccounted
      <3>2. CASE ~(i > Len(cleanups[u]))
        <4>1. u = t /\ i = n
          BY <1>0, <2>2, <2>3, <2>4, <3>2, PlanType
        <4>2. r \in server' /\ Plan[u][i] = r
          BY <2>5, <4>1
        <4>3. CASE r \in lost'
          BY <4>2, <4>3
        <4>4. CASE r \notin lost'
          <5>1. server' = AfterDelete(r)
            BY <2>1, <4>4
          <5>2. Dependents(r) # {} /\ server' = server
            BY <4>2, <5>1 DEF AfterDelete
          <5> QED
            BY <4>2, <5>2 DEF Dependents
        <4> QED
          BY <4>3, <4>4
      <3> QED
        BY <3>1, <3>2
    <2> QED
      BY <2>8, <2>9, <2>10, <2>11 DEF ManagedInv
  <1> QED
    BY <1>1, <1>2, <1>3, <1>4, <1>5 DEF ManagedStep

\* What an ended test leaves at the server has a cause outside the test, for any
\* number of tests and resources, wherever a test fails and whatever it deletes
\* itself: last in, first out is the order in which nothing is in use any more.
THEOREM CleanupsSuffice == Spec => []LeaksHaveCause
  <1>1. Init => ManagedInv
    BY PlanType DEF Init, ManagedInit, ManagedInv, ManagedTypeOK, CleanupsArePrefix,
                    Planned, Accounted
  <1>2. ManagedInv /\ [Next]_vars => ManagedInv'
    <2> SUFFICES ASSUME ManagedInv, [Next]_vars PROVE ManagedInv'
      OBVIOUS
    <2>1. CASE Provision
      BY <2>1, ManagedStepInv DEF Provision
    <2>2. CASE UNCHANGED managedVars
      BY <2>2 DEF managedVars, ManagedInv, ManagedTypeOK, CleanupsArePrefix, Planned,
                  Accounted, Dependents
    <2> QED
      BY <2>1, <2>2 DEF Next, Speak, Listen, Record, Press, vars
  <1>3. ManagedInv => LeaksHaveCause
    <2> SUFFICES ASSUME ManagedInv, NEW t \in Tests, test[t] = "ended",
                        NEW r \in ToSet(Plan[t]), r \in server
                 PROVE  r \in lost \/ Dependents(r) # {}
      BY DEF LeaksHaveCause
    <2>1. PICK i \in 1..Len(Plan[t]) : r = Plan[t][i]
      BY PlanType DEF ToSet
    <2>2. Len(cleanups[t]) = 0
      BY DEF ManagedInv, CleanupsArePrefix
    <2> QED
      BY <2>1, <2>2, PlanType DEF ManagedInv, Accounted
  <1> QED
    BY <1>1, <1>2, <1>3, PTL DEF Spec

-----------------------------------------------------------------------------
(* Archive.                                                                *)

(* The legs that have passed reserve.                                      *)
Reserved == {"mkdir", "write", "written", "failed"}
Taken(t, r) == {l \in Legs : arch[l] \in Reserved /\ TestOf[l] = t /\ RoleOf[l] = r}

(* usedRole counts the legs of a test and role, and each has one of the    *)
(* names counted so far.                                                   *)
Counted ==
  /\ \A t \in Owners, r \in Roles : usedRole[<<t, r>>] = Cardinality(Taken(t, r))
  /\ \A l \in Legs : arch[l] \in Reserved =>
       /\ TestOf[l] \in clearedTest
       /\ \E n \in 0..Cardinality(Legs) :
            n < usedRole[<<TestOf[l], RoleOf[l]>>] /\ name[l] = Name(RoleOf[l], n)

(* No two legs of a test have one name.                                    *)
OwnNames ==
  \A l, m \in Legs :
    /\ l # m /\ TestOf[l] = TestOf[m]
    /\ arch[l] \in Reserved /\ arch[m] \in Reserved
    => name[l] # name[m]

(* A directory that was wiped holds nothing of an earlier run, and is not  *)
(* wiped again, whether the wipe failed or not.                            *)
OnDisk ==
  /\ \A l \in Legs : arch[l] \in {"write", "written"} => DirOf(l) \in exists
  /\ \A t \in clearedTest \ unwiped : \A n \in Names : disk[<<Dir[t], n>>] # Stale
  /\ \A l \in Legs : arch[l] = "written" => disk[<<DirOf(l), name[l]>>] = l
  /\ \A l \in Legs : arch[l] # "nodir"

ArchInv == ArchTypeOK /\ Counted /\ OwnNames /\ OnDisk

\* The constants of a leg.
LEMMA LegFacts ==
  ASSUME NEW l \in Legs
  PROVE  /\ TestOf[l] \in Owners /\ RoleOf[l] \in Roles /\ DirOf(l) \in Dirs
         /\ l # Stale /\ l # None
  BY LegsAssumption, StaleAssumption DEF Roles, Dirs, DirOf

\* Counting legs never exceeds their number.
LEMMA TakenFinite ==
  ASSUME NEW S \in SUBSET Legs
  PROVE  /\ IsFiniteSet(S) /\ Cardinality(S) \in Nat
         /\ Cardinality(Legs) \in Nat /\ Cardinality(S) <= Cardinality(Legs)
  BY LegsAssumption, FS_Subset, FS_CardinalityType

\* reserve counts one leg more.
LEMMA ReserveCounts ==
  ASSUME ArchInv, NEW l \in Legs, Reserve(l)
  PROVE  LET n == usedRole[<<TestOf[l], RoleOf[l]>>] IN
         /\ n \in Nat /\ n + 1 \in 0..Cardinality(Legs)
         /\ usedRole' \in [Owners \X Roles -> 0..Cardinality(Legs)]
         /\ usedRole'[<<TestOf[l], RoleOf[l]>>] = n + 1
         /\ \A t \in Owners, r \in Roles :
              /\ usedRole'[<<t, r>>] = Cardinality(Taken(t, r)')
              /\ usedRole[<<t, r>>] <= usedRole'[<<t, r>>]
  <1> DEFINE t0 == TestOf[l]
             r0 == RoleOf[l]
             n == usedRole[<<t0, r0>>]
  <1>1. /\ arch[l] = "reserve" /\ arch' = [arch EXCEPT ![l] = "mkdir"]
        /\ usedRole' = [usedRole EXCEPT ![<<t0, r0>>] = n + 1]
    BY DEF Reserve, ArchGoto
  <1>2. t0 \in Owners /\ r0 \in Roles /\ <<t0, r0>> \in Owners \X Roles
    BY LegFacts
  <1>3. usedRole \in [Owners \X Roles -> 0..Cardinality(Legs)]
    BY DEF ArchInv, ArchTypeOK
  <1>4. /\ arch' \in [Legs -> {"recording", "reserve", "mkdir", "write", "written",
                               "skipped", "failed", "nodir"}]
        /\ arch'[l] = "mkdir" /\ \A m \in Legs \ {l} : arch'[m] = arch[m]
    BY <1>1 DEF ArchInv, ArchTypeOK
  <1>5. Taken(t0, r0)' = Taken(t0, r0) \cup {l} /\ l \notin Taken(t0, r0)
    BY <1>1, <1>4 DEF Taken, Reserved
  <1>6. n = Cardinality(Taken(t0, r0))
    BY <1>2 DEF ArchInv, Counted
  <1>7. /\ Taken(t0, r0) \in SUBSET Legs /\ Taken(t0, r0)' \in SUBSET Legs
    BY DEF Taken
  <1>8. Cardinality(Taken(t0, r0)') = n + 1
    BY <1>5, <1>6, <1>7, TakenFinite, FS_AddElement
  <1>9. n \in Nat /\ n + 1 \in 0..Cardinality(Legs)
    BY <1>6, <1>7, <1>8, TakenFinite
  <1> HIDE DEF n
  <1>10. /\ usedRole' \in [Owners \X Roles -> 0..Cardinality(Legs)]
         /\ usedRole'[<<t0, r0>>] = n + 1
         /\ \A x \in Owners \X Roles : x # <<t0, r0>> => usedRole'[x] = usedRole[x]
    BY <1>1, <1>2, <1>3, <1>9
  <1>11. ASSUME NEW t \in Owners, NEW r \in Roles
         PROVE  /\ usedRole'[<<t, r>>] = Cardinality(Taken(t, r)')
                /\ usedRole[<<t, r>>] <= usedRole'[<<t, r>>]
    <2>1. CASE t = t0 /\ r = r0
      BY <1>8, <1>9, <1>10, <2>1 DEF n
    <2>2. CASE ~(t = t0 /\ r = r0)
      <3>1. <<t, r>> # <<t0, r0>> /\ <<t, r>> \in Owners \X Roles
        BY <2>2
      <3>2. usedRole'[<<t, r>>] = usedRole[<<t, r>>]
        BY <1>10, <3>1
      <3>3. Taken(t, r)' = Taken(t, r)
        BY <1>1, <1>4, <2>2 DEF Taken, Reserved
      <3>4. usedRole[<<t, r>>] = Cardinality(Taken(t, r))
        BY DEF ArchInv, Counted
      <3>5. usedRole[<<t, r>>] \in 0..Cardinality(Legs) /\ Cardinality(Legs) \in Nat
        BY <1>3, <3>1, TakenFinite
      <3> QED
        BY <3>2, <3>3, <3>4, <3>5
    <2> QED
      BY <2>1, <2>2
  <1> QED
    BY <1>9, <1>10, <1>11 DEF n

\* reserve keeps the invariant of the archive.
LEMMA ReserveInv ==
  ASSUME DistinctNames, ArchInv, NEW l \in Legs, Reserve(l)
  PROVE  ArchInv'
  <1> DEFINE t0 == TestOf[l]
             r0 == RoleOf[l]
             n0 == usedRole[<<t0, r0>>]
  <1>1. /\ arch[l] = "reserve" /\ arch' = [arch EXCEPT ![l] = "mkdir"]
        /\ name' = [name EXCEPT ![l] = Name(r0, n0)]
        /\ clearedTest' = clearedTest \cup {t0}
        /\ IF Wipes(t0) THEN RemoveAll(t0) ELSE UNCHANGED <<disk, exists, unwiped>>
    BY DEF Reserve, ArchGoto
  <1>2. ArchTypeOK /\ Counted /\ OwnNames /\ OnDisk
    BY DEF ArchInv
  <1>3. /\ n0 \in Nat /\ n0 + 1 \in 0..Cardinality(Legs)
        /\ usedRole' \in [Owners \X Roles -> 0..Cardinality(Legs)]
        /\ usedRole'[<<t0, r0>>] = n0 + 1
        /\ \A t \in Owners, r \in Roles :
             /\ usedRole'[<<t, r>>] = Cardinality(Taken(t, r)')
             /\ usedRole[<<t, r>>] <= usedRole'[<<t, r>>]
    BY ReserveCounts
  <1>4. t0 \in Owners /\ r0 \in Roles /\ DirOf(l) = Dir[t0] /\ Cardinality(Legs) \in Nat
    BY LegFacts, TakenFinite DEF DirOf
  <1>5. n0 \in 0..Cardinality(Legs) /\ Name(r0, n0) \in Names
    BY <1>3, <1>4 DEF Names
  <1>6. /\ arch'[l] = "mkdir" /\ name'[l] = Name(r0, n0)
        /\ \A m \in Legs \ {l} : arch'[m] = arch[m] /\ name'[m] = name[m]
    BY <1>1, <1>2 DEF ArchTypeOK
  <1>7. PICK gone \in SUBSET Names :
          /\ disk' = [x \in DOMAIN disk |->
                        IF Wipes(t0) /\ x[1] = DirOf(l) /\ x[2] \in gone THEN None
                                                                       ELSE disk[x]]
          /\ unwiped \subseteq unwiped' /\ unwiped' \subseteq unwiped \cup {t0}
          /\ Wipes(t0) /\ t0 \notin unwiped' => gone = Names
          /\ exists' = exists \/ (Wipes(t0) /\ exists' = exists \ {DirOf(l)})
    <2>1. CASE Wipes(t0)
      <3>1. RemoveAll(t0)
        BY <1>1, <2>1
      <3> QED
        BY <1>4, <2>1, <3>1 DEF RemoveAll
    <2>2. CASE ~Wipes(t0)
      <3>1. disk' = disk /\ exists' = exists /\ unwiped' = unwiped
        BY <1>1, <2>2
      <3>2. disk = [x \in DOMAIN disk |-> disk[x]]
        BY <1>2 DEF ArchTypeOK
      <3>3. disk' = [x \in DOMAIN disk |->
                       IF Wipes(t0) /\ x[1] = DirOf(l) /\ x[2] \in {} THEN None
                                                                    ELSE disk[x]]
        BY <2>2, <3>1, <3>2
      <3> QED
        BY <2>2, <3>1, <3>3
    <2> QED
      BY <2>1, <2>2
  <1>8. ArchTypeOK'
    <2>1. disk' \in [Dirs \X Names -> Legs \cup {Stale, None}]
      BY <1>2, <1>7 DEF ArchTypeOK
    <2>2. clearedTest' \subseteq Owners /\ unwiped' \subseteq clearedTest' /\ exists' \subseteq Dirs
      BY <1>1, <1>2, <1>4, <1>7 DEF ArchTypeOK
    <2> QED
      BY <1>1, <1>2, <1>3, <1>5, <2>1, <2>2 DEF ArchTypeOK
  <1>9. Counted'
    <2>1. ASSUME NEW m \in Legs, arch'[m] \in Reserved
          PROVE  /\ TestOf[m] \in clearedTest'
                 /\ \E n \in 0..Cardinality(Legs) :
                      /\ n < usedRole'[<<TestOf[m], RoleOf[m]>>]
                      /\ name'[m] = Name(RoleOf[m], n)
      <3>1. CASE m = l
        BY <1>1, <1>3, <1>4, <1>5, <1>6, <3>1
      <3>2. CASE m # l
        <4>1. PICK n \in 0..Cardinality(Legs) :
                /\ n < usedRole[<<TestOf[m], RoleOf[m]>>]
                /\ name[m] = Name(RoleOf[m], n)
          BY <1>2, <1>6, <2>1, <3>2 DEF Counted
        <4>2. TestOf[m] \in clearedTest
          BY <1>2, <1>6, <2>1, <3>2 DEF Counted
        <4>3. /\ TestOf[m] \in Owners /\ RoleOf[m] \in Roles
              /\ <<TestOf[m], RoleOf[m]>> \in Owners \X Roles
          BY LegFacts
        <4>4. /\ usedRole[<<TestOf[m], RoleOf[m]>>] \in 0..Cardinality(Legs)
              /\ usedRole'[<<TestOf[m], RoleOf[m]>>] \in 0..Cardinality(Legs)
          BY <1>2, <1>3, <4>3 DEF ArchTypeOK
        <4>5. n < usedRole'[<<TestOf[m], RoleOf[m]>>]
          BY <1>3, <1>4, <4>1, <4>3, <4>4
        <4> QED
          BY <1>1, <1>6, <3>2, <4>1, <4>2, <4>5
      <3> QED
        BY <3>1, <3>2
    <2> QED
      BY <1>3, <2>1 DEF Counted
  <1>10. ASSUME NEW m \in Legs, m # l, TestOf[m] = t0, arch[m] \in Reserved
         PROVE  name[m] # Name(r0, n0)
    <2>1. PICK n \in 0..Cardinality(Legs) :
            /\ n < usedRole[<<TestOf[m], RoleOf[m]>>]
            /\ name[m] = Name(RoleOf[m], n)
      BY <1>2, <1>10 DEF Counted
    <2> SUFFICES ASSUME Name(RoleOf[m], n) = Name(r0, n0) PROVE FALSE
      BY <2>1
    <2>2. RoleOf[m] = r0 /\ n = n0
      BY <1>5, <1>10 DEF DistinctNames
    <2> QED
      BY <1>3, <1>10, <2>1, <2>2
  <1>11. OwnNames'
    BY <1>2, <1>6, <1>10 DEF OwnNames
  <1>12. \A m \in Legs : arch[m] \in Reserved /\ Wipes(t0) => DirOf(m) # DirOf(l)
    BY <1>2, LegFacts DEF Counted, Wipes, DistinctNames, DirOf
  <1>13. OnDisk'
    <2>1. \A m \in Legs : arch'[m] \in {"write", "written"} => DirOf(m) \in exists'
      BY <1>2, <1>6, <1>7, <1>12 DEF OnDisk, Reserved
    <2>2. ASSUME NEW t \in clearedTest' \ unwiped', NEW n \in Names
          PROVE  disk'[<<Dir[t], n>>] # Stale
      <3>1. t \in Owners /\ <<Dir[t], n>> \in DOMAIN disk /\ <<Dir[t], n>>[1] = Dir[t]
        BY <1>2, <1>8 DEF ArchTypeOK, Dirs
      <3>2. disk'[<<Dir[t], n>>] =
              IF Wipes(t0) /\ Dir[t] = DirOf(l) /\ n \in gone THEN None
                                                          ELSE disk[<<Dir[t], n>>]
        BY <1>7, <3>1
      <3>3. CASE t \in clearedTest
        BY <1>2, <1>7, <3>2, <3>3, StaleAssumption DEF OnDisk
      <3>4. CASE t \notin clearedTest
        <4>1. t = t0 /\ Wipes(t0)
          BY <1>1, <3>4 DEF Wipes
        <4> QED
          BY <1>4, <1>7, <3>2, <4>1, StaleAssumption
      <3> QED
        BY <3>3, <3>4
    <2>3. ASSUME NEW m \in Legs, arch'[m] = "written"
          PROVE  disk'[<<DirOf(m), name'[m]>>] = m
      <3>1. m # l /\ arch[m] = "written" /\ name'[m] = name[m]
        BY <1>6, <2>3
      <3>2. disk[<<DirOf(m), name[m]>>] = m
        BY <1>2, <3>1 DEF OnDisk
      <3>3. ~(Wipes(t0) /\ DirOf(m) = DirOf(l))
        BY <1>12, <3>1 DEF Reserved
      <3>4. <<DirOf(m), name[m]>> \in DOMAIN disk
        <4>1. name[m] \in Names
          <5>1. PICK n \in 0..Cardinality(Legs) : name[m] = Name(RoleOf[m], n)
            BY <1>2, <3>1 DEF Counted, Reserved
          <5> QED
            BY <5>1, LegFacts DEF Names
        <4> QED
          BY <1>2, <4>1, LegFacts DEF ArchTypeOK
      <3> QED
        BY <1>7, <3>1, <3>2, <3>3, <3>4
    <2>4. \A m \in Legs : arch'[m] # "nodir"
      BY <1>2, <1>6 DEF OnDisk
    <2> QED
      BY <2>1, <2>2, <2>3, <2>4 DEF OnDisk
  <1> QED
    BY <1>8, <1>9, <1>11, <1>13 DEF ArchInv

\* Every step of Archive keeps its invariant.
LEMMA ArchStepInv ==
  ASSUME DistinctNames, ArchInv, NEW l \in Legs, ArchStep(l)
  PROVE  ArchInv'
  <1>0. ArchTypeOK /\ Counted /\ OwnNames /\ OnDisk
    BY DEF ArchInv
  <1>1. ASSUME NEW p \in {"reserve", "skipped", "write", "written", "failed"},
               arch' = [arch EXCEPT ![l] = p],
               arch[l] \in Reserved <=> p \in Reserved,
               UNCHANGED <<clearedTest, usedRole, name>>
        PROVE  Counted' /\ OwnNames' /\ \A m \in Legs \ {l} : arch'[m] = arch[m]
    <2>1. \A m \in Legs : arch'[m] \in Reserved <=> arch[m] \in Reserved
      BY <1>0, <1>1 DEF ArchTypeOK
    <2>2. \A t \in Owners, r \in Roles : Taken(t, r)' = Taken(t, r)
      BY <2>1 DEF Taken
    <2> QED
      BY <1>0, <1>1, <2>1, <2>2 DEF Counted, OwnNames, ArchTypeOK
  <1>2. CASE ReadPCM(l)
    <2>1. PICK p \in {"reserve", "skipped"} : arch' = [arch EXCEPT ![l] = p]
      BY <1>2 DEF ReadPCM, ArchGoto
    <2>2. /\ arch[l] = "recording"
          /\ UNCHANGED <<clearedTest, unwiped, usedRole, disk, exists, name>>
      BY <1>2 DEF ReadPCM
    <2>3. Counted' /\ OwnNames' /\ \A m \in Legs \ {l} : arch'[m] = arch[m]
      BY <1>1, <2>1, <2>2 DEF Reserved
    <2>4. ArchTypeOK' /\ arch'[l] = p
      BY <1>0, <2>1, <2>2 DEF ArchTypeOK
    <2>5. OnDisk'
      BY <1>0, <2>2, <2>3, <2>4 DEF OnDisk
    <2> QED
      BY <2>3, <2>4, <2>5 DEF ArchInv
  <1>3. CASE MkdirAll(l)
    <2>1. /\ arch[l] = "mkdir"
          /\ UNCHANGED <<clearedTest, unwiped, usedRole, disk, name>>
      BY <1>3 DEF MkdirAll
    <2>2. PICK p \in {"write", "failed"} :
            /\ arch' = [arch EXCEPT ![l] = p]
            /\ exists \subseteq exists' /\ exists' \subseteq exists \cup {DirOf(l)}
            /\ p = "write" => DirOf(l) \in exists'
      BY <1>3 DEF MkdirAll, ArchGoto
    <2>3. Counted' /\ OwnNames' /\ \A m \in Legs \ {l} : arch'[m] = arch[m]
      BY <1>1, <2>1, <2>2 DEF Reserved
    <2>4. ArchTypeOK' /\ arch'[l] = p
      BY <1>0, <2>1, <2>2, LegFacts DEF ArchTypeOK
    <2>5. OnDisk'
      BY <1>0, <2>1, <2>2, <2>3, <2>4 DEF OnDisk
    <2> QED
      BY <2>3, <2>4, <2>5 DEF ArchInv
  <1>4. CASE WriteFile(l)
    <2>1. /\ arch[l] = "write" /\ DirOf(l) \in exists
          /\ UNCHANGED <<clearedTest, unwiped, usedRole, exists, name>>
      BY <1>0, <1>4 DEF WriteFile, OnDisk
    <2> DEFINE audio == [disk EXCEPT ![<<DirOf(l), name[l]>>] = l]
    <2>2. PICK p \in {"written", "failed"} :
            /\ arch' = [arch EXCEPT ![l] = p]
            /\ disk' \in {disk, audio} /\ (p = "written" => disk' = audio)
      BY <1>4, <2>1 DEF WriteFile, ArchGoto
    <2>3. Counted' /\ OwnNames' /\ \A m \in Legs \ {l} : arch'[m] = arch[m]
      BY <1>1, <2>1, <2>2 DEF Reserved
    <2>4. ASSUME NEW m \in Legs, arch[m] \in Reserved
          PROVE  name[m] \in Names /\ <<DirOf(m), name[m]>> \in DOMAIN disk
      <3>1. PICK n \in 0..Cardinality(Legs) : name[m] = Name(RoleOf[m], n)
        BY <1>0, <2>4 DEF Counted
      <3>2. name[m] \in Names
        BY <3>1, LegFacts DEF Names
      <3> QED
        BY <1>0, <3>2, LegFacts DEF ArchTypeOK
    <2>5. ArchTypeOK' /\ arch'[l] = p
      BY <1>0, <2>1, <2>2 DEF ArchTypeOK
    <2>6. /\ p = "written" => disk'[<<DirOf(l), name[l]>>] = l
          /\ \A x \in DOMAIN disk : disk'[x] = disk[x] \/ (x = <<DirOf(l), name[l]>> /\ disk'[x] = l)
      BY <1>0, <2>1, <2>2, <2>4 DEF ArchTypeOK, Reserved
    <2>7. \A m \in Legs : arch'[m] \in {"write", "written"} => DirOf(m) \in exists'
      BY <1>0, <2>1, <2>3 DEF OnDisk
    <2>8. ASSUME NEW t \in clearedTest' \ unwiped', NEW n \in Names
          PROVE  disk'[<<Dir[t], n>>] # Stale
      <3>1. <<Dir[t], n>> \in DOMAIN disk
        BY <1>0, <2>1 DEF ArchTypeOK, Dirs
      <3> QED
        BY <1>0, <2>1, <2>6, <3>1, LegFacts DEF OnDisk
    <2>9. ASSUME NEW m \in Legs, arch'[m] = "written"
          PROVE  disk'[<<DirOf(m), name'[m]>>] = m
      <3>1. CASE m = l
        BY <2>1, <2>5, <2>6, <2>9, <3>1
      <3>2. CASE m # l
        <4>1. arch[m] = "written" /\ <<DirOf(m), name[m]>> \in DOMAIN disk
          BY <2>3, <2>4, <2>9, <3>2 DEF Reserved
        <4>2. DirOf(m) = DirOf(l) => TestOf[m] = TestOf[l]
          BY LegFacts DEF DirOf, DistinctNames
        <4>3. <<DirOf(m), name[m]>> # <<DirOf(l), name[l]>>
          BY <1>0, <2>1, <3>2, <4>1, <4>2 DEF OwnNames, Reserved
        <4> QED
          BY <1>0, <2>1, <2>6, <4>1, <4>3 DEF OnDisk
      <3> QED
        BY <3>1, <3>2
    <2>10. \A m \in Legs : arch'[m] # "nodir"
      BY <1>0, <2>3, <2>5 DEF OnDisk
    <2>11. OnDisk'
      BY <2>7, <2>8, <2>9, <2>10 DEF OnDisk
    <2> QED
      BY <2>3, <2>5, <2>11 DEF ArchInv
  <1> QED
    BY <1>2, <1>3, <1>4, ReserveInv DEF ArchStep

\* No recording is lost, for any number of tests and legs that archive at once,
\* provided that tests have directories of their own and no role reads like the
\* numbered name of another one.
THEOREM RecordingsKept ==
  ASSUME DistinctNames
  PROVE  Spec => []LegsKept
  <1>1. Init => ArchInv
    <2> SUFFICES ASSUME Init PROVE ArchInv
      OBVIOUS
    <2>1. Cardinality(Legs) \in Nat
      BY TakenFinite
    <2>2. ArchTypeOK
      BY <2>1 DEF Init, ArchInit, ArchTypeOK
    <2>3. \A t \in Owners, r \in Roles : Taken(t, r) = {}
      BY DEF Init, ArchInit, Taken, Reserved
    <2>4. Cardinality({}) = 0
      BY FS_EmptySet
    <2>5. Counted
      BY <2>3, <2>4 DEF Init, ArchInit, Counted, Reserved
    <2>6. OwnNames /\ OnDisk
      BY DEF Init, ArchInit, OwnNames, OnDisk, Reserved
    <2> QED
      BY <2>2, <2>5, <2>6 DEF ArchInv
  <1>2. ArchInv /\ [Next]_vars => ArchInv'
    <2> SUFFICES ASSUME ArchInv, [Next]_vars PROVE ArchInv'
      OBVIOUS
    <2>1. CASE Record
      BY <2>1, ArchStepInv DEF Record
    <2>2. CASE UNCHANGED archVars
      <3>1. /\ clearedTest' = clearedTest /\ unwiped' = unwiped
            /\ usedRole' = usedRole /\ disk' = disk /\ exists' = exists /\ arch' = arch /\ name' = name
        BY <2>2 DEF archVars
      <3>2. \A t \in Owners, r \in Roles : Taken(t, r)' = Taken(t, r)
        BY <3>1 DEF Taken
      <3>3. ArchTypeOK'
        BY <3>1 DEF ArchInv, ArchTypeOK
      <3>4. Counted'
        BY <3>1, <3>2 DEF ArchInv, Counted
      <3>5. OwnNames' /\ OnDisk'
        BY <3>1 DEF ArchInv, OwnNames, OnDisk
      <3> QED
        BY <3>3, <3>4, <3>5 DEF ArchInv
    <2> QED
      BY <2>1, <2>2 DEF Next, Provision, Speak, Listen, Press, vars
  <1>3. ArchInv => LegsKept
    BY LegFacts DEF ArchInv, OnDisk, Counted, Reserved, LegsKept, DirOf
  <1> QED
    BY <1>1, <1>2, <1>3, PTL DEF Spec

=============================================================================
