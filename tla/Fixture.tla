------------------------------- MODULE Fixture ------------------------------
(***************************************************************************)
(* The cache of spoken prompts: tts.EnsureWAV (internal/tts/deepgram.go)   *)
(* gives parallel tests the path of a WAV file for one text, fetching and  *)
(* writing it if it is not there, and Call.SendWAV reads it back           *)
(* (readTelephonyWAV, internal/sip/call.go).                               *)
(*                                                                         *)
(* os.WriteFile opens the file with O_TRUNC and writes at the offset of    *)
(* its own descriptor, and other goroutines and processes see the file in  *)
(* between.  A file is a sequence of segments: the 44 bytes of header      *)
(* first, then the samples, each segment marked with its writer, or a Hole *)
(* of zeros where a writer wrote past the end.                             *)
(***************************************************************************)
EXTENDS Naturals, Sequences

CONSTANTS Users,     \* calls of EnsureWAV with one text and model
          Length,    \* segments of the WAV each would write, header included
          Hole,
          Absent     \* no file

ASSUME LengthAssumption ==
  Length \in [Users -> Nat] /\ \A u \in Users : Length[u] >= 2
ASSUME MarksAssumption == Hole \notin Users /\ Absent \notin Seq(Users \cup {Hole})

VARIABLES
  file,    \* the cached file
  prompt,  \* each EnsureWAV, and the SendWAV after it
  off,     \* segments each writer has written
  read     \* what readTelephonyWAV made of the file

promptVars == <<file, prompt, off, read>>

PromptTypeOK ==
  /\ file = Absent \/ file \in Seq(Users \cup {Hole})
  /\ prompt \in [Users -> {"idle", "stat", "fetch", "open", "write", "returned",
                       "sent", "failed", "crashed"}]
  /\ off \in [Users -> Nat] /\ \A u \in Users : off[u] <= Length[u]
  /\ read \in [Users -> {"none", "ok", "error", "panic"}]

PromptInit ==
  /\ file = Absent
  /\ prompt = [u \in Users |-> "idle"]
  /\ off = [u \in Users |-> 0]
  /\ read = [u \in Users |-> "none"]

PromptGoto(u, p) == prompt' = [prompt EXCEPT ![u] = p]

-----------------------------------------------------------------------------
\* EnsureWAV: the key is there, the cache path computed.
EnsureWAV(u) ==
  /\ prompt[u] = "idle"
  /\ PromptGoto(u, "stat")
  /\ UNCHANGED <<file, off, read>>

\* The file is there with more than a header.
Hit == file # Absent /\ Len(file) > 1

Stat(u) ==
  /\ prompt[u] = "stat"
  /\ PromptGoto(u, IF Hit THEN "returned" ELSE "fetch")
  /\ UNCHANGED <<file, off, read>>

\* fetchLPCM succeeds, or not: no answer, not a 200, too short a body.
FetchLPCM(u) ==
  /\ prompt[u] = "fetch"
  /\ \E p \in {"open", "failed"} : PromptGoto(u, p)
  /\ UNCHANGED <<file, off, read>>

\* writeTelephonyWAV: os.WriteFile truncates the file ...
Truncate(u) ==
  /\ prompt[u] = "open"
  /\ file' = << >>
  /\ off' = [off EXCEPT ![u] = 0]
  /\ PromptGoto(u, "write")
  /\ UNCHANGED read

\* Mutant: the file is opened for appending.
Appended(u) == Append(file, u)

\* ... and writes at its own offset.
Written(u) ==
  LET j == off[u] + 1 IN
  [n \in 1..(IF Len(file) > j THEN Len(file) ELSE j) |->
     IF n = j THEN u ELSE IF n <= Len(file) THEN file[n] ELSE Hole]

\* Something is left to write.
More(u) == off[u] < Length[u]

WriteSegment(u) ==
  /\ prompt[u] = "write"
  /\ More(u)
  /\ file' = Written(u)
  /\ off' = [off EXCEPT ![u] = @ + 1]
  /\ UNCHANGED <<prompt, read>>

WriteReturns(u) ==
  /\ prompt[u] = "write"
  /\ ~More(u)
  /\ PromptGoto(u, "returned")
  /\ UNCHANGED <<file, off, read>>

\* A write that fails returns the error and leaves what it wrote.
WriteFails(u) ==
  /\ prompt[u] = "write"
  /\ PromptGoto(u, "failed")
  /\ UNCHANGED <<file, off, read>>

Crash(u) ==
  /\ prompt[u] \in {"fetch", "open", "write"}
  /\ PromptGoto(u, "crashed")
  /\ UNCHANGED <<file, off, read>>

-----------------------------------------------------------------------------
\* What readTelephonyWAV can make of a file.  Without a header it is no RIFF file.
\* The header says how long the data is, and a slice of less than that panics; what
\* follows the data is taken for more chunks, whatever its bytes say.
Reads(f) ==
  IF f = << >> \/ f[1] = Hole THEN {"error"}
  ELSE IF Len(f) < Length[f[1]] THEN {"panic"}
  ELSE IF Len(f) = Length[f[1]] THEN {"ok"} ELSE {"ok", "error", "panic"}

\* SendWAV of the path EnsureWAV returned.
SendWAV(u) ==
  /\ prompt[u] = "returned"
  /\ \E r \in Reads(file) : read' = [read EXCEPT ![u] = r]
  /\ PromptGoto(u, "sent")
  /\ UNCHANGED <<file, off>>

PromptStep(u) ==
  \/ EnsureWAV(u) \/ Stat(u) \/ FetchLPCM(u) \/ Truncate(u) \/ WriteSegment(u)
  \/ WriteReturns(u) \/ WriteFails(u) \/ Crash(u) \/ SendWAV(u)

-----------------------------------------------------------------------------
\* Nobody is writing, and no write stopped half-way.
Settled == \A u \in Users : prompt[u] \in {"idle", "stat", "fetch", "returned", "sent"}

\* However the writers overlapped, and whatever the lengths of their answers (two
\* fetches of one text need not get the same samples), the file that the last of
\* them leaves has a header and every sample the header announces; what follows, if
\* anything, is the end of a longer answer.  With answers of one length nothing
\* follows, and the file reads back.
SettledWhole ==
  file # Absent /\ Settled =>
    /\ file # << >> /\ file[1] \in Users
    /\ Length[file[1]] <= Len(file)
    /\ \A n \in 1..Length[file[1]] : file[n] # Hole
    /\ file[Len(file)] \in Users /\ Length[file[Len(file)]] = Len(file)

\* "EnsureWAV returns a path to a telephony-grade WAV file" (its comment): the
\* samples can be read back.  Violated: a file that another test is still writing,
\* or that a killed process left behind, is longer than a header and counts as a
\* hit; readTelephonyWAV then slices past its end.  And a file that a longer answer
\* left its end in stays a hit for ever, with bytes of audio read as chunk headers.
ReturnsReadable == \A u \in Users : read[u] \in {"none", "ok"}
=============================================================================
