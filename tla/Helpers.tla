------------------------------ MODULE Helpers -------------------------------
(***************************************************************************)
(* The helpers a test calls that share no state with each other: the       *)
(* managed resources (Managed), the cache of spoken prompts (Fixture), the *)
(* archive of recordings (Archive), their transcription (Transcribe) and   *)
(* the sender of digits (Dtmf).                                            *)
(* A behavior is one helper at work, used by several tests at a time:      *)
(* steps of the others, which it does not see, would tell nothing new.     *)
(***************************************************************************)
EXTENDS Managed, Fixture, Archive, Transcribe, Dtmf

VARIABLE part  \* the helper at work

vars == <<part, managedVars, promptVars, archVars, sttVars, dtmfVars>>

Parts == {"managed", "prompts", "archive", "transcripts", "digits"}

TypeOK ==
  /\ part \in Parts
  /\ ManagedTypeOK /\ PromptTypeOK /\ ArchTypeOK /\ SttTypeOK /\ DtmfTypeOK

Init ==
  /\ part \in Parts
  /\ ManagedInit /\ PromptInit /\ ArchInit /\ SttInit /\ DtmfInit

Provision ==
  /\ part = "managed"
  /\ \E t \in Tests : ManagedStep(t)
  /\ UNCHANGED <<part, promptVars, archVars, sttVars, dtmfVars>>

Speak ==
  /\ part = "prompts"
  /\ \E u \in Users : PromptStep(u)
  /\ UNCHANGED <<part, managedVars, archVars, sttVars, dtmfVars>>

Record ==
  /\ part = "archive"
  /\ \E l \in Legs : ArchStep(l)
  /\ UNCHANGED <<part, managedVars, promptVars, sttVars, dtmfVars>>

Listen ==
  /\ part = "transcripts"
  /\ \E t \in Uploaders : SttStep(t)
  /\ UNCHANGED <<part, managedVars, promptVars, archVars, dtmfVars>>

Press ==
  /\ part = "digits"
  /\ DtmfNext
  /\ UNCHANGED <<part, managedVars, promptVars, archVars, sttVars>>

Next == Provision \/ Speak \/ Record \/ Listen \/ Press

Spec == Init /\ [][Next]_vars
=============================================================================
