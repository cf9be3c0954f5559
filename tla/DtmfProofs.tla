----------------------------- MODULE DtmfProofs -----------------------------
(***************************************************************************)
(* Theorems about Dtmf, for any digits, tones of any length and any number *)
(* of silence frames beside.                                               *)
(***************************************************************************)
EXTENDS Helpers, SequenceTheorems, TLAPS

\* Where the sender is: every digit before the one it is at was supported.
Place ==
  /\ at \in 1..(Len(digits) + 1)
  /\ dtmf \in {"interim", "end"} => at <= Len(digits) /\ Supported(digits[at])
  /\ dtmf = "interim" => packets < NPackets
  /\ dtmf = "end" => packets = NPackets
  /\ dtmf = "returned" => at = Len(digits) + 1
  /\ dtmf = "idle" => at = 1 /\ packets = 0 /\ wire = << >>

\* Events on the wire are of the digits so far, with their code; none is of the
\* digit the sender has not begun yet.
OfDigits ==
  \A j \in 1..Len(wire) :
    /\ wire[j].digit \in 1..Len(digits) /\ wire[j].digit <= at
    /\ wire[j].code = EventCode(digits[wire[j].digit])
    /\ dtmf = "digit" \/ (dtmf = "interim" /\ packets = 0) => wire[j].digit < at

\* The packet before the next one, in the middle of an event: it has the samples so far
\* and, without silence frames, the timestamp the writer still holds.
Middle ==
  dtmf \in {"interim", "end"} /\ packets > 0 =>
    /\ wire # << >>
    /\ wire[Len(wire)].digit = at
    /\ wire[Len(wire)].dur = Samples(packets)
    /\ silences = 0 => wire[Len(wire)].ts = nextTS

\* One end packet for each digit done, in order; the timestamp has moved past them.
Heard ==
  /\ {wire[a].digit : a \in Ends} = 1..(at - 1)
  /\ \A a, b \in Ends : a < b => wire[a].digit < wire[b].digit /\ wire[a].ts < wire[b].ts
  /\ \A a \in Ends : wire[a].ts < nextTS

DtmfInv == DtmfTypeOK /\ Place /\ OfDigits /\ Middle /\ Heard /\ EventsWellFormed

-----------------------------------------------------------------------------
\* The codes of dtmfEventCode.
LEMMA CodeRange ==
  ASSUME NEW r, Supported(r)
  PROVE  EventCode(r) \in 0..15
  <1>1. CASE \E c \in 1..16 : Keys[c] = r
    <2> DEFINE n == CHOOSE c \in 1..16 : Keys[c] = r
    <2>1. n \in 1..16
      BY <1>1
    <2>2. EventCode(r) = n - 1
      BY <1>1 DEF EventCode
    <2> HIDE DEF n
    <2> QED
      BY <2>1, <2>2
  <1>2. CASE ~\E c \in 1..16 : Keys[c] = r
    <2> DEFINE n == CHOOSE c \in 1..4 : Lower[c] = r
    <2>1. n \in 1..4
      BY <1>2 DEF Supported
    <2>2. EventCode(r) = 11 + n
      BY <1>2 DEF EventCode
    <2> HIDE DEF n
    <2> QED
      BY <2>1, <2>2
  <1> QED
    BY <1>1, <1>2

\* A tone has two packets at least; its samples fit, or wrap.
LEMMA Packets ==
  ASSUME perTone \in Nat
  PROVE  NPackets \in Nat /\ NPackets >= 2
  BY DEF NPackets

LEMMA SamplesType ==
  ASSUME NEW n \in Nat
  PROVE  Samples(n) \in 0..(Uint16 - 1)
  <1>1. n % Uint16 \in Nat
    BY DEF Uint16
  <1>2. PICK m \in Nat : m = (n % Uint16) * 160
    BY <1>1
  <1>3. Uint16 \in Nat /\ m % Uint16 \in Nat /\ m % Uint16 < Uint16
    BY DEF Uint16
  <1>4. m % Uint16 \in 0..(Uint16 - 1)
    BY <1>3
  <1> QED
    BY <1>2, <1>4 DEF Samples

LEMMA SamplesFit ==
  ASSUME NEW n \in Nat, n * 160 < Uint16
  PROVE  Samples(n) = n * 160
  BY DEF Samples, Uint16

-----------------------------------------------------------------------------
\* The start.
LEMMA DtmfStart == Init => DtmfInv
  <1> SUFFICES ASSUME DtmfInit PROVE DtmfInv
    BY DEF Init
  <1>1. digits \in Seq(Alphabet) /\ Len(digits) = 0
    BY DEF DtmfInit
  <1>2. perTone \in Nat /\ NPackets \in Nat
    BY Packets DEF DtmfInit
  <1>3. DtmfTypeOK
    BY <1>1, <1>2, DtmfAssumption DEF DtmfInit, DtmfTypeOK
  <1>4. Place /\ OfDigits /\ Middle
    BY <1>1 DEF DtmfInit, Place, OfDigits, Middle
  <1>5. Ends = {}
    BY DEF DtmfInit, Ends
  <1>6. Heard
    BY <1>5 DEF DtmfInit, Heard
  <1>7. EventsWellFormed
    BY DEF DtmfInit, EventsWellFormed, SharedTimestamp, DurationGrows, Continues
  <1> QED
    BY <1>3, <1>4, <1>6, <1>7 DEF DtmfInv

\* The numbers of an event.
LEMMA EventFields ==
  ASSUME DtmfTypeOK, NEW j \in 1..Len(wire)
  PROVE  wire[j].digit \in Nat /\ wire[j].ts \in Nat
  <1>1. wire[j] \in Event
    BY DEF DtmfTypeOK
  <1>2. wire[j].digit \in 1..MaxDigits /\ wire[j].ts \in Nat
    BY <1>1 DEF Event
  <1> QED
    BY <1>2

\* What a write does: one event more at the end, the others as they were.
LEMMA WriteEffect ==
  ASSUME DtmfInv, dtmf \in {"interim", "end"}, NEW end \in BOOLEAN,
         NEW dur \in 0..(Uint16 - 1), NEW advance \in Nat,
         WriteSamples(end, dur, advance)
  PROVE  /\ wire' \in Seq(Event) /\ Len(wire') = Len(wire) + 1
         /\ \A j \in 1..Len(wire) : wire'[j] = wire[j]
         /\ wire'[Len(wire) + 1].digit = at
         /\ wire'[Len(wire) + 1].code = EventCode(digits[at])
         /\ wire'[Len(wire) + 1].end = end
         /\ wire'[Len(wire) + 1].dur = dur
         /\ wire'[Len(wire) + 1].ts = nextTS
         /\ nextTS' = nextTS + advance /\ nextTS' \in Nat
  <1> DEFINE e == [digit |-> at, code |-> EventCode(digits[at]), end |-> end,
                   dur |-> dur, ts |-> nextTS]
  <1>1. at \in 1..MaxDigits /\ Supported(digits[at])
    BY DtmfAssumption DEF DtmfInv, DtmfTypeOK, Place
  <1>2. nextTS \in Nat /\ wire \in Seq(Event)
    BY DEF DtmfInv, DtmfTypeOK
  <1>3. EventCode(digits[at]) \in 0..15
    BY <1>1, CodeRange
  <1>4. e \in Event
    BY <1>1, <1>2, <1>3 DEF Event
  <1>5. /\ e.digit = at /\ e.code = EventCode(digits[at]) /\ e.end = end
        /\ e.dur = dur /\ e.ts = nextTS
    OBVIOUS
  <1>6. wire' = Append(wire, e) /\ nextTS' = nextTS + advance
    BY DEF WriteSamples
  <1> HIDE DEF e
  <1>7. /\ wire' \in Seq(Event) /\ Len(wire') = Len(wire) + 1
        /\ \A j \in 1..Len(wire) : wire'[j] = wire[j]
        /\ wire'[Len(wire) + 1] = e
    BY <1>2, <1>4, <1>6
  <1> QED
    BY <1>2, <1>5, <1>6, <1>7

\* The events after a write are of the digits so far.
LEMMA WriteOfDigits ==
  ASSUME DtmfInv, dtmf \in {"interim", "end"}, NEW end \in BOOLEAN,
         NEW dur \in 0..(Uint16 - 1), NEW advance \in Nat,
         WriteSamples(end, dur, advance), UNCHANGED digits
  PROVE  \A j \in 1..Len(wire') :
           /\ wire'[j].digit \in 1..Len(digits) /\ wire'[j].digit <= at
           /\ wire'[j].code = EventCode(digits[wire'[j].digit])
  <1>1. Len(wire) \in Nat /\ at \in 1..Len(digits)
    BY DEF DtmfInv, DtmfTypeOK, Place
  <1>2. SUFFICES ASSUME NEW j \in 1..Len(wire')
                 PROVE  /\ wire'[j].digit \in 1..Len(digits) /\ wire'[j].digit <= at
                        /\ wire'[j].code = EventCode(digits[wire'[j].digit])
    OBVIOUS
  <1>3. CASE j \in 1..Len(wire)
    BY <1>3, WriteEffect DEF DtmfInv, OfDigits
  <1>4. CASE j = Len(wire) + 1
    BY <1>1, <1>4, WriteEffect
  <1>5. j \in 1..Len(wire) \/ j = Len(wire) + 1
    BY <1>1, <1>2, WriteEffect
  <1> QED
    BY <1>3, <1>4, <1>5

-----------------------------------------------------------------------------
\* An interim packet: the event begins, or goes on 20 ms further.
LEMMA InterimKeeps ==
  ASSUME DtmfInv, Interim
  PROVE  DtmfInv'
  <1>0. /\ Len(wire) \in Nat /\ packets \in Nat /\ at \in Nat /\ nextTS \in Nat
        /\ NPackets \in Nat /\ NPackets >= 2 /\ packets < NPackets /\ at \in 1..Len(digits)
        /\ Len(digits) \in Nat /\ dtmf = "interim" /\ perTone \in Nat
        /\ wire \in Seq(Event) /\ silences \in Nat
    BY TonesAssumption, DtmfAssumption, Packets DEF DtmfInv, DtmfTypeOK, Place, Interim
  <1>1. InterimDuration \in 0..(Uint16 - 1) /\ InterimDuration = Samples(packets + 1)
    <2>1. packets + 1 \in Nat
      BY <1>0
    <2>2. Samples(packets + 1) \in 0..(Uint16 - 1)
      BY <2>1, SamplesType
    <2> QED
      BY <2>2 DEF InterimDuration
  <1>2. /\ packets' = packets + 1 /\ UNCHANGED <<digits, perTone, at, silences>>
        /\ dtmf' = IF packets + 1 = NPackets THEN "end" ELSE "interim"
        /\ WriteSamples(FALSE, InterimDuration, 0)
    BY DEF Interim, InterimAdvance
  <1>3. /\ wire' \in Seq(Event) /\ Len(wire') = Len(wire) + 1
        /\ \A j \in 1..Len(wire) : wire'[j] = wire[j]
        /\ wire'[Len(wire) + 1].digit = at
        /\ wire'[Len(wire) + 1].end = FALSE
        /\ wire'[Len(wire) + 1].dur = Samples(packets + 1)
        /\ wire'[Len(wire) + 1].ts = nextTS
        /\ nextTS' = nextTS
    <2>1. /\ wire' \in Seq(Event) /\ Len(wire') = Len(wire) + 1
          /\ \A j \in 1..Len(wire) : wire'[j] = wire[j]
          /\ wire'[Len(wire) + 1].digit = at
          /\ wire'[Len(wire) + 1].end = FALSE
          /\ wire'[Len(wire) + 1].dur = InterimDuration
          /\ wire'[Len(wire) + 1].ts = nextTS
          /\ nextTS' = nextTS + 0
      BY <1>0, <1>1, <1>2, WriteEffect
    <2> QED
      BY <1>0, <1>1, <2>1
  <1>4. NPackets' = NPackets
    BY <1>2 DEF NPackets
  <1>5. DtmfTypeOK'
    <2>1. packets' \in 0..NPackets' /\ nextTS' \in Nat
      BY <1>0, <1>2, <1>3, <1>4
    <2>2. dtmf' \in {"digit", "interim", "end", "returned", "failed"}
      BY <1>2
    <2> QED
      BY <1>2, <1>3, <2>1, <2>2 DEF DtmfInv, DtmfTypeOK
  <1>6. Place'
    BY <1>0, <1>2, <1>4 DEF DtmfInv, Place
  <1>7. OfDigits'
    <2>1. \A j \in 1..Len(wire') :
            /\ wire'[j].digit \in 1..Len(digits) /\ wire'[j].digit <= at
            /\ wire'[j].code = EventCode(digits[wire'[j].digit])
      BY <1>0, <1>1, <1>2, WriteOfDigits
    <2> QED
      BY <1>0, <1>2, <2>1 DEF OfDigits
  <1>8. Middle'
    BY <1>0, <1>2, <1>3 DEF Middle
  <1>9. Ends' = Ends
    BY <1>0, <1>3 DEF Ends
  <1>10. Heard'
    <2>1. \A a \in Ends : wire'[a] = wire[a]
      BY <1>3 DEF Ends
    <2>2. {wire'[a].digit : a \in Ends} = {wire[a].digit : a \in Ends}
      BY <2>1
    <2> QED
      BY <1>2, <1>3, <1>9, <2>1, <2>2 DEF DtmfInv, Heard
  <1>11. EventsWellFormed'
    <2>1. CASE packets = 0
      <3>1. Len(wire) > 0 => wire[Len(wire)].digit < at
        BY <1>0, <2>1 DEF DtmfInv, OfDigits
      <3>2. Len(wire) > 0 => wire'[Len(wire)].digit # at
        <4>1. Len(wire) > 0 => wire[Len(wire)].digit \in Nat /\ wire'[Len(wire)] = wire[Len(wire)]
          BY <1>0, <1>3 DEF DtmfInv, OfDigits
        <4> QED
          BY <1>0, <3>1, <4>1
      <3>3. ~Continues'
        BY <1>0, <1>3, <3>2 DEF Continues
      <3>4. wire'[Len(wire')].dur = 160
        BY <1>0, <1>3, <2>1, SamplesFit DEF Uint16
      <3> QED
        BY <3>3, <3>4 DEF EventsWellFormed, SharedTimestamp, DurationGrows
    <2>2. CASE packets > 0
      <3>1. /\ Len(wire) > 0 /\ wire[Len(wire)].digit = at
            /\ wire[Len(wire)].dur = Samples(packets)
            /\ silences = 0 => wire[Len(wire)].ts = nextTS
        BY <1>0, <2>2 DEF DtmfInv, Middle
      <3>2. wire'[Len(wire') - 1] = wire[Len(wire)] /\ Len(wire') = Len(wire) + 1
        BY <1>0, <1>3, <3>1
      <3>3. SharedTimestamp'
        BY <1>2, <1>3, <3>1, <3>2 DEF SharedTimestamp
      <3>4. Continues'
        BY <1>0, <1>3, <3>1, <3>2 DEF Continues
      <3>5. ASSUME NPackets * 160 < Uint16 PROVE Samples(packets + 1) = Samples(packets) + 160
        <4>1. (packets + 1) * 160 < Uint16 /\ packets * 160 < Uint16
          BY <1>0, <3>5 DEF Uint16
        <4>2. Samples(packets + 1) = (packets + 1) * 160 /\ Samples(packets) = packets * 160
          BY <1>0, <4>1, SamplesFit
        <4> QED
          BY <1>0, <4>2
      <3>6. DurationGrows'
        BY <1>3, <1>4, <3>1, <3>2, <3>4, <3>5 DEF DurationGrows
      <3> QED
        BY <3>3, <3>6 DEF EventsWellFormed
    <2> QED
      BY <1>0, <2>1, <2>2
  <1> QED
    BY <1>5, <1>6, <1>7, <1>8, <1>10, <1>11 DEF DtmfInv

\* The end packet: the event is complete, and the timestamp moves past it.
LEMMA EndKeeps ==
  ASSUME DtmfInv, End
  PROVE  DtmfInv'
  <1>0. /\ Len(wire) \in Nat /\ packets \in Nat /\ at \in Nat /\ nextTS \in Nat
        /\ NPackets \in Nat /\ NPackets >= 2 /\ packets = NPackets /\ at \in 1..Len(digits)
        /\ Len(digits) \in Nat /\ dtmf = "end" /\ perTone \in Nat
        /\ wire \in Seq(Event) /\ silences \in Nat
    BY TonesAssumption, DtmfAssumption, Packets DEF DtmfInv, DtmfTypeOK, Place, End
  <1>1. Samples(NPackets) \in 0..(Uint16 - 1)
    BY <1>0, SamplesType
  <1>2. EndAdvance \in Nat /\ EndAdvance > 0
    <2>1. Uint16 \in Nat
      BY DEF Uint16
    <2>2. PICK n \in 0..(Uint16 - 1) : n = Samples(NPackets)
      BY <1>1
    <2>3. n \in Nat
      BY <2>1
    <2>4. n + 320 \in Nat /\ n + 320 > 0
      BY <2>3
    <2> QED
      BY <2>2, <2>4 DEF EndAdvance, Gap
  <1>3. /\ at' = at + 1 /\ UNCHANGED <<digits, perTone, packets, silences>> /\ dtmf' = "digit"
        /\ WriteSamples(TRUE, Samples(NPackets), EndAdvance)
    BY DEF End
  <1>4. /\ wire' \in Seq(Event) /\ Len(wire') = Len(wire) + 1
        /\ \A j \in 1..Len(wire) : wire'[j] = wire[j]
        /\ wire'[Len(wire) + 1].digit = at
        /\ wire'[Len(wire) + 1].end = TRUE
        /\ wire'[Len(wire) + 1].dur = Samples(NPackets)
        /\ wire'[Len(wire) + 1].ts = nextTS
        /\ nextTS' = nextTS + EndAdvance /\ nextTS' \in Nat
    BY <1>0, <1>1, <1>2, <1>3, WriteEffect
  <1>5. NPackets' = NPackets
    BY <1>3 DEF NPackets
  <1>6. DtmfTypeOK'
    <2>1. at' \in 1..(MaxDigits + 1)
      BY <1>0, <1>3, DtmfAssumption DEF DtmfInv, DtmfTypeOK
    <2> QED
      BY <1>3, <1>4, <1>5, <2>1 DEF DtmfInv, DtmfTypeOK
  <1>7. Place'
    BY <1>0, <1>3 DEF Place
  <1>8. OfDigits'
    <2>1. \A j \in 1..Len(wire') :
            /\ wire'[j].digit \in 1..Len(digits) /\ wire'[j].digit <= at
            /\ wire'[j].code = EventCode(digits[wire'[j].digit])
      BY <1>0, <1>1, <1>2, <1>3, WriteOfDigits
    <2>2. \A n \in 1..Len(digits) : n <= at => n <= at + 1 /\ n < at + 1
      BY <1>0
    <2> QED
      BY <1>3, <2>1, <2>2 DEF OfDigits
  <1>9. Middle'
    BY <1>3 DEF Middle
  <1>10. Ends' = Ends \cup {Len(wire) + 1}
    BY <1>0, <1>4 DEF Ends
  <1>11. Heard'
    <2>0. \A a \in Ends : a \in 1..Len(wire) /\ wire'[a] = wire[a] /\ wire[a].ts \in Nat
                          /\ wire[a].digit \in Nat
      BY <1>0, <1>4, EventFields DEF Ends, DtmfInv
    <2>1. {wire'[a].digit : a \in Ends'} = 1..(at' - 1)
      <3>1. {wire'[a].digit : a \in Ends'} = {wire[a].digit : a \in Ends} \cup {at}
        BY <1>4, <1>10, <2>0
      <3>2. {wire[a].digit : a \in Ends} = 1..(at - 1)
        BY DEF DtmfInv, Heard
      <3>3. 1..(at' - 1) = 1..(at - 1) \cup {at}
        BY <1>0, <1>3
      <3> QED
        BY <3>1, <3>2, <3>3
    <2>2. \A a \in Ends' : wire'[a].ts < nextTS'
      BY <1>0, <1>2, <1>4, <1>10, <2>0 DEF DtmfInv, Heard
    <2>3. \A a \in Ends : wire[a].digit < at /\ wire[a].ts < nextTS
      <3>1. \A a \in Ends : wire[a].digit \in 1..(at - 1)
        BY DEF DtmfInv, Heard
      <3> QED
        BY <1>0, <3>1 DEF DtmfInv, Heard
    <2>4. ASSUME NEW a \in Ends', NEW b \in Ends', a < b
          PROVE  wire'[a].digit < wire'[b].digit /\ wire'[a].ts < wire'[b].ts
      <3>1. a \in Ends
        BY <1>0, <1>10, <2>0, <2>4
      <3>2. CASE b \in Ends
        BY <2>0, <2>4, <3>1, <3>2 DEF DtmfInv, Heard
      <3>3. CASE b = Len(wire) + 1
        BY <1>4, <2>0, <2>3, <3>1, <3>3
      <3> QED
        BY <1>10, <3>2, <3>3
    <2> QED
      BY <2>1, <2>2, <2>4 DEF Heard
  <1>12. EventsWellFormed'
    <2>1. /\ Len(wire) > 0 /\ wire[Len(wire)].digit = at
          /\ wire[Len(wire)].dur = Samples(NPackets)
          /\ silences = 0 => wire[Len(wire)].ts = nextTS
      BY <1>0 DEF DtmfInv, Middle
    <2>2. wire'[Len(wire') - 1] = wire[Len(wire)] /\ Len(wire') = Len(wire) + 1
      BY <1>0, <1>4, <2>1
    <2>3. SharedTimestamp'
      BY <1>3, <1>4, <2>1, <2>2 DEF SharedTimestamp
    <2>4. Continues'
      BY <1>0, <1>4, <2>1, <2>2 DEF Continues
    <2>5. DurationGrows'
      BY <1>1, <1>4, <2>1, <2>2, <2>4 DEF DurationGrows
    <2> QED
      BY <2>3, <2>5 DEF EventsWellFormed
  <1> QED
    BY <1>6, <1>7, <1>8, <1>9, <1>11, <1>12 DEF DtmfInv

\* The steps that send no event after the call: the head of the loop, a failed write, and a silence
\* frame, which only moves the timestamp on.
LEMMA QuietKeeps ==
  ASSUME DtmfInv, UNCHANGED <<digits, perTone, at, wire>>,
         DtmfTypeOK', Place', OfDigits', Middle', nextTS' >= nextTS, silences' >= silences
  PROVE  DtmfInv'
  <1>1. nextTS \in Nat /\ nextTS' \in Nat /\ silences \in Nat /\ silences' \in Nat
        /\ wire \in Seq(Event)
    BY DtmfAssumption DEF DtmfInv, DtmfTypeOK
  <1>2. \A a \in Ends : wire[a].ts \in Nat
    BY EventFields DEF Ends, DtmfInv
  <1>3. Heard'
    BY <1>1, <1>2 DEF DtmfInv, Heard, Ends
  <1>4. silences' = 0 => silences = 0
    BY <1>1
  <1>5. EventsWellFormed'
    BY <1>4 DEF DtmfInv, EventsWellFormed, SharedTimestamp, DurationGrows, Continues, NPackets
  <1> QED
    BY <1>3, <1>5 DEF DtmfInv

\* Every step keeps the invariant.
LEMMA DtmfStep == DtmfInv /\ [Next]_vars => DtmfInv'
  <1> SUFFICES ASSUME DtmfInv, [Next]_vars PROVE DtmfInv'
    OBVIOUS
  <1>0. /\ Len(digits) \in Nat /\ at \in Nat /\ packets \in Nat /\ nextTS \in Nat
        /\ NPackets \in Nat /\ NPackets >= 2 /\ perTone \in Nat
        /\ silences \in Nat /\ MaxSilence \in Nat
    BY TonesAssumption, DtmfAssumption, Packets DEF DtmfInv, DtmfTypeOK
  <1>1. CASE NextDigit
    <2>1. /\ dtmf = "digit" /\ dtmf' \in {"returned", "interim", "failed"} /\ packets' = 0
          /\ dtmf' = "returned" => at > Len(digits)
          /\ dtmf' = "interim" => at <= Len(digits) /\ Supported(digits[at])
          /\ UNCHANGED <<digits, perTone, at, nextTS, silences, wire>>
      BY <1>0, <1>1 DEF NextDigit
    <2>2. NPackets' = NPackets
      BY <2>1 DEF NPackets
    <2>3. DtmfTypeOK'
      BY <1>0, <2>1, <2>2 DEF DtmfInv, DtmfTypeOK
    <2>4. Place'
      BY <1>0, <2>1, <2>2 DEF DtmfInv, Place
    <2>5. OfDigits' /\ Middle'
      BY <2>1 DEF DtmfInv, OfDigits, Middle
    <2> QED
      BY <1>0, <2>1, <2>3, <2>4, <2>5, QuietKeeps
  <1>2. CASE WriterFails
    <2>1. /\ dtmf' = "failed"
          /\ UNCHANGED <<digits, perTone, at, packets, nextTS, silences, wire>>
      BY <1>2 DEF WriterFails
    <2>2. NPackets' = NPackets
      BY <2>1 DEF NPackets
    <2>3. DtmfTypeOK' /\ Place'
      BY <2>1, <2>2 DEF DtmfInv, DtmfTypeOK, Place
    <2>4. OfDigits' /\ Middle'
      BY <2>1 DEF DtmfInv, OfDigits, Middle
    <2> QED
      BY <1>0, <2>1, <2>3, <2>4, QuietKeeps
  <1>3. CASE Silence
    <2>1. /\ silences < MaxSilence /\ silences' = silences + 1 /\ nextTS' = nextTS + 160
          /\ UNCHANGED <<digits, perTone, dtmf, at, packets, wire>>
      BY <1>3 DEF Silence
    <2>2. NPackets' = NPackets
      BY <2>1 DEF NPackets
    <2>3. silences' \in 0..MaxSilence /\ nextTS' \in Nat /\ silences' # 0
          /\ nextTS' >= nextTS /\ silences' >= silences
      BY <1>0, <2>1
    <2>4. DtmfTypeOK' /\ Place'
      BY <2>1, <2>2, <2>3 DEF DtmfInv, DtmfTypeOK, Place
    <2>5. OfDigits' /\ Middle'
      BY <2>1, <2>3 DEF DtmfInv, OfDigits, Middle
    <2> QED
      BY <2>1, <2>3, <2>4, <2>5, QuietKeeps
  <1>4. CASE UNCHANGED dtmfVars
    <2>1. NPackets' = NPackets
      BY <1>4 DEF dtmfVars, NPackets
    <2>2. DtmfTypeOK' /\ Place'
      BY <1>4, <2>1 DEF dtmfVars, DtmfInv, DtmfTypeOK, Place
    <2>3. OfDigits' /\ Middle'
      BY <1>4 DEF dtmfVars, DtmfInv, OfDigits, Middle
    <2> QED
      BY <1>0, <1>4, <2>2, <2>3, QuietKeeps DEF dtmfVars
  <1>5. CASE SendDTMFWithDuration
    <2>1. /\ dtmf = "idle" /\ dtmf' \in {"digit", "failed"}
          /\ UNCHANGED <<at, packets, nextTS, silences, wire>>
      BY <1>5 DEF SendDTMFWithDuration
    <2>2. digits' \in Seq(Alphabet) /\ Len(digits') \in Nat /\ Len(digits') <= MaxDigits
      <3>1. PICK n \in 0..MaxDigits : digits' \in [1..n -> Alphabet]
        BY <1>5 DEF SendDTMFWithDuration
      <3>2. n \in Nat /\ n <= MaxDigits
        BY DtmfAssumption
      <3>3. digits' \in Seq(Alphabet) /\ Len(digits') = n
        BY <3>1, <3>2
      <3> QED
        BY <3>2, <3>3
    <2>3. perTone' \in PerTones /\ perTone' \in Nat
      BY <1>5, TonesAssumption DEF SendDTMFWithDuration
    <2>4. at = 1 /\ packets = 0 /\ wire = << >>
      BY <2>1 DEF DtmfInv, Place
    <2>5. NPackets' \in Nat
      <3>1. PICK p \in Nat : p = perTone'
        BY <2>3
      <3>2. NPackets' = IF p \div 20 < 2 THEN 2 ELSE p \div 20
        BY <3>1 DEF NPackets
      <3>3. p \div 20 \in Nat
        OBVIOUS
      <3> QED
        BY <3>2, <3>3
    <2>6. DtmfTypeOK'
      BY <2>1, <2>2, <2>3, <2>4, <2>5 DEF DtmfInv, DtmfTypeOK
    <2>7. Place' /\ OfDigits' /\ Middle'
      BY <2>1, <2>2, <2>4 DEF Place, OfDigits, Middle
    <2>8. Ends' = {}
      BY <2>1, <2>4 DEF Ends
    <2>9. Heard'
      BY <2>1, <2>4, <2>8 DEF Heard
    <2>10. EventsWellFormed'
      BY <2>1, <2>4 DEF EventsWellFormed, SharedTimestamp, DurationGrows, Continues
    <2> QED
      BY <2>6, <2>7, <2>9, <2>10 DEF DtmfInv
  <1> QED
    BY <1>1, <1>2, <1>3, <1>4, <1>5, InterimKeeps, EndKeeps
       DEF Next, Press, DtmfNext, Provision, Speak, Record, Listen, vars

LEMMA DtmfAlways == Spec => []DtmfInv
  BY DtmfStart, DtmfStep, PTL DEF Spec

-----------------------------------------------------------------------------
\* The sender's locals and the events on the wire keep their types: the codes are
\* those of RFC 2833 and every duration fits its field, wrapped or not.
THEOREM DtmfTypeCorrect == Spec => []DtmfTypeOK
  <1>1. DtmfInv => DtmfTypeOK
    BY DEF DtmfInv
  <1> QED
    BY <1>1, DtmfAlways, PTL

\* Whatever the digits, however long the tones and however many silence frames the
\* loop beside sends, a SendDTMF that returns was heard as sent.
THEOREM AllDigitsHeard == Spec => []DigitsHeard
  <1>1. ASSUME DtmfInv PROVE DigitsHeard
    <2> SUFFICES ASSUME dtmf = "returned"
                 PROVE  /\ {wire[a].digit : a \in Ends} = 1..Len(digits)
                        /\ \A a \in Ends : wire[a].code = EventCode(digits[wire[a].digit])
                        /\ \A a, b \in Ends : a < b => /\ wire[a].digit < wire[b].digit
                                                       /\ wire[a].ts # wire[b].ts
      BY DEF DigitsHeard
    <2>1. at - 1 = Len(digits)
      BY <1>1 DEF DtmfInv, DtmfTypeOK, Place
    <2>2. \A a \in Ends : wire[a].code = EventCode(digits[wire[a].digit])
      BY <1>1 DEF DtmfInv, OfDigits, Ends
    <2>3. \A a \in Ends : wire[a].ts \in Nat
      BY <1>1, EventFields DEF DtmfInv, Ends
    <2> QED
      BY <1>1, <2>1, <2>2, <2>3 DEF DtmfInv, Heard
  <1> QED
    BY <1>1, DtmfAlways, PTL

\* The packets of one event share its timestamp, if no silence loop runs beside, and
\* their duration grows by 20 ms a packet up to the end packet, for every tone whose
\* samples fit a uint16.
THEOREM EventsAreWhole == Spec => []EventsWellFormed
  <1>1. DtmfInv => EventsWellFormed
    BY DEF DtmfInv
  <1> QED
    BY <1>1, DtmfAlways, PTL

=============================================================================
