-------------------------------- MODULE Dtmf --------------------------------
(***************************************************************************)
(* Call.SendDTMFWithDuration (internal/sip/call.go): a sequence of digits  *)
(* sent as RFC 2833 telephone events, N interim packets and one end packet *)
(* per digit, on the RTP packet writer that a silence loop started by      *)
(* SendSilence uses too.                                                   *)
(*                                                                         *)
(* The packet writer is diago's: a packet carries its next timestamp,      *)
(* which then advances by what the caller asked for; an audio frame        *)
(* advances it by 160.  Timestamps are counted from the first one, which   *)
(* RTP picks at random.                                                    *)
(***************************************************************************)
EXTENDS Naturals, Sequences, FiniteSets

CONSTANTS Alphabet,   \* runes a test passes as digits
          MaxDigits,  \* bound: length of the digits argument
          PerTones,   \* durations of a tone, in ms
          MaxSilence,   \* bound: silence frames sent meanwhile
          SilenceUntil  \* bound: events on the wire when the silence loop is cancelled

ASSUME TonesAssumption == PerTones \subseteq Nat
ASSUME DtmfAssumption == MaxDigits \in Nat /\ MaxSilence \in Nat /\ SilenceUntil \in Nat

VARIABLES
  digits,    \* the digits argument
  perTone,   \* the perTone argument, in ms
  dtmf,      \* where SendDTMFWithDuration is
  at,        \* the digit it is at
  packets,   \* interim packets of that digit sent so far
  nextTS,    \* the packet writer's next timestamp
  silences,  \* silence frames sent so far
  wire       \* the telephone events on the wire

dtmfVars == <<digits, perTone, dtmf, at, packets, nextTS, silences, wire>>

Keys  == <<"0", "1", "2", "3", "4", "5", "6", "7", "8", "9", "*", "#", "A", "B", "C", "D">>
Lower == <<"a", "b", "c", "d">>

\* dtmfEventCode
Supported(r) == (\E c \in 1..16 : Keys[c] = r) \/ (\E c \in 1..4 : Lower[c] = r)
EventCode(r) ==
  IF \E c \in 1..16 : Keys[c] = r THEN (CHOOSE c \in 1..16 : Keys[c] = r) - 1
                                  ELSE 11 + CHOOSE c \in 1..4 : Lower[c] = r

\* The samples of n packets of 20 ms, in a uint16.
Uint16 == 65536
Samples(n) == ((n % Uint16) * 160) % Uint16

\* Packets of a tone.
NPackets == IF perTone \div 20 < 2 THEN 2 ELSE perTone \div 20

Gap == 320

Event == [digit: 1..MaxDigits, code: 0..15, end: BOOLEAN, dur: 0..(Uint16 - 1), ts: Nat]

DtmfTypeOK ==
  /\ digits \in Seq(Alphabet) /\ Len(digits) <= MaxDigits
  /\ perTone \in PerTones \cup {0}
  /\ dtmf \in {"idle", "digit", "interim", "end", "returned", "failed"}
  /\ at \in 1..(MaxDigits + 1)
  /\ packets \in 0..NPackets
  /\ nextTS \in Nat
  /\ silences \in 0..MaxSilence
  /\ wire \in Seq(Event)

DtmfInit ==
  /\ digits = << >> /\ perTone = 0
  /\ dtmf = "idle"
  /\ at = 1 /\ packets = 0
  /\ nextTS = 0 /\ silences = 0
  /\ wire = << >>

-----------------------------------------------------------------------------
\* The call and its early returns: the call is not answered or has no packet
\* writer, or the tone is too short.
SendDTMFWithDuration ==
  /\ dtmf = "idle"
  /\ digits' \in UNION {[1..n -> Alphabet] : n \in 0..MaxDigits}
  /\ perTone' \in PerTones
  /\ dtmf' \in IF perTone' < 40 THEN {"failed"} ELSE {"digit", "failed"}
  /\ UNCHANGED <<at, packets, nextTS, silences, wire>>

\* The head of the loop: the next digit, or the end of the sequence.
NextDigit ==
  /\ dtmf = "digit"
  /\ dtmf' = IF at > Len(digits) THEN "returned"
             ELSE IF Supported(digits[at]) THEN "interim" ELSE "failed"
  /\ packets' = 0
  /\ UNCHANGED <<digits, perTone, at, nextTS, silences, wire>>

\* WriteSamples: an event with the current timestamp, which then advances.
WriteSamples(end, dur, advance) ==
  /\ wire' = Append(wire, [digit |-> at, code |-> EventCode(digits[at]), end |-> end,
                           dur |-> dur, ts |-> nextTS])
  /\ nextTS' = nextTS + advance

\* Mutant: an interim packet advances the timestamp like an audio frame.
AdvanceAudio == 160

\* Packets of one event share its timestamp.
InterimAdvance == 0

InterimDuration == Samples(packets + 1)

Interim ==
  /\ dtmf = "interim"
  /\ WriteSamples(FALSE, InterimDuration, InterimAdvance)
  /\ packets' = packets + 1
  /\ dtmf' = IF packets + 1 = NPackets THEN "end" ELSE "interim"
  /\ UNCHANGED <<digits, perTone, at, silences>>

\* Mutant: as diago's DTMFWriter, which holds the timestamp between digits.
HoldTimestamp == 0

\* The timestamp moves past the tone and a gap, in a uint32.
EndAdvance == Samples(NPackets) + Gap

End ==
  /\ dtmf = "end"
  /\ WriteSamples(TRUE, Samples(NPackets), EndAdvance)
  /\ at' = at + 1
  /\ dtmf' = "digit"
  /\ UNCHANGED <<digits, perTone, packets, silences>>

\* The writer reports an error: the call has ended, or the socket failed.
WriterFails ==
  /\ dtmf \in {"interim", "end"}
  /\ dtmf' = "failed"
  /\ UNCHANGED <<digits, perTone, at, packets, nextTS, silences, wire>>

\* The silence loop writes a frame on the same packet writer.
Silence ==
  /\ silences < MaxSilence /\ Len(wire) <= SilenceUntil
  /\ silences' = silences + 1
  /\ nextTS' = nextTS + 160
  /\ UNCHANGED <<digits, perTone, dtmf, at, packets, wire>>

DtmfNext == SendDTMFWithDuration \/ NextDigit \/ Interim \/ End \/ WriterFails \/ Silence

-----------------------------------------------------------------------------
\* The end packets on the wire, by position.
Ends == {j \in 1..Len(wire) : wire[j].end}

\* A receiver that reports a digit at every end packet, and drops the one that
\* repeats the timestamp of the event before, hears the digits that were sent,
\* silence frames in between or not ("1234" is not reported as "2223"): there is an
\* end packet for each, in their order, with its code, and no two share a timestamp.
DigitsHeard ==
  dtmf = "returned" =>
    /\ {wire[a].digit : a \in Ends} = 1..Len(digits)
    /\ \A a \in Ends : wire[a].code = EventCode(digits[wire[a].digit])
    /\ \A a, b \in Ends : a < b => wire[a].digit < wire[b].digit /\ wire[a].ts # wire[b].ts

\* The last packet continues the event of the one before.
Continues == Len(wire) > 1 /\ wire[Len(wire) - 1].digit = wire[Len(wire)].digit

\* Within an event the duration grows by 20 ms a packet, from 160, and the end
\* packet repeats the last one, for tones whose samples fit the uint16 the code
\* counts them in: up to 409 packets.  A tone of 8.2 s wraps.
DurationGrows ==
  LET j == Len(wire) IN
  wire # << >> /\ NPackets * 160 < Uint16 =>
    IF ~Continues THEN wire[j].dur = 160
    ELSE wire[j].dur = wire[j - 1].dur + IF wire[j].end THEN 0 ELSE 160

\* "First packet of the event owns the digit's starting timestamp; subsequent
\* packets share it" (SendDTMFWithDuration), while no silence loop runs beside.
\* With one, as in the gather test, a frame in the middle of an event moves it.
SharedTimestamp ==
  Continues /\ silences = 0 => wire[Len(wire)].ts = wire[Len(wire) - 1].ts

\* The packets of one event are what a receiver takes for one event.
EventsWellFormed == SharedTimestamp /\ DurationGrows

\* What the layout in the comment on SendDTMFWithDuration promises: three
\* redundant end-of-event packets for every digit.  The code sends one.
ThreeEndPackets == dtmf = "returned" => Cardinality(Ends) = 3 * Len(digits)
=============================================================================
