--------------------------- MODULE WSStreamProofs ---------------------------
(***************************************************************************)
(* Theorems about WSStream, for any number of connections and frames and   *)
(* any capacity of the queue.                                              *)
(***************************************************************************)
EXTENDS WSStream, SequenceTheorems, TLAPS

-----------------------------------------------------------------------------
(* Type correctness.                                                       *)

Loop == [pc : {"absent", "upgraded", "read", "stash", "send", "closing", "locked", "gone",
               "elsewhere"},
         frame : 0..MaxFrames, panicked : BOOLEAN]

Reader == [pc : Calls \cup {"idle", "drain"}, op : Calls, how : Returns]

(* Frames of the queue.                                                    *)
Waiting == {inbound[i] : i \in 1..Len(inbound)}

(* A handler that holds a frame holds one that was read.  A frame that     *)
(* entered the queue was read, and is in the queue or with the test: none  *)
(* gets lost on the way.                                                   *)
Holding == \A k \in Conns : loop[k].pc \in {"stash", "send"} => loop[k].frame \in 1..Len(frames)
Conserved == queued \subseteq 1..Len(frames) /\ queued = got \cup Waiting

(* The reads the test can be in.                                           *)
ReadsMatch ==
    /\ reader.pc \in Calls => reader.op = reader.pc
    /\ reader.pc = "drain" => reader.op = "CollectWS"

(* WaitWSMark returned at the end of a closed stream: it has it all.       *)
MarkLast ==
    reader.pc = "idle" /\ reader.op = "WaitWSMark" /\ reader.how = "closed"
        => inClosed /\ queued \subseteq got

StreamInv == TypeOK /\ Holding /\ Conserved /\ ReadsMatch /\ MarkLast

(* A new stream.                                                           *)
LEMMA StreamInit == Init => StreamInv
  <1> SUFFICES ASSUME Init PROVE StreamInv
    OBVIOUS
  <1>1. /\ ws \in BOOLEAN /\ inClosed \in BOOLEAN /\ doneCh \in BOOLEAN /\ closed \in BOOLEAN
    BY DEF Init
  <1>2. inbound \in Seq(1..MaxFrames) /\ Len(inbound) <= InboundCap
    BY CapAssumption DEF Init
  <1>3. frames \in Seq(Kinds) /\ Len(frames) <= MaxFrames
    BY CapAssumption DEF Init
  <1>4. loop \in [Conns -> Loop]
    BY CapAssumption DEF Init, Loop
  <1>5. reader \in Reader
    BY DEF Init, Reader, Calls, Returns
  <1>6. TypeOK
    BY <1>1, <1>2, <1>3, <1>4, <1>5 DEF Init, TypeOK, Loop, Reader
  <1>7. Waiting = {}
    BY DEF Init, Waiting
  <1> QED
    BY <1>6, <1>7 DEF Init, StreamInv, Holding, Conserved, ReadsMatch, MarkLast, Calls

(* The types apart.                                                        *)
LEMMA Types ==
  TypeOK <=> /\ ws \in BOOLEAN /\ inClosed \in BOOLEAN /\ doneCh \in BOOLEAN /\ closed \in BOOLEAN
             /\ conn \in Conns \cup {None}
             /\ inbound \in Seq(1..MaxFrames) /\ Len(inbound) <= InboundCap
             /\ metadata \in 1..MaxFrames \cup {None}
             /\ frames \in Seq(Kinds) /\ Len(frames) <= MaxFrames
             /\ loop \in [Conns -> Loop]
             /\ queued \subseteq 1..MaxFrames /\ got \subseteq queued
             /\ reader \in Reader
  BY DEF TypeOK, Loop, Reader

(* And put together after a step.                                          *)
LEMMA Together ==
  ASSUME ws' \in BOOLEAN, inClosed' \in BOOLEAN, doneCh' \in BOOLEAN, closed' \in BOOLEAN,
         conn' \in Conns \cup {None},
         inbound' \in Seq(1..MaxFrames), Len(inbound') <= InboundCap,
         metadata' \in 1..MaxFrames \cup {None},
         frames' \in Seq(Kinds), Len(frames') <= MaxFrames,
         loop' \in [Conns -> Loop],
         queued' \subseteq 1..MaxFrames, got' \subseteq queued', reader' \in Reader,
         Holding', Conserved', ReadsMatch', MarkLast'
  PROVE  StreamInv'
  BY DEF StreamInv, TypeOK, Loop, Reader

(* A handler that goes on to another point, without a frame to put.        *)
LEMMA LoopGoes ==
  ASSUME StreamInv, NEW k \in Conns, NEW p \in {"upgraded", "read", "closing", "locked", "gone", "elsewhere"},
         loop' = [loop EXCEPT ![k].pc = p], UNCHANGED frames
  PROVE  loop' \in [Conns -> Loop] /\ Holding'
  <1>1. loop \in [Conns -> Loop]
    BY Types DEF StreamInv
  <1>2. loop' \in [Conns -> Loop]
    BY <1>1 DEF Loop
  <1>3. loop'[k].pc = p /\ \A j \in Conns : j # k => loop'[j] = loop[j]
    BY <1>1 DEF Loop
  <1> QED
    BY <1>2, <1>3 DEF StreamInv, Holding

(* A step that leaves the queue and the test alone.                        *)
LEMMA QueueSame ==
  ASSUME StreamInv, UNCHANGED <<inbound, queued, got, reader, frames>>,
         inClosed' \in BOOLEAN, inClosed => inClosed'
  PROVE  /\ Conserved' /\ ReadsMatch' /\ MarkLast'
         /\ inbound' \in Seq(1..MaxFrames) /\ Len(inbound') <= InboundCap
         /\ frames' \in Seq(Kinds) /\ Len(frames') <= MaxFrames
         /\ queued' \subseteq 1..MaxFrames /\ got' \subseteq queued' /\ reader' \in Reader
  <1>1. /\ inbound' \in Seq(1..MaxFrames) /\ Len(inbound') <= InboundCap
        /\ frames' \in Seq(Kinds) /\ Len(frames') <= MaxFrames
        /\ queued' \subseteq 1..MaxFrames /\ got' \subseteq queued' /\ reader' \in Reader
    BY Types DEF StreamInv
  <1>2. Conserved'
    BY DEF StreamInv, Conserved, Waiting
  <1>3. ReadsMatch' /\ MarkLast'
    BY DEF StreamInv, ReadsMatch, MarkLast
  <1> QED
    BY <1>1, <1>2, <1>3

(* The test's reads leave the handlers alone.                              *)
LEMMA HandlersSame ==
  ASSUME StreamInv, UNCHANGED <<conn, inClosed, doneCh, closed, metadata, frames, loop>>,
         ws' \in BOOLEAN
  PROVE  /\ Holding'
         /\ ws' \in BOOLEAN /\ inClosed' \in BOOLEAN /\ doneCh' \in BOOLEAN
         /\ closed' \in BOOLEAN /\ conn' \in Conns \cup {None}
         /\ metadata' \in 1..MaxFrames \cup {None}
         /\ frames' \in Seq(Kinds) /\ Len(frames') <= MaxFrames
         /\ loop' \in [Conns -> Loop]
  <1>1. Holding'
    BY DEF StreamInv, Holding
  <1>2. /\ inClosed' \in BOOLEAN /\ doneCh' \in BOOLEAN
        /\ closed' \in BOOLEAN /\ conn' \in Conns \cup {None}
        /\ metadata' \in 1..MaxFrames \cup {None}
        /\ frames' \in Seq(Kinds) /\ Len(frames') <= MaxFrames
        /\ loop' \in [Conns -> Loop]
    BY Types DEF StreamInv
  <1> QED
    BY <1>1, <1>2

(* handleWS.                                                               *)
LEMMA HandlerInv ==
  ASSUME StreamInv, NEW k \in Conns, HandlerStep(k) \/ Jambonz(k)
  PROVE  StreamInv'
  <1>0. /\ ws \in BOOLEAN /\ inClosed \in BOOLEAN /\ doneCh \in BOOLEAN /\ closed \in BOOLEAN
        /\ conn \in Conns \cup {None}
        /\ inbound \in Seq(1..MaxFrames) /\ Len(inbound) <= InboundCap
        /\ metadata \in 1..MaxFrames \cup {None}
        /\ frames \in Seq(Kinds) /\ Len(frames) <= MaxFrames
        /\ loop \in [Conns -> Loop]
        /\ queued \subseteq 1..MaxFrames /\ got \subseteq queued
        /\ reader \in Reader
    BY Types DEF StreamInv
  <1>1. CASE Upgrade(k)
    <2>1. loop' \in [Conns -> Loop] /\ Holding'
      BY <1>1, LoopGoes DEF Upgrade
    <2> QED
      BY <1>0, <1>1, <2>1, QueueSame, Together DEF Upgrade, chans
  <1>10. CASE ServedElsewhere(k)
    <2>1. loop' \in [Conns -> Loop] /\ Holding'
      BY <1>10, LoopGoes DEF ServedElsewhere
    <2> QED
      BY <1>0, <1>10, <2>1, QueueSame, Together DEF ServedElsewhere, chans
  <1>2. CASE Attach(k)
    <2>1. loop' \in [Conns -> Loop] /\ Holding'
      BY <1>2, LoopGoes DEF Attach
    <2> QED
      BY <1>0, <1>2, <2>1, QueueSame, Together DEF Attach, chans
  <1>3. CASE ReadErr(k)
    <2>1. loop' \in [Conns -> Loop] /\ Holding'
      BY <1>3, LoopGoes DEF ReadErr
    <2> QED
      BY <1>0, <1>3, <2>1, QueueSame, Together DEF ReadErr, chans
  <1>4. CASE CloseDone(k)
    <2>1. loop' \in [Conns -> Loop] /\ Holding'
      BY <1>4, LoopGoes DEF CloseDone
    <2> QED
      BY <1>0, <1>4, <2>1, QueueSame, Together DEF CloseDone
  <1>5. CASE CloseInbound(k)
    <2>1. loop' \in [Conns -> Loop] /\ Holding'
      BY <1>5, LoopGoes DEF CloseInbound
    <2> QED
      BY <1>0, <1>5, <2>1, QueueSame, Together DEF CloseInbound
  <1>6. CASE Panic(k)
    <2>1. loop' \in [Conns -> Loop]
      BY <1>0, <1>6, ZenonT(60) DEF Panic, Loop
    <2>2. loop'[k].pc = "closing" /\ \A j \in Conns : j # k => loop'[j] = loop[j]
      BY <1>0, <1>6 DEF Panic, Loop
    <2>3. Holding'
      BY <1>6, <2>2 DEF Panic, StreamInv, Holding
    <2> QED
      BY <1>0, <1>6, <2>1, <2>3, QueueSame, Together DEF Panic, chans
  <1>7. CASE Stash(k)
    <2>1. /\ loop' \in [Conns -> Loop]
          /\ loop'[k].pc = "send" /\ loop'[k].frame = loop[k].frame
          /\ \A j \in Conns : j # k => loop'[j] = loop[j]
      BY <1>0, <1>7 DEF Stash, Loop
    <2>2. loop[k].frame \in 1..Len(frames)
      BY <1>7 DEF Stash, StreamInv, Holding
    <2>3. Holding'
      BY <1>7, <2>1, <2>2 DEF Stash, StreamInv, Holding
    <2>4. metadata' \in 1..MaxFrames \cup {None}
      BY <1>0, <1>7, <2>2, CapAssumption DEF Stash
    <2> QED
      BY <1>0, <1>7, <2>1, <2>3, <2>4, QueueSame, Together DEF Stash, chans
  <1>8. ASSUME NEW kind \in Kinds, ReadMessage(k, kind) PROVE StreamInv'
    <2>1. /\ frames' \in Seq(Kinds) /\ Len(frames') = Len(frames) + 1
          /\ Len(frames') <= MaxFrames
      BY <1>0, <1>8, CapAssumption DEF ReadMessage
    <2>2. /\ loop' \in [Conns -> Loop]
          /\ loop'[k].frame = Len(frames) + 1
          /\ \A j \in Conns : j # k => loop'[j] = loop[j]
      <3>1. PICK p \in {"send", "stash"}, n \in 0..MaxFrames :
              n = Len(frames) + 1 /\ loop' = [loop EXCEPT ![k].frame = n, ![k].pc = p]
        <4>1. Len(frames) + 1 \in 0..MaxFrames
          BY <1>0, <1>8, CapAssumption DEF ReadMessage
        <4>2. CASE kind = "binary"
          BY <1>8, <4>1, <4>2 DEF ReadMessage
        <4>3. CASE kind # "binary"
          BY <1>8, <4>1, <4>3 DEF ReadMessage
        <4> QED
          BY <4>2, <4>3
      <3> QED
        BY <1>0, <3>1, ZenonT(60) DEF Loop
    <2>3. Holding'
      BY <1>0, <2>1, <2>2 DEF StreamInv, Holding
    <2>4. Conserved'
      BY <1>0, <1>8, <2>1 DEF ReadMessage, chans, StreamInv, Conserved, Waiting
    <2>5. ReadsMatch' /\ MarkLast'
      BY <1>8 DEF ReadMessage, chans, StreamInv, ReadsMatch, MarkLast
    <2> QED
      BY <1>0, <1>8, <2>1, <2>2, <2>3, <2>4, <2>5, Together DEF ReadMessage, chans
  <1>9. CASE Enqueue(k)
    <2>1. loop' \in [Conns -> Loop] /\ Holding'
      BY <1>9, LoopGoes DEF Enqueue
    <2>2. CASE ~Fits
      BY <1>0, <1>9, <2>1, <2>2, QueueSame, Together DEF Enqueue
    <2>3. CASE Fits
      <3>1. /\ inbound' = Append(inbound, loop[k].frame)
            /\ queued' = queued \cup {loop[k].frame} /\ got' = got /\ ~inClosed
            /\ UNCHANGED <<inClosed, reader, frames>>
        BY <1>9, <2>3 DEF Enqueue
      <3>2. loop[k].frame \in 1..Len(frames) /\ loop[k].frame \in 1..MaxFrames
        BY <1>0, <1>9, CapAssumption DEF Enqueue, StreamInv, Holding
      <3>3. inbound' \in Seq(1..MaxFrames) /\ Len(inbound') <= InboundCap
        BY <1>0, <2>3, <3>1, <3>2, CapAssumption DEF Fits
      <3>4. Waiting' = Waiting \cup {loop[k].frame}
        <4>1. /\ Len(inbound') = Len(inbound) + 1 /\ Len(inbound) \in Nat
              /\ inbound'[Len(inbound) + 1] = loop[k].frame
              /\ \A i \in 1..Len(inbound) : inbound'[i] = inbound[i]
          BY <1>0, <3>1, <3>2
        <4>2. ASSUME NEW n \in Waiting' PROVE n \in Waiting \cup {loop[k].frame}
          <5>1. PICK i \in 1..(Len(inbound) + 1) : n = inbound'[i]
            BY <4>1, <4>2 DEF Waiting
          <5>2. i = Len(inbound) + 1 \/ i \in 1..Len(inbound)
            BY <4>1
          <5> QED
            BY <4>1, <5>1, <5>2 DEF Waiting
        <4>3. Len(inbound) + 1 \in 1..Len(inbound') /\ \A i \in 1..Len(inbound) : i \in 1..Len(inbound')
          BY <4>1
        <4>4. Waiting \cup {loop[k].frame} \subseteq Waiting'
          BY <4>1, <4>3 DEF Waiting
        <4> QED
          BY <4>2, <4>4
      <3>5. Conserved'
        BY <3>1, <3>2, <3>4 DEF StreamInv, Conserved
      <3>6. ReadsMatch' /\ MarkLast'
        BY <3>1 DEF StreamInv, ReadsMatch, MarkLast
      <3> QED
        BY <1>0, <1>9, <2>1, <3>1, <3>2, <3>3, <3>5, <3>6, Together DEF Enqueue
    <2> QED
      BY <2>2, <2>3
  <1> QED
    BY <1>1, <1>2, <1>3, <1>4, <1>5, <1>6, <1>7, <1>8, <1>9, <1>10
    DEF HandlerStep, Jambonz

(* A return of a read that leaves the queue alone.                         *)
LEMMA ReturnInv ==
  ASSUME StreamInv, NEW how \in Returns, Return(how),
         UNCHANGED <<chans, ws, conn, closed, metadata, frames, loop, got>>,
         how = "closed" /\ reader.op = "WaitWSMark" => inClosed /\ inbound = <<>>
  PROVE  StreamInv'
  <1>1. /\ ws \in BOOLEAN /\ reader \in Reader
        /\ inbound \in Seq(1..MaxFrames) /\ Len(inbound) <= InboundCap
        /\ queued \subseteq 1..MaxFrames /\ got \subseteq queued
    BY Types DEF StreamInv
  <1>2. /\ reader' \in Reader /\ reader'.pc = "idle" /\ reader'.how = how
        /\ reader'.op = reader.op
    BY <1>1 DEF Return, Reader
  <1>3. Conserved'
    BY DEF chans, StreamInv, Conserved, Waiting
  <1>4. ReadsMatch'
    BY <1>2 DEF ReadsMatch, Calls
  <1>5. ASSUME inbound = <<>> PROVE queued \subseteq got
    BY <1>5 DEF StreamInv, Conserved, Waiting
  <1>6. MarkLast'
    BY <1>2, <1>5 DEF chans, MarkLast
  <1> QED
    BY <1>1, <1>2, <1>3, <1>4, <1>6, HandlersSame, Together DEF chans

(* A receive takes the head of the queue to the test.                      *)
LEMMA ReceiveInv ==
  ASSUME StreamInv, Receive
  PROVE  StreamInv'
  <1>1. /\ ws \in BOOLEAN /\ reader \in Reader
        /\ inbound \in Seq(1..MaxFrames) /\ Len(inbound) <= InboundCap
        /\ queued \subseteq 1..MaxFrames /\ got \subseteq queued
        /\ InboundCap \in Nat
    BY Types, CapAssumption DEF StreamInv
  <1>2. /\ inbound # <<>> /\ inbound' = Tail(inbound) /\ got' = got \cup {Head(inbound)}
        /\ reader.pc # "idle" /\ UNCHANGED <<queued, frames, inClosed>>
    BY DEF Receive
  <1>3. /\ inbound' \in Seq(1..MaxFrames) /\ Len(inbound') = Len(inbound) - 1
        /\ Len(inbound) \in Nat \ {0} /\ Head(inbound) = inbound[1]
        /\ \A i \in 1..Len(inbound') : inbound'[i] = inbound[i + 1]
    BY <1>1, <1>2
  <1>4. Waiting = Waiting' \cup {Head(inbound)}
    <2>1. ASSUME NEW n \in Waiting PROVE n \in Waiting' \cup {Head(inbound)}
      <3>1. PICK i \in 1..Len(inbound) : n = inbound[i]
        BY DEF Waiting
      <3>2. CASE i = 1
        BY <1>3, <3>1, <3>2
      <3>3. CASE i # 1
        <4>1. i - 1 \in 1..Len(inbound') /\ (i - 1) + 1 = i
          BY <1>3, <3>3
        <4>2. inbound'[i - 1] = n
          BY <1>3, <3>1, <4>1
        <4> QED
          BY <4>1, <4>2 DEF Waiting
      <3> QED
        BY <3>2, <3>3
    <2>2. ASSUME NEW n \in Waiting' PROVE n \in Waiting
      <3>1. PICK i \in 1..Len(inbound') : n = inbound'[i]
        BY DEF Waiting
      <3>2. i + 1 \in 1..Len(inbound) /\ n = inbound[i + 1]
        BY <1>3, <3>1
      <3> QED
        BY <3>2 DEF Waiting
    <2>3. 1 \in 1..Len(inbound)
      BY <1>3
    <2>4. Head(inbound) \in Waiting
      BY <1>3, <2>3 DEF Waiting
    <2> QED
      BY <2>1, <2>2, <2>4
  <1>5. Conserved' /\ got' \subseteq queued'
    BY <1>2, <1>4 DEF StreamInv, Conserved
  <1>6. Return("frame") \/ Return("mark") \/ UNCHANGED reader
    BY DEF Receive
  <1>7. /\ reader' \in Reader
        /\ reader' = reader \/ (reader'.pc = "idle" /\ reader'.how \in {"frame", "mark"})
    BY <1>1, <1>6 DEF Return, Reader, Returns
  <1>8. ReadsMatch'
    BY <1>7 DEF StreamInv, ReadsMatch, Calls
  <1>9. MarkLast'
    BY <1>2, <1>7 DEF MarkLast
  <1>10. /\ queued' \subseteq 1..MaxFrames /\ Len(inbound') <= InboundCap /\ ws' \in BOOLEAN
    BY <1>1, <1>2, <1>3 DEF Receive
  <1> QED
    BY <1>3, <1>5, <1>7, <1>8, <1>9, <1>10, HandlersSame, Together DEF Receive

(* The test's reads.                                                       *)
LEMMA ReaderInv ==
  ASSUME StreamInv, ReaderStep \/ CtxDone \/ \E op \in Calls : Call(op)
  PROVE  StreamInv'
  <1>0. /\ ws \in BOOLEAN /\ reader \in Reader
        /\ inbound \in Seq(1..MaxFrames) /\ Len(inbound) <= InboundCap
        /\ queued \subseteq 1..MaxFrames /\ got \subseteq queued
    BY Types DEF StreamInv
  <1>1. CASE ReceiveClosed
    BY <1>1, ReturnInv DEF ReceiveClosed, Returns
  <1>2. CASE Drained
    <2>1. reader.op = "CollectWS"
      BY <1>2 DEF Drained, StreamInv, ReadsMatch
    <2> QED
      BY <1>2, <2>1, ReturnInv DEF Drained, Returns
  <1>3. CASE CtxDone
    BY <1>3, ReturnInv DEF CtxDone, Returns
  <1>4. CASE SeeClosed
    <2>1. reader' \in Reader /\ reader'.pc = "drain" /\ reader'.op = "CollectWS"
      BY <1>0, <1>4 DEF SeeClosed, Reader, StreamInv, ReadsMatch, Calls
    <2>2. Conserved'
      BY <1>4 DEF SeeClosed, chans, StreamInv, Conserved, Waiting
    <2>3. ReadsMatch' /\ MarkLast'
      BY <2>1 DEF ReadsMatch, MarkLast, Calls
    <2> QED
      BY <1>0, <1>4, <2>1, <2>2, <2>3, HandlersSame, Together DEF SeeClosed, chans
  <1>5. ASSUME NEW op \in Calls, Call(op) PROVE StreamInv'
    <2>1. reader' \in Reader /\ reader'.pc = op /\ reader'.op = op
      BY <1>5 DEF Call, Reader, Returns
    <2>2. Conserved'
      BY <1>5 DEF Call, chans, StreamInv, Conserved, Waiting
    <2>3. ReadsMatch' /\ MarkLast'
      BY <2>1 DEF ReadsMatch, MarkLast, Calls
    <2> QED
      BY <1>0, <1>5, <2>1, <2>2, <2>3, HandlersSame, Together DEF Call, chans
  <1> QED
    BY <1>1, <1>2, <1>3, <1>4, <1>5, ReceiveInv DEF ReaderStep

(* Every step keeps the invariant.                                         *)
LEMMA StreamStep == StreamInv /\ [Next]_vars => StreamInv'
  <1> SUFFICES ASSUME StreamInv, [Next]_vars PROVE StreamInv'
    OBVIOUS
  <1>1. CASE UNCHANGED vars
    <2>1. inClosed' \in BOOLEAN /\ ws' \in BOOLEAN
      BY <1>1, Types DEF vars, StreamInv
    <2> QED
      BY <1>1, <2>1, QueueSame, HandlersSame, Together DEF vars
  <1>2. CASE Next
    BY <1>2, HandlerInv, ReaderInv DEF Next
  <1> QED
    BY <1>1, <1>2

(* The stream has its types and loses no frame between the queue and the   *)
(* test: always.                                                           *)
LEMMA StreamAlways == Spec => []StreamInv
  BY StreamInit, StreamStep, PTL DEF Spec

-----------------------------------------------------------------------------
(* The types of handleWS's state and of the test's reads, whatever the     *)
(* order in which connections and reads run.                               *)
THEOREM StreamTypeCorrect == Spec => []TypeOK
  <1>1. StreamInv => TypeOK
    BY DEF StreamInv
  <1> QED
    BY <1>1, StreamAlways, PTL

(* WaitWSMark never misses a mark that was queued before the close, for    *)
(* any capacity of the queue: when it reports the end of the stream, the   *)
(* queue is empty and closed, and the test has received all that entered.  *)
THEOREM MarksAreSeen == Spec => []NoMarkMissed
  <1>1. StreamInv => NoMarkMissed
    BY DEF StreamInv, MarkLast, NoMarkMissed
  <1> QED
    BY <1>1, StreamAlways, PTL

(* CollectWS leaves nothing behind: a step in which it returns because the *)
(* stream closed finds the queue empty, by the closed inbound or at the    *)
(* end of the drain.                                                       *)
THEOREM CollectIsComplete == Spec => CollectsEverything
  <1>1. StreamInv /\ [Next]_vars =>
          [reader.pc # "idle" /\ reader'.pc = "idle"
             /\ reader'.op = "CollectWS" /\ reader'.how = "closed"
             => queued' \subseteq got']_vars
    <2> SUFFICES ASSUME StreamInv, Next, reader.pc # "idle", reader'.pc = "idle",
                        reader'.op = "CollectWS", reader'.how = "closed"
                 PROVE  queued' \subseteq got'
      OBVIOUS
    <2>0. reader \in Reader
      BY Types DEF StreamInv
    <2>1. ReceiveClosed \/ Drained
      <3>1. ASSUME NEW k \in Conns, HandlerStep(k) \/ Jambonz(k) PROVE reader' = reader
        BY <3>1 DEF HandlerStep, Jambonz, Upgrade, ServedElsewhere, Attach, ReadMessage, Stash,
                    Enqueue, Panic, ReadErr, CloseDone, CloseInbound
      <3>2. ASSUME NEW op \in Calls, Call(op) PROVE FALSE
        BY <3>2 DEF Call
      <3>3. ~CtxDone
        BY <2>0 DEF CtxDone, Return, Reader
      <3>4. ~SeeClosed
        BY <2>0 DEF SeeClosed, Reader
      <3>5. ASSUME Receive PROVE FALSE
        <4>1. Return("frame") \/ Return("mark") \/ UNCHANGED reader
          BY <3>5 DEF Receive
        <4> QED
          BY <2>0, <4>1 DEF Return, Reader
      <3> QED
        BY <3>1, <3>2, <3>3, <3>4, <3>5 DEF Next, ReaderStep
    <2>2. inbound = <<>> /\ UNCHANGED <<queued, got>>
      BY <2>1 DEF ReceiveClosed, Drained, chans
    <2> QED
      BY <2>2 DEF StreamInv, Conserved, Waiting
  <1> QED
    BY <1>1, StreamAlways, PTL DEF Spec, CollectsEverything

=============================================================================
