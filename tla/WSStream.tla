------------------------------ MODULE WSStream ------------------------------
(***************************************************************************)
(* The audio and control WebSocket of one session                          *)
(* (internal/webhook/ws.go): handleWS, one goroutine per connection, fills *)
(* the bounded inbound queue of the session's wsSession; the test drains   *)
(* it with WaitWSMessage, WaitWSMark or CollectWS.                         *)
(*                                                                         *)
(* The channels inbound and closedCh are not guarded by ws.mu, so a reader *)
(* can run between their two closes.  A send on the closed inbound panics; *)
(* net/http recovers the panic, the deferred functions run, and the frames *)
(* of that connection are lost.                                            *)
(*                                                                         *)
(* The session is the one a test claimed, or the shared "_anon", which is  *)
(* never released: then the connections are those of any tests whose       *)
(* sessions handleWS did not find, and the reads those of its reader.      *)
(***************************************************************************)
EXTENDS Naturals, Sequences

CONSTANTS
    Conns,      \* connections jambonz makes to /ws/<id>
    InboundCap, \* capacity of wsSession.inbound (256 in the code)
    MaxFrames,  \* bound: frames jambonz sends in a behaviour
    None

ASSUME CapAssumption == InboundCap \in Nat \ {0} /\ MaxFrames \in Nat
ASSUME NoneAssumption == None \notin Conns \cup 1..MaxFrames

VARIABLES
    ws,        \* Session.ws has been allocated
    conn,      \* wsSession.conn
    inbound,   \* the queue: numbers of frames
    inClosed,  \* inbound is closed
    doneCh,    \* closedCh is closed
    closed,    \* wsSession.closed
    metadata,  \* the frame whose JSON was stashed
    frames,    \* kinds of the frames read so far, in order
    loop,      \* the handler of each connection and the frame it holds
    queued,    \* history: frames that entered the queue
    got,       \* history: frames the test received
    reader     \* the call the test is in, and how the last one returned

vars == <<ws, conn, inbound, inClosed, doneCh, closed, metadata, frames, loop,
          queued, got, reader>>

(* A binary frame stands for a text frame that is not JSON too; a mark is  *)
(* the JSON frame that WaitWSMark waits for.                               *)
Kinds == {"binary", "json", "mark"}

Calls == {"WaitWSMessage", "WaitWSMark", "CollectWS"}

Returns == {"none", "frame", "mark", "closed", "ctx"}

TypeOK ==
    /\ {ws, inClosed, doneCh, closed} \subseteq BOOLEAN
    /\ conn \in Conns \cup {None}
    /\ inbound \in Seq(1..MaxFrames)
    /\ Len(inbound) <= InboundCap
    /\ metadata \in 1..MaxFrames \cup {None}
    /\ frames \in Seq(Kinds)
    /\ Len(frames) <= MaxFrames
    /\ loop \in [Conns -> [pc : {"absent", "upgraded", "read", "stash", "send",
                                 "closing", "locked", "gone", "elsewhere"},
                           frame : 0..MaxFrames, panicked : BOOLEAN]]
    /\ queued \subseteq 1..MaxFrames
    /\ got \subseteq queued
    /\ reader \in [pc : Calls \cup {"idle", "drain"}, op : Calls,
                   how : Returns]

Init ==
    /\ ws = FALSE
    /\ conn = None
    /\ inbound = <<>>
    /\ inClosed = FALSE
    /\ doneCh = FALSE
    /\ closed = FALSE
    /\ metadata = None
    /\ frames = <<>>
    /\ loop = [k \in Conns |-> [pc |-> "absent", frame |-> 0,
                                panicked |-> FALSE]]
    /\ queued = {}
    /\ got = {}
    /\ reader = [pc |-> "idle", op |-> "CollectWS", how |-> "none"]

chans == <<inbound, inClosed, doneCh, queued>>

(* ws.mu is held across the two closes only.                               *)
MuFree == \A k \in Conns : loop[k].pc # "locked"

-----------------------------------------------------------------------------
(* handleWS *)

(* Lookup finds the session and the upgrade succeeds; the first of the     *)
(* connection and the test's reads allocates ws.                           *)
Upgrade(k) ==
    /\ loop[k].pc = "absent"
    /\ ws' = TRUE
    /\ loop' = [loop EXCEPT ![k].pc = "upgraded"]
    /\ UNCHANGED <<chans, conn, closed, metadata, frames, got, reader>>

(* Lookup misses, as the test has not claimed the session yet or released  *)
(* it, and the shared "_anon" serves the connection; or the upgrade fails. *)
(* Either way this session sees nothing of it.                             *)
ServedElsewhere(k) ==
    /\ loop[k].pc = "absent"
    /\ loop' = [loop EXCEPT ![k].pc = "elsewhere"]
    /\ UNCHANGED <<chans, ws, conn, closed, metadata, frames, got, reader>>

Attach(k) ==
    /\ loop[k].pc = "upgraded"
    /\ MuFree
    /\ conn' = k
    /\ loop' = [loop EXCEPT ![k].pc = "read"]
    /\ UNCHANGED <<chans, ws, closed, metadata, frames, got, reader>>

(* ReadMessage returns a frame.                                            *)
ReadMessage(k, kind) ==
    /\ loop[k].pc = "read"
    /\ Len(frames) < MaxFrames
    /\ frames' = Append(frames, kind)
    /\ loop' = [loop EXCEPT ![k].frame = Len(frames) + 1,
                            ![k].pc = IF kind = "binary" THEN "send"
                                                         ELSE "stash"]
    /\ UNCHANGED <<chans, ws, conn, closed, metadata, got, reader>>

(* The first JSON text frame is kept as metadata.                          *)
Stash(k) ==
    /\ loop[k].pc = "stash"
    /\ MuFree
    /\ metadata' = IF metadata = None THEN loop[k].frame ELSE metadata
    /\ loop' = [loop EXCEPT ![k].pc = "send"]
    /\ UNCHANGED <<chans, ws, conn, closed, frames, got, reader>>

Fits == Len(inbound) < InboundCap

(* The send into the queue, which drops the frame when it is full.         *)
Enqueue(k) ==
    /\ loop[k].pc = "send"
    /\ ~inClosed
    /\ IF Fits THEN /\ inbound' = Append(inbound, loop[k].frame)
                    /\ queued' = queued \cup {loop[k].frame}
               ELSE UNCHANGED <<inbound, queued>>
    /\ loop' = [loop EXCEPT ![k].pc = "read"]
    /\ UNCHANGED <<ws, conn, inClosed, doneCh, closed, metadata, frames, got,
                   reader>>

(* A send on a closed channel panics, and the deferred functions run.      *)
Panic(k) ==
    /\ loop[k].pc = "send"
    /\ inClosed
    /\ loop' = [loop EXCEPT ![k].pc = "closing", ![k].panicked = TRUE]
    /\ UNCHANGED <<chans, ws, conn, closed, metadata, frames, got, reader>>

ReadErr(k) ==
    /\ loop[k].pc = "read"
    /\ loop' = [loop EXCEPT ![k].pc = "closing"]
    /\ UNCHANGED <<chans, ws, conn, closed, metadata, frames, got, reader>>

(* The deferred close: closedCh first, then inbound, once per wsSession.   *)
CloseDone(k) ==
    /\ loop[k].pc = "closing"
    /\ MuFree
    /\ closed' = TRUE
    /\ doneCh' = TRUE
    /\ loop' = [loop EXCEPT ![k].pc = IF closed THEN "gone" ELSE "locked"]
    /\ UNCHANGED <<ws, conn, inbound, inClosed, queued, metadata, frames, got,
                   reader>>

\* Mutant: only closedCh is closed.
CloseNothing(k) ==
    /\ loop[k].pc = "locked"
    /\ loop' = [loop EXCEPT ![k].pc = "gone"]
    /\ UNCHANGED <<chans, ws, conn, closed, metadata, frames, got, reader>>

CloseInbound(k) ==
    /\ loop[k].pc = "locked"
    /\ inClosed' = TRUE
    /\ loop' = [loop EXCEPT ![k].pc = "gone"]
    /\ UNCHANGED <<ws, conn, inbound, doneCh, queued, closed, metadata, frames,
                   got, reader>>

-----------------------------------------------------------------------------
(* The test.                                                               *)

Call(op) ==
    /\ reader.pc = "idle"
    /\ ws' = TRUE
    /\ reader' = [pc |-> op, op |-> op, how |-> "none"]
    /\ UNCHANGED <<chans, conn, closed, metadata, frames, loop, got>>

Return(how) == reader' = [reader EXCEPT !.pc = "idle", !.how = how]

(* A receive from inbound: WaitWSMessage returns the frame, WaitWSMark     *)
(* returns on a mark, CollectWS keeps it and goes on.                      *)
Receive ==
    /\ reader.pc # "idle"
    /\ inbound # <<>>
    /\ inbound' = Tail(inbound)
    /\ got' = got \cup {Head(inbound)}
    /\ CASE reader.op = "WaitWSMessage" -> Return("frame")
         [] reader.op = "WaitWSMark" /\ frames[Head(inbound)] = "mark" ->
                Return("mark")
         [] OTHER -> UNCHANGED reader
    /\ UNCHANGED <<ws, conn, inClosed, doneCh, queued, closed, metadata,
                   frames, loop>>

\* Mutant: the read gives up when closedCh is closed, with frames queued.
ReceiveDone ==
    /\ reader.pc # "idle"
    /\ doneCh
    /\ Return("closed")
    /\ UNCHANGED <<chans, ws, conn, closed, metadata, frames, loop, got>>

(* A receive from the closed and empty inbound.                            *)
ReceiveClosed ==
    /\ reader.pc # "idle"
    /\ inbound = <<>>
    /\ inClosed
    /\ Return("closed")
    /\ UNCHANGED <<chans, ws, conn, closed, metadata, frames, loop, got>>

\* Mutant: CollectWS returns as soon as closedCh is closed.
ReturnAtOnce ==
    /\ reader.pc = "CollectWS"
    /\ doneCh
    /\ Return("closed")
    /\ UNCHANGED <<chans, ws, conn, closed, metadata, frames, loop, got>>

(* CollectWS picks the closedCh case of its select ...                     *)
SeeClosed ==
    /\ reader.pc = "CollectWS"
    /\ doneCh
    /\ reader' = [reader EXCEPT !.pc = "drain"]
    /\ UNCHANGED <<chans, ws, conn, closed, metadata, frames, loop, got>>

(* ... and drains what is queued, until nothing is ready.                  *)
Drained ==
    /\ reader.pc = "drain"
    /\ inbound = <<>>
    /\ ~inClosed
    /\ Return("closed")
    /\ UNCHANGED <<chans, ws, conn, closed, metadata, frames, loop, got>>

CtxDone ==
    /\ reader.pc \in Calls
    /\ Return("ctx")
    /\ UNCHANGED <<chans, ws, conn, closed, metadata, frames, loop, got>>

-----------------------------------------------------------------------------
HandlerStep(k) ==
    \/ Attach(k) \/ Stash(k) \/ Enqueue(k) \/ Panic(k)
    \/ CloseDone(k) \/ CloseInbound(k)

Jambonz(k) ==
    Upgrade(k) \/ ServedElsewhere(k) \/ ReadErr(k) \/ \E kind \in Kinds : ReadMessage(k, kind)

ReaderStep == Receive \/ ReceiveClosed \/ SeeClosed \/ Drained

Next ==
    \/ \E k \in Conns : HandlerStep(k) \/ Jambonz(k)
    \/ \E op \in Calls : Call(op)
    \/ ReaderStep
    \/ CtxDone

Spec == Init /\ [][Next]_vars

(* The handler and the test's goroutine are scheduled; jambonz owes no     *)
(* frame, the context of the test may never fire.                          *)
FairSpec ==
    /\ Spec
    /\ \A k \in Conns : WF_vars(HandlerStep(k))
    /\ WF_vars(ReaderStep)

-----------------------------------------------------------------------------
(* CollectWS gets "everything jambonz sent in one pass": at the moment it  *)
(* returns because the stream closed, no frame that entered the queue is   *)
(* left for nobody, whichever case its select took and between whichever   *)
(* closes.                                                                 *)
CollectsEverything ==
    [][reader.pc # "idle" /\ reader'.pc = "idle"
         /\ reader'.op = "CollectWS" /\ reader'.how = "closed"
         => queued' \subseteq got']_vars

(* WaitWSMark reports a closed stream only when no mark is left in the     *)
(* queue: a mark that was sent before the close is never missed.           *)
NoMarkMissed ==
    reader.pc = "idle" /\ reader.op = "WaitWSMark" /\ reader.how = "closed"
        => \A n \in queued : frames[n] = "mark" => n \in got

(* A test blocked in any of the reads is released once the stream closes,  *)
(* without help from its context.                                          *)
ReadersReleased == reader.pc # "idle" /\ closed ~> reader.pc = "idle"

(* handleWS "reads frames into the session's inbound queue until the WS    *)
(* closes": no connection's frame meets a queue that is already closed.    *)
NoSendOnClosed == \A k \in Conns : ~loop[k].panicked

(* WSMetadata "returns nil if no JSON frame has been received yet or the   *)
(* first frame was binary".                                                *)
NilIfBinaryFirst ==
    frames # <<>> /\ frames[1] = "binary" => metadata = None

=============================================================================
