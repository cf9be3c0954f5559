-------------------------------- MODULE AppWS --------------------------------
(***************************************************************************)
(* The application WebSocket (internal/webhook/appws.go, and BindAppConn   *)
(* and SendCommand of registry.go), composed with the HTTP hooks and the   *)
(* Registry of module Webhook.                                             *)
(*                                                                         *)
(* handleAppWS runs one goroutine per connection: a loop that reads a      *)
(* frame, resolves the session on the first one, binds the call, captures  *)
(* the frame and acknowledges it where the protocol wants that.  A step is *)
(* one critical section of the loop, or the beginning or the end of a      *)
(* write on the socket.  A test sends commands on the same socket.         *)
(***************************************************************************)
EXTENDS Webhook

CONSTANT Conns   \* application sockets jambonz opens

VARIABLES
    conn,      \* the read loop of each socket
    appConn,   \* Session.appConn: the socket a session hands to SendCommand
    cmd        \* the SendCommand a test is in: the session and its socket

appVars == <<conn, appConn, cmd>>
allVars == <<webhookVars, appVars>>

(* A verb stands for the verb:hook frame whose URL names it (one without a *)
(* script for a URL that names none), "status" for every type that wants   *)
(* no acknowledgement.                                                     *)
FrameTypes == {"session:new", "status"} \cup Verbs

ASSUME FramesAssumption == Verbs \cap {"session:new", "status"} = {}

Pcs == {"unopened", "read", "path", "byId", "newId", "bySid", "newPath",
        "bindConn", "bindSid", "record", "reply", "write", "writing", "closed"}

Loop == [pc : Pcs, call : Calls \cup {None}, path : Tests \cup {Shared, None},
         sess : Objs \cup {None}, type : FrameTypes, id : Tests \cup {None},
         n : 0..MaxPosts, sure : BOOLEAN, answer : Answers]

Unopened == [pc |-> "unopened", call |-> None, path |-> None, sess |-> None,
             type |-> "status", id |-> None, n |-> 0, sure |-> FALSE,
             answer |-> "empty"]

Command == [sess : Objs, conn : Conns]

AppTypeOK ==
    /\ TypeOK
    /\ conn \in [Conns -> Loop]
    /\ appConn \in [Objs -> Conns \cup {None}]
    /\ cmd \in [Tests -> Command \cup {None}]

AppInit ==
    /\ Init
    /\ conn = [k \in Conns |-> Unopened]
    /\ appConn = [o \in Objs |-> None]
    /\ cmd = [t \in Tests |-> None]

(* The loop of k goes to pc with its session set to o.                     *)
Goto(k, pc, o) == conn' = [conn EXCEPT ![k].pc = pc, ![k].sess = o]

-----------------------------------------------------------------------------
(* Upgrade of /appws/<id>: the path names the test, or is the shared one.  *)
Connect(k, c, p) ==
    /\ conn[k].pc = "unopened"
    /\ c \in placed
    /\ conn' = [conn EXCEPT ![k].pc = "read", ![k].call = c, ![k].path = p]
    /\ UNCHANGED <<webhookVars, appConn, cmd>>

(* What can correlate a frame of call c: the ID it carries, the path of    *)
(* its socket, or the binding of the call.                                 *)
FrameCorrelated(k, i) ==
    \/ Correlated(conn[k].call, i)
    \/ conn[k].path # Shared /\ holds[CallOwner[conn[k].call]] # None

(* ReadMessage returns a text frame.  jambonz opens with session:new; the  *)
(* session is resolved on the first frame only.                            *)
ReadFrame(k, f, i) ==
    LET first == conn[k].sess = None
    IN  /\ conn[k].pc = "read"
        /\ posts < MaxPosts
        /\ i \in {CallOwner[conn[k].call], None}
        /\ first <=> f = "session:new"
        /\ posts' = posts + 1
        /\ conn' = [conn EXCEPT
              ![k] = [conn[k] EXCEPT
                        !.type = f, !.id = i, !.n = posts + 1,
                        !.pc = IF first THEN "path" ELSE "bindSid",
                        !.sure = IF first THEN FrameCorrelated(k, i)
                                          ELSE conn[k].sure]]
        /\ UNCHANGED <<regVars, testVars, req, appConn, cmd>>

(* ReadMessage fails: the deferred Close, with the session left as it is.  *)
ReadErr(k) ==
    /\ conn[k].pc = "read"
    /\ conn' = [conn EXCEPT ![k].pc = "closed"]
    /\ UNCHANGED <<webhookVars, appConn, cmd>>

(* resolveAppWSSession, 1: the session of the path.                        *)
FoundByPath(k) ==
    IF conn[k].path = Shared THEN None ELSE Lookup(conn[k].path)

\* Mutant: x_test_id of the frame is not looked at.
SidOnly(k) == "bySid"

(* Where the search goes when the path names no session.                   *)
AfterPath(k) == IF conn[k].id # None THEN "byId" ELSE "bySid"

ByPath(k) ==
    /\ conn[k].pc = "path"
    /\ IF FoundByPath(k) # None THEN Goto(k, "bindConn", FoundByPath(k))
                                ELSE Goto(k, AfterPath(k), None)
    /\ UNCHANGED <<webhookVars, appConn, cmd>>

(* 2: the x_test_id of the frame, with a new session if it has none.       *)
ById(k) ==
    /\ conn[k].pc = "byId"
    /\ IF Lookup(conn[k].id) # None
         THEN Goto(k, "bindConn", Lookup(conn[k].id))
         ELSE Goto(k, "newId", None)
    /\ UNCHANGED <<webhookVars, appConn, cmd>>

NewById(k) ==
    /\ conn[k].pc = "newId"
    /\ New(conn[k].id)
    /\ Goto(k, "bindConn", sessions'[conn[k].id])
    /\ UNCHANGED <<callSidIndex, testVars, req, posts, appConn, cmd>>

(* 3: the test the call_sid was bound to.                                  *)
BySid(k) ==
    /\ conn[k].pc = "bySid"
    /\ LET o == LookupByCallSid(conn[k].call)
       IN  Goto(k, IF o # None THEN "bindConn" ELSE "newPath", o)
    /\ UNCHANGED <<webhookVars, appConn, cmd>>

(* 4: a placeholder under the path.                                        *)
NewByPath(k) ==
    /\ conn[k].pc = "newPath"
    /\ New(conn[k].path)
    /\ Goto(k, "bindConn", sessions'[conn[k].path])
    /\ UNCHANGED <<callSidIndex, testVars, req, posts, appConn, cmd>>

(* appConnMu of session o is held by a SendCommand.                        *)
AppConnLocked(o) == \E t \in Tests : cmd[t] # None /\ cmd[t].sess = o

(* BindAppConn.                                                            *)
BindAppConn(k) ==
    /\ conn[k].pc = "bindConn"
    /\ ~AppConnLocked(conn[k].sess)
    /\ appConn' = [appConn EXCEPT ![conn[k].sess] = k]
    /\ Goto(k, "bindSid", conn[k].sess)
    /\ UNCHANGED <<webhookVars, cmd>>

\* Mutant: the call is bound to the path of the socket.
BindSidToPath(k) ==
    /\ conn[k].pc = "bindSid"
    /\ BindCallSid(conn[k].call, conn[k].path)
    /\ Goto(k, "record", conn[k].sess)
    /\ UNCHANGED <<sessions, obj, testVars, req, posts, appConn, cmd>>

(* The call is bound to the ID of the session, on every frame.             *)
BindSid(k) ==
    /\ conn[k].pc = "bindSid"
    /\ BindCallSid(conn[k].call, obj[conn[k].sess].id)
    /\ Goto(k, "record", conn[k].sess)
    /\ UNCHANGED <<sessions, obj, testVars, req, posts, appConn, cmd>>

(* appHookLabel and verbFromHookURL: the hook a frame stands for.          *)
HookLabel(f) ==
    CASE f = "session:new" -> "call_hook"
      [] f = "status"      -> "call_status_hook"
      [] OTHER             -> f

(* captureCallback, and the switch on the type of the frame.               *)
CaptureFrame(k) ==
    /\ conn[k].pc = "record"
    /\ Record(conn[k].sess, [call |-> conn[k].call, n |-> conn[k].n,
                             hook |-> HookLabel(conn[k].type)])
    /\ Goto(k, IF conn[k].type = "status" THEN "read" ELSE "reply",
            conn[k].sess)
    /\ UNCHANGED <<sessions, callSidIndex, testVars, req, posts, appConn, cmd>>

(* outcomeForCallHook, or outcomeForActionHook of the frame's verb.        *)
AppOutcome(k) ==
    /\ conn[k].pc = "reply"
    /\ conn' = [conn EXCEPT
          ![k].pc = "write",
          ![k].answer = Outcome(conn[k].sess, HookLabel(conn[k].type))]
    /\ UNCHANGED <<webhookVars, appConn, cmd>>

(* ackVerbs: WriteMessage on the socket, without appConnMu.                *)
AckBegins(k) ==
    /\ conn[k].pc = "write"
    /\ Goto(k, "writing", conn[k].sess)
    /\ UNCHANGED <<webhookVars, appConn, cmd>>

AckEnds(k) ==
    /\ conn[k].pc = "writing"
    /\ Goto(k, "read", conn[k].sess)
    /\ UNCHANGED <<webhookVars, appConn, cmd>>

-----------------------------------------------------------------------------
(* SendCommand: takes appConnMu and writes on the socket of the session;   *)
(* without a socket, or with a closed one, it returns an error.            *)
SendCommand(t) ==
    /\ cmd[t] = None
    /\ holds[t] # None
    /\ appConn[holds[t]] # None
    /\ conn[appConn[holds[t]]].pc # "closed"
    /\ cmd' = [cmd EXCEPT ![t] = [sess |-> holds[t],
                                  conn |-> appConn[holds[t]]]]
    /\ UNCHANGED <<webhookVars, conn, appConn>>

(* The write returns, at the latest at its deadline of 5 s.                *)
CommandSent(t) ==
    /\ cmd[t] # None
    /\ cmd' = [cmd EXCEPT ![t] = None]
    /\ UNCHANGED <<webhookVars, conn, appConn>>

(* Release of module Webhook; the routing of a frame that arrived before   *)
(* it is no longer sure.                                                   *)
AppRelease(t) ==
    /\ Release(t)
    /\ conn' = [k \in Conns |->
                  IF conn[k].call # None /\ CallOwner[conn[k].call] = t
                    THEN [conn[k] EXCEPT !.sure = FALSE] ELSE conn[k]]
    /\ UNCHANGED <<appConn, cmd>>

-----------------------------------------------------------------------------
LoopStep(k) ==
    \/ ByPath(k) \/ ById(k) \/ NewById(k) \/ BySid(k) \/ NewByPath(k)
    \/ BindAppConn(k) \/ BindSid(k) \/ CaptureFrame(k) \/ AppOutcome(k)
    \/ AckBegins(k) \/ AckEnds(k)

Jambonz(k) ==
    \/ \E c \in Calls : \E p \in {CallOwner[c], Shared} : Connect(k, c, p)
    \/ \E f \in FrameTypes, i \in Tests \cup {None} : ReadFrame(k, f, i)
    \/ ReadErr(k)

AppNext ==
    \/ TestStep /\ UNCHANGED appVars
    \/ \E t \in Tests : AppRelease(t) \/ SendCommand(t) \/ CommandSent(t)
    \/ Arrival /\ UNCHANGED appVars
    \/ \E h \in Handlers : HandlerStep(h) /\ UNCHANGED appVars
    \/ \E k \in Conns : LoopStep(k) \/ Jambonz(k)

AppSpec == AppInit /\ [][AppNext]_allVars

-----------------------------------------------------------------------------
(* A command reaches the call of the test that sends it: whatever frames,  *)
(* hooks, claims and releases came before, SendCommand writes on a socket  *)
(* of its own call, also when tests run in parallel on one shared path.    *)
CommandsOnOwnCall ==
    \A t \in Tests :
        cmd[t] # None => CallOwner[conn[cmd[t].conn].call] = t

(* A socket k is served by the placeholder of the shared path.             *)
ByPlaceholder(k) ==
    conn[k].sess # None /\ obj[conn[k].sess].id = Shared

(* A socket of call c is.                                                  *)
OnPlaceholder(c) ==
    \E k \in Conns : conn[k].call = c /\ ByPlaceholder(k)

(* A socket whose first frame could be correlated while its test held the  *)
(* session is served by the session the test holds, until it is released.  *)
(* The exception is a further socket of a call that the frames of another  *)
(* have bound to the placeholder.                                          *)
SocketSureRouting ==
    \A k \in Conns :
        /\ conn[k].sure
        /\ conn[k].sess # None
        /\ \A j \in Conns \ {k} : conn[j].call = conn[k].call => ~ByPlaceholder(j)
        => conn[k].sess = holds[CallOwner[conn[k].call]]

(* HTTP hooks keep reaching the session of their test (SureRouting) though *)
(* every frame of a socket binds the call anew.  The exception is a call   *)
(* whose socket opened on the shared path without a test ID, before any    *)
(* hook bound it: its frames bind the call to the placeholder.             *)
HooksKeepTheirTest ==
    \A h \in Handlers :
        /\ req[h].sure
        /\ req[h].pc \in {"bind", "record", "reply", "done"}
        /\ ~OnPlaceholder(req[h].call)
        => req[h].sess = holds[CallOwner[req[h].call]]

(* "Until we've seen it we route to a placeholder session; once resolved   *)
(* we switch to the right one" (handleAppWS): a frame that carries the     *)
(* test ID is captured in a session of that test.                          *)
PlaceholderSwitched ==
    \A k \in Conns :
        conn[k].pc = "record" /\ conn[k].id # None
            => obj[conn[k].sess].id = conn[k].id

(* "appConnMu serializes writes because the read loop acks verbs on its    *)
(* own goroutine and gorilla forbids concurrent writes" (Session): no two  *)
(* goroutines are in WriteMessage of one socket.                           *)
NoConcurrentWrite ==
    \A k \in Conns, t \in Tests :
        ~(conn[k].pc = "writing" /\ cmd[t] # None /\ cmd[t].conn = k)

=============================================================================
