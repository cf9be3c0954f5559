------------------------------- MODULE Webhook -------------------------------
(***************************************************************************)
(* The webhook server of the harness: the Registry of per-test sessions,   *)
(* the call_sid index that is the secondary correlation, and the three     *)
(* HTTP handlers (internal/webhook/registry.go, server.go,                 *)
(* correlation.go).                                                        *)
(*                                                                         *)
(* Every request runs on a goroutine of its own, and a step of this module *)
(* is one critical section of it: Registry.mu is released between the      *)
(* Lookup, the New and the BindCallSid of one sessionFor, so claims,       *)
(* releases and other requests interleave there.                           *)
(*                                                                         *)
(* jambonz and the tests are the environment.  A test claims the session   *)
(* of its name, scripts it, places its calls and releases the session in   *)
(* its cleanup; jambonz posts hooks for a placed call, with the test ID or *)
(* without it, also after the release.                                     *)
(***************************************************************************)
EXTENDS Integers, Sequences, FiniteSets

CONSTANTS
    Tests,        \* test names, each the correlation ID of a session
    Calls,        \* call_sids
    CallOwner,    \* the test that placed a call
    Anon,         \* the "_anon" session ID
    Shared,       \* the "shared" path segment of the common WS application
    Objs,         \* *Session objects that New can allocate
    Handlers,     \* goroutines of net/http
    Verbs,        \* the <verb> of an /action/<verb> hook
    Routes,       \* the hooks jambonz posts in this instance
    Scripts,      \* the hooks each test sets a script for in this instance
    QueueCap,     \* capacity of Session.pending (32 in the code)
    MaxPosts,     \* bound: requests jambonz makes in a behaviour
    MaxClaims,    \* bound: claims of one session (go test -count)
    None

ASSUME OwnerAssumption ==
    CallOwner \in [Calls -> Tests]
ASSUME IdsAssumption ==
    /\ Anon \notin Tests
    /\ Shared \notin Tests
    /\ Anon # Shared
    /\ None \notin Tests \cup Objs \cup Calls \cup {Anon, Shared}
ASSUME VerbsAssumption ==
    Verbs \cap {"", "call_hook", "call_status_hook", "hangup", "empty"} = {}
ASSUME RoutesAssumption ==
    /\ Routes \subseteq {"call_hook", "call_status_hook"} \cup Verbs
    /\ Scripts \in [Tests -> SUBSET ({"call_hook"} \cup Verbs)]
ASSUME BoundsAssumption ==
    /\ QueueCap \in Nat \ {0}
    /\ MaxPosts \in Nat
    /\ MaxClaims \in Nat

VARIABLES
    sessions,      \* Registry.sessions: ID -> *Session or nil
    callSidIndex,  \* Registry.callSidIndex: call_sid -> ID or absent
    obj,           \* the Session objects
    holds,         \* the *Session a test claimed and still uses
    claims,        \* claims a test made so far
    placed,        \* calls that jambonz is running
    req,           \* the request each handler goroutine works on
    posts          \* requests made so far

regVars == <<sessions, callSidIndex, obj>>
testVars == <<holds, claims, placed>>
webhookVars == <<regVars, testVars, req, posts>>

Ids == Tests \cup {Anon, Shared}

(* The three routes of the mux; a verb stands for /action/<verb>.          *)
Hooks == {"call_hook", "call_status_hook"} \cup Verbs

(* The ones a session has a script for: Session.callHook and the keys of   *)
(* Session.actionHooks.                                                    *)
Scriptable == {"call_hook"} \cup Verbs

(* What a handler can answer: the default hangup script, the empty         *)
(* acknowledgement, or the script of one hook, which the hook stands for.  *)
Answers == {"hangup", "empty"} \cup Scriptable

(* A captured callback; n numbers the requests.                            *)
Callback == [call : Calls, hook : Hooks, n : 1..MaxPosts]

(* seen and got are history: the requests recorded in the session and the  *)
(* ones that its test has received.                                        *)
Session == [id : Ids \cup {None}, scripted : SUBSET Scriptable,
            pending : Seq(Callback), errs : Nat,
            seen : SUBSET (1..MaxPosts), got : SUBSET (1..MaxPosts)]

(* sure and answer are history: sure is TRUE from the arrival of a request *)
(* that the registry can correlate until the test releases its session,    *)
(* scripted whether the session it must reach had a script for it by then. *)
Request == [pc : {"idle", "route", "create", "bind", "anon", "record",
                  "reply", "done"},
            call : Calls \cup {None}, id : Tests \cup {None},
            hook : Hooks, n : 0..MaxPosts, sess : Objs \cup {None},
            sure : BOOLEAN, scripted : BOOLEAN, answer : Answers]

Idle == [pc |-> "idle", call |-> None, id |-> None, hook |-> "call_hook",
         n |-> 0, sess |-> None, sure |-> FALSE, scripted |-> FALSE,
         answer |-> "empty"]

TypeOK ==
    /\ sessions \in [Ids -> Objs \cup {None}]
    /\ callSidIndex \in [Calls -> Ids \cup {None}]
    /\ obj \in [Objs -> Session]
    /\ \A o \in Objs : Len(obj[o].pending) <= QueueCap
    /\ holds \in [Tests -> Objs \cup {None}]
    /\ claims \in [Tests -> 0..MaxClaims]
    /\ placed \subseteq Calls
    /\ req \in [Handlers -> Request]
    /\ posts \in 0..MaxPosts

Blank == [id |-> None, scripted |-> {}, pending |-> <<>>, errs |-> 0,
          seen |-> {}, got |-> {}]

Init ==
    /\ sessions = [i \in Ids |-> None]
    /\ callSidIndex = [c \in Calls |-> None]
    /\ obj = [o \in Objs |-> Blank]
    /\ holds = [t \in Tests |-> None]
    /\ claims = [t \in Tests |-> 0]
    /\ placed = {}
    /\ req = [h \in Handlers |-> Idle]
    /\ posts = 0

-----------------------------------------------------------------------------
(* The critical sections of Registry.                                      *)

(* Lookup.                                                                 *)
Lookup(i) == sessions[i]

\* Mutant: an unbound call goes to whichever test has a session.
LookupAnyLive(c) ==
    IF callSidIndex[c] = None
      THEN IF \E t \in Tests : sessions[t] # None
             THEN sessions[CHOOSE t \in Tests : sessions[t] # None] ELSE None
      ELSE sessions[callSidIndex[c]]

(* LookupByCallSid: the index first, then the session it names, which may  *)
(* have been released.                                                     *)
LookupByCallSid(c) ==
    IF callSidIndex[c] = None THEN None ELSE sessions[callSidIndex[c]]

(* New returns the session that exists, or allocates one.                  *)
New(i) ==
    \/ /\ sessions[i] # None
       /\ UNCHANGED <<sessions, obj>>
    \/ /\ sessions[i] = None
       /\ \E o \in Objs :
             /\ obj[o].id = None
             /\ obj' = [obj EXCEPT ![o].id = i]
             /\ sessions' = [sessions EXCEPT ![i] = o]

(* BindCallSid ignores the anonymous session.                              *)
BindCallSid(c, i) ==
    callSidIndex' = IF i = Anon THEN callSidIndex
                                ELSE [callSidIndex EXCEPT ![c] = i]

(* record: a send on the buffered pending channel that never blocks; a     *)
(* callback that finds it full is dropped and leaves an error.             *)
Room(o) == Len(obj[o].pending) < QueueCap

\* Mutant: the drop leaves no error.
DroppedSilently(o) == obj[o].errs

Dropped(o) == obj[o].errs + 1

Record(o, cb) ==
    obj' = IF Room(o)
             THEN [obj EXCEPT ![o].pending = Append(@, cb),
                              ![o].seen = @ \cup {cb.n}]
             ELSE [obj EXCEPT ![o].errs = Dropped(o),
                              ![o].seen = @ \cup {cb.n}]

-----------------------------------------------------------------------------
(* The test goroutine (environment, with the Session methods it calls).    *)

(* claimSession: New under the test's own name.                            *)
Claim(t) ==
    /\ holds[t] = None
    /\ claims[t] < MaxClaims
    /\ New(t)
    /\ holds' = [holds EXCEPT ![t] = sessions'[t]]
    /\ claims' = [claims EXCEPT ![t] = @ + 1]
    /\ UNCHANGED <<callSidIndex, placed, req, posts>>

(* ScriptCallHook, or ScriptActionHook and its body variants for one verb. *)
Script(t) ==
    /\ holds[t] # None
    /\ \E k \in Scripts[t] \ obj[holds[t]].scripted :
          obj' = [obj EXCEPT ![holds[t]].scripted = @ \cup {k}]
    /\ UNCHANGED <<sessions, callSidIndex, testVars, req, posts>>

(* The test has jambonz place a call that carries its name.                *)
PlaceCall(c) ==
    /\ c \notin placed
    /\ holds[CallOwner[c]] # None
    /\ placed' = placed \cup {c}
    /\ UNCHANGED <<regVars, holds, claims, req, posts>>

(* WaitCallback takes the oldest callback; WaitCallbackFor does the same   *)
(* until the hook matches, and keeps none of those it passes over.         *)
WaitCallback(t) ==
    /\ holds[t] # None
    /\ obj[holds[t]].pending # <<>>
    /\ obj' = [obj EXCEPT ![holds[t]].pending = Tail(@),
                          ![holds[t]].got = @ \cup {Head(obj[holds[t]].pending).n}]
    /\ UNCHANGED <<sessions, callSidIndex, testVars, req, posts>>

(* Release deletes the session and leaves the index as it is.              *)
Release(t) ==
    /\ holds[t] # None
    /\ sessions' = [sessions EXCEPT ![t] = None]
    /\ holds' = [holds EXCEPT ![t] = None]
    /\ req' = [h \in Handlers |->
                 IF req[h].call # None /\ CallOwner[req[h].call] = t
                   THEN [req[h] EXCEPT !.sure = FALSE] ELSE req[h]]
    /\ UNCHANGED <<callSidIndex, obj, claims, placed, posts>>

-----------------------------------------------------------------------------
(* The HTTP handlers.                                                      *)

(* What the registry can correlate when request c, i arrives: its test     *)
(* still holds the session, and the request names it or the call is bound. *)
Correlated(c, i) ==
    /\ holds[CallOwner[c]] # None
    /\ i # None \/ callSidIndex[c] # None

(* handleCallHook, handleStatusHook, handleActionHook up to sessionFor:    *)
(* extractTestID finds the test's name, or nothing.  /action/ without a    *)
(* verb is refused with 400 before that and changes nothing.               *)
Post(h, c, i, k) ==
    /\ req[h].pc = "idle"
    /\ c \in placed
    /\ posts < MaxPosts
    /\ posts' = posts + 1
    /\ req' = [req EXCEPT ![h] =
                 [Idle EXCEPT !.pc = "route", !.call = c, !.id = i, !.hook = k,
                              !.n = posts + 1, !.sure = Correlated(c, i),
                              !.scripted = /\ Correlated(c, i)
                                           /\ k \in obj[holds[CallOwner[c]]].scripted]]
    /\ UNCHANGED <<regVars, testVars>>

\* Mutant: no secondary correlation by call_sid.
FoundById(h) ==
    IF req[h].id # None THEN Lookup(req[h].id) ELSE None

(* sessionFor, the lookup: by test ID when there is one, else by call_sid. *)
Found(h) ==
    IF req[h].id # None THEN Lookup(req[h].id)
                        ELSE LookupByCallSid(req[h].call)

Route(h) ==
    /\ req[h].pc = "route"
    /\ req' = [req EXCEPT
         ![h].sess = Found(h),
         ![h].pc = IF req[h].id # None
                     THEN IF Found(h) # None THEN "bind" ELSE "create"
                     ELSE IF Found(h) # None THEN "record" ELSE "anon"]
    /\ UNCHANGED <<regVars, testVars, posts>>

(* sessionFor, unknown test ID: New under the ID of the request.           *)
Create(h) ==
    /\ req[h].pc = "create"
    /\ New(req[h].id)
    /\ req' = [req EXCEPT ![h].sess = sessions'[req[h].id], ![h].pc = "bind"]
    /\ UNCHANGED <<callSidIndex, testVars, posts>>

(* sessionFor, the binding of the call to the test.                        *)
Bind(h) ==
    /\ req[h].pc = "bind"
    /\ BindCallSid(req[h].call, req[h].id)
    /\ req' = [req EXCEPT ![h].pc = "record"]
    /\ UNCHANGED <<sessions, obj, testVars, posts>>

(* sessionFor, last resort: the shared anonymous session.                  *)
CreateAnon(h) ==
    /\ req[h].pc = "anon"
    /\ New(Anon)
    /\ req' = [req EXCEPT ![h].sess = sessions'[Anon], ![h].pc = "record"]
    /\ UNCHANGED <<callSidIndex, testVars, posts>>

(* captureCallback.                                                        *)
Capture(h) ==
    /\ req[h].pc = "record"
    /\ Record(req[h].sess,
              [call |-> req[h].call, hook |-> req[h].hook, n |-> req[h].n])
    /\ req' = [req EXCEPT ![h].pc = "reply"]
    /\ UNCHANGED <<sessions, callSidIndex, testVars, posts>>

\* Mutant: a session has one script, for whichever hook comes.
OutcomeOne(o, k) ==
    IF obj[o].scripted = {} THEN "empty" ELSE CHOOSE x \in obj[o].scripted : TRUE

(* outcomeForCallHook and outcomeForActionHook, or the bare 200 of a       *)
(* status hook.                                                            *)
Outcome(o, k) ==
    IF k \in obj[o].scripted THEN k
    ELSE IF k = "call_hook"  THEN "hangup"
    ELSE "empty"

(* writeOutcome.                                                           *)
Reply(h) ==
    /\ req[h].pc = "reply"
    /\ req' = [req EXCEPT ![h].answer = Outcome(req[h].sess, req[h].hook),
                          ![h].pc = "done"]
    /\ UNCHANGED <<regVars, testVars, posts>>

(* The handler returns; its goroutine serves another request.              *)
Return(h) ==
    /\ req[h].pc = "done"
    /\ req' = [req EXCEPT ![h] = Idle]
    /\ UNCHANGED <<regVars, testVars, posts>>

-----------------------------------------------------------------------------
TestStep ==
    \/ \E t \in Tests : Claim(t) \/ Script(t) \/ WaitCallback(t)
    \/ \E c \in Calls : PlaceCall(c)

HandlerStep(h) ==
    \/ Route(h) \/ Create(h) \/ Bind(h) \/ CreateAnon(h)
    \/ Capture(h) \/ Reply(h) \/ Return(h)

Arrival ==
    \E h \in Handlers, c \in Calls, k \in Routes :
        \E i \in {CallOwner[c], None} : Post(h, c, i, k)

Next ==
    \/ TestStep
    \/ \E t \in Tests : Release(t)
    \/ Arrival
    \/ \E h \in Handlers : HandlerStep(h)

Spec == Init /\ [][Next]_webhookVars

-----------------------------------------------------------------------------
(* While a test holds the session it claimed, the registry serves that     *)
(* very object under the test's name: no request that raced the claim, and *)
(* none that came late from an earlier run, has put another in its place.  *)
HeldSessionStable ==
    \A t \in Tests : holds[t] # None => sessions[t] = holds[t]

(* Parallel runs are safe: a callback sits in the session of the test that *)
(* placed its call or in the anonymous one, never in that of another test, *)
(* whatever was claimed, released and rebound in between (the claim of the *)
(* comment on Registry).                                                   *)
RoutedToOwner ==
    \A o \in Objs : \A j \in 1..Len(obj[o].pending) :
        obj[o].id \in {CallOwner[obj[o].pending[j].call], Anon, Shared}

(* A request that arrived while its test held the session, and that names  *)
(* the test or belongs to a bound call, reaches the session the test       *)
(* holds: sessionFor gives up the correlation only when the test released. *)
SureRouting ==
    \A h \in Handlers :
        req[h].sure /\ req[h].pc \in {"bind", "record", "reply", "done"}
            => req[h].sess = holds[CallOwner[req[h].call]]

(* Such a request gets the script its test has set for that very hook: the *)
(* call_hook's or the verb's, never another one, nor the default that      *)
(* hangs the call up.                                                      *)
ScriptAnswered ==
    \A h \in Handlers :
        /\ req[h].pc = "done"
        /\ req[h].sure
        /\ req[h].scripted
        => req[h].answer = req[h].hook

(* No callback is lost without a trace: one that was recorded waits in the *)
(* queue, was received by its test, or is counted in Errors().             *)
LossIsFlagged ==
    \A o \in Objs :
        LET queued == {obj[o].pending[j].n : j \in 1..Len(obj[o].pending)}
        IN  Cardinality(obj[o].seen \ (queued \cup obj[o].got)) = obj[o].errs

=============================================================================
