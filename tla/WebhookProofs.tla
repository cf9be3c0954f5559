--------------------------- MODULE WebhookProofs ---------------------------
(***************************************************************************)
(* Theorems about Webhook, and about AppWS, which composes it with the     *)
(* application sockets, for any tests, calls, handlers, sockets and bounds. *)
(***************************************************************************)
EXTENDS AppWS, FiniteSetTheorems, TLAPS

-----------------------------------------------------------------------------
(* Type correctness.                                                       *)

\* A session with some of its fields replaced is a session.
LEMMA SessionType ==
  ASSUME NEW q \in Session
  PROVE  /\ \A i \in Ids : [q EXCEPT !.id = i] \in Session
         /\ \A k \in Scriptable : [q EXCEPT !.scripted = q.scripted \cup {k}] \in Session
         /\ \A p \in Seq(Callback), x \in SUBSET (1..MaxPosts) :
               /\ [q EXCEPT !.pending = p, !.seen = x] \in Session
               /\ [q EXCEPT !.pending = p, !.got = x] \in Session
         /\ \A e \in Nat, x \in SUBSET (1..MaxPosts) :
               [q EXCEPT !.errs = e, !.seen = x] \in Session
  BY DEF Session

\* The types of the fields of a session.
LEMMA SessionFields ==
  ASSUME NEW q \in Session
  PROVE  /\ q.pending \in Seq(Callback)
         /\ q.scripted \in SUBSET Scriptable
         /\ q.errs \in Nat
         /\ q.seen \in SUBSET (1..MaxPosts)
         /\ q.got \in SUBSET (1..MaxPosts)
  BY DEF Session

\* Replacing those fields leaves the other ones alone.
LEMMA SessionFrame ==
  ASSUME NEW q \in Session, NEW p, NEW x, NEW e, NEW i
  PROVE  /\ [q EXCEPT !.id = i].pending = q.pending
         /\ [q EXCEPT !.id = i].id = i
         /\ [q EXCEPT !.scripted = x].pending = q.pending
         /\ [q EXCEPT !.scripted = x].id = q.id
         /\ [q EXCEPT !.pending = p, !.seen = x].pending = p
         /\ [q EXCEPT !.pending = p, !.seen = x].id = q.id
         /\ [q EXCEPT !.pending = p, !.got = x].pending = p
         /\ [q EXCEPT !.pending = p, !.got = x].id = q.id
         /\ [q EXCEPT !.errs = e, !.seen = x].pending = q.pending
         /\ [q EXCEPT !.errs = e, !.seen = x].id = q.id
  BY DEF Session

\* A request with some of its fields replaced is a request.
LEMMA RequestType ==
  ASSUME NEW q \in Request
  PROVE  /\ [q EXCEPT !.sure = FALSE] \in Request
         /\ [q EXCEPT !.pc = "record"] \in Request
         /\ [q EXCEPT !.pc = "reply"] \in Request
         /\ \A o \in Objs : [q EXCEPT !.sess = o, !.pc = "bind"] \in Request
         /\ \A o \in Objs : [q EXCEPT !.sess = o, !.pc = "record"] \in Request
         /\ \A o \in Objs \cup {None},
               pc \in {"bind", "create", "record", "anon"} :
                  [q EXCEPT !.sess = o, !.pc = pc] \in Request
         /\ \A a \in Answers : [q EXCEPT !.answer = a, !.pc = "done"] \in Request
  BY DEF Request

\* The types of the fields of a request.
LEMMA RequestFields ==
  ASSUME NEW q \in Request
  PROVE  /\ q.call \in Calls \cup {None}
         /\ q.id \in Tests \cup {None}
         /\ q.hook \in Hooks
         /\ q.n \in 0..MaxPosts
         /\ q.sess \in Objs \cup {None}
  BY DEF Request

\* A request that has just arrived is a request, and so is none at all.
LEMMA ArrivedType ==
  ASSUME NEW c \in Calls, NEW i \in Tests \cup {None}, NEW k \in Hooks,
         NEW n \in 0..MaxPosts, NEW a \in BOOLEAN, NEW b \in BOOLEAN
  PROVE  [Idle EXCEPT !.pc = "route", !.call = c, !.id = i, !.hook = k,
                      !.n = n, !.sure = a, !.scripted = b] \in Request
  BY DEF Idle, Request, Answers

\* A handler that serves no request is well typed.
LEMMA IdleType == Idle \in Request
  BY BoundsAssumption DEF Idle, Request, Hooks, Answers

\* The initial state is well typed.
LEMMA InitType == Init => TypeOK
  <1> SUFFICES ASSUME Init PROVE TypeOK
    OBVIOUS
  <1>1. Blank \in Session
    BY DEF Blank, Session
  <1>2. obj \in [Objs -> Session] /\ req \in [Handlers -> Request]
    BY <1>1, IdleType DEF Init
  <1>3. \A o \in Objs : Len(obj[o].pending) <= QueueCap
    BY BoundsAssumption DEF Init, Blank
  <1> QED
    BY <1>2, <1>3, BoundsAssumption DEF Init, TypeOK, Ids

\* Scripts are there for hooks that have one, so that every outcome is an answer.
LEMMA OutcomeType ==
  ASSUME TypeOK, NEW o \in Objs, NEW k
  PROVE  Outcome(o, k) \in Answers
  <1>1. obj[o].scripted \in SUBSET Scriptable
    BY SessionFields DEF TypeOK
  <1> QED
    BY <1>1 DEF Outcome, Answers

\* New keeps the types, and the session it returns is an object.
LEMMA NewType ==
  ASSUME TypeOK, NEW i \in Ids, New(i)
  PROVE  /\ sessions' \in [Ids -> Objs \cup {None}]
         /\ obj' \in [Objs -> Session]
         /\ \A o \in Objs : Len(obj'[o].pending) <= QueueCap
         /\ sessions'[i] \in Objs
  <1>1. CASE sessions[i] # None
    BY <1>1 DEF New, TypeOK
  <1>2. CASE sessions[i] = None
    <2>1. PICK o \in Objs : /\ obj[o].id = None
                            /\ obj' = [obj EXCEPT ![o].id = i]
                            /\ sessions' = [sessions EXCEPT ![i] = o]
      BY <1>2 DEF New
    <2>2. obj' \in [Objs -> Session]
      BY <2>1, SessionType DEF TypeOK
    <2>3. \A p \in Objs : obj'[p].pending = obj[p].pending
      BY <2>1, SessionFrame DEF TypeOK
    <2> QED
      BY <2>1, <2>2, <2>3 DEF TypeOK
  <1> QED
    BY <1>1, <1>2

\* record keeps the types: the queue never exceeds its capacity.
LEMMA RecordType ==
  ASSUME TypeOK, NEW o \in Objs, NEW cb \in Callback, Record(o, cb)
  PROVE  /\ obj' \in [Objs -> Session]
         /\ \A p \in Objs : Len(obj'[p].pending) <= QueueCap
  <1>1. /\ obj[o] \in Session
        /\ obj[o].pending \in Seq(Callback)
        /\ Dropped(o) \in Nat
        /\ obj[o].seen \cup {cb.n} \in SUBSET (1..MaxPosts)
    <2>1. obj[o] \in Session
      BY DEF TypeOK
    <2>2. cb.n \in 1..MaxPosts
      BY DEF Callback
    <2> QED
      BY <2>1, <2>2, SessionFields DEF Dropped
  <1>2. CASE Room(o)
    <2>1. /\ Append(obj[o].pending, cb) \in Seq(Callback)
          /\ Len(Append(obj[o].pending, cb)) <= QueueCap
      BY <1>1, <1>2, BoundsAssumption DEF Room
    <2>2. obj' = [obj EXCEPT ![o] = [obj[o] EXCEPT
                                       !.pending = Append(obj[o].pending, cb),
                                       !.seen = obj[o].seen \cup {cb.n}]]
      BY <1>1, <1>2 DEF Record, TypeOK
    <2>3. [obj[o] EXCEPT !.pending = Append(obj[o].pending, cb),
                         !.seen = obj[o].seen \cup {cb.n}] \in Session
      BY <1>1, <2>1, SessionType
    <2>4. obj'[o].pending = Append(obj[o].pending, cb)
      BY <1>1, <2>2, SessionFrame DEF TypeOK
    <2> QED
      BY <2>1, <2>2, <2>3, <2>4 DEF TypeOK
  <1>3. CASE ~Room(o)
    <2>1. obj' = [obj EXCEPT ![o] = [obj[o] EXCEPT
                                       !.errs = Dropped(o),
                                       !.seen = obj[o].seen \cup {cb.n}]]
      BY <1>1, <1>3 DEF Record, TypeOK
    <2>2. [obj[o] EXCEPT !.errs = Dropped(o),
                         !.seen = obj[o].seen \cup {cb.n}] \in Session
      BY <1>1, SessionType
    <2>3. \A p \in Objs : obj'[p].pending = obj[p].pending
      BY <1>1, <2>1, SessionFrame DEF TypeOK
    <2> QED
      BY <2>1, <2>2, <2>3 DEF TypeOK
  <1> QED
    BY <1>2, <1>3

(* What a request carries at each point of its handler: a call, an ID      *)
(* where New is called with it, and a session once sessionFor is done.     *)
Shape ==
    \A h \in Handlers :
        /\ req[h].pc # "idle" => req[h].call # None /\ req[h].n # 0
        /\ req[h].pc \in {"create", "bind"} => req[h].id # None
        /\ req[h].pc \in {"bind", "record", "reply", "done"}
              => req[h].sess # None

\* Every step keeps the shape of the requests.
LEMMA StepShape == TypeOK /\ Shape /\ [Next]_webhookVars => Shape'
  <1> SUFFICES ASSUME TypeOK, Shape, [Next]_webhookVars PROVE Shape'
    OBVIOUS
  <1> USE DEF regVars, testVars
  <1>1. CASE TestStep \/ UNCHANGED webhookVars
    BY <1>1 DEF TestStep, Claim, Script, WaitCallback, PlaceCall, webhookVars,
                Shape
  <1>2. ASSUME NEW t \in Tests, Release(t) PROVE Shape'
    BY <1>2 DEF Release, Shape, TypeOK, Request
  <1>3. ASSUME Arrival PROVE Shape'
    <2>1. PICK h \in Handlers, c \in Calls, k \in Routes,
               i \in Tests \cup {None} : Post(h, c, i, k)
      BY <1>3, OwnerAssumption DEF Arrival
    <2>2. /\ req'[h].pc = "route"
          /\ req'[h].call = c
          /\ req'[h].n = posts + 1
      BY <2>1 DEF Post, TypeOK, Idle
    <2>3. \A g \in Handlers \ {h} : req'[g] = req[g]
      BY <2>1 DEF Post, TypeOK
    <2>4. c # None /\ posts + 1 # 0
      BY IdsAssumption, BoundsAssumption DEF TypeOK
    <2> QED
      BY <2>2, <2>3, <2>4 DEF Shape
  <1>4. ASSUME NEW h \in Handlers, HandlerStep(h) PROVE Shape'
    <2>1. CASE Route(h)
      BY <2>1 DEF Route, Shape, TypeOK, Request
    <2>2. CASE Create(h)
      <3>1. req[h].id \in Ids /\ New(req[h].id)
        BY <2>2 DEF Create, Shape, TypeOK, Request, Ids
      <3>2. sessions'[req[h].id] # None
        BY <3>1, NewType, IdsAssumption
      <3> QED
        BY <2>2, <3>2 DEF Create, Shape, TypeOK, Request
    <2>3. CASE Bind(h)
      BY <2>3 DEF Bind, Shape, TypeOK, Request
    <2>4. CASE CreateAnon(h)
      <3>1. Anon \in Ids /\ New(Anon)
        BY <2>4 DEF CreateAnon, Ids
      <3>2. sessions'[Anon] # None
        BY <3>1, NewType, IdsAssumption
      <3> QED
        BY <2>4, <3>2 DEF CreateAnon, Shape, TypeOK, Request
    <2>5. CASE Capture(h)
      BY <2>5 DEF Capture, Shape, TypeOK, Request
    <2>6. CASE Reply(h)
      BY <2>6 DEF Reply, Shape, TypeOK, Request
    <2>7. CASE Return(h)
      BY <2>7 DEF Return, Shape, TypeOK, Request, Idle
    <2> QED
      BY <1>4, <2>1, <2>2, <2>3, <2>4, <2>5, <2>6, <2>7 DEF HandlerStep
  <1> QED
    BY <1>1, <1>2, <1>3, <1>4 DEF Next

\* Every step keeps the types.
LEMMA StepType == TypeOK /\ Shape /\ [Next]_webhookVars => TypeOK'
  <1> SUFFICES ASSUME TypeOK, Shape, [Next]_webhookVars PROVE TypeOK'
    OBVIOUS
  <1> USE DEF regVars, testVars
  <1>1. ASSUME NEW t \in Tests, Claim(t) PROVE TypeOK'
    <2>1. t \in Ids /\ New(t)
      BY <1>1 DEF Claim, Ids
    <2>2. claims' \in [Tests -> 0..MaxClaims]
      BY <1>1, BoundsAssumption DEF Claim, TypeOK
    <2> QED
      BY <1>1, <2>1, <2>2, NewType DEF Claim, TypeOK
  <1>2. ASSUME NEW t \in Tests, Script(t) PROVE TypeOK'
    <2>1. holds[t] \in Objs
      BY <1>2 DEF Script, TypeOK
    <2>a. PICK k \in Scriptable : obj' = [obj EXCEPT ![holds[t]].scripted = @ \cup {k}]
      BY <1>2, RoutesAssumption DEF Script, Scriptable
    <2>2. obj' \in [Objs -> Session]
      BY <2>a, <2>1, SessionType DEF TypeOK
    <2>3. \A p \in Objs : obj'[p].pending = obj[p].pending
      BY <2>a, <2>1, SessionFrame DEF TypeOK
    <2> QED
      BY <1>2, <2>2, <2>3 DEF Script, TypeOK
  <1>3. ASSUME NEW t \in Tests, WaitCallback(t) PROVE TypeOK'
    <2> DEFINE o == holds[t]
    <2>1. /\ o \in Objs
          /\ obj[o] \in Session
          /\ obj[o].pending \in Seq(Callback)
          /\ obj[o].pending # <<>>
          /\ Len(obj[o].pending) <= QueueCap
      BY <1>3, SessionFields DEF WaitCallback, TypeOK
    <2>2. /\ Tail(obj[o].pending) \in Seq(Callback)
          /\ Len(Tail(obj[o].pending)) <= QueueCap
          /\ Head(obj[o].pending) \in Callback
      BY <2>1, BoundsAssumption
    <2>3. obj[o].got \cup {Head(obj[o].pending).n} \in SUBSET (1..MaxPosts)
      BY <2>1, <2>2, SessionFields DEF Callback
    <2>4. obj' = [obj EXCEPT ![o] = [obj[o] EXCEPT
                    !.pending = Tail(obj[o].pending),
                    !.got = obj[o].got \cup {Head(obj[o].pending).n}]]
      BY <1>3, <2>1 DEF WaitCallback, TypeOK
    <2>5. [obj[o] EXCEPT !.pending = Tail(obj[o].pending),
             !.got = obj[o].got \cup {Head(obj[o].pending).n}] \in Session
      BY <2>1, <2>2, <2>3, SessionType
    <2>6. obj'[o].pending = Tail(obj[o].pending)
      BY <2>1, <2>4, SessionFrame DEF TypeOK
    <2>7. obj' \in [Objs -> Session]
      BY <2>1, <2>4, <2>5 DEF TypeOK
    <2>8. \A p \in Objs : Len(obj'[p].pending) <= QueueCap
      BY <2>1, <2>2, <2>4, <2>6 DEF TypeOK
    <2> QED
      BY <1>3, <2>7, <2>8 DEF WaitCallback, TypeOK
  <1>4. ASSUME NEW c \in Calls, PlaceCall(c) PROVE TypeOK'
    BY <1>4 DEF PlaceCall, TypeOK
  <1>5. ASSUME NEW t \in Tests, Release(t) PROVE TypeOK'
    <2>1. req' \in [Handlers -> Request]
      BY <1>5, RequestType DEF Release, TypeOK
    <2> QED
      BY <1>5, <2>1 DEF Release, TypeOK, Ids
  <1>6. ASSUME Arrival PROVE TypeOK'
    <2>1. PICK h \in Handlers, c \in Calls, k \in Routes,
               i \in Tests \cup {None} : Post(h, c, i, k)
      BY <1>6, OwnerAssumption DEF Arrival
    <2>2. posts + 1 \in 0..MaxPosts /\ k \in Hooks
      BY <2>1, RoutesAssumption, BoundsAssumption DEF Post, TypeOK, Hooks
    <2>3. Correlated(c, i) \in BOOLEAN
      BY DEF Correlated
    <2>4. (Correlated(c, i) /\ k \in obj[holds[CallOwner[c]]].scripted) \in BOOLEAN
      OBVIOUS
    <2>5. [Idle EXCEPT !.pc = "route", !.call = c, !.id = i, !.hook = k,
                       !.n = posts + 1, !.sure = Correlated(c, i),
                       !.scripted = /\ Correlated(c, i)
                                    /\ k \in obj[holds[CallOwner[c]]].scripted]
             \in Request
      BY <2>2, <2>3, <2>4, ArrivedType
    <2>6. req' \in [Handlers -> Request]
      BY <2>1, <2>5 DEF Post, TypeOK
    <2> QED
      BY <2>1, <2>2, <2>6 DEF Post, TypeOK
  <1>7. ASSUME NEW h \in Handlers, Route(h) PROVE TypeOK'
    <2>1. /\ req[h] \in Request
          /\ req[h].call \in Calls
          /\ req[h].id \in Tests \cup {None}
      BY <1>7, RequestFields DEF Route, Shape, TypeOK
    <2>2. Found(h) \in Objs \cup {None}
      BY <2>1 DEF Found, Lookup, LookupByCallSid, TypeOK, Ids
    <2>3. req' \in [Handlers -> Request]
      BY <1>7, <2>1, <2>2, RequestType DEF Route, TypeOK
    <2> QED
      BY <1>7, <2>3 DEF Route, TypeOK
  <1>8. ASSUME NEW h \in Handlers, Create(h) PROVE TypeOK'
    <2>1. req[h].id \in Ids /\ New(req[h].id)
      BY <1>8 DEF Create, Shape, TypeOK, Request, Ids
    <2>2. sessions'[req[h].id] \in Objs
      BY <2>1, NewType
    <2>3. req' \in [Handlers -> Request]
      BY <1>8, <2>2, RequestType DEF Create, TypeOK
    <2> QED
      BY <1>8, <2>1, <2>3, NewType DEF Create, TypeOK
  <1>9. ASSUME NEW h \in Handlers, Bind(h) PROVE TypeOK'
    <2>1. callSidIndex' \in [Calls -> Ids \cup {None}]
      BY <1>9 DEF Bind, BindCallSid, TypeOK, Request, Ids
    <2>2. req' \in [Handlers -> Request]
      BY <1>9, RequestType DEF Bind, TypeOK
    <2> QED
      BY <1>9, <2>1, <2>2 DEF Bind, TypeOK
  <1>10. ASSUME NEW h \in Handlers, CreateAnon(h) PROVE TypeOK'
    <2>1. Anon \in Ids /\ New(Anon)
      BY <1>10 DEF CreateAnon, Ids
    <2>2. sessions'[Anon] \in Objs
      BY <2>1, NewType
    <2>3. req' \in [Handlers -> Request]
      BY <1>10, <2>2, RequestType DEF CreateAnon, TypeOK
    <2> QED
      BY <1>10, <2>1, <2>3, NewType DEF CreateAnon, TypeOK
  <1>11. ASSUME NEW h \in Handlers, Capture(h) PROVE TypeOK'
    <2> DEFINE cb == [call |-> req[h].call, hook |-> req[h].hook,
                      n |-> req[h].n]
    <2>1. /\ req[h].sess \in Objs
          /\ req[h].call \in Calls
          /\ req[h].hook \in Hooks
          /\ req[h].n \in 1..MaxPosts
      BY <1>11, RequestFields, BoundsAssumption DEF Capture, Shape, TypeOK
    <2>2. cb \in Callback
      BY <2>1 DEF Callback
    <2>3. Record(req[h].sess, cb)
      BY <1>11 DEF Capture
    <2>4. /\ obj' \in [Objs -> Session]
          /\ \A p \in Objs : Len(obj'[p].pending) <= QueueCap
      BY <2>1, <2>2, <2>3, RecordType
    <2>5. req' \in [Handlers -> Request]
      BY <1>11, RequestType DEF Capture, TypeOK
    <2> QED
      BY <1>11, <2>4, <2>5 DEF Capture, TypeOK
  <1>12. ASSUME NEW h \in Handlers, Reply(h) PROVE TypeOK'
    <2>0. req[h].hook \in Hooks /\ req[h].sess \in Objs
      BY <1>12, RequestFields DEF Reply, Shape, TypeOK
    <2>1. Outcome(req[h].sess, req[h].hook) \in Answers
      BY <2>0, OutcomeType
    <2> QED
      BY <1>12, <2>1, RequestType DEF Reply, TypeOK
  <1>13. ASSUME NEW h \in Handlers, Return(h) PROVE TypeOK'
    BY <1>13, IdleType DEF Return, TypeOK
  <1>14. CASE UNCHANGED webhookVars
    BY <1>14 DEF webhookVars, TypeOK
  <1> QED
    BY <1>1, <1>2, <1>3, <1>4, <1>5, <1>6, <1>7, <1>8, <1>9, <1>10, <1>11,
       <1>12, <1>13, <1>14 DEF Next, TestStep, HandlerStep

-----------------------------------------------------------------------------
(* Routing.                                                                *)

(* Past sessionFor.                                                        *)
Routed == {"bind", "record", "reply", "done"}

(* A session is filed under its own ID.                                    *)
OwnId == \A i \in Ids : sessions[i] # None => obj[sessions[i]].id = i

(* The registry is consistent: a session is filed under its own ID, and a  *)
(* call is bound to the test that placed it or to none.                    *)
Filed ==
    /\ OwnId
    /\ \A c \in Calls : callSidIndex[c] \in {None, CallOwner[c]}

(* A request names the test that placed its call or none, and has been     *)
(* given a session of that test or the anonymous one.                      *)
Carries ==
    \A h \in Handlers :
        req[h].pc # "idle" =>
            /\ req[h].id \in {None, CallOwner[req[h].call]}
            /\ req[h].pc \in Routed =>
                  obj[req[h].sess].id \in {CallOwner[req[h].call], Anon}

(* A sure request has a test that holds its session, never takes the paths *)
(* that allocate one, and is given the session the test holds.             *)
SureInv ==
    \A h \in Handlers :
        req[h].sure =>
            /\ req[h].pc # "idle"
            /\ holds[CallOwner[req[h].call]] # None
            /\ req[h].pc \notin {"create", "anon"}
            /\ req[h].pc = "route" =>
                  req[h].id # None \/ callSidIndex[req[h].call] # None
            /\ req[h].pc \in Routed =>
                  req[h].sess = holds[CallOwner[req[h].call]]

RouteInv ==
    /\ TypeOK /\ Shape
    /\ Filed /\ Carries /\ HeldSessionStable /\ SureInv /\ RoutedToOwner

\* New replaces no session: it files at most one fresh object under i and
\* leaves every other session, and every queue, as it is.
LEMMA NewKeeps ==
  ASSUME TypeOK, OwnId, NEW i \in Ids, New(i)
  PROVE  /\ \A o \in Objs : obj[o].id # None => obj'[o].id = obj[o].id
         /\ \A o \in Objs : obj'[o].pending = obj[o].pending
         /\ \A j \in Ids : sessions[j] # None => sessions'[j] = sessions[j]
         /\ sessions'[i] \in Objs
         /\ \A j \in Ids : sessions'[j] # None => obj'[sessions'[j]].id = j
  <1>0. None \notin Ids
    BY IdsAssumption DEF Ids
  <1>1. CASE sessions[i] # None
    BY <1>1 DEF New, TypeOK, OwnId
  <1>2. CASE sessions[i] = None
    <2>1. PICK o \in Objs : /\ obj[o].id = None
                            /\ obj' = [obj EXCEPT ![o].id = i]
                            /\ sessions' = [sessions EXCEPT ![i] = o]
      BY <1>2 DEF New
    <2>2. /\ obj'[o].id = i
          /\ \A p \in Objs : obj'[p].pending = obj[p].pending
          /\ \A p \in Objs \ {o} : obj'[p] = obj[p]
      BY <2>1, SessionFrame DEF TypeOK
    <2>3. /\ sessions'[i] = o
          /\ \A j \in Ids \ {i} : sessions'[j] = sessions[j]
      BY <2>1 DEF TypeOK
    <2>4. \A j \in Ids \ {i} : sessions[j] # None => sessions[j] # o
      BY <2>1, <1>0 DEF OwnId
    <2>5. \A j \in Ids : sessions'[j] # None => obj'[sessions'[j]].id = j
      BY <2>2, <2>3, <2>4 DEF OwnId, TypeOK
    <2> QED
      BY <1>2, <2>1, <2>2, <2>3, <2>5
  <1> QED
    BY <1>1, <1>2

\* Callbacks stay where they belong when the queues do not change and no
\* session changes its ID.
LEMMA QueuesKept ==
  ASSUME TypeOK, RoutedToOwner,
         \A o \in Objs : obj[o].id # None => obj'[o].id = obj[o].id,
         \A o \in Objs : obj'[o].pending = obj[o].pending
  PROVE  RoutedToOwner'
  <1> SUFFICES ASSUME NEW o \in Objs, NEW j \in 1..Len(obj'[o].pending)
               PROVE  obj'[o].id \in
                        {CallOwner[obj'[o].pending[j].call], Anon, Shared}
    BY DEF RoutedToOwner
  <1>1. obj[o].pending \in Seq(Callback) /\ j \in 1..Len(obj[o].pending)
    BY SessionFields DEF TypeOK
  <1>2. obj[o].pending[j].call \in Calls
    <2>1. obj[o].pending[j] \in Callback
      BY <1>1
    <2> QED
      BY <2>1 DEF Callback
  <1>3. obj[o].id \in {CallOwner[obj[o].pending[j].call], Anon, Shared}
    BY <1>1 DEF RoutedToOwner
  <1>4. obj[o].id # None
    BY <1>2, <1>3, OwnerAssumption, IdsAssumption
  <1> QED
    BY <1>3, <1>4

\* record changes no ID, and puts a callback where it belongs.
LEMMA RecordKeeps ==
  ASSUME TypeOK, RoutedToOwner, NEW o \in Objs, NEW cb \in Callback,
         Record(o, cb), obj[o].id \in {CallOwner[cb.call], Anon}
  PROVE  /\ \A p \in Objs : obj'[p].id = obj[p].id
         /\ RoutedToOwner'
  <1>1. obj[o] \in Session /\ obj[o].pending \in Seq(Callback)
    BY SessionFields DEF TypeOK
  <1>2. CASE Room(o)
    <2>1. obj' = [obj EXCEPT ![o] = [obj[o] EXCEPT
                                       !.pending = Append(obj[o].pending, cb),
                                       !.seen = obj[o].seen \cup {cb.n}]]
      BY <1>1, <1>2 DEF Record, TypeOK
    <2>2. /\ obj'[o].pending = Append(obj[o].pending, cb)
          /\ obj'[o].id = obj[o].id
      BY <1>1, <2>1, SessionFrame DEF TypeOK
    <2>3. \A p \in Objs \ {o} : obj'[p] = obj[p]
      BY <2>1 DEF TypeOK
    <2>4. \A j \in 1..Len(obj'[o].pending) :
             obj'[o].id \in {CallOwner[obj'[o].pending[j].call], Anon, Shared}
      BY <1>1, <2>2 DEF RoutedToOwner
    <2> QED
      BY <2>2, <2>3, <2>4 DEF RoutedToOwner
  <1>3. CASE ~Room(o)
    <2>1. obj' = [obj EXCEPT ![o] = [obj[o] EXCEPT
                                       !.errs = Dropped(o),
                                       !.seen = obj[o].seen \cup {cb.n}]]
      BY <1>1, <1>3 DEF Record, TypeOK
    <2>2. \A p \in Objs : /\ obj'[p].pending = obj[p].pending
                          /\ obj'[p].id = obj[p].id
      BY <1>1, <2>1, SessionFrame DEF TypeOK
    <2> QED
      BY <2>2, QueuesKept
  <1> QED
    BY <1>2, <1>3

\* Every step keeps the routing invariant.
LEMMA StepRoute == RouteInv /\ [Next]_webhookVars => RouteInv'
  <1> SUFFICES ASSUME RouteInv, [Next]_webhookVars PROVE RouteInv'
    OBVIOUS
  <1> USE DEF regVars, testVars, Routed
  <1>0. /\ TypeOK /\ Shape /\ Filed /\ Carries
        /\ HeldSessionStable /\ SureInv /\ RoutedToOwner
        /\ TypeOK' /\ Shape'
    BY StepType, StepShape DEF RouteInv
  <1>a. None \notin Objs
    BY IdsAssumption
  <1>b. Tests \subseteq Ids /\ Anon \in Ids /\ None \notin Ids
    BY IdsAssumption DEF Ids
  <1>c. \A h \in Handlers :
           req[h].pc # "idle" => req[h].call \in Calls
    BY <1>0, RequestFields DEF Shape, TypeOK
  <1>d. \A h \in Handlers : req[h].pc \in Routed => req[h].sess \in Objs
    BY <1>0, RequestFields DEF Shape, TypeOK
  <1>1. ASSUME NEW t \in Tests, Claim(t) PROVE RouteInv'
    <2>1. t \in Ids /\ New(t)
      BY <1>1, <1>b DEF Claim
    <2>2. /\ \A o \in Objs : obj[o].id # None => obj'[o].id = obj[o].id
          /\ \A o \in Objs : obj'[o].pending = obj[o].pending
          /\ \A j \in Ids : sessions[j] # None => sessions'[j] = sessions[j]
          /\ sessions'[t] \in Objs
          /\ \A j \in Ids : sessions'[j] # None => obj'[sessions'[j]].id = j
      BY <1>0, <2>1, NewKeeps DEF Filed
    <2>3. Filed'
      BY <1>0, <1>1, <2>2 DEF Filed, OwnId, Claim
    <2>4. HeldSessionStable'
      BY <1>0, <1>1, <1>a, <1>b, <2>2 DEF HeldSessionStable, Claim, TypeOK
    <2>5. RoutedToOwner'
      BY <1>0, <2>2, QueuesKept
    <2>6. Carries'
      BY <1>0, <1>1, <1>c, <1>d, <2>2, OwnerAssumption, IdsAssumption
         DEF Carries, Claim
    <2>7. SureInv'
      BY <1>0, <1>1, <1>c, OwnerAssumption DEF SureInv, Claim, TypeOK
    <2> QED
      BY <1>0, <2>3, <2>4, <2>5, <2>6, <2>7 DEF RouteInv
  <1>2. ASSUME NEW t \in Tests, Script(t) PROVE RouteInv'
    <2>1. holds[t] \in Objs
      BY <1>0, <1>2 DEF Script, TypeOK
    <2>2. \A p \in Objs : /\ obj'[p].pending = obj[p].pending
                          /\ obj'[p].id = obj[p].id
      BY <1>0, <1>2, <2>1, SessionFrame DEF Script, TypeOK
    <2>3. RoutedToOwner'
      BY <1>0, <2>2, QueuesKept
    <2>4. Filed' /\ HeldSessionStable'
      BY <1>0, <1>2, <2>2 DEF Filed, OwnId, HeldSessionStable, Script, TypeOK
    <2>5. Carries' /\ SureInv'
      BY <1>0, <1>2, <1>d, <2>2 DEF Carries, SureInv, Script
    <2> QED
      BY <1>0, <2>3, <2>4, <2>5 DEF RouteInv
  <1>3. ASSUME NEW t \in Tests, WaitCallback(t) PROVE RouteInv'
    <2> DEFINE o == holds[t]
    <2>1. /\ o \in Objs
          /\ obj[o] \in Session
          /\ obj[o].pending \in Seq(Callback)
          /\ obj[o].pending # <<>>
      BY <1>0, <1>3, SessionFields DEF WaitCallback, TypeOK
    <2>2. obj' = [obj EXCEPT ![o] = [obj[o] EXCEPT
                    !.pending = Tail(obj[o].pending),
                    !.got = obj[o].got \cup {Head(obj[o].pending).n}]]
      BY <1>0, <1>3, <2>1 DEF WaitCallback, TypeOK
    <2>3. /\ obj'[o].pending = Tail(obj[o].pending)
          /\ \A p \in Objs : obj'[p].id = obj[p].id
          /\ \A p \in Objs \ {o} : obj'[p] = obj[p]
      BY <1>0, <2>1, <2>2, SessionFrame DEF TypeOK
    <2>4. \A j \in 1..Len(obj'[o].pending) :
             obj'[o].id \in {CallOwner[obj'[o].pending[j].call], Anon, Shared}
      <3> SUFFICES ASSUME NEW j \in 1..Len(obj'[o].pending)
                   PROVE  obj'[o].id \in {CallOwner[obj'[o].pending[j].call],
                                          Anon, Shared}
        OBVIOUS
      <3>1. /\ j + 1 \in 1..Len(obj[o].pending)
            /\ obj'[o].pending[j] = obj[o].pending[j + 1]
        BY <2>1, <2>3
      <3> QED
        BY <1>0, <2>1, <2>3, <3>1 DEF RoutedToOwner
    <2>5. RoutedToOwner'
      BY <1>0, <2>3, <2>4, ZenonT(60) DEF RoutedToOwner
    <2>6. Filed' /\ HeldSessionStable'
      BY <1>0, <1>3, <2>3 DEF Filed, OwnId, HeldSessionStable, WaitCallback, TypeOK
    <2>7. Carries'
      <3>1. \A p \in Objs : obj'[p].id = obj[p].id
        BY <2>3
      <3>2. req' = req
        BY <1>3 DEF WaitCallback
      <3> QED
        BY <1>0, <1>d, <3>1, <3>2 DEF Carries
    <2>8. SureInv'
      <3>1. req' = req /\ holds' = holds /\ callSidIndex' = callSidIndex
        BY <1>3 DEF WaitCallback
      <3> QED
        BY <1>0, <3>1 DEF SureInv
    <2> QED
      BY <1>0, <2>5, <2>6, <2>7, <2>8 DEF RouteInv
  <1>4. ASSUME NEW c \in Calls, PlaceCall(c) PROVE RouteInv'
    BY <1>0, <1>4 DEF RouteInv, PlaceCall, Filed, OwnId, Carries, HeldSessionStable,
                      SureInv, RoutedToOwner
  <1>5. ASSUME NEW t \in Tests, Release(t) PROVE RouteInv'
    <2>1. \A h \in Handlers :
             /\ req'[h].pc = req[h].pc /\ req'[h].id = req[h].id
             /\ req'[h].call = req[h].call /\ req'[h].sess = req[h].sess
             /\ req'[h].sure => req[h].sure /\ CallOwner[req[h].call] # t
      <3>1. SUFFICES ASSUME NEW h \in Handlers
                     PROVE  /\ req'[h].pc = req[h].pc /\ req'[h].id = req[h].id
                            /\ req'[h].call = req[h].call
                            /\ req'[h].sess = req[h].sess
                            /\ req'[h].sure =>
                                  req[h].sure /\ CallOwner[req[h].call] # t
        OBVIOUS
      <3>2. req[h] \in Request
        BY <1>0 DEF TypeOK
      <3>3. CASE req[h].call # None /\ CallOwner[req[h].call] = t
        <4>1. req'[h] = [req[h] EXCEPT !.sure = FALSE]
          BY <1>5, <3>3 DEF Release
        <4> QED
          BY <3>2, <4>1 DEF Request
      <3>4. CASE ~(req[h].call # None /\ CallOwner[req[h].call] = t)
        <4>1. req'[h] = req[h]
          BY <1>5, <3>4 DEF Release
        <4>2. req[h].sure => req[h].call # None
          BY <1>0 DEF SureInv, Shape
        <4> QED
          BY <3>4, <4>1, <4>2
      <3> QED
        BY <3>3, <3>4
    <2>2. Filed' /\ HeldSessionStable'
      BY <1>0, <1>5, <1>b DEF Filed, OwnId, HeldSessionStable, Release, TypeOK
    <2>3. RoutedToOwner'
      BY <1>0, <1>5 DEF RoutedToOwner, Release
    <2>4. Carries'
      BY <1>0, <1>5, <2>1 DEF Carries, Release
    <2>5. SureInv'
      BY <1>0, <1>5, <1>c, <2>1, OwnerAssumption DEF SureInv, Release, TypeOK
    <2> QED
      BY <1>0, <2>2, <2>3, <2>4, <2>5 DEF RouteInv
  <1>6. ASSUME Arrival PROVE RouteInv'
    <2>1. PICK h \in Handlers, c \in Calls, k \in Routes,
               i \in Tests \cup {None} :
                  Post(h, c, i, k) /\ i \in {CallOwner[c], None}
      BY <1>6, OwnerAssumption DEF Arrival
    <2>2. /\ req'[h].pc = "route" /\ req'[h].call = c /\ req'[h].id = i
          /\ \A g \in Handlers \ {h} : req'[g] = req[g]
      BY <1>0, <2>1 DEF Post, TypeOK, Idle
    <2>3. req'[h].sure = Correlated(c, i)
      BY <1>0, <2>1 DEF Post, TypeOK, Idle
    <2>4. Filed' /\ HeldSessionStable' /\ RoutedToOwner'
      BY <1>0, <2>1 DEF Post, Filed, OwnId, HeldSessionStable, RoutedToOwner
    <2>5. Carries'
      BY <1>0, <2>1, <2>2 DEF Post, Carries
    <2>6. SureInv'
      BY <1>0, <2>1, <2>2, <2>3 DEF Post, SureInv, Correlated
    <2> QED
      BY <1>0, <2>4, <2>5, <2>6 DEF RouteInv
  <1>7. ASSUME NEW h \in Handlers, Route(h) PROVE RouteInv'
    <2>1. /\ req[h] \in Request
          /\ req[h].call \in Calls
          /\ req[h].id \in Tests \cup {None}
          /\ req[h].id \in {None, CallOwner[req[h].call]}
      BY <1>0, <1>7, <1>c, RequestFields DEF Route, Carries, TypeOK
    <2>2. /\ Found(h) \in Objs \cup {None}
          /\ Found(h) # None => obj[Found(h)].id = CallOwner[req[h].call]
      BY <1>0, <1>b, <2>1, OwnerAssumption, IdsAssumption
         DEF Found, Lookup, LookupByCallSid, TypeOK, Filed, OwnId
    <2>3. /\ req'[h].sess = Found(h)
          /\ req'[h].id = req[h].id /\ req'[h].call = req[h].call
          /\ req'[h].sure = req[h].sure
          /\ \A g \in Handlers \ {h} : req'[g] = req[g]
      BY <1>0, <1>7 DEF Route, TypeOK, Request
    <2>4. req'[h].pc = IF req[h].id # None
                         THEN IF Found(h) # None THEN "bind" ELSE "create"
                         ELSE IF Found(h) # None THEN "record" ELSE "anon"
      BY <1>0, <1>7 DEF Route, TypeOK, Request
    <2>5. Filed' /\ HeldSessionStable' /\ RoutedToOwner'
      BY <1>0, <1>7 DEF Route, Filed, OwnId, HeldSessionStable, RoutedToOwner
    <2>6. Carries'
      <3>1. obj' = obj
        BY <1>7 DEF Route
      <3>2. /\ req'[h].id \in {None, CallOwner[req'[h].call]}
            /\ req'[h].pc \in Routed =>
                  obj[req'[h].sess].id \in {CallOwner[req'[h].call], Anon}
        BY <2>1, <2>2, <2>3, <2>4
      <3> QED
        BY <1>0, <2>3, <3>1, <3>2 DEF Carries
    <2>7. req[h].sure => Found(h) = holds[CallOwner[req[h].call]]
      <3> SUFFICES ASSUME req[h].sure
                   PROVE  Found(h) = holds[CallOwner[req[h].call]]
        OBVIOUS
      <3>1. /\ req[h].id # None \/ callSidIndex[req[h].call] # None
            /\ holds[CallOwner[req[h].call]] # None
        BY <1>0, <1>7 DEF SureInv, Route
      <3>2. sessions[CallOwner[req[h].call]] = holds[CallOwner[req[h].call]]
        BY <1>0, <2>1, <3>1, OwnerAssumption DEF HeldSessionStable
      <3> QED
        BY <1>0, <2>1, <3>1, <3>2 DEF Found, Lookup, LookupByCallSid, Filed, OwnId
    <2>8. SureInv'
      <3>1. holds' = holds /\ callSidIndex' = callSidIndex
        BY <1>7 DEF Route
      <3>2. ASSUME req[h].sure
            PROVE  /\ holds[CallOwner[req[h].call]] # None
                   /\ req'[h].pc \in {"bind", "record"}
                   /\ req'[h].sess = holds[CallOwner[req[h].call]]
        BY <1>0, <1>7, <2>3, <2>4, <2>7, <3>2 DEF SureInv, Route
      <3> QED
        BY <1>0, <2>3, <3>1, <3>2 DEF SureInv
    <2> QED
      BY <1>0, <2>5, <2>6, <2>8 DEF RouteInv
  <1>8. ASSUME NEW h \in Handlers, NEW i \in Ids, New(i), NEW pc \in Routed,
               req[h].pc \in {"create", "anon"},
               i \in {Anon, CallOwner[req[h].call]},
               req' = [req EXCEPT ![h].sess = sessions'[i], ![h].pc = pc],
               UNCHANGED <<callSidIndex, testVars, posts>>
        PROVE  RouteInv'
    <2>1. /\ \A o \in Objs : obj[o].id # None => obj'[o].id = obj[o].id
          /\ \A o \in Objs : obj'[o].pending = obj[o].pending
          /\ \A j \in Ids : sessions[j] # None => sessions'[j] = sessions[j]
          /\ sessions'[i] \in Objs
          /\ \A j \in Ids : sessions'[j] # None => obj'[sessions'[j]].id = j
      BY <1>0, <1>8, NewKeeps DEF Filed
    <2>2. /\ req'[h].sess = sessions'[i] /\ req'[h].pc = pc
          /\ req'[h].id = req[h].id /\ req'[h].call = req[h].call
          /\ req'[h].sure = req[h].sure
          /\ \A g \in Handlers \ {h} : req'[g] = req[g]
      BY <1>0, <1>8 DEF TypeOK, Request
    <2>3. obj'[sessions'[i]].id = i
      BY <2>1, <1>a
    <2>4. Filed'
      BY <1>0, <1>8, <2>1 DEF Filed, OwnId
    <2>5. HeldSessionStable'
      BY <1>0, <1>8, <1>a, <1>b, <2>1 DEF HeldSessionStable, TypeOK
    <2>6. RoutedToOwner'
      BY <1>0, <2>1, QueuesKept
    <2>7. Carries'
      <3> SUFFICES ASSUME NEW g \in Handlers, req'[g].pc # "idle"
                   PROVE  /\ req'[g].id \in {None, CallOwner[req'[g].call]}
                          /\ req'[g].pc \in Routed =>
                               obj'[req'[g].sess].id
                                 \in {CallOwner[req'[g].call], Anon}
        BY DEF Carries
      <3>1. CASE g = h
        BY <1>0, <1>8, <2>2, <2>3, <3>1 DEF Carries
      <3>2. CASE g # h
        BY <1>0, <1>c, <1>d, <2>1, <2>2, <3>2, OwnerAssumption, IdsAssumption
           DEF Carries
      <3> QED
        BY <3>1, <3>2
    <2>8. SureInv'
      <3>1. ~req[h].sure
        BY <1>0, <1>8 DEF SureInv
      <3>2. holds' = holds /\ callSidIndex' = callSidIndex
        BY <1>8
      <3> QED
        BY <1>0, <2>2, <3>1, <3>2 DEF SureInv
    <2> QED
      BY <1>0, <2>4, <2>5, <2>6, <2>7, <2>8 DEF RouteInv
  <1>9. ASSUME NEW h \in Handlers, Create(h) PROVE RouteInv'
    <2>1. req[h].id \in Ids /\ req[h].id = CallOwner[req[h].call]
      BY <1>0, <1>9, <1>b, RequestFields DEF Create, Shape, Carries, TypeOK
    <2> QED
      BY <1>8, <1>9, <2>1 DEF Create
  <1>10. ASSUME NEW h \in Handlers, CreateAnon(h) PROVE RouteInv'
    BY <1>8, <1>10, <1>b DEF CreateAnon
  <1>11. ASSUME NEW h \in Handlers, Bind(h) PROVE RouteInv'
    <2>1. req[h].call \in Calls /\ req[h].id = CallOwner[req[h].call]
      BY <1>0, <1>11, <1>c DEF Bind, Shape, Carries
    <2>2. callSidIndex' = [callSidIndex EXCEPT ![req[h].call] = req[h].id]
      BY <1>11, <2>1, OwnerAssumption, IdsAssumption DEF Bind, BindCallSid
    <2>3. /\ req'[h].pc = "record" /\ req'[h].sess = req[h].sess
          /\ req'[h].id = req[h].id /\ req'[h].call = req[h].call
          /\ req'[h].sure = req[h].sure
          /\ \A g \in Handlers \ {h} : req'[g] = req[g]
      BY <1>0, <1>11 DEF Bind, TypeOK, Request
    <2>4. \A c \in Calls :
             callSidIndex'[c] = CallOwner[c] \/ callSidIndex'[c] = callSidIndex[c]
      BY <1>0, <2>1, <2>2 DEF TypeOK
    <2>5. Filed'
      BY <1>0, <1>11, <2>4 DEF Bind, Filed, OwnId
    <2>6. HeldSessionStable' /\ RoutedToOwner'
      BY <1>0, <1>11 DEF Bind, HeldSessionStable, RoutedToOwner
    <2>7. Carries'
      <3>1. obj' = obj /\ req[h].pc = "bind"
        BY <1>11 DEF Bind
      <3> QED
        BY <1>0, <2>3, <3>1 DEF Carries
    <2>8. \A c \in Calls : callSidIndex[c] # None => callSidIndex'[c] # None
      BY <2>4, OwnerAssumption, IdsAssumption
    <2>9. SureInv'
      BY <1>0, <1>11, <1>c, <2>3, <2>8 DEF Bind, SureInv
    <2> QED
      BY <1>0, <2>5, <2>6, <2>7, <2>9 DEF RouteInv
  <1>12. ASSUME NEW h \in Handlers, Capture(h) PROVE RouteInv'
    <2> DEFINE cb == [call |-> req[h].call, hook |-> req[h].hook,
                      n |-> req[h].n]
    <2>1. /\ req[h].sess \in Objs
          /\ req[h].call \in Calls
          /\ req[h].hook \in Hooks
          /\ req[h].n \in 1..MaxPosts
      BY <1>0, <1>12, RequestFields, BoundsAssumption
         DEF Capture, Shape, TypeOK
    <2>2. cb \in Callback /\ cb.call = req[h].call
      BY <2>1 DEF Callback
    <2>3. obj[req[h].sess].id \in {CallOwner[cb.call], Anon}
      BY <1>0, <1>12, <2>2 DEF Capture, Carries
    <2>4. Record(req[h].sess, cb)
      BY <1>12 DEF Capture
    <2>5. (\A p \in Objs : obj'[p].id = obj[p].id) /\ RoutedToOwner'
      BY <1>0, <2>1, <2>2, <2>3, <2>4, RecordKeeps
    <2>6. /\ req'[h].pc = "reply" /\ req'[h].sess = req[h].sess
          /\ req'[h].id = req[h].id /\ req'[h].call = req[h].call
          /\ req'[h].sure = req[h].sure
          /\ \A g \in Handlers \ {h} : req'[g] = req[g]
      BY <1>0, <1>12 DEF Capture, TypeOK, Request
    <2>7. Filed' /\ HeldSessionStable'
      BY <1>0, <1>12, <2>5, SMTT(30) DEF Capture, Filed, OwnId, HeldSessionStable, TypeOK
    <2>8. Carries'
      <3>1. req[h].pc = "record"
        BY <1>12 DEF Capture
      <3> QED
        BY <1>0, <1>d, <2>5, <2>6, <3>1 DEF Carries
    <2>9. SureInv'
      BY <1>0, <1>12, <2>6 DEF Capture, SureInv
    <2> QED
      BY <1>0, <2>5, <2>7, <2>8, <2>9 DEF RouteInv
  <1>13. ASSUME NEW h \in Handlers, Reply(h) PROVE RouteInv'
    <2>1. /\ req'[h].pc = "done" /\ req'[h].sess = req[h].sess
          /\ req'[h].id = req[h].id /\ req'[h].call = req[h].call
          /\ req'[h].sure = req[h].sure
          /\ \A g \in Handlers \ {h} : req'[g] = req[g]
      BY <1>0, <1>13 DEF Reply, TypeOK, Request
    <2>2. Filed' /\ HeldSessionStable' /\ RoutedToOwner'
      BY <1>0, <1>13 DEF Reply, Filed, OwnId, HeldSessionStable, RoutedToOwner
    <2>3. Carries'
      <3>1. obj' = obj /\ req[h].pc = "reply"
        BY <1>13 DEF Reply
      <3> QED
        BY <1>0, <2>1, <3>1 DEF Carries
    <2>4. SureInv'
      <3>1. /\ holds' = holds /\ callSidIndex' = callSidIndex
            /\ req[h].pc = "reply"
        BY <1>13 DEF Reply
      <3> QED
        BY <1>0, <2>1, <3>1 DEF SureInv
    <2> QED
      BY <1>0, <2>2, <2>3, <2>4 DEF RouteInv
  <1>14. ASSUME NEW h \in Handlers, Return(h) PROVE RouteInv'
    <2>1. /\ req'[h].pc = "idle" /\ ~req'[h].sure
          /\ \A g \in Handlers \ {h} : req'[g] = req[g]
      BY <1>0, <1>14 DEF Return, TypeOK, Idle
    <2>2. Filed' /\ HeldSessionStable' /\ RoutedToOwner'
      BY <1>0, <1>14 DEF Return, Filed, OwnId, HeldSessionStable, RoutedToOwner
    <2>3. Carries' /\ SureInv'
      BY <1>0, <1>14, <2>1 DEF Return, Carries, SureInv
    <2> QED
      BY <1>0, <2>2, <2>3 DEF RouteInv
  <1>15. CASE UNCHANGED webhookVars
    BY <1>0, <1>15 DEF RouteInv, webhookVars, Filed, OwnId, Carries,
                       HeldSessionStable, SureInv, RoutedToOwner
  <1> QED
    BY <1>1, <1>2, <1>3, <1>4, <1>5, <1>6, <1>7, <1>9, <1>10, <1>11, <1>12,
       <1>13, <1>14, <1>15 DEF Next, TestStep, HandlerStep

\* The routing invariant holds initially.
LEMMA InitRoute == Init => RouteInv
  <1> SUFFICES ASSUME Init PROVE RouteInv
    OBVIOUS
  <1>1. TypeOK
    BY InitType
  <1>2. Shape /\ Carries /\ SureInv
    BY DEF Init, Idle, Shape, Carries, SureInv
  <1>3. Filed /\ HeldSessionStable
    BY DEF Init, Filed, OwnId, HeldSessionStable
  <1>4. RoutedToOwner
    BY DEF Init, Blank, RoutedToOwner
  <1> QED
    BY <1>1, <1>2, <1>3, <1>4 DEF RouteInv

\* The webhook server keeps its types; in particular no queue of callbacks
\* outgrows the capacity of Session.pending.
THEOREM WebhookTypeCorrect == Spec => []TypeOK
  <1>1. RouteInv => TypeOK
    BY DEF RouteInv
  <1> QED
    BY <1>1, InitRoute, StepRoute, PTL DEF Spec

\* Correlation is safe for any number of parallel tests and handlers: the
\* registry never replaces a session that a test holds, and a request that can
\* be correlated reaches the session of its test.
THEOREM RoutingSafe == Spec => [](HeldSessionStable /\ SureRouting)
  <1>1. RouteInv => HeldSessionStable /\ SureRouting
    BY DEF RouteInv, SureInv, SureRouting, Routed
  <1> QED
    BY <1>1, InitRoute, StepRoute, PTL DEF Spec

\* Parallel runs are safe: no callback reaches the session of a test that did
\* not place its call, for any number of tests, handlers and requests.
THEOREM ParallelSafe == Spec => []RoutedToOwner
  <1>1. RouteInv => RoutedToOwner
    BY DEF RouteInv
  <1> QED
    BY <1>1, InitRoute, StepRoute, PTL DEF Spec


-----------------------------------------------------------------------------
(* Answers.                                                                *)

(* A step that leaves the callbacks of a session alone.                    *)
Quiet(o) ==
    /\ obj'[o].pending = obj[o].pending /\ obj'[o].errs = obj[o].errs
    /\ obj'[o].seen = obj[o].seen /\ obj'[o].got = obj[o].got

\* New leaves scripts and callbacks alone.
LEMMA NewQuiet ==
  ASSUME TypeOK, NEW i \in Ids, New(i)
  PROVE  \A o \in Objs : Quiet(o) /\ obj'[o].scripted = obj[o].scripted
  <1>1. CASE sessions[i] # None
    BY <1>1 DEF New, Quiet
  <1>2. CASE sessions[i] = None
    <2>1. PICK o \in Objs : obj' = [obj EXCEPT ![o].id = i]
      BY <1>2 DEF New
    <2>2. SUFFICES ASSUME NEW p \in Objs
                   PROVE  Quiet(p) /\ obj'[p].scripted = obj[p].scripted
      OBVIOUS
    <2>3. CASE p = o
      <3>1. obj'[p] = [obj[p] EXCEPT !.id = i] /\ obj[p] \in Session
        BY <2>1, <2>3 DEF TypeOK
      <3> QED
        BY <3>1 DEF Session, Quiet
    <2>4. CASE p # o
      BY <2>1, <2>4 DEF TypeOK, Quiet
    <2> QED
      BY <2>3, <2>4
  <1> QED
    BY <1>1, <1>2

\* Script adds a script and leaves the others, and all callbacks, alone.
LEMMA ScriptQuiet ==
  ASSUME TypeOK, NEW t \in Tests, Script(t)
  PROVE  \A o \in Objs : /\ Quiet(o)
                         /\ obj[o].scripted \subseteq obj'[o].scripted
  <1>1. PICK k : holds[t] \in Objs /\ obj' = [obj EXCEPT ![holds[t]].scripted = @ \cup {k}]
    BY DEF Script, TypeOK
  <1>2. SUFFICES ASSUME NEW p \in Objs
                 PROVE  /\ Quiet(p)
                        /\ obj[p].scripted \subseteq obj'[p].scripted
    OBVIOUS
  <1>3. obj[p] \in Session
    BY DEF TypeOK
  <1>4. CASE p = holds[t]
    <2>1. obj'[p] = [obj[p] EXCEPT !.scripted = obj[p].scripted \cup {k}]
      BY <1>1, <1>4 DEF TypeOK
    <2>2. Quiet(p) /\ obj'[p].scripted = obj[p].scripted \cup {k}
      BY <1>3, <2>1 DEF Session, Quiet
    <2> QED
      BY <1>4, <2>2
  <1>5. CASE p # holds[t]
    BY <1>1, <1>3, <1>5 DEF TypeOK, Quiet
  <1> QED
    BY <1>4, <1>5

\* WaitCallback moves the oldest callback of the session its test holds from
\* the queue to what the test has got.
LEMMA WaitTakes ==
  ASSUME TypeOK, NEW t \in Tests, WaitCallback(t)
  PROVE  LET o == holds[t] IN
         /\ o \in Objs
         /\ obj[o].pending \in Seq(Callback) /\ obj[o].pending # <<>>
         /\ obj'[o].pending = Tail(obj[o].pending)
         /\ obj'[o].got = obj[o].got \cup {Head(obj[o].pending).n}
         /\ obj'[o].seen = obj[o].seen /\ obj'[o].errs = obj[o].errs
         /\ \A p \in Objs : obj'[p].scripted = obj[p].scripted
         /\ \A p \in Objs \ {o} : Quiet(p)
  <1> DEFINE o == holds[t]
  <1>1. /\ o \in Objs /\ obj[o] \in Session
        /\ obj[o].pending \in Seq(Callback) /\ obj[o].pending # <<>>
    BY SessionFields DEF WaitCallback, TypeOK
  <1>2. obj' = [obj EXCEPT ![o] = [obj[o] EXCEPT
                  !.pending = Tail(obj[o].pending),
                  !.got = obj[o].got \cup {Head(obj[o].pending).n}]]
    BY <1>1 DEF WaitCallback, TypeOK
  <1>3. obj'[o] = [obj[o] EXCEPT
                     !.pending = Tail(obj[o].pending),
                     !.got = obj[o].got \cup {Head(obj[o].pending).n}]
    BY <1>1, <1>2 DEF TypeOK
  <1>4. \A p \in Objs \ {o} : obj'[p] = obj[p]
    BY <1>2 DEF TypeOK
  <1>5. /\ obj'[o].pending = Tail(obj[o].pending)
        /\ obj'[o].got = obj[o].got \cup {Head(obj[o].pending).n}
        /\ obj'[o].seen = obj[o].seen /\ obj'[o].errs = obj[o].errs
        /\ obj'[o].scripted = obj[o].scripted
    BY <1>1, <1>3 DEF Session
  <1> QED
    BY <1>1, <1>4, <1>5 DEF Quiet

\* record notes the callback as seen, and queues it or counts an error.
LEMMA RecordFiles ==
  ASSUME TypeOK, NEW o \in Objs, NEW cb \in Callback, Record(o, cb)
  PROVE  /\ obj'[o].seen = obj[o].seen \cup {cb.n}
         /\ obj'[o].got = obj[o].got
         /\ obj[o].pending \in Seq(Callback)
         /\ \/ /\ obj'[o].pending = Append(obj[o].pending, cb)
               /\ obj'[o].errs = obj[o].errs
            \/ /\ obj'[o].pending = obj[o].pending
               /\ obj'[o].errs = obj[o].errs + 1
         /\ \A p \in Objs : obj'[p].scripted = obj[p].scripted
         /\ \A p \in Objs \ {o} : Quiet(p)
  <1>1. obj[o] \in Session /\ obj[o].pending \in Seq(Callback)
    BY SessionFields DEF TypeOK
  <1>2. CASE Room(o)
    <2>1. obj' = [obj EXCEPT ![o] = [obj[o] EXCEPT
                                       !.pending = Append(obj[o].pending, cb),
                                       !.seen = obj[o].seen \cup {cb.n}]]
      BY <1>1, <1>2 DEF Record, TypeOK
    <2>2. obj'[o] = [obj[o] EXCEPT !.pending = Append(obj[o].pending, cb),
                                   !.seen = obj[o].seen \cup {cb.n}]
      BY <2>1 DEF TypeOK
    <2>3. \A p \in Objs \ {o} : obj'[p] = obj[p]
      BY <2>1 DEF TypeOK
    <2>4. /\ obj'[o].pending = Append(obj[o].pending, cb)
          /\ obj'[o].seen = obj[o].seen \cup {cb.n}
          /\ obj'[o].got = obj[o].got /\ obj'[o].errs = obj[o].errs
          /\ obj'[o].scripted = obj[o].scripted
      BY <1>1, <2>2 DEF Session
    <2> QED
      BY <1>1, <2>3, <2>4 DEF Quiet
  <1>3. CASE ~Room(o)
    <2>1. obj' = [obj EXCEPT ![o] = [obj[o] EXCEPT
                                       !.errs = obj[o].errs + 1,
                                       !.seen = obj[o].seen \cup {cb.n}]]
      BY <1>1, <1>3 DEF Record, Dropped, TypeOK
    <2>2. obj'[o] = [obj[o] EXCEPT !.errs = obj[o].errs + 1,
                                   !.seen = obj[o].seen \cup {cb.n}]
      BY <2>1 DEF TypeOK
    <2>3. \A p \in Objs \ {o} : obj'[p] = obj[p]
      BY <2>1 DEF TypeOK
    <2>4. /\ obj'[o].errs = obj[o].errs + 1
          /\ obj'[o].seen = obj[o].seen \cup {cb.n}
          /\ obj'[o].got = obj[o].got /\ obj'[o].pending = obj[o].pending
          /\ obj'[o].scripted = obj[o].scripted
      BY <1>1, <2>2 DEF Session
    <2> QED
      BY <1>1, <2>3, <2>4 DEF Quiet
  <1> QED
    BY <1>2, <1>3

\* No step takes a script from a session.
LEMMA ScriptsStay ==
  ASSUME RouteInv, [Next]_webhookVars, NEW o \in Objs
  PROVE  obj[o].scripted \subseteq obj'[o].scripted
  <1>0. TypeOK /\ Shape
    BY DEF RouteInv
  <1> USE DEF regVars, testVars
  <1>1. ASSUME NEW i \in Ids, New(i) PROVE obj[o].scripted \subseteq obj'[o].scripted
    BY <1>0, <1>1, NewQuiet
  <1>2. ASSUME NEW t \in Tests, Claim(t) PROVE obj[o].scripted \subseteq obj'[o].scripted
    BY <1>1, <1>2 DEF Claim, Ids
  <1>3. ASSUME NEW t \in Tests, Script(t) PROVE obj[o].scripted \subseteq obj'[o].scripted
    BY <1>0, <1>3, ScriptQuiet
  <1>4. ASSUME NEW t \in Tests, WaitCallback(t) PROVE obj[o].scripted \subseteq obj'[o].scripted
    BY <1>0, <1>4, WaitTakes
  <1>5. ASSUME NEW h \in Handlers, Create(h) PROVE obj[o].scripted \subseteq obj'[o].scripted
    <2>1. req[h].id \in Ids
      BY <1>0, <1>5, RequestFields DEF Create, Shape, TypeOK, Ids
    <2> QED
      BY <1>1, <1>5, <2>1 DEF Create
  <1>6. ASSUME NEW h \in Handlers, CreateAnon(h) PROVE obj[o].scripted \subseteq obj'[o].scripted
    BY <1>1, <1>6 DEF CreateAnon, Ids
  <1>7. ASSUME NEW h \in Handlers, Capture(h) PROVE obj[o].scripted \subseteq obj'[o].scripted
    <2> DEFINE cb == [call |-> req[h].call, hook |-> req[h].hook,
                      n |-> req[h].n]
    <2>1. /\ req[h].sess \in Objs
          /\ req[h].call \in Calls
          /\ req[h].hook \in Hooks
          /\ req[h].n \in 1..MaxPosts
      BY <1>0, <1>7, RequestFields, BoundsAssumption DEF Capture, Shape, TypeOK
    <2>2. cb \in Callback
      BY <2>1 DEF Callback
    <2>3. Record(req[h].sess, cb)
      BY <1>7 DEF Capture
    <2> HIDE DEF cb
    <2> QED
      BY <1>0, <2>1, <2>2, <2>3, RecordFiles
  <1>8. CASE obj' = obj
    BY <1>8
  <1> QED
    BY <1>2, <1>3, <1>4, <1>5, <1>6, <1>7, <1>8
       DEF Next, TestStep, HandlerStep, PlaceCall, Release, Arrival, Post, Route,
           Bind, Reply, Return, webhookVars

(* A request that reaches a scripted session finds its script to the end,  *)
(* and takes its answer from it.                                           *)
ScriptInv ==
    \A h \in Handlers :
        req[h].sure /\ req[h].scripted =>
            /\ req[h].hook \in obj[holds[CallOwner[req[h].call]]].scripted
            /\ req[h].pc = "done" => req[h].answer = req[h].hook

\* Every step keeps what was promised to the requests of a scripted session.
LEMMA StepScript == RouteInv /\ ScriptInv /\ [Next]_webhookVars => ScriptInv'
  <1> SUFFICES ASSUME RouteInv, ScriptInv, [Next]_webhookVars,
                      NEW h \in Handlers, req'[h].sure, req'[h].scripted
               PROVE  /\ req'[h].hook \in obj'[holds'[CallOwner[req'[h].call]]].scripted
                      /\ req'[h].pc = "done" => req'[h].answer = req'[h].hook
    BY DEF ScriptInv
  <1> USE DEF regVars, testVars
  <1>0. TypeOK /\ Shape /\ SureInv /\ req[h] \in Request
    BY DEF RouteInv, TypeOK
  <1>1. ASSUME req[h].sure, req[h].scripted, req'[h].call = req[h].call,
               req'[h].hook = req[h].hook,
               holds'[CallOwner[req[h].call]] = holds[CallOwner[req[h].call]]
        PROVE  req'[h].hook \in obj'[holds'[CallOwner[req'[h].call]]].scripted
    <2>1. /\ req[h].call \in Calls
          /\ holds[CallOwner[req[h].call]] # None
      BY <1>0, <1>1, RequestFields DEF SureInv, Shape
    <2>2. holds[CallOwner[req[h].call]] \in Objs
      BY <1>0, <2>1, OwnerAssumption DEF TypeOK
    <2> QED
      BY <1>1, <2>2, ScriptsStay DEF ScriptInv
  <1>2. CASE TestStep \/ UNCHANGED webhookVars
    <2>1. req' = req
      BY <1>2 DEF TestStep, Claim, Script, WaitCallback, PlaceCall, webhookVars
    <2>2. /\ req[h].call \in Calls
          /\ holds[CallOwner[req[h].call]] # None
      BY <1>0, <2>1, RequestFields DEF SureInv, Shape
    <2>3. holds'[CallOwner[req[h].call]] = holds[CallOwner[req[h].call]]
      BY <1>0, <1>2, <2>2, OwnerAssumption, ZenonT(60)
         DEF TestStep, Claim, Script, WaitCallback, PlaceCall, webhookVars, TypeOK
    <2> QED
      BY <1>1, <2>1, <2>3 DEF ScriptInv
  <1>3. ASSUME NEW t \in Tests, Release(t)
        PROVE  /\ req'[h].hook \in obj'[holds'[CallOwner[req'[h].call]]].scripted
               /\ req'[h].pc = "done" => req'[h].answer = req'[h].hook
    <2>1. ~(req[h].call # None /\ CallOwner[req[h].call] = t)
      <3> SUFFICES ASSUME req[h].call # None, CallOwner[req[h].call] = t
                   PROVE  FALSE
        OBVIOUS
      <3>1. req'[h] = [req[h] EXCEPT !.sure = FALSE]
        BY <1>3 DEF Release
      <3> QED
        BY <1>0, <3>1 DEF Request
    <2>2. req'[h] = req[h]
      BY <1>3, <2>1 DEF Release
    <2>3. req[h].call \in Calls
      BY <1>0, <2>2, RequestFields DEF SureInv, Shape
    <2>4. holds'[CallOwner[req[h].call]] = holds[CallOwner[req[h].call]]
      BY <1>0, <1>3, <2>1, <2>3, OwnerAssumption, IdsAssumption
         DEF Release, TypeOK
    <2> QED
      BY <1>1, <2>2, <2>4 DEF ScriptInv
  <1>4. ASSUME Arrival
        PROVE  /\ req'[h].hook \in obj'[holds'[CallOwner[req'[h].call]]].scripted
               /\ req'[h].pc = "done" => req'[h].answer = req'[h].hook
    <2>1. PICK g \in Handlers, c \in Calls, k \in Routes,
               i \in Tests \cup {None} : Post(g, c, i, k)
      BY <1>4, OwnerAssumption DEF Arrival
    <2>2. CASE g = h
      <3>1. /\ req'[h].pc = "route" /\ req'[h].call = c /\ req'[h].hook = k
            /\ req'[h].scripted = /\ Correlated(c, i)
                                  /\ k \in obj[holds[CallOwner[c]]].scripted
        BY <1>0, <2>1, <2>2 DEF Post, TypeOK, Idle
      <3>2. obj' = obj /\ holds' = holds
        BY <2>1 DEF Post
      <3> QED
        BY <3>1, <3>2
    <2>3. CASE g # h
      <3>1. req'[h] = req[h] /\ holds' = holds
        BY <1>0, <2>1, <2>3 DEF Post, TypeOK
      <3> QED
        BY <1>1, <3>1 DEF ScriptInv
    <2> QED
      BY <2>2, <2>3
  <1>5. ASSUME NEW g \in Handlers, HandlerStep(g)
        PROVE  /\ req'[h].hook \in obj'[holds'[CallOwner[req'[h].call]]].scripted
               /\ req'[h].pc = "done" => req'[h].answer = req'[h].hook
    <2>1. holds' = holds
      BY <1>5 DEF HandlerStep, Route, Create, Bind, CreateAnon, Capture, Reply,
                  Return
    <2>2. CASE g # h
      <3>1. req'[h] = req[h]
        BY <1>0, <1>5, <2>2
           DEF HandlerStep, Route, Create, Bind, CreateAnon, Capture, Reply,
               Return, TypeOK
      <3> QED
        BY <1>1, <2>1, <3>1 DEF ScriptInv
    <2>3. CASE g = h /\ Reply(h)
      <3>1. /\ req'[h].sure = req[h].sure /\ req'[h].scripted = req[h].scripted
            /\ req'[h].call = req[h].call /\ req'[h].hook = req[h].hook
            /\ req'[h].answer = Outcome(req[h].sess, req[h].hook)
        BY <1>0, <2>3 DEF Reply, TypeOK, Request
      <3>2. req[h].sess = holds[CallOwner[req[h].call]]
        BY <1>0, <2>3, <3>1 DEF Reply, SureInv, Routed
      <3>3. req[h].hook \in obj[req[h].sess].scripted
        BY <3>1, <3>2 DEF ScriptInv
      <3>4. Outcome(req[h].sess, req[h].hook) = req[h].hook
        BY <3>3 DEF Outcome
      <3> QED
        BY <1>1, <2>1, <3>1, <3>4
    <2>4. CASE g = h /\ Return(h)
      <3>1. ~req'[h].sure
        BY <1>0, <2>4 DEF Return, TypeOK, Idle
      <3> QED
        BY <3>1
    <2>5. CASE g = h /\ (\/ Route(h) \/ Create(h) \/ Bind(h) \/ CreateAnon(h)
                         \/ Capture(h))
      <3>1. /\ req'[h].sure = req[h].sure /\ req'[h].scripted = req[h].scripted
            /\ req'[h].call = req[h].call /\ req'[h].hook = req[h].hook /\ req'[h].pc # "done"
        <4>1. CASE Route(h)
          BY <1>0, <4>1 DEF Route, TypeOK, Request
        <4>2. CASE Create(h)
          BY <1>0, <4>2 DEF Create, TypeOK, Request
        <4>3. CASE CreateAnon(h)
          BY <1>0, <4>3 DEF CreateAnon, TypeOK, Request
        <4>4. CASE Bind(h)
          BY <1>0, <4>4 DEF Bind, TypeOK, Request
        <4>5. CASE Capture(h)
          BY <1>0, <4>5 DEF Capture, TypeOK, Request
        <4> QED
          BY <2>5, <4>1, <4>2, <4>3, <4>4, <4>5
      <3> QED
        BY <1>1, <2>1, <3>1
    <2> QED
      BY <1>5, <2>2, <2>3, <2>4, <2>5 DEF HandlerStep
  <1> QED
    BY <1>2, <1>3, <1>4, <1>5 DEF Next

\* A request that names its test or belongs to a bound call is answered with the
\* script its test had set for that hook when it arrived, however claims, releases and other
\* requests interleave with its handler.
THEOREM AnsweredByScript == Spec => []ScriptAnswered
  <1>1. Init => RouteInv /\ ScriptInv
    BY InitRoute DEF Init, Idle, ScriptInv
  <1>2. RouteInv /\ ScriptInv /\ [Next]_webhookVars => RouteInv' /\ ScriptInv'
    BY StepRoute, StepScript
  <1>3. ScriptInv => ScriptAnswered
    BY DEF ScriptInv, ScriptAnswered
  <1> QED
    BY <1>1, <1>2, <1>3, PTL DEF Spec

-----------------------------------------------------------------------------
(* Loss.                                                                   *)

(* The numbers of the callbacks in the queue of a session.                 *)
Queued(o) == {obj[o].pending[j].n : j \in 1..Len(obj[o].pending)}

(* Before its session has recorded it.                                     *)
Underway == {"route", "create", "bind", "anon", "record"}

(* A request has a number of its own, and no session has seen it before    *)
(* its handler records it.                                                 *)
Numbered ==
    /\ \A o \in Objs : obj[o].seen \subseteq 1..posts
    /\ \A h \in Handlers : req[h].n <= posts
    /\ \A h, g \in Handlers :
          h # g /\ req[h].pc # "idle" /\ req[g].pc # "idle" => req[h].n # req[g].n
    /\ \A h \in Handlers, o \in Objs :
          req[h].pc \in Underway => req[h].n \notin obj[o].seen

(* What waits in a queue or was received has been seen.                    *)
Recorded == \A o \in Objs : Queued(o) \cup obj[o].got \subseteq obj[o].seen

LossInv == Numbered /\ Recorded /\ LossIsFlagged

\* LossIsFlagged in terms of the queue.
LEMMA LossByQueue ==
  LossIsFlagged <=>
    \A o \in Objs :
      Cardinality(obj[o].seen \ (Queued(o) \cup obj[o].got)) = obj[o].errs
  BY DEF LossIsFlagged, Queued

\* A step that leaves the callbacks of a session alone loses none of them.
LEMMA QuietLoss ==
  ASSUME Recorded, LossIsFlagged, NEW o \in Objs, Quiet(o)
  PROVE  /\ Queued(o)' \cup obj'[o].got \subseteq obj'[o].seen
         /\ Cardinality(obj'[o].seen \ (Queued(o)' \cup obj'[o].got)) = obj'[o].errs
  <1>1. Queued(o)' = Queued(o)
    BY DEF Queued, Quiet
  <1>2. Cardinality(obj[o].seen \ (Queued(o) \cup obj[o].got)) = obj[o].errs
    BY LossByQueue
  <1> QED
    BY <1>1, <1>2 DEF Quiet, Recorded

\* Receiving a callback moves its number from the queue to what the test got.
LEMMA TakenLoss ==
  ASSUME TypeOK, Recorded, LossIsFlagged, NEW t \in Tests, WaitCallback(t),
         NEW o \in Objs
  PROVE  /\ Queued(o)' \cup obj'[o].got \subseteq obj'[o].seen
         /\ Cardinality(obj'[o].seen \ (Queued(o)' \cup obj'[o].got)) = obj'[o].errs
  <1>0. CASE o # holds[t]
    BY <1>0, WaitTakes, QuietLoss
  <1>1. CASE o = holds[t]
    <2>1. /\ obj[o].pending \in Seq(Callback) /\ obj[o].pending # <<>>
          /\ obj'[o].pending = Tail(obj[o].pending)
          /\ obj'[o].got = obj[o].got \cup {Head(obj[o].pending).n}
          /\ obj'[o].seen = obj[o].seen /\ obj'[o].errs = obj[o].errs
      BY <1>1, WaitTakes
    <2>2. /\ Len(obj'[o].pending) = Len(obj[o].pending) - 1
          /\ \A j \in 1..Len(obj'[o].pending) :
                obj'[o].pending[j] = obj[o].pending[j + 1]
          /\ Head(obj[o].pending) = obj[o].pending[1]
          /\ Len(obj[o].pending) \in Nat \ {0}
      BY <2>1
    <2>3. Queued(o) = Queued(o)' \cup {obj[o].pending[1].n}
      <3>1. ASSUME NEW x \in Queued(o), x # obj[o].pending[1].n
            PROVE  x \in Queued(o)'
        <4>1. PICK j \in 1..Len(obj[o].pending) : x = obj[o].pending[j].n
          BY <3>1 DEF Queued
        <4>2. j - 1 \in 1..Len(obj'[o].pending) /\ (j - 1) + 1 = j
          BY <2>2, <3>1, <4>1
        <4>3. x = obj'[o].pending[j - 1].n
          BY <2>2, <4>1, <4>2
        <4> QED
          BY <4>2, <4>3 DEF Queued
      <3>2. ASSUME NEW x \in Queued(o)' PROVE x \in Queued(o)
        <4>1. PICK j \in 1..Len(obj'[o].pending) : x = obj'[o].pending[j].n
          BY <3>2 DEF Queued
        <4>2. j + 1 \in 1..Len(obj[o].pending) /\ x = obj[o].pending[j + 1].n
          BY <2>2, <4>1
        <4> QED
          BY <4>2 DEF Queued
      <3>3. obj[o].pending[1].n \in Queued(o)
        BY <2>2 DEF Queued
      <3> QED
        BY <3>1, <3>2, <3>3
    <2>4. Queued(o)' \cup obj'[o].got = Queued(o) \cup obj[o].got
      BY <2>1, <2>2, <2>3
    <2>5. Cardinality(obj[o].seen \ (Queued(o) \cup obj[o].got)) = obj[o].errs
      BY LossByQueue
    <2> QED
      BY <2>1, <2>4, <2>5 DEF Recorded
  <1> QED
    BY <1>0, <1>1

\* A new callback that record queues is not lost, and one that it drops is one
\* more error.
LEMMA RecordLoss ==
  ASSUME TypeOK, Recorded, LossIsFlagged, NEW s \in Objs, NEW cb \in Callback,
         Record(s, cb), cb.n \notin obj[s].seen, NEW o \in Objs
  PROVE  /\ Queued(o)' \cup obj'[o].got \subseteq obj'[o].seen
         /\ Cardinality(obj'[o].seen \ (Queued(o)' \cup obj'[o].got)) = obj'[o].errs
  <1>0. CASE o # s
    BY <1>0, RecordFiles, QuietLoss
  <1>1. CASE o = s
    <2> DEFINE lost == obj[o].seen \ (Queued(o) \cup obj[o].got)
    <2>1. /\ obj'[o].seen = obj[o].seen \cup {cb.n}
          /\ obj'[o].got = obj[o].got
          /\ obj[o].pending \in Seq(Callback)
      BY <1>1, RecordFiles
    <2>2. Queued(o) \cup obj[o].got \subseteq obj[o].seen
      BY DEF Recorded
    <2>3. Cardinality(lost) = obj[o].errs
      BY LossByQueue
    <2>4. CASE /\ obj'[o].pending = Append(obj[o].pending, cb)
               /\ obj'[o].errs = obj[o].errs
      <3>1. /\ Len(obj'[o].pending) = Len(obj[o].pending) + 1
            /\ Len(obj[o].pending) \in Nat
            /\ \A j \in 1..Len(obj[o].pending) :
                  obj'[o].pending[j] = obj[o].pending[j]
            /\ obj'[o].pending[Len(obj[o].pending) + 1] = cb
        BY <2>1, <2>4
      <3>2. Queued(o)' = Queued(o) \cup {cb.n}
        <4>1. ASSUME NEW x \in Queued(o)' PROVE x \in Queued(o) \cup {cb.n}
          <5>1. PICK j \in 1..Len(obj'[o].pending) : x = obj'[o].pending[j].n
            BY <4>1 DEF Queued
          <5>2. CASE j = Len(obj[o].pending) + 1
            BY <3>1, <5>1, <5>2
          <5>3. CASE j # Len(obj[o].pending) + 1
            <6>1. j \in 1..Len(obj[o].pending)
              BY <3>1, <5>1, <5>3
            <6> QED
              BY <3>1, <5>1, <6>1 DEF Queued
          <5> QED
            BY <5>2, <5>3
        <4>2. ASSUME NEW x \in Queued(o) PROVE x \in Queued(o)'
          <5>1. PICK j \in 1..Len(obj[o].pending) : x = obj[o].pending[j].n
            BY <4>2 DEF Queued
          <5>2. j \in 1..Len(obj'[o].pending) /\ x = obj'[o].pending[j].n
            BY <3>1, <5>1
          <5> QED
            BY <5>2 DEF Queued
        <4>3. cb.n \in Queued(o)'
          <5>1. Len(obj[o].pending) + 1 \in 1..Len(obj'[o].pending)
            BY <3>1
          <5> QED
            BY <3>1, <5>1 DEF Queued
        <4> QED
          BY <4>1, <4>2, <4>3
      <3>3. obj'[o].seen \ (Queued(o)' \cup obj'[o].got) = lost
        BY <1>1, <2>1, <3>2
      <3> QED
        BY <2>1, <2>2, <2>3, <2>4, <3>2, <3>3
    <2>5. CASE /\ obj'[o].pending = obj[o].pending
               /\ obj'[o].errs = obj[o].errs + 1
      <3>1. Queued(o)' = Queued(o)
        BY <2>5 DEF Queued
      <3>2. /\ obj'[o].seen \ (Queued(o)' \cup obj'[o].got) = lost \cup {cb.n}
            /\ cb.n \notin lost
        BY <1>1, <2>1, <2>2, <3>1
      <3>3. IsFiniteSet(lost)
        <4>1. obj[o].seen \subseteq 1..MaxPosts
          BY SessionFields DEF TypeOK
        <4>2. IsFiniteSet(1..MaxPosts)
          <5>1. 1 \in Int /\ MaxPosts \in Int
            BY BoundsAssumption
          <5> QED
            BY <5>1, FS_Interval, Zenon
        <4> QED
          BY <4>1, <4>2, FS_Subset
      <3>4. Cardinality(lost \cup {cb.n}) = obj[o].errs + 1
        BY <2>3, <3>2, <3>3, FS_AddElement
      <3> QED
        BY <2>1, <2>2, <2>5, <3>1, <3>2, <3>4
    <2> QED
      BY <1>1, <2>4, <2>5, RecordFiles
  <1> QED
    BY <1>0, <1>1

(* A step after which handler h serves the request it served before, no    *)
(* less far along, or none.                                                *)
SameRequest(h) ==
    /\ req'[h].n <= posts
    /\ req'[h].pc # "idle" => req[h].pc # "idle" /\ req'[h].n = req[h].n
    /\ req'[h].pc \in Underway => req[h].pc \in Underway

\* The numbering survives a step that records nothing.
LEMMA NumberedKept ==
  ASSUME Numbered, posts' = posts, \A o \in Objs : obj'[o].seen = obj[o].seen,
         \A h \in Handlers : SameRequest(h)
  PROVE  Numbered'
  BY DEF Numbered, SameRequest, Underway

\* Every step keeps the account of the callbacks.
LEMMA StepLoss == RouteInv /\ LossInv /\ [Next]_webhookVars => LossInv'
  <1> SUFFICES ASSUME RouteInv, LossInv, [Next]_webhookVars PROVE LossInv'
    OBVIOUS
  <1> USE DEF regVars, testVars
  <1>0. /\ TypeOK /\ Shape /\ Numbered /\ Recorded /\ LossIsFlagged
        /\ \A h \in Handlers : req[h] \in Request /\ req[h].n <= posts
    BY DEF RouteInv, LossInv, TypeOK, Numbered
  <1>a. ASSUME \A o \in Objs :
                  /\ Queued(o)' \cup obj'[o].got \subseteq obj'[o].seen
                  /\ Cardinality(obj'[o].seen \ (Queued(o)' \cup obj'[o].got))
                        = obj'[o].errs,
               Numbered'
        PROVE  LossInv'
    <2>1. Recorded'
      BY <1>a DEF Recorded
    <2>2. LossIsFlagged'
      BY <1>a DEF LossIsFlagged, Queued
    <2> QED
      BY <1>a, <2>1, <2>2 DEF LossInv
  <1>b. ASSUME \A o \in Objs : Quiet(o), posts' = posts,
               \A h \in Handlers : SameRequest(h)
        PROVE  LossInv'
    <2>1. Numbered'
      BY <1>0, <1>b, NumberedKept DEF Quiet
    <2> QED
      BY <1>0, <1>a, <1>b, <2>1, QuietLoss
  <1>c. ASSUME obj' = obj PROVE \A o \in Objs : Quiet(o)
    BY <1>c DEF Quiet
  <1>d. ASSUME req' = req PROVE \A h \in Handlers : SameRequest(h)
    BY <1>0, <1>d DEF SameRequest
  <1>1. ASSUME NEW t \in Tests, Claim(t) PROVE LossInv'
    <2>1. \A o \in Objs : Quiet(o)
      BY <1>0, <1>1, NewQuiet DEF Claim, Ids
    <2> QED
      BY <1>1, <1>b, <1>d, <2>1 DEF Claim
  <1>2. ASSUME NEW t \in Tests, Script(t) PROVE LossInv'
    <2>1. \A o \in Objs : Quiet(o)
      BY <1>0, <1>2, ScriptQuiet
    <2> QED
      BY <1>2, <1>b, <1>d, <2>1 DEF Script
  <1>3. ASSUME NEW t \in Tests, WaitCallback(t) PROVE LossInv'
    <2>1. \A o \in Objs : obj'[o].seen = obj[o].seen
      BY <1>0, <1>3, WaitTakes DEF Quiet
    <2>2. posts' = posts /\ req' = req
      BY <1>3 DEF WaitCallback
    <2>3. Numbered'
      BY <1>0, <1>d, <2>1, <2>2, NumberedKept
    <2> QED
      BY <1>0, <1>3, <1>a, <2>3, TakenLoss
  <1>4. ASSUME NEW c \in Calls, PlaceCall(c) PROVE LossInv'
    BY <1>4, <1>b, <1>c, <1>d DEF PlaceCall
  <1>5. ASSUME NEW t \in Tests, Release(t) PROVE LossInv'
    <2>1. ASSUME NEW h \in Handlers PROVE SameRequest(h)
      <3>1. \/ req'[h] = [req[h] EXCEPT !.sure = FALSE]
            \/ req'[h] = req[h]
        BY <1>5 DEF Release
      <3>2. req'[h].pc = req[h].pc /\ req'[h].n = req[h].n
        BY <1>0, <3>1 DEF Request
      <3> QED
        BY <1>0, <3>2 DEF SameRequest
    <2> QED
      BY <1>5, <1>b, <1>c, <2>1 DEF Release
  <1>6. ASSUME Arrival PROVE LossInv'
    <2>1. PICK h \in Handlers, c \in Calls, k \in Routes,
               i \in Tests \cup {None} : Post(h, c, i, k)
      BY <1>6, OwnerAssumption DEF Arrival
    <2>2. /\ req'[h].pc = "route" /\ req'[h].n = posts + 1
          /\ \A g \in Handlers \ {h} : req'[g] = req[g]
          /\ posts' = posts + 1 /\ posts \in Nat /\ obj' = obj
      BY <1>0, <2>1, BoundsAssumption DEF Post, TypeOK, Idle
    <2>3. \A g \in Handlers : req[g].n \in Nat /\ req[g].n <= posts
      BY <1>0, RequestFields, BoundsAssumption
    <2>4. \A o \in Objs : obj[o].seen \subseteq 1..posts
      BY <1>0 DEF Numbered
    <2>5. Numbered'
      <3>1. \A o \in Objs : obj'[o].seen \subseteq 1..posts'
        BY <2>2, <2>4
      <3>2. \A g \in Handlers : req'[g].n <= posts'
        BY <2>2, <2>3
      <3>3. \A g, f \in Handlers :
              g # f /\ req'[g].pc # "idle" /\ req'[f].pc # "idle"
                => req'[g].n # req'[f].n
        BY <1>0, <2>2, <2>3 DEF Numbered
      <3>4. \A g \in Handlers, o \in Objs :
              req'[g].pc \in Underway => req'[g].n \notin obj'[o].seen
        <4>1. \A o \in Objs : posts + 1 \notin obj[o].seen
          BY <2>2, <2>4
        <4> QED
          BY <1>0, <2>2, <4>1 DEF Numbered
      <3> QED
        BY <3>1, <3>2, <3>3, <3>4 DEF Numbered
    <2> QED
      BY <1>0, <1>a, <1>c, <2>2, <2>5, QuietLoss
  <1>7. ASSUME NEW h \in Handlers, Capture(h) PROVE LossInv'
    <2> DEFINE cb == [call |-> req[h].call, hook |-> req[h].hook,
                      n |-> req[h].n]
    <2>1. /\ req[h].sess \in Objs
          /\ req[h].call \in Calls
          /\ req[h].hook \in Hooks
          /\ req[h].n \in 1..MaxPosts
          /\ req[h].pc = "record"
      BY <1>0, <1>7, RequestFields, BoundsAssumption DEF Capture, Shape, TypeOK
    <2>2. cb \in Callback /\ cb.n = req[h].n
      BY <2>1 DEF Callback
    <2>3. Record(req[h].sess, cb)
      BY <1>7 DEF Capture
    <2>4. \A o \in Objs : cb.n \notin obj[o].seen
      BY <1>0, <2>1, <2>2 DEF Numbered, Underway
    <2> HIDE DEF cb
    <2>5. \A o \in Objs : obj'[o].seen \subseteq obj[o].seen \cup {req[h].n}
      BY <1>0, <2>1, <2>2, <2>3, RecordFiles DEF Quiet
    <2>6. /\ req'[h].pc = "reply" /\ req'[h].n = req[h].n
          /\ \A g \in Handlers \ {h} : req'[g] = req[g]
          /\ posts' = posts /\ posts \in Nat
      BY <1>0, <1>7, BoundsAssumption DEF Capture, TypeOK, Request
    <2>7. Numbered'
      <3>1. \A o \in Objs : obj'[o].seen \subseteq 1..posts'
        BY <1>0, <2>1, <2>5, <2>6, BoundsAssumption DEF Numbered
      <3>2. \A g \in Handlers : req'[g].n <= posts'
        BY <1>0, <2>6
      <3>3. \A g, f \in Handlers :
              g # f /\ req'[g].pc # "idle" /\ req'[f].pc # "idle"
                => req'[g].n # req'[f].n
        BY <1>0, <2>1, <2>6 DEF Numbered
      <3>4. ASSUME NEW g \in Handlers, NEW o \in Objs, req'[g].pc \in Underway
            PROVE  req'[g].n \notin obj'[o].seen
        <4>1. g # h /\ req'[g] = req[g]
          BY <2>6, <3>4 DEF Underway
        <4>2. req[g].n # req[h].n /\ req[g].n \notin obj[o].seen
          BY <1>0, <2>1, <3>4, <4>1 DEF Numbered, Underway
        <4> QED
          BY <2>5, <4>1, <4>2
      <3> QED
        BY <3>1, <3>2, <3>3, <3>4 DEF Numbered
    <2>8. \A o \in Objs :
             /\ Queued(o)' \cup obj'[o].got \subseteq obj'[o].seen
             /\ Cardinality(obj'[o].seen \ (Queued(o)' \cup obj'[o].got))
                   = obj'[o].errs
      BY <1>0, <2>1, <2>2, <2>3, <2>4, RecordLoss
    <2> QED
      BY <1>a, <2>7, <2>8
  <1>8. ASSUME NEW h \in Handlers, HandlerStep(h), ~Capture(h) PROVE LossInv'
    <2>1. \A o \in Objs : Quiet(o)
      <3>1. CASE Create(h)
        <4>1. req[h].id \in Ids /\ New(req[h].id)
          BY <1>0, <3>1, RequestFields DEF Create, Shape, TypeOK, Ids
        <4> QED
          BY <1>0, <4>1, NewQuiet
      <3>2. CASE CreateAnon(h)
        BY <1>0, <3>2, NewQuiet DEF CreateAnon, Ids
      <3>3. CASE Route(h) \/ Bind(h) \/ Reply(h) \/ Return(h)
        BY <1>c, <3>3 DEF Route, Bind, Reply, Return
      <3> QED
        BY <1>8, <3>1, <3>2, <3>3 DEF HandlerStep
    <2>2. \A g \in Handlers \ {h} : req'[g] = req[g]
      BY <1>0, <1>8 DEF HandlerStep, Route, Create, Bind, CreateAnon, Reply,
                        Return, TypeOK
    <2>3. SameRequest(h)
      <3>1. CASE Route(h)
        BY <1>0, <3>1 DEF Route, TypeOK, Request, SameRequest, Underway
      <3>2. CASE Create(h)
        BY <1>0, <3>2 DEF Create, TypeOK, Request, SameRequest, Underway
      <3>3. CASE CreateAnon(h)
        BY <1>0, <3>3 DEF CreateAnon, TypeOK, Request, SameRequest, Underway
      <3>4. CASE Bind(h)
        BY <1>0, <3>4 DEF Bind, TypeOK, Request, SameRequest, Underway
      <3>5. CASE Reply(h)
        BY <1>0, <3>5 DEF Reply, TypeOK, Request, SameRequest, Underway
      <3>6. CASE Return(h)
        BY <1>0, <3>6, BoundsAssumption
           DEF Return, TypeOK, Idle, SameRequest, Underway
      <3> QED
        BY <1>8, <3>1, <3>2, <3>3, <3>4, <3>5, <3>6 DEF HandlerStep
    <2>4. posts' = posts
      BY <1>8 DEF HandlerStep, Route, Create, Bind, CreateAnon, Reply, Return
    <2>5. \A g \in Handlers : SameRequest(g)
      BY <1>0, <2>2, <2>3 DEF SameRequest
    <2> QED
      BY <1>b, <2>1, <2>4, <2>5
  <1>9. CASE UNCHANGED webhookVars
    BY <1>9, <1>b, <1>c, <1>d DEF webhookVars
  <1> QED
    BY <1>1, <1>2, <1>3, <1>4, <1>5, <1>6, <1>7, <1>8, <1>9 DEF Next, TestStep

\* No callback is lost without a trace, at any capacity of the queue: what a
\* session recorded is queued, received or counted, one error for each drop.
THEOREM EveryLossFlagged == Spec => []LossIsFlagged
  <1>1. Init => RouteInv /\ LossInv
    <2> SUFFICES ASSUME Init PROVE LossInv
      BY InitRoute
    <2>1. Numbered
      BY DEF Init, Blank, Idle, Numbered, Underway
    <2>2. \A o \in Objs : /\ obj[o].seen = {} /\ obj[o].got = {}
                          /\ obj[o].errs = 0 /\ Queued(o) = {}
      BY DEF Init, Blank, Queued
    <2>3. Recorded
      BY <2>2 DEF Recorded
    <2>4. Cardinality({}) = 0
      BY FS_EmptySet
    <2>5. \A o \in Objs : obj[o].seen \ (Queued(o) \cup obj[o].got) = {}
      BY <2>2
    <2>6. LossIsFlagged
      BY <2>2, <2>4, <2>5, LossByQueue
    <2> QED
      BY <2>1, <2>3, <2>6 DEF LossInv
  <1>2. RouteInv /\ LossInv /\ [Next]_webhookVars => RouteInv' /\ LossInv'
    BY StepRoute, StepLoss
  <1>3. LossInv => LossIsFlagged
    BY DEF LossInv
  <1> QED
    BY <1>1, <1>2, <1>3, PTL DEF Spec

-----------------------------------------------------------------------------
(* AppWS.  A step of the composition is a step of the webhook server that  *)
(* leaves the sockets alone, or one of a socket's read loop; the lemmas    *)
(* above serve for what either does to the registry.                       *)


-----------------------------------------------------------------------------
(* Read loops.                                                             *)

Resolving == {"path", "byId", "newId", "bySid", "newPath"}
Serving == {"bindConn", "bindSid", "record", "reply", "write", "writing"}

(* What a loop knows at each of its points: the call and the path once     *)
(* the socket is open, a frame while it handles one, and the session from  *)
(* the end of resolveAppWSSession on.                                      *)
LoopShape ==
    \A k \in Conns :
        /\ conn[k].pc = "unopened" =>
              conn[k].sess = None /\ conn[k].id = None /\ ~conn[k].sure
        /\ conn[k].pc # "unopened" =>
              /\ conn[k].call \in Calls
              /\ conn[k].path \in {CallOwner[conn[k].call], Shared}
              /\ conn[k].id \in {None, CallOwner[conn[k].call]}
        /\ conn[k].pc \in Resolving => conn[k].sess = None
        /\ conn[k].pc \in {"byId", "newId"} => conn[k].id # None
        /\ conn[k].pc \in Serving => conn[k].sess # None
        /\ conn[k].pc \in Resolving \cup Serving => conn[k].n # 0

(* The loop of k moves to pc with session o, and nothing else about it     *)
(* changes but the answer it has in hand.                                  *)
Moves(k, pc, o) ==
    /\ conn' \in [Conns -> Loop]
    /\ conn'[k].pc = pc /\ conn'[k].sess = o
    /\ conn'[k].call = conn[k].call /\ conn'[k].path = conn[k].path
    /\ conn'[k].id = conn[k].id /\ conn'[k].n = conn[k].n
    /\ conn'[k].sure = conn[k].sure
    /\ \A j \in Conns \ {k} : conn'[j] = conn[j]

(* A move that resolveAppWSSession and the loop make.                      *)
InOrder(k, pc, o) ==
    /\ conn[k].pc # "unopened" /\ pc # "unopened"
    /\ conn[k].sess # None => o = conn[k].sess
    /\ pc \in Resolving => o = None
    /\ pc \in {"byId", "newId"} => conn[k].id # None
    /\ pc \in Serving => o # None
    /\ pc \in Resolving \cup Serving => conn[k].n # 0

\* The fields of a loop have their types.
LEMMA LoopFields ==
  ASSUME NEW q \in Loop
  PROVE  /\ q.pc \in Pcs /\ q.call \in Calls \cup {None}
         /\ q.path \in Tests \cup {Shared, None} /\ q.sess \in Objs \cup {None}
         /\ q.type \in FrameTypes /\ q.id \in Tests \cup {None}
         /\ q.n \in 0..MaxPosts /\ q.sure \in BOOLEAN
  BY DEF Loop

\* Goto moves a loop.
LEMMA GotoMoves ==
  ASSUME AppTypeOK, NEW k \in Conns, NEW pc \in Pcs, NEW o \in Objs \cup {None},
         Goto(k, pc, o)
  PROVE  Moves(k, pc, o)
  <1>1. conn \in [Conns -> Loop] /\ conn[k] \in Loop
    BY DEF AppTypeOK
  <1>2. conn' = [conn EXCEPT ![k] = [conn[k] EXCEPT !.pc = pc, !.sess = o]]
    BY <1>1 DEF Goto
  <1>3. [conn[k] EXCEPT !.pc = pc, !.sess = o] \in Loop
    BY <1>1 DEF Loop
  <1>4. conn'[k] = [conn[k] EXCEPT !.pc = pc, !.sess = o]
        /\ \A j \in Conns \ {k} : conn'[j] = conn[j]
    BY <1>1, <1>2
  <1>5. conn' \in [Conns -> Loop]
    BY <1>1, <1>2, <1>3
  <1>6. /\ conn'[k].pc = pc /\ conn'[k].sess = o
        /\ conn'[k].call = conn[k].call /\ conn'[k].path = conn[k].path
        /\ conn'[k].id = conn[k].id /\ conn'[k].n = conn[k].n
        /\ conn'[k].sure = conn[k].sure
    BY <1>1, <1>4 DEF Loop
  <1> QED
    BY <1>4, <1>5, <1>6 DEF Moves

\* What a loop looks up is an object or nothing.
LEMMA LookupTypes ==
  ASSUME AppTypeOK, LoopShape, NEW k \in Conns, conn[k].pc # "unopened"
  PROVE  /\ conn[k].call \in Calls
         /\ conn[k].path \in Ids
         /\ conn[k].id # None => conn[k].id \in Ids
         /\ conn[k].sess \in Objs \cup {None}
         /\ FoundByPath(k) \in Objs \cup {None}
         /\ conn[k].id # None => Lookup(conn[k].id) \in Objs \cup {None}
         /\ LookupByCallSid(conn[k].call) \in Objs \cup {None}
  <1>1. /\ conn[k].call \in Calls /\ conn[k].path \in Ids
        /\ conn[k].id # None => conn[k].id \in Ids
    BY OwnerAssumption DEF LoopShape, Ids
  <1>2. conn[k].sess \in Objs \cup {None}
    BY LoopFields DEF AppTypeOK
  <1>3. sessions \in [Ids -> Objs \cup {None}] /\ callSidIndex \in [Calls -> Ids \cup {None}]
    BY DEF AppTypeOK, TypeOK
  <1> QED
    BY <1>1, <1>2, <1>3 DEF FoundByPath, Lookup, LookupByCallSid

\* The steps of a loop but the reading of a frame are such moves.
LEMMA LoopMoves ==
  ASSUME AppTypeOK, LoopShape, NEW k \in Conns, LoopStep(k) \/ ReadErr(k)
  PROVE  \E pc \in Pcs, o \in Objs \cup {None} : Moves(k, pc, o) /\ InOrder(k, pc, o)
  <1> USE DEF Pcs
  <1>0. conn[k] \in Loop /\ conn[k].pc # "unopened"
    BY DEF AppTypeOK, LoopStep, ByPath, ById, NewById, BySid, NewByPath, BindAppConn, BindSid,
           CaptureFrame, AppOutcome, AckBegins, AckEnds, ReadErr
  <1>a. /\ conn[k].call \in Calls
        /\ conn[k].path \in Ids
        /\ conn[k].id # None => conn[k].id \in Ids
        /\ conn[k].sess \in Objs \cup {None}
        /\ FoundByPath(k) \in Objs \cup {None}
        /\ conn[k].id # None => Lookup(conn[k].id) \in Objs \cup {None}
        /\ LookupByCallSid(conn[k].call) \in Objs \cup {None}
    BY <1>0, LookupTypes
  <1>b. /\ conn[k].pc \in Resolving => conn[k].sess = None
        /\ conn[k].pc \in {"byId", "newId"} => conn[k].id # None
        /\ conn[k].pc \in Serving => conn[k].sess # None
        /\ conn[k].pc \in Resolving \cup Serving => conn[k].n # 0
    BY DEF LoopShape
  <1>1. CASE ByPath(k)
    <2>1. CASE FoundByPath(k) # None
      <3>1. Moves(k, "bindConn", FoundByPath(k))
        BY <1>1, <1>a, <2>1, GotoMoves DEF ByPath
      <3>2. InOrder(k, "bindConn", FoundByPath(k))
        BY <1>0, <1>1, <1>b, <2>1 DEF ByPath, InOrder, Resolving, Serving
      <3> QED
        BY <1>a, <3>1, <3>2
    <2>2. CASE FoundByPath(k) = None
      <3>1. AfterPath(k) \in {"byId", "bySid"} /\ (AfterPath(k) = "byId" => conn[k].id # None)
        BY DEF AfterPath
      <3>2. Moves(k, AfterPath(k), None)
        BY <1>1, <2>2, <3>1, GotoMoves DEF ByPath
      <3>3. InOrder(k, AfterPath(k), None)
        BY <1>0, <1>1, <1>b, <3>1 DEF ByPath, InOrder, Resolving, Serving
      <3> QED
        BY <3>1, <3>2, <3>3
    <2> QED
      BY <2>1, <2>2
  <1>2. CASE ById(k)
    <2>1. CASE Lookup(conn[k].id) # None
      <3>1. Moves(k, "bindConn", Lookup(conn[k].id))
        BY <1>2, <1>a, <1>b, <2>1, GotoMoves DEF ById
      <3>2. InOrder(k, "bindConn", Lookup(conn[k].id))
        BY <1>0, <1>2, <1>b, <2>1 DEF ById, InOrder, Resolving, Serving
      <3> QED
        BY <1>2, <1>a, <1>b, <3>1, <3>2 DEF ById
    <2>2. CASE Lookup(conn[k].id) = None
      <3>1. Moves(k, "newId", None)
        BY <1>2, <2>2, GotoMoves DEF ById
      <3>2. InOrder(k, "newId", None)
        BY <1>0, <1>2, <1>b DEF ById, InOrder, Resolving, Serving
      <3> QED
        BY <3>1, <3>2
    <2> QED
      BY <2>1, <2>2
  <1>3. CASE NewById(k)
    <2>1. conn[k].id \in Ids /\ New(conn[k].id)
      BY <1>3, <1>a, <1>b DEF NewById
    <2>2. sessions'[conn[k].id] \in Objs /\ sessions'[conn[k].id] # None
      BY <2>1, NewType, IdsAssumption DEF AppTypeOK
    <2>3. Moves(k, "bindConn", sessions'[conn[k].id])
      BY <1>3, <2>2, GotoMoves DEF NewById
    <2>4. InOrder(k, "bindConn", sessions'[conn[k].id])
      BY <1>0, <1>3, <1>b, <2>2 DEF NewById, InOrder, Resolving, Serving
    <2> QED
      BY <2>2, <2>3, <2>4
  <1>4. CASE BySid(k)
    <2> DEFINE o == LookupByCallSid(conn[k].call)
               pc == IF o # None THEN "bindConn" ELSE "newPath"
    <2>1. Moves(k, pc, o)
      BY <1>4, <1>a, GotoMoves DEF BySid
    <2>2. InOrder(k, pc, o)
      BY <1>0, <1>4, <1>b DEF BySid, InOrder, Resolving, Serving
    <2> QED
      BY <1>a, <2>1, <2>2
  <1>5. CASE NewByPath(k)
    <2>1. conn[k].path \in Ids /\ New(conn[k].path)
      BY <1>5, <1>a DEF NewByPath
    <2>2. sessions'[conn[k].path] \in Objs /\ sessions'[conn[k].path] # None
      BY <2>1, NewType, IdsAssumption DEF AppTypeOK
    <2>3. Moves(k, "bindConn", sessions'[conn[k].path])
      BY <1>5, <2>2, GotoMoves DEF NewByPath
    <2>4. InOrder(k, "bindConn", sessions'[conn[k].path])
      BY <1>0, <1>5, <1>b, <2>2 DEF NewByPath, InOrder, Resolving, Serving
    <2> QED
      BY <2>2, <2>3, <2>4
  <1>6. ASSUME NEW pc \in {"bindSid", "record", "read", "reply", "writing"},
               conn[k].pc \in {"bindConn", "bindSid", "record", "write", "writing"},
               Goto(k, pc, conn[k].sess)
        PROVE  \E p \in Pcs, o \in Objs \cup {None} : Moves(k, p, o) /\ InOrder(k, p, o)
    <2>1. Moves(k, pc, conn[k].sess)
      BY <1>6, <1>a, GotoMoves
    <2>2. InOrder(k, pc, conn[k].sess)
      BY <1>0, <1>6, <1>b DEF InOrder, Resolving, Serving
    <2> QED
      BY <1>a, <2>1, <2>2
  <1>7. CASE BindAppConn(k) \/ BindSid(k) \/ CaptureFrame(k) \/ AckBegins(k) \/ AckEnds(k)
    BY <1>6, <1>7 DEF BindAppConn, BindSid, CaptureFrame, AckBegins, AckEnds
  <1>8. CASE AppOutcome(k)
    <2> DEFINE a == Outcome(conn[k].sess, HookLabel(conn[k].type))
    <2>1. conn \in [Conns -> Loop] /\ a \in Answers
      BY <1>0, <1>8, OutcomeType DEF AppOutcome, AppTypeOK, Serving, LoopShape, Loop
    <2>2. conn' = [conn EXCEPT ![k] = [conn[k] EXCEPT !.pc = "write", !.answer = a]]
      BY <1>8, <2>1 DEF AppOutcome
    <2>3. [conn[k] EXCEPT !.pc = "write", !.answer = a] \in Loop
      BY <1>0, <2>1 DEF Loop
    <2>4. conn'[k] = [conn[k] EXCEPT !.pc = "write", !.answer = a]
          /\ \A j \in Conns \ {k} : conn'[j] = conn[j]
      BY <2>1, <2>2
    <2>5. /\ conn'[k].pc = "write" /\ conn'[k].sess = conn[k].sess
          /\ conn'[k].call = conn[k].call /\ conn'[k].path = conn[k].path
          /\ conn'[k].id = conn[k].id /\ conn'[k].n = conn[k].n
          /\ conn'[k].sure = conn[k].sure
      BY <1>0, <2>4 DEF Loop
    <2>6. Moves(k, "write", conn[k].sess)
      BY <2>1, <2>2, <2>3, <2>4, <2>5 DEF Moves
    <2>7. InOrder(k, "write", conn[k].sess)
      BY <1>0, <1>8, <1>b DEF AppOutcome, InOrder, Resolving, Serving
    <2> QED
      BY <1>a, <2>6, <2>7
  <1>9. CASE ReadErr(k)
    <2>1. Goto(k, "closed", conn[k].sess)
      <3>1. [conn[k] EXCEPT !.pc = "closed"] = [conn[k] EXCEPT !.pc = "closed", !.sess = conn[k].sess]
        BY <1>0 DEF Loop
      <3> QED
        BY <1>9, <3>1 DEF ReadErr, Goto, AppTypeOK
    <2>2. Moves(k, "closed", conn[k].sess)
      BY <1>a, <2>1, GotoMoves
    <2>3. InOrder(k, "closed", conn[k].sess)
      BY <1>0 DEF InOrder, Resolving, Serving
    <2> QED
      BY <1>a, <2>2, <2>3
  <1> QED
    BY <1>1, <1>2, <1>3, <1>4, <1>5, <1>7, <1>8, <1>9 DEF LoopStep
\* The upgrade names the call and the path of a socket.
LEMMA ConnectOpens ==
  ASSUME AppTypeOK, NEW k \in Conns, NEW c \in Calls, NEW p \in {CallOwner[c], Shared},
         Connect(k, c, p)
  PROVE  /\ conn' \in [Conns -> Loop]
         /\ conn[k].pc = "unopened" /\ conn'[k].pc = "read"
         /\ conn'[k].call = c /\ conn'[k].path = p
         /\ conn'[k].id = conn[k].id /\ conn'[k].n = conn[k].n
         /\ conn'[k].sess = conn[k].sess /\ conn'[k].sure = conn[k].sure
         /\ \A j \in Conns \ {k} : conn'[j] = conn[j]
  <1>1. conn \in [Conns -> Loop] /\ conn[k] \in Loop /\ p \in Tests \cup {Shared, None}
    BY OwnerAssumption DEF AppTypeOK
  <1>2. conn' = [conn EXCEPT ![k] = [conn[k] EXCEPT !.pc = "read", !.call = c, !.path = p]]
    BY <1>1 DEF Connect
  <1>3. [conn[k] EXCEPT !.pc = "read", !.call = c, !.path = p] \in Loop
    BY <1>1 DEF Loop, Pcs
  <1>4. conn'[k] = [conn[k] EXCEPT !.pc = "read", !.call = c, !.path = p]
        /\ \A j \in Conns \ {k} : conn'[j] = conn[j]
    BY <1>1, <1>2
  <1>5. conn' \in [Conns -> Loop]
    BY <1>1, <1>2, <1>3
  <1>6. /\ conn'[k].pc = "read" /\ conn'[k].call = c /\ conn'[k].path = p
        /\ conn'[k].id = conn[k].id /\ conn'[k].n = conn[k].n
        /\ conn'[k].sess = conn[k].sess /\ conn'[k].sure = conn[k].sure
    BY <1>1, <1>4 DEF Loop
  <1> QED
    BY <1>4, <1>5, <1>6 DEF Connect

\* A frame is read, and numbered.
LEMMA FrameRead ==
  ASSUME AppTypeOK, LoopShape, NEW k \in Conns, NEW f \in FrameTypes,
         NEW i \in Tests \cup {None}, ReadFrame(k, f, i)
  PROVE  /\ conn' \in [Conns -> Loop]
         /\ conn[k].pc = "read"
         /\ conn'[k].pc = IF conn[k].sess = None THEN "path" ELSE "bindSid"
         /\ conn'[k].call = conn[k].call /\ conn'[k].path = conn[k].path
         /\ conn'[k].id = i /\ i \in {CallOwner[conn[k].call], None}
         /\ conn'[k].n = posts + 1 /\ conn'[k].n # 0
         /\ conn'[k].sess = conn[k].sess
         /\ conn'[k].sure <=> IF conn[k].sess = None THEN FrameCorrelated(k, i) ELSE conn[k].sure
         /\ \A j \in Conns \ {k} : conn'[j] = conn[j]
  <1> DEFINE pc == IF conn[k].sess = None THEN "path" ELSE "bindSid"
             sure == IF conn[k].sess = None THEN FrameCorrelated(k, i) ELSE conn[k].sure
             q == [conn[k] EXCEPT !.type = f, !.id = i, !.n = posts + 1, !.pc = pc, !.sure = sure]
  <1>1. conn \in [Conns -> Loop] /\ conn[k] \in Loop
    BY DEF AppTypeOK
  <1>2. conn[k].sure \in BOOLEAN
    BY <1>1, LoopFields
  <1>3. sure \in BOOLEAN
    BY <1>2 DEF FrameCorrelated, Correlated
  <1>4. posts + 1 \in 0..MaxPosts /\ posts + 1 # 0
    BY BoundsAssumption DEF AppTypeOK, TypeOK, ReadFrame
  <1>5. conn' = [conn EXCEPT ![k] = q]
    BY <1>1 DEF ReadFrame
  <1> HIDE DEF sure
  <1>6. q \in Loop
    BY <1>1, <1>3, <1>4, ZenonT(60) DEF Loop, Pcs
  <1>7. conn'[k] = q /\ \A j \in Conns \ {k} : conn'[j] = conn[j]
    BY <1>1, <1>5
  <1>8. conn' \in [Conns -> Loop]
    BY <1>1, <1>5, <1>6
  <1>9. /\ conn'[k].pc = pc /\ conn'[k].id = i /\ conn'[k].n = posts + 1
        /\ conn'[k].call = conn[k].call /\ conn'[k].path = conn[k].path
        /\ conn'[k].sess = conn[k].sess /\ conn'[k].sure = sure
    BY <1>1, <1>7 DEF Loop
  <1>10. conn[k].pc = "read" /\ i \in {CallOwner[conn[k].call], None}
    BY DEF ReadFrame
  <1>11. conn'[k].sure <=> IF conn[k].sess = None THEN FrameCorrelated(k, i) ELSE conn[k].sure
    BY <1>9 DEF sure
  <1> QED
    BY <1>4, <1>7, <1>8, <1>9, <1>10, <1>11

\* A release clears sure for the sockets of its test, and no more.
LEMMA ReleaseUnsures ==
  ASSUME AppTypeOK, NEW t \in Tests, AppRelease(t)
  PROVE  /\ conn' \in [Conns -> Loop]
         /\ \A k \in Conns :
              /\ conn'[k].pc = conn[k].pc /\ conn'[k].call = conn[k].call
              /\ conn'[k].path = conn[k].path /\ conn'[k].id = conn[k].id
              /\ conn'[k].n = conn[k].n /\ conn'[k].sess = conn[k].sess
              /\ conn'[k].sure => conn[k].sure
              /\ conn'[k].sure /\ conn[k].call # None => CallOwner[conn[k].call] # t
  <1>1. conn \in [Conns -> Loop]
    BY DEF AppTypeOK
  <1>2. \A k \in Conns : conn'[k] = IF conn[k].call # None /\ CallOwner[conn[k].call] = t
                                      THEN [conn[k] EXCEPT !.sure = FALSE] ELSE conn[k]
    BY DEF AppRelease
  <1>3. ASSUME NEW k \in Conns
        PROVE  /\ conn'[k] \in Loop
               /\ conn'[k].pc = conn[k].pc /\ conn'[k].call = conn[k].call
               /\ conn'[k].path = conn[k].path /\ conn'[k].id = conn[k].id
               /\ conn'[k].n = conn[k].n /\ conn'[k].sess = conn[k].sess
               /\ conn'[k].sure => conn[k].sure
               /\ conn'[k].sure /\ conn[k].call # None => CallOwner[conn[k].call] # t
    <2>1. conn[k] \in Loop
      BY <1>1
    <2>2. CASE conn[k].call # None /\ CallOwner[conn[k].call] = t
      <3>1. conn'[k] = [conn[k] EXCEPT !.sure = FALSE]
        BY <1>2, <2>2
      <3> QED
        BY <2>1, <3>1 DEF Loop
    <2>3. CASE ~(conn[k].call # None /\ CallOwner[conn[k].call] = t)
      <3>1. conn'[k] = conn[k]
        BY <1>2, <2>3
      <3> QED
        BY <2>1, <2>3, <3>1
    <2> QED
      BY <2>2, <2>3
  <1>4. conn' = [k \in Conns |-> conn'[k]]
    BY DEF AppRelease
  <1> QED
    BY <1>3, <1>4

\* What a step does to the loops.
LEMMA ConnKinds ==
  ASSUME [AppNext]_allVars
  PROVE  \/ conn' = conn
         \/ \E k \in Conns : LoopStep(k) \/ ReadErr(k)
         \/ \E k \in Conns, c \in Calls : \E p \in {CallOwner[c], Shared} : Connect(k, c, p)
         \/ \E k \in Conns, f \in FrameTypes, i \in Tests \cup {None} : ReadFrame(k, f, i)
         \/ \E t \in Tests : AppRelease(t)
  BY DEF AppNext, Jambonz, SendCommand, CommandSent, appVars, allVars

(* An open socket keeps its call, and a session once it has one.           *)
Stays(k) ==
    /\ conn[k].pc # "unopened" =>
          /\ conn'[k].pc # "unopened"
          /\ conn'[k].call = conn[k].call /\ conn'[k].path = conn[k].path
    /\ conn[k].pc = "unopened" => conn'[k].sess = None
    /\ conn[k].sess # None => conn'[k].sess = conn[k].sess

\* Every step keeps the loops in shape.
LEMMA StepLoop ==
  ASSUME AppTypeOK, LoopShape, [AppNext]_allVars
  PROVE  conn' \in [Conns -> Loop] /\ LoopShape' /\ \A k \in Conns : Stays(k)
  <1>0. conn \in [Conns -> Loop]
    BY DEF AppTypeOK
  <1>1. CASE conn' = conn
    BY <1>0, <1>1 DEF LoopShape, Stays
  <1>2. ASSUME NEW k \in Conns, LoopStep(k) \/ ReadErr(k)
        PROVE  conn' \in [Conns -> Loop] /\ LoopShape' /\ \A j \in Conns : Stays(j)
    <2>1. PICK pc \in Pcs, o \in Objs \cup {None} : Moves(k, pc, o) /\ InOrder(k, pc, o)
      BY <1>2, LoopMoves
    <2>2. Stays(k) /\ \A j \in Conns \ {k} : Stays(j)
      BY <2>1 DEF Stays, Moves, InOrder, LoopShape
    <2>3. LoopShape'
      BY <2>1 DEF LoopShape, Moves, InOrder
    <2> QED
      BY <2>1, <2>2, <2>3 DEF Moves
  <1>3. ASSUME NEW k \in Conns, NEW c \in Calls, NEW p \in {CallOwner[c], Shared}, Connect(k, c, p)
        PROVE  conn' \in [Conns -> Loop] /\ LoopShape' /\ \A j \in Conns : Stays(j)
    <2>1. /\ conn' \in [Conns -> Loop]
          /\ conn[k].pc = "unopened" /\ conn'[k].pc = "read"
          /\ conn'[k].call = c /\ conn'[k].path = p
          /\ conn'[k].id = conn[k].id /\ conn'[k].n = conn[k].n
          /\ conn'[k].sess = conn[k].sess /\ conn'[k].sure = conn[k].sure
          /\ \A j \in Conns \ {k} : conn'[j] = conn[j]
      BY <1>3, ConnectOpens
    <2>2. conn[k].sess = None /\ conn[k].id = None
      BY <2>1 DEF LoopShape
    <2>3. LoopShape'
      BY <2>1, <2>2 DEF LoopShape, Resolving, Serving
    <2> QED
      BY <2>1, <2>2, <2>3 DEF Stays, LoopShape
  <1>4. ASSUME NEW k \in Conns, NEW f \in FrameTypes, NEW i \in Tests \cup {None}, ReadFrame(k, f, i)
        PROVE  conn' \in [Conns -> Loop] /\ LoopShape' /\ \A j \in Conns : Stays(j)
    <2>1. /\ conn' \in [Conns -> Loop]
          /\ conn[k].pc = "read"
          /\ conn'[k].pc = IF conn[k].sess = None THEN "path" ELSE "bindSid"
          /\ conn'[k].call = conn[k].call /\ conn'[k].path = conn[k].path
          /\ conn'[k].id = i /\ i \in {CallOwner[conn[k].call], None}
          /\ conn'[k].n # 0
          /\ conn'[k].sess = conn[k].sess
          /\ \A j \in Conns \ {k} : conn'[j] = conn[j]
      BY <1>4, FrameRead
    <2>2. LoopShape'
      BY <2>1 DEF LoopShape, Resolving, Serving
    <2> QED
      BY <2>1, <2>2 DEF Stays, LoopShape
  <1>5. ASSUME NEW t \in Tests, AppRelease(t)
        PROVE  conn' \in [Conns -> Loop] /\ LoopShape' /\ \A j \in Conns : Stays(j)
    <2>1. /\ conn' \in [Conns -> Loop]
          /\ \A k \in Conns :
               /\ conn'[k].pc = conn[k].pc /\ conn'[k].call = conn[k].call
               /\ conn'[k].path = conn[k].path /\ conn'[k].id = conn[k].id
               /\ conn'[k].n = conn[k].n /\ conn'[k].sess = conn[k].sess
               /\ conn'[k].sure => conn[k].sure
      BY <1>5, ReleaseUnsures
    <2> QED
      BY <2>1 DEF LoopShape, Stays
  <1> QED
    BY <1>1, <1>2, <1>3, <1>4, <1>5, ConnKinds
-----------------------------------------------------------------------------
(* Types.                                                                  *)

AppShape == AppTypeOK /\ Shape /\ LoopShape

\* A callback made of a frame is one.
LEMMA FrameCallback ==
  ASSUME AppShape, NEW k \in Conns, conn[k].pc = "record"
  PROVE  /\ conn[k].sess \in Objs
         /\ [call |-> conn[k].call, n |-> conn[k].n, hook |-> HookLabel(conn[k].type)] \in Callback
  <1>1. conn[k] \in Loop
    BY DEF AppShape, AppTypeOK
  <1>2. conn[k].call \in Calls /\ conn[k].sess # None /\ conn[k].n # 0
    BY DEF AppShape, LoopShape, Serving
  <1>3. conn[k].n \in 1..MaxPosts /\ conn[k].sess \in Objs
    BY <1>1, <1>2, LoopFields, BoundsAssumption
  <1>4. HookLabel(conn[k].type) \in Hooks
    BY <1>1 DEF HookLabel, Hooks, Loop, FrameTypes
  <1> QED
    BY <1>2, <1>3, <1>4 DEF Callback

\* A step of the webhook server that leaves the sockets alone, or releases.
LEMMA ServerStep ==
  ASSUME [AppNext]_allVars, ~\E k \in Conns : LoopStep(k) \/ Jambonz(k)
  PROVE  [Next]_webhookVars
  BY DEF AppNext, AppRelease, SendCommand, CommandSent, Next, allVars, appVars

\* A loop touches the requests of net/http never, and the tests' state neither.
LEMMA LoopLeaves ==
  ASSUME NEW k \in Conns, LoopStep(k) \/ Jambonz(k)
  PROVE  UNCHANGED <<holds, claims, placed, req, cmd>>
  BY DEF LoopStep, ByPath, ById, NewById, BySid, NewByPath, BindAppConn, BindSid, CaptureFrame,
         AppOutcome, AckBegins, AckEnds, Jambonz, Connect, ReadFrame, ReadErr, webhookVars,
         testVars, regVars

\* The registry keeps its types through the steps of a loop.
LEMMA LoopTypes ==
  ASSUME AppShape, NEW k \in Conns, LoopStep(k) \/ Jambonz(k)
  PROVE  TypeOK'
  <1>0. TypeOK /\ conn[k] \in Loop
    BY DEF AppShape, AppTypeOK
  <1>a. UNCHANGED <<holds, claims, placed, req>>
    BY LoopLeaves
  <1>1. ASSUME NEW i \in Ids, New(i), UNCHANGED <<callSidIndex, posts>> PROVE TypeOK'
    BY <1>0, <1>a, <1>1, NewType DEF TypeOK
  <1>2. CASE NewById(k)
    <2>1. conn[k].id \in Ids
      BY <1>2, OwnerAssumption DEF NewById, AppShape, LoopShape, Ids
    <2> QED
      BY <1>1, <1>2, <2>1 DEF NewById
  <1>3. CASE NewByPath(k)
    <2>1. conn[k].path \in Ids
      BY <1>3, OwnerAssumption DEF NewByPath, AppShape, LoopShape, Ids
    <2> QED
      BY <1>1, <1>3, <2>1 DEF NewByPath
  <1>4. CASE BindSid(k)
    <2>1. conn[k].sess \in Objs
      BY <1>0, <1>4, LoopFields DEF BindSid, AppShape, LoopShape, Serving
    <2>2. obj[conn[k].sess].id \in Ids \cup {None}
      BY <1>0, <2>1 DEF TypeOK, Session
    <2>3. callSidIndex' \in [Calls -> Ids \cup {None}]
      BY <1>0, <1>4, <2>2 DEF BindSid, BindCallSid, TypeOK
    <2> QED
      BY <1>0, <1>a, <1>4, <2>3 DEF BindSid, TypeOK
  <1>5. CASE CaptureFrame(k)
    <2> DEFINE cb == [call |-> conn[k].call, n |-> conn[k].n, hook |-> HookLabel(conn[k].type)]
    <2>1. conn[k].sess \in Objs /\ cb \in Callback
      BY <1>5, FrameCallback DEF CaptureFrame
    <2>2. Record(conn[k].sess, cb)
      BY <1>5 DEF CaptureFrame
    <2> HIDE DEF cb
    <2>3. obj' \in [Objs -> Session] /\ \A p \in Objs : Len(obj'[p].pending) <= QueueCap
      BY <1>0, <2>1, <2>2, RecordType
    <2> QED
      BY <1>0, <1>a, <1>5, <2>3 DEF CaptureFrame, TypeOK
  <1>6. ASSUME NEW f \in FrameTypes, NEW i \in Tests \cup {None}, ReadFrame(k, f, i) PROVE TypeOK'
    <2>1. posts' \in 0..MaxPosts
      BY <1>0, <1>6, BoundsAssumption DEF ReadFrame, TypeOK
    <2> QED
      BY <1>0, <1>a, <1>6, <2>1 DEF ReadFrame, TypeOK, regVars
  <1>7. CASE UNCHANGED webhookVars
    BY <1>0, <1>7 DEF TypeOK, webhookVars, regVars, testVars
  <1> QED
    BY <1>2, <1>3, <1>4, <1>5, <1>6, <1>7
       DEF LoopStep, ByPath, ById, BySid, BindAppConn, AppOutcome, AckBegins, AckEnds,
           Jambonz, Connect, ReadErr

\* Every step keeps the types and the shapes.
LEMMA StepAppShape == AppShape /\ [AppNext]_allVars => AppShape'
  <1> SUFFICES ASSUME AppShape, [AppNext]_allVars PROVE AppShape'
    OBVIOUS
  <1>1. conn' \in [Conns -> Loop] /\ LoopShape'
    BY StepLoop DEF AppShape
  <1>2. TypeOK' /\ Shape'
    <2>1. CASE \E k \in Conns : LoopStep(k) \/ Jambonz(k)
      <3>1. req' = req
        BY <2>1, LoopLeaves
      <3> QED
        BY <2>1, <3>1, LoopTypes DEF AppShape, Shape
    <2>2. CASE ~\E k \in Conns : LoopStep(k) \/ Jambonz(k)
      BY <2>2, ServerStep, StepType, StepShape DEF AppShape, AppTypeOK
    <2> QED
      BY <2>1, <2>2
  <1>3. appConn' \in [Objs -> Conns \cup {None}]
    <2>1. appConn' = appConn \/ \E k \in Conns : appConn' = [appConn EXCEPT ![conn[k].sess] = k]
      BY ZenonT(60) DEF AppNext, AppRelease, SendCommand, CommandSent, LoopStep, ByPath, ById, NewById,
             BySid, NewByPath, BindAppConn, BindSid, CaptureFrame, AppOutcome, AckBegins,
             AckEnds, Jambonz, Connect, ReadFrame, ReadErr, allVars, appVars
    <2> QED
      BY <2>1 DEF AppShape, AppTypeOK
  <1>4. cmd' \in [Tests -> Command \cup {None}]
    <2>0. cmd \in [Tests -> Command \cup {None}]
      BY DEF AppShape, AppTypeOK
    <2>1. ASSUME NEW t \in Tests, SendCommand(t) PROVE cmd' \in [Tests -> Command \cup {None}]
      <3>1. holds[t] \in Objs /\ appConn[holds[t]] \in Conns
        BY <2>1 DEF SendCommand, AppShape, AppTypeOK, TypeOK
      <3>2. [sess |-> holds[t], conn |-> appConn[holds[t]]] \in Command
        BY <3>1 DEF Command
      <3> QED
        BY <2>0, <2>1, <3>2 DEF SendCommand
    <2>2. ASSUME NEW t \in Tests, CommandSent(t) PROVE cmd' \in [Tests -> Command \cup {None}]
      BY <2>0, <2>2 DEF CommandSent
    <2>3. ASSUME NEW k \in Conns, LoopStep(k) \/ Jambonz(k) PROVE cmd' = cmd
      BY <2>3, LoopLeaves
    <2> QED
      BY <2>0, <2>1, <2>2, <2>3 DEF AppNext, AppRelease, allVars, appVars
  <1> QED
    BY <1>1, <1>2, <1>3, <1>4 DEF AppShape, AppTypeOK

\* The initial state is well typed.
LEMMA InitAppShape == AppInit => AppShape
  <1> SUFFICES ASSUME AppInit PROVE AppShape
    OBVIOUS
  <1>1. TypeOK /\ Shape
    BY InitRoute DEF AppInit, RouteInv
  <1>2. Unopened \in Loop
    BY BoundsAssumption DEF Unopened, Loop, Pcs, FrameTypes, Answers
  <1>3. AppTypeOK
    BY <1>1, <1>2 DEF AppInit, AppTypeOK
  <1>4. LoopShape
    BY DEF AppInit, LoopShape, Unopened, Resolving, Serving
  <1> QED
    BY <1>1, <1>3, <1>4 DEF AppShape

\* The composition of sockets and hooks keeps its types.
THEOREM AppWSTypeCorrect == AppSpec => []AppTypeOK
  <1>1. AppShape => AppTypeOK
    BY DEF AppShape
  <1> QED
    BY <1>1, InitAppShape, StepAppShape, PTL DEF AppSpec
-----------------------------------------------------------------------------
(* The registry.                                                           *)

RegInv == AppShape /\ OwnId /\ HeldSessionStable

(* No session changes its ID.                                              *)
IdsStay == \A o \in Objs : obj[o].id # None => obj'[o].id = obj[o].id

\* record changes no ID.
LEMMA RecordIds ==
  ASSUME TypeOK, NEW o \in Objs, NEW cb, Record(o, cb)
  PROVE  \A p \in Objs : obj'[p].id = obj[p].id
  <1>1. obj \in [Objs -> Session] /\ obj[o] \in Session
    BY DEF TypeOK
  <1>2. CASE Room(o)
    <2>1. obj' = [obj EXCEPT ![o] = [obj[o] EXCEPT !.pending = Append(obj[o].pending, cb),
                                                   !.seen = obj[o].seen \cup {cb.n}]]
      BY <1>1, <1>2 DEF Record
    <2> QED
      BY <1>1, <2>1, SessionFrame
  <1>3. CASE ~Room(o)
    <2>1. obj' = [obj EXCEPT ![o] = [obj[o] EXCEPT !.errs = Dropped(o),
                                                   !.seen = obj[o].seen \cup {cb.n}]]
      BY <1>1, <1>3 DEF Record
    <2> QED
      BY <1>1, <2>1, SessionFrame
  <1> QED
    BY <1>2, <1>3

\* What a step does to the registry and to the sessions tests hold.
LEMMA RegKinds ==
  ASSUME RegInv, [AppNext]_allVars
  PROVE  \/ sessions' = sessions /\ holds' = holds /\ \A o \in Objs : obj'[o].id = obj[o].id
         \/ \E i \in Ids : New(i) /\ holds' = holds
         \/ \E t \in Tests : /\ New(t) /\ holds[t] = None
                             /\ holds' = [holds EXCEPT ![t] = sessions'[t]]
         \/ \E t \in Tests : AppRelease(t)
  <1>0. TypeOK /\ Shape /\ LoopShape /\ AppTypeOK
    BY DEF RegInv, AppShape, AppTypeOK
  <1>1. ASSUME NEW t \in Tests, Claim(t)
        PROVE  /\ New(t) /\ holds[t] = None
               /\ holds' = [holds EXCEPT ![t] = sessions'[t]]
    BY <1>1 DEF Claim
  <1>2. ASSUME NEW t \in Tests, Script(t)
        PROVE  sessions' = sessions /\ holds' = holds /\ \A o \in Objs : obj'[o].id = obj[o].id
    <2>1. holds[t] \in Objs
      BY <1>0, <1>2 DEF Script, TypeOK
    <2> QED
      BY <1>0, <1>2, <2>1, SessionFrame DEF Script, TypeOK, testVars
  <1>3. ASSUME NEW t \in Tests, WaitCallback(t)
        PROVE  sessions' = sessions /\ holds' = holds /\ \A o \in Objs : obj'[o].id = obj[o].id
    <2> DEFINE o == holds[t]
    <2>1. o \in Objs /\ obj \in [Objs -> Session] /\ obj[o] \in Session
      BY <1>0, <1>3 DEF WaitCallback, TypeOK
    <2>2. obj' = [obj EXCEPT ![o] = [obj[o] EXCEPT
                    !.pending = Tail(obj[o].pending),
                    !.got = obj[o].got \cup {Head(obj[o].pending).n}]]
      BY <1>3, <2>1 DEF WaitCallback
    <2>3. \A p \in Objs : obj'[p].id = obj[p].id
      BY <2>1, <2>2, SessionFrame
    <2> QED
      BY <1>3, <2>3 DEF WaitCallback, testVars
  <1>4. ASSUME NEW h \in Handlers, Create(h) PROVE \E i \in Ids : New(i) /\ holds' = holds
    <2>1. req[h].id \in Ids
      BY <1>0, <1>4, RequestFields DEF Create, Shape, TypeOK, Ids
    <2> QED
      BY <1>4, <2>1 DEF Create, testVars
  <1>5. ASSUME NEW h \in Handlers, CreateAnon(h) PROVE \E i \in Ids : New(i) /\ holds' = holds
    BY <1>5 DEF CreateAnon, testVars, Ids
  <1>6. ASSUME NEW h \in Handlers, Capture(h)
        PROVE  sessions' = sessions /\ holds' = holds /\ \A o \in Objs : obj'[o].id = obj[o].id
    <2>1. req[h].sess \in Objs
      BY <1>0, <1>6, RequestFields DEF Capture, Shape, TypeOK
    <2> QED
      BY <1>0, <1>6, <2>1, RecordIds DEF Capture, testVars
  <1>7. ASSUME NEW k \in Conns, NewById(k) PROVE \E i \in Ids : New(i) /\ holds' = holds
    <2>1. conn[k].id \in Ids
      BY <1>0, <1>7, OwnerAssumption DEF NewById, LoopShape, Ids
    <2> QED
      BY <1>7, <2>1 DEF NewById, testVars
  <1>8. ASSUME NEW k \in Conns, NewByPath(k) PROVE \E i \in Ids : New(i) /\ holds' = holds
    <2>1. conn[k].path \in Ids
      BY <1>0, <1>8, OwnerAssumption DEF NewByPath, LoopShape, Ids
    <2> QED
      BY <1>8, <2>1 DEF NewByPath, testVars
  <1>9. ASSUME NEW k \in Conns, CaptureFrame(k)
        PROVE  sessions' = sessions /\ holds' = holds /\ \A o \in Objs : obj'[o].id = obj[o].id
    <2>1. conn[k].sess \in Objs
      BY <1>9, FrameCallback DEF CaptureFrame, RegInv
    <2> QED
      BY <1>0, <1>9, <2>1, RecordIds DEF CaptureFrame, testVars
  <1>10. CASE UNCHANGED <<sessions, obj, holds>>
    BY <1>10
  <1>11. ASSUME NEW k \in Conns,
                \/ ByPath(k) \/ ById(k) \/ BySid(k) \/ BindAppConn(k) \/ BindSid(k)
                \/ AppOutcome(k) \/ AckBegins(k) \/ AckEnds(k) \/ Jambonz(k)
         PROVE  UNCHANGED <<sessions, obj, holds>>
    BY <1>11 DEF ByPath, ById, BySid, BindAppConn, BindSid, AppOutcome, AckBegins, AckEnds,
             Jambonz, Connect, ReadFrame, ReadErr, webhookVars, regVars, testVars
  <1>12. ASSUME NEW h \in Handlers, Route(h) \/ Bind(h) \/ Reply(h) \/ Return(h)
         PROVE  UNCHANGED <<sessions, obj, holds>>
    BY <1>12 DEF Route, Bind, Reply, Return, regVars, testVars
  <1>13. ASSUME NEW t \in Tests, SendCommand(t) \/ CommandSent(t)
         PROVE  UNCHANGED <<sessions, obj, holds>>
    BY <1>13 DEF SendCommand, CommandSent, webhookVars, regVars, testVars
  <1>14. ASSUME Arrival \/ UNCHANGED allVars \/ \E c \in Calls : PlaceCall(c)
         PROVE  UNCHANGED <<sessions, obj, holds>>
    BY <1>14 DEF Arrival, Post, PlaceCall, allVars, webhookVars, regVars, testVars
  <1> QED
    BY <1>1, <1>2, <1>3, <1>4, <1>5, <1>6, <1>7, <1>8, <1>9, <1>10, <1>11, <1>12, <1>13, <1>14
       DEF AppNext, TestStep, HandlerStep, LoopStep

\* No step changes an ID, replaces a session that a test holds, or takes one from
\* a test but its own release.
LEMMA StepReg ==
  ASSUME RegInv, [AppNext]_allVars
  PROVE  /\ RegInv' /\ IdsStay
         /\ \A t \in Tests : holds[t] # None => holds'[t] = holds[t] \/ AppRelease(t)
  <1>0. TypeOK /\ AppShape'
    BY StepAppShape DEF RegInv, AppShape, AppTypeOK
  <1>a. Tests \subseteq Ids /\ None \notin Ids /\ None \notin Objs
    BY IdsAssumption DEF Ids
  <1>b. sessions \in [Ids -> Objs \cup {None}] /\ holds \in [Tests -> Objs \cup {None}]
    BY <1>0 DEF TypeOK
  <1>1. CASE sessions' = sessions /\ holds' = holds /\ \A o \in Objs : obj'[o].id = obj[o].id
    <2>1. OwnId' /\ HeldSessionStable'
      BY <1>1, <1>b DEF RegInv, OwnId, HeldSessionStable
    <2> QED
      BY <1>0, <1>1, <2>1 DEF RegInv, IdsStay
  <1>2. ASSUME NEW i \in Ids, New(i)
        PROVE  /\ IdsStay /\ OwnId' /\ sessions'[i] \in Objs
               /\ \A j \in Ids : sessions[j] # None => sessions'[j] = sessions[j]
    <2>1. /\ \A o \in Objs : obj[o].id # None => obj'[o].id = obj[o].id
          /\ \A j \in Ids : sessions[j] # None => sessions'[j] = sessions[j]
          /\ sessions'[i] \in Objs
          /\ \A j \in Ids : sessions'[j] # None => obj'[sessions'[j]].id = j
      BY <1>0, <1>2, NewKeeps DEF RegInv
    <2> QED
      BY <2>1 DEF IdsStay, OwnId
  <1>3. ASSUME NEW i \in Ids, New(i), holds' = holds
        PROVE  /\ RegInv' /\ IdsStay
               /\ \A t \in Tests : holds[t] # None => holds'[t] = holds[t] \/ AppRelease(t)
    <2>1. HeldSessionStable'
      BY <1>2, <1>3, <1>a DEF RegInv, HeldSessionStable
    <2> QED
      BY <1>0, <1>2, <1>3, <2>1 DEF RegInv
  <1>4. ASSUME NEW t \in Tests, New(t), holds[t] = None, holds' = [holds EXCEPT ![t] = sessions'[t]]
        PROVE  /\ RegInv' /\ IdsStay
               /\ \A u \in Tests : holds[u] # None => holds'[u] = holds[u] \/ AppRelease(u)
    <2>1. t \in Ids
      BY <1>a
    <2>2. holds'[t] = sessions'[t] /\ \A u \in Tests \ {t} : holds'[u] = holds[u]
      BY <1>4, <1>b
    <2>3. HeldSessionStable'
      BY <1>2, <1>4, <1>a, <2>1, <2>2 DEF RegInv, HeldSessionStable
    <2> QED
      BY <1>0, <1>2, <1>4, <2>1, <2>2, <2>3 DEF RegInv
  <1>5. ASSUME NEW t \in Tests, AppRelease(t)
        PROVE  /\ RegInv' /\ IdsStay
               /\ \A u \in Tests : holds[u] # None => holds'[u] = holds[u] \/ AppRelease(u)
    <2>1. /\ sessions' = [sessions EXCEPT ![t] = None] /\ obj' = obj
          /\ holds' = [holds EXCEPT ![t] = None]
      BY <1>5 DEF AppRelease, Release
    <2>2. OwnId' /\ HeldSessionStable'
      BY <1>a, <1>b, <2>1 DEF RegInv, OwnId, HeldSessionStable
    <2> QED
      BY <1>0, <1>5, <1>b, <2>1, <2>2 DEF RegInv, IdsStay
  <1> QED
    BY <1>1, <1>3, <1>4, <1>5, RegKinds
-----------------------------------------------------------------------------
(* Who is served by whom.                                                  *)

(* A request names the test of its call or none.                           *)
ReqNames ==
    \A h \in Handlers :
        req[h].pc # "idle" => req[h].id \in {None, CallOwner[req[h].call]}

(* A call is bound to its test, or to the placeholder that serves one of   *)
(* its sockets.                                                            *)
IndexOk ==
    \A c \in Calls :
        /\ callSidIndex[c] \in {None, CallOwner[c], Shared}
        /\ callSidIndex[c] = Shared => OnPlaceholder(c)

(* A socket is served by its test's session or by the placeholder.         *)
ServedOk ==
    \A k \in Conns :
        conn[k].sess # None =>
            obj[conn[k].sess].id \in {CallOwner[conn[k].call], Shared}

ServeInv == RegInv /\ ReqNames /\ IndexOk /\ ServedOk

\* A socket with a session is open, and its session an object.
LEMMA ServedOpen ==
  ASSUME AppShape, NEW k \in Conns, conn[k].sess # None
  PROVE  conn[k].pc # "unopened" /\ conn[k].sess \in Objs /\ conn[k].call \in Calls
  <1>1. conn[k] \in Loop
    BY DEF AppShape, AppTypeOK
  <1> QED
    BY <1>1, LoopFields DEF AppShape, LoopShape

\* A socket once served by the placeholder is served by it for good.
LEMMA PlaceholderStays ==
  ASSUME RegInv, [AppNext]_allVars
  PROVE  /\ \A k \in Conns : ByPlaceholder(k) => ByPlaceholder(k)' /\ conn'[k].call = conn[k].call
         /\ \A c \in Calls : OnPlaceholder(c) => OnPlaceholder(c)'
  <1>1. ASSUME NEW k \in Conns, ByPlaceholder(k)
        PROVE  ByPlaceholder(k)' /\ conn'[k].call = conn[k].call
    <2>1. conn[k].pc # "unopened" /\ conn[k].sess \in Objs /\ conn[k].sess # None
      BY <1>1, ServedOpen DEF RegInv, ByPlaceholder
    <2>2. conn'[k].sess = conn[k].sess /\ conn'[k].call = conn[k].call
      BY <2>1, StepLoop DEF RegInv, AppShape, Stays
    <2>3. obj[conn[k].sess].id = Shared /\ Shared # None
      BY <1>1, IdsAssumption DEF ByPlaceholder
    <2>4. obj'[conn[k].sess].id = Shared
      BY <2>1, <2>3, StepReg DEF IdsStay
    <2> QED
      BY <2>1, <2>2, <2>4 DEF ByPlaceholder
  <1> QED
    BY <1>1 DEF OnPlaceholder

\* Which steps touch the requests.
LEMMA ReqKinds ==
  ASSUME [AppNext]_allVars
  PROVE  \/ req' = req
         \/ \E t \in Tests : AppRelease(t)
         \/ Arrival
         \/ \E h \in Handlers : HandlerStep(h) /\ UNCHANGED appVars
  <1>1. ASSUME NEW k \in Conns, LoopStep(k) \/ Jambonz(k) PROVE req' = req
    BY <1>1, LoopLeaves
  <1>2. TestStep => req' = req
    BY DEF TestStep, Claim, Script, WaitCallback, PlaceCall, testVars
  <1> QED
    BY <1>1, <1>2 DEF AppNext, SendCommand, CommandSent, allVars, webhookVars

\* A release changes no more of a request than sure.
LEMMA ReleaseReq ==
  ASSUME TypeOK, Shape, NEW t \in Tests, Release(t)
  PROVE  \A h \in Handlers :
             /\ req'[h].pc = req[h].pc /\ req'[h].id = req[h].id
             /\ req'[h].call = req[h].call /\ req'[h].sess = req[h].sess
             /\ req'[h].sure => req[h].sure
             /\ req'[h].sure /\ req[h].call # None => CallOwner[req[h].call] # t
  <1> SUFFICES ASSUME NEW h \in Handlers
               PROVE  /\ req'[h].pc = req[h].pc /\ req'[h].id = req[h].id
                      /\ req'[h].call = req[h].call /\ req'[h].sess = req[h].sess
                      /\ req'[h].sure => req[h].sure
                      /\ req'[h].sure /\ req[h].call # None => CallOwner[req[h].call] # t
    OBVIOUS
  <1>1. req[h] \in Request
    BY DEF TypeOK
  <1>2. CASE req[h].call # None /\ CallOwner[req[h].call] = t
    <2>1. req'[h] = [req[h] EXCEPT !.sure = FALSE]
      BY <1>2 DEF Release
    <2> QED
      BY <1>1, <2>1 DEF Request
  <1>3. CASE ~(req[h].call # None /\ CallOwner[req[h].call] = t)
    <2>1. req'[h] = req[h]
      BY <1>3 DEF Release
    <2> QED
      BY <1>3, <2>1
  <1> QED
    BY <1>2, <1>3

\* An arrival fills one handler.
LEMMA ArrivalReq ==
  ASSUME TypeOK, Arrival
  PROVE  \E h \in Handlers, c \in Calls : \E i \in {CallOwner[c], None} :
             /\ req'[h].pc = "route" /\ req'[h].call = c /\ req'[h].id = i
             /\ req'[h].sure <=> Correlated(c, i)
             /\ \A g \in Handlers \ {h} : req'[g] = req[g]
             /\ UNCHANGED <<callSidIndex, holds>>
  <1>1. PICK h \in Handlers, c \in Calls, k \in Routes : \E i \in {CallOwner[c], None} : Post(h, c, i, k)
    BY DEF Arrival
  <1>2. PICK i \in {CallOwner[c], None} : Post(h, c, i, k)
    BY <1>1
  <1>3. /\ req'[h].pc = "route" /\ req'[h].call = c /\ req'[h].id = i
        /\ \A g \in Handlers \ {h} : req'[g] = req[g]
    BY <1>2 DEF Post, TypeOK, Idle
  <1>4. req'[h].sure = Correlated(c, i)
    BY <1>2 DEF Post, TypeOK, Idle
  <1>5. UNCHANGED <<callSidIndex, holds>>
    BY <1>2 DEF Post, regVars, testVars
  <1> QED
    BY <1>3, <1>4, <1>5

\* A handler keeps the call and the ID of its request until it returns.
LEMMA HandlerReq ==
  ASSUME TypeOK, NEW h \in Handlers, HandlerStep(h)
  PROVE  /\ \A g \in Handlers \ {h} : req'[g] = req[g]
         /\ \/ req'[h].pc = "idle" /\ ~req'[h].sure
            \/ /\ req[h].pc # "idle"
               /\ req'[h].call = req[h].call /\ req'[h].id = req[h].id
               /\ req'[h].sure = req[h].sure
  <1>1. req \in [Handlers -> Request] /\ req[h] \in Request
    BY DEF TypeOK
  <1>2. CASE Return(h)
    BY <1>1, <1>2 DEF Return, Idle
  <1>3. CASE Route(h)
    BY <1>1, <1>3 DEF Route, Request
  <1>4. CASE Create(h)
    BY <1>1, <1>4 DEF Create, Request
  <1>5. CASE Bind(h)
    BY <1>1, <1>5 DEF Bind, Request
  <1>6. CASE CreateAnon(h)
    BY <1>1, <1>6 DEF CreateAnon, Request
  <1>7. CASE Capture(h)
    BY <1>1, <1>7 DEF Capture, Request
  <1>8. CASE Reply(h)
    BY <1>1, <1>8 DEF Reply, Request
  <1> QED
    BY <1>2, <1>3, <1>4, <1>5, <1>6, <1>7, <1>8 DEF HandlerStep

\* Requests keep naming the test of their call.
LEMMA StepNames == ServeInv /\ [AppNext]_allVars => ReqNames'
  <1> SUFFICES ASSUME ServeInv, [AppNext]_allVars PROVE ReqNames'
    OBVIOUS
  <1>0. TypeOK /\ Shape /\ ReqNames
    BY DEF ServeInv, RegInv, AppShape, AppTypeOK
  <1>1. CASE req' = req
    BY <1>0, <1>1 DEF ReqNames
  <1>2. ASSUME NEW t \in Tests, AppRelease(t) PROVE ReqNames'
    <2>1. \A h \in Handlers : /\ req'[h].pc = req[h].pc /\ req'[h].id = req[h].id
                              /\ req'[h].call = req[h].call
      BY <1>0, <1>2, ReleaseReq DEF AppRelease
    <2> QED
      BY <1>0, <2>1 DEF ReqNames
  <1>3. CASE Arrival
    BY <1>0, <1>3, ArrivalReq DEF ReqNames
  <1>4. ASSUME NEW h \in Handlers, HandlerStep(h) PROVE ReqNames'
    <2>1. \A g \in Handlers \ {h} : req'[g] = req[g]
      BY <1>0, <1>4, HandlerReq
    <2>2. \/ req'[h].pc = "idle"
          \/ req[h].pc # "idle" /\ req'[h].call = req[h].call /\ req'[h].id = req[h].id
      BY <1>0, <1>4, HandlerReq
    <2> QED
      BY <1>0, <2>1, <2>2 DEF ReqNames
  <1> QED
    BY <1>1, <1>2, <1>3, <1>4, ReqKinds

\* Which steps bind a call, and to what.
LEMMA IndexKinds ==
  ASSUME ServeInv, [AppNext]_allVars
  PROVE  \/ callSidIndex' = callSidIndex
         \/ \E c \in Calls : \E i \in {CallOwner[c], Shared} :
               /\ callSidIndex' = [callSidIndex EXCEPT ![c] = i]
               /\ i = Shared => OnPlaceholder(c)
  <1>0. TypeOK /\ Shape /\ ReqNames
    BY DEF ServeInv, RegInv, AppShape, AppTypeOK
  <1>1. ASSUME NEW h \in Handlers, Bind(h)
        PROVE  \E c \in Calls : \E i \in {CallOwner[c], Shared} :
                  /\ callSidIndex' = [callSidIndex EXCEPT ![c] = i]
                  /\ i = Shared => OnPlaceholder(c)
    <2>1. req[h].call \in Calls /\ req[h].id = CallOwner[req[h].call]
      BY <1>0, <1>1, RequestFields DEF Bind, Shape, ReqNames, TypeOK
    <2>2. CallOwner[req[h].call] # Anon /\ CallOwner[req[h].call] # Shared
      BY <2>1, OwnerAssumption, IdsAssumption
    <2>3. callSidIndex' = [callSidIndex EXCEPT ![req[h].call] = CallOwner[req[h].call]]
      BY <1>1, <2>1, <2>2 DEF Bind, BindCallSid
    <2> QED
      BY <2>1, <2>2, <2>3
  <1>2. ASSUME NEW k \in Conns, BindSid(k)
        PROVE  \E c \in Calls : \E i \in {CallOwner[c], Shared} :
                  /\ callSidIndex' = [callSidIndex EXCEPT ![c] = i]
                  /\ i = Shared => OnPlaceholder(c)
    <2> DEFINE i == obj[conn[k].sess].id
    <2>1. conn[k].sess # None
      BY <1>2 DEF BindSid, ServeInv, RegInv, AppShape, LoopShape, Serving
    <2>2. conn[k].call \in Calls
      BY <2>1, ServedOpen DEF ServeInv, RegInv
    <2>3. i \in {CallOwner[conn[k].call], Shared} /\ i # Anon
      BY <2>1, <2>2, OwnerAssumption, IdsAssumption DEF ServeInv, ServedOk
    <2>4. callSidIndex' = [callSidIndex EXCEPT ![conn[k].call] = i]
      BY <1>2, <2>3 DEF BindSid, BindCallSid
    <2>5. i = Shared => OnPlaceholder(conn[k].call)
      BY <2>1 DEF OnPlaceholder, ByPlaceholder
    <2> QED
      BY <2>2, <2>3, <2>4, <2>5
  <1>3. ASSUME NEW h \in Handlers,
               \/ Route(h) \/ Create(h) \/ CreateAnon(h) \/ Capture(h) \/ Reply(h) \/ Return(h)
        PROVE  callSidIndex' = callSidIndex
    BY <1>3 DEF Route, Create, CreateAnon, Capture, Reply, Return, regVars
  <1>4. ASSUME NEW k \in Conns,
               \/ ByPath(k) \/ ById(k) \/ NewById(k) \/ BySid(k) \/ NewByPath(k)
               \/ BindAppConn(k) \/ CaptureFrame(k) \/ AppOutcome(k) \/ AckBegins(k)
               \/ AckEnds(k) \/ Jambonz(k)
        PROVE  callSidIndex' = callSidIndex
    BY <1>4 DEF ByPath, ById, NewById, BySid, NewByPath, BindAppConn, CaptureFrame, AppOutcome,
             AckBegins, AckEnds, Jambonz, Connect, ReadFrame, ReadErr, webhookVars, regVars
  <1>5. ASSUME NEW t \in Tests, AppRelease(t) \/ SendCommand(t) \/ CommandSent(t)
        PROVE  callSidIndex' = callSidIndex
    BY <1>5 DEF AppRelease, Release, SendCommand, CommandSent, webhookVars, regVars
  <1>6. TestStep \/ Arrival \/ UNCHANGED allVars => callSidIndex' = callSidIndex
    BY DEF TestStep, Claim, Script, WaitCallback, PlaceCall, Arrival, Post, allVars, webhookVars, regVars
  <1>7. callSidIndex' = callSidIndex \/ (\E h \in Handlers : Bind(h)) \/ (\E k \in Conns : BindSid(k))
    BY <1>3, <1>4, <1>5, <1>6 DEF AppNext, HandlerStep, LoopStep
  <1> QED
    BY <1>1, <1>2, <1>7

\* Calls stay bound to their test or the placeholder, and never become unbound.
LEMMA StepIndex ==
  ASSUME ServeInv, [AppNext]_allVars
  PROVE  IndexOk' /\ \A c \in Calls : callSidIndex[c] # None => callSidIndex'[c] # None
  <1>0. callSidIndex \in [Calls -> Ids \cup {None}]
    BY DEF ServeInv, RegInv, AppShape, AppTypeOK, TypeOK
  <1>1. \A c \in Calls : OnPlaceholder(c) => OnPlaceholder(c)'
    BY PlaceholderStays DEF ServeInv
  <1>2. CASE callSidIndex' = callSidIndex
    BY <1>1, <1>2 DEF ServeInv, IndexOk
  <1>3. ASSUME NEW c \in Calls, NEW i \in {CallOwner[c], Shared},
               callSidIndex' = [callSidIndex EXCEPT ![c] = i],
               i = Shared => OnPlaceholder(c)
        PROVE  IndexOk' /\ \A d \in Calls : callSidIndex[d] # None => callSidIndex'[d] # None
    <2>1. callSidIndex'[c] = i /\ \A d \in Calls \ {c} : callSidIndex'[d] = callSidIndex[d]
      BY <1>0, <1>3
    <2>2. i # None
      BY OwnerAssumption, IdsAssumption
    <2>3. IndexOk'
      BY <1>1, <1>3, <2>1 DEF ServeInv, IndexOk
    <2> QED
      BY <2>1, <2>2, <2>3
  <1> QED
    BY <1>2, <1>3, IndexKinds

\* The session a loop finds or makes is its test's or the placeholder.
LEMMA LoopServes ==
  ASSUME ServeInv, NEW k \in Conns, LoopStep(k) \/ ReadErr(k),
         conn[k].sess = None, conn'[k].sess # None
  PROVE  obj'[conn'[k].sess].id \in {CallOwner[conn[k].call], Shared}
  <1>0. AppTypeOK /\ LoopShape /\ TypeOK /\ OwnId /\ IndexOk
    BY DEF ServeInv, RegInv, AppShape, AppTypeOK
  <1>1. conn[k].pc # "unopened"
    BY DEF LoopStep, ByPath, ById, NewById, BySid, NewByPath, BindAppConn, BindSid, CaptureFrame,
           AppOutcome, AckBegins, AckEnds, ReadErr
  <1>2. /\ conn[k].call \in Calls /\ conn[k].path \in Ids
        /\ conn[k].id # None => conn[k].id \in Ids
        /\ FoundByPath(k) \in Objs \cup {None}
        /\ conn[k].id # None => Lookup(conn[k].id) \in Objs \cup {None}
        /\ LookupByCallSid(conn[k].call) \in Objs \cup {None}
    BY <1>0, <1>1, LookupTypes
  <1>3. /\ conn[k].path \in {CallOwner[conn[k].call], Shared}
        /\ conn[k].id \in {None, CallOwner[conn[k].call]}
        /\ conn[k].pc \in {"byId", "newId"} => conn[k].id # None
        /\ conn[k].pc \notin Serving
    BY <1>0, <1>1 DEF LoopShape
  <1>4. CASE ByPath(k)
    <2>1. CASE FoundByPath(k) # None
      <3>1. conn'[k].sess = FoundByPath(k) /\ obj' = obj
        BY <1>0, <1>2, <1>4, <2>1, GotoMoves DEF ByPath, Moves, Pcs, webhookVars, regVars
      <3> QED
        BY <1>0, <1>2, <1>3, <2>1, <3>1 DEF FoundByPath, Lookup, OwnId
    <2>2. CASE FoundByPath(k) = None
      <3>1. AfterPath(k) \in Pcs
        BY DEF AfterPath, Pcs
      <3>2. conn'[k].sess = None
        BY <1>0, <1>4, <2>2, <3>1, GotoMoves DEF ByPath, Moves
      <3> QED
        BY <3>2
    <2> QED
      BY <2>1, <2>2
  <1>5. CASE ById(k)
    <2>0. conn[k].id = CallOwner[conn[k].call] /\ conn[k].id \in Ids
      BY <1>2, <1>3, <1>5 DEF ById
    <2>1. CASE Lookup(conn[k].id) # None
      <3>1. conn'[k].sess = Lookup(conn[k].id) /\ obj' = obj
        BY <1>0, <1>2, <1>5, <2>0, <2>1, GotoMoves, IdsAssumption DEF ById, Moves, Pcs, webhookVars, regVars, Ids
      <3> QED
        BY <1>0, <2>0, <2>1, <3>1 DEF Lookup, OwnId
    <2>2. CASE Lookup(conn[k].id) = None
      BY <1>0, <1>5, <2>2, GotoMoves DEF ById, Moves, Pcs
    <2> QED
      BY <2>1, <2>2
  <1>6. ASSUME NEW i \in Ids, New(i), Goto(k, "bindConn", sessions'[i]),
               i \in {CallOwner[conn[k].call], Shared}
        PROVE  obj'[conn'[k].sess].id \in {CallOwner[conn[k].call], Shared}
    <2>1. sessions'[i] \in Objs /\ obj'[sessions'[i]].id = i
      BY <1>0, <1>6, NewKeeps, IdsAssumption
    <2>2. conn'[k].sess = sessions'[i]
      BY <1>0, <1>6, <2>1, GotoMoves DEF Moves, Pcs
    <2> QED
      BY <1>6, <2>1, <2>2
  <1>7. CASE NewById(k)
    BY <1>2, <1>3, <1>6, <1>7 DEF NewById
  <1>8. CASE NewByPath(k)
    BY <1>2, <1>3, <1>6, <1>8 DEF NewByPath
  <1>9. CASE BySid(k)
    <2> DEFINE o == LookupByCallSid(conn[k].call)
    <2>1. conn'[k].sess = o /\ obj' = obj
      BY <1>0, <1>2, <1>9, GotoMoves DEF BySid, Moves, Pcs, webhookVars, regVars
    <2>2. callSidIndex[conn[k].call] \in {CallOwner[conn[k].call], Shared}
      BY <1>0, <1>2, <2>1 DEF LookupByCallSid, IndexOk
    <2>3. callSidIndex[conn[k].call] \in Ids
      BY <1>2, <2>2, OwnerAssumption DEF Ids
    <2>4. o = sessions[callSidIndex[conn[k].call]] /\ o # None
      BY <2>1, <2>3, IdsAssumption DEF LookupByCallSid, Ids
    <2> QED
      BY <1>0, <2>1, <2>2, <2>3, <2>4 DEF OwnId
  <1>10. CASE ReadErr(k)
    <2>1. conn'[k].sess = conn[k].sess
      <3>1. conn[k] \in Loop /\ conn \in [Conns -> Loop]
        BY <1>0 DEF AppTypeOK
      <3> QED
        BY <1>10, <3>1 DEF ReadErr, Loop
    <2> QED
      BY <2>1
  <1> QED
    BY <1>3, <1>4, <1>5, <1>7, <1>8, <1>9, <1>10
       DEF LoopStep, BindAppConn, BindSid, CaptureFrame, AppOutcome, AckBegins, AckEnds, Serving

\* Sockets stay served by their test's session or by the placeholder.
LEMMA StepServed == ServeInv /\ [AppNext]_allVars => ServedOk'
  <1> SUFFICES ASSUME ServeInv, [AppNext]_allVars, NEW k \in Conns, conn'[k].sess # None
               PROVE  obj'[conn'[k].sess].id \in {CallOwner[conn'[k].call], Shared}
    BY DEF ServedOk
  <1>0. AppShape /\ AppTypeOK /\ LoopShape
    BY DEF ServeInv, RegInv, AppShape
  <1>1. Stays(k) /\ IdsStay
    BY <1>0, StepLoop, StepReg DEF ServeInv
  <1>2. CASE conn[k].sess # None
    <2>1. conn[k].pc # "unopened" /\ conn[k].sess \in Objs /\ conn[k].call \in Calls
      BY <1>0, <1>2, ServedOpen
    <2>2. obj[conn[k].sess].id \in {CallOwner[conn[k].call], Shared}
      BY <1>2 DEF ServeInv, ServedOk
    <2>3. obj[conn[k].sess].id # None
      BY <2>1, <2>2, OwnerAssumption, IdsAssumption
    <2>4. conn'[k].sess = conn[k].sess /\ conn'[k].call = conn[k].call
      BY <1>1, <1>2, <2>1 DEF Stays
    <2> QED
      BY <1>1, <2>1, <2>2, <2>3, <2>4 DEF IdsStay
  <1>3. CASE conn[k].sess = None
    <2>1. conn[k].pc # "unopened" /\ conn'[k].call = conn[k].call
      BY <1>1 DEF Stays
    <2>2. LoopStep(k) \/ ReadErr(k)
      <3>1. conn' # conn
        BY <1>3
      <3>2. ASSUME NEW j \in Conns, LoopStep(j) \/ ReadErr(j) PROVE j = k
        <4>1. \A i \in Conns \ {j} : conn'[i] = conn[i]
          BY <1>0, <3>2, LoopMoves DEF Moves
        <4> QED
          BY <1>3, <4>1
      <3>3. ASSUME NEW j \in Conns, NEW c \in Calls, NEW p \in {CallOwner[c], Shared}, Connect(j, c, p)
            PROVE  conn'[k].sess = conn[k].sess
        BY <1>0, <3>3, ConnectOpens
      <3>4. ASSUME NEW j \in Conns, NEW f \in FrameTypes, NEW i \in Tests \cup {None}, ReadFrame(j, f, i)
            PROVE  conn'[k].sess = conn[k].sess
        BY <1>0, <3>4, FrameRead
      <3>5. ASSUME NEW t \in Tests, AppRelease(t) PROVE conn'[k].sess = conn[k].sess
        BY <1>0, <3>5, ReleaseUnsures
      <3> QED
        BY <1>3, <3>1, <3>2, <3>3, <3>4, <3>5, ConnKinds
    <2> QED
      BY <1>3, <2>1, <2>2, LoopServes
  <1> QED
    BY <1>2, <1>3

LEMMA StepServe == ServeInv /\ [AppNext]_allVars => ServeInv'
  BY StepReg, StepNames, StepIndex, StepServed DEF ServeInv

LEMMA InitServe == AppInit => ServeInv
  <1> SUFFICES ASSUME AppInit PROVE ServeInv
    OBVIOUS
  <1>1. OwnId /\ HeldSessionStable /\ AppShape
    BY InitAppShape, InitRoute DEF AppInit, RouteInv, Filed
  <1>2. ReqNames /\ IndexOk /\ ServedOk
    BY IdsAssumption DEF AppInit, Init, Idle, Unopened, ReqNames, IndexOk, ServedOk
  <1> QED
    BY <1>1, <1>2 DEF ServeInv, RegInv
-----------------------------------------------------------------------------
(* Commands.                                                               *)

(* The socket a session hands out is of the session's test, unless the     *)
(* session is the placeholder.                                             *)
HandsOut ==
    \A o \in Objs :
        appConn[o] # None =>
            /\ conn[appConn[o]].pc # "unopened"
            /\ obj[o].id \in {CallOwner[conn[appConn[o]].call], Shared}

CommandOk ==
    \A t \in Tests :
        cmd[t] # None =>
            /\ conn[cmd[t].conn].pc # "unopened"
            /\ CallOwner[conn[cmd[t].conn].call] = t

CommandInv == ServeInv /\ HandsOut /\ CommandOk

LEMMA StepHandsOut == CommandInv /\ [AppNext]_allVars => HandsOut'
  <1> SUFFICES ASSUME CommandInv, [AppNext]_allVars, NEW o \in Objs, appConn'[o] # None
               PROVE  /\ conn'[appConn'[o]].pc # "unopened"
                      /\ obj'[o].id \in {CallOwner[conn'[appConn'[o]].call], Shared}
    BY DEF HandsOut
  <1>0. AppShape /\ AppTypeOK /\ LoopShape /\ RegInv /\ ServeInv
    BY DEF CommandInv, ServeInv, RegInv, AppShape
  <1>1. (\A k \in Conns : Stays(k)) /\ IdsStay
    BY <1>0, StepLoop, StepReg
  <1>2. ASSUME NEW k \in Conns, conn[k].pc # "unopened", appConn'[o] = k,
               obj[o].id \in {CallOwner[conn[k].call], Shared}
        PROVE  /\ conn'[appConn'[o]].pc # "unopened"
               /\ obj'[o].id \in {CallOwner[conn'[appConn'[o]].call], Shared}
    <2>1. conn'[k].pc # "unopened" /\ conn'[k].call = conn[k].call /\ conn[k].call \in Calls
      BY <1>0, <1>1, <1>2 DEF Stays, LoopShape
    <2>2. obj[o].id # None
      BY <1>2, <2>1, OwnerAssumption, IdsAssumption
    <2> QED
      BY <1>1, <1>2, <2>1, <2>2 DEF IdsStay
  <1>3. CASE appConn'[o] = appConn[o]
    <2>1. appConn[o] \in Conns
      BY <1>0, <1>3 DEF AppTypeOK
    <2> QED
      BY <1>2, <1>3, <2>1 DEF CommandInv, HandsOut
  <1>4. ASSUME NEW k \in Conns, BindAppConn(k), appConn'[o] # appConn[o]
        PROVE  /\ conn'[appConn'[o]].pc # "unopened"
               /\ obj'[o].id \in {CallOwner[conn'[appConn'[o]].call], Shared}
    <2>1. conn[k].pc = "bindConn" /\ conn[k].sess # None
      BY <1>0, <1>4 DEF BindAppConn, LoopShape, Serving
    <2>2. conn[k].sess = o /\ appConn'[o] = k
      BY <1>0, <1>4 DEF BindAppConn, AppTypeOK
    <2>3. obj[o].id \in {CallOwner[conn[k].call], Shared}
      BY <1>0, <2>1, <2>2 DEF ServeInv, ServedOk
    <2> QED
      BY <1>2, <2>1, <2>2, <2>3
  <1>5. appConn' = appConn \/ \E k \in Conns : BindAppConn(k)
    BY ZenonT(60) DEF AppNext, AppRelease, SendCommand, CommandSent, LoopStep, ByPath, ById, NewById,
           BySid, NewByPath, BindSid, CaptureFrame, AppOutcome, AckBegins, AckEnds, Jambonz,
           Connect, ReadFrame, ReadErr, allVars, appVars
  <1> QED
    BY <1>3, <1>4, <1>5

LEMMA StepCommand == CommandInv /\ [AppNext]_allVars => CommandOk'
  <1> SUFFICES ASSUME CommandInv, [AppNext]_allVars, NEW t \in Tests, cmd'[t] # None
               PROVE  /\ conn'[cmd'[t].conn].pc # "unopened"
                      /\ CallOwner[conn'[cmd'[t].conn].call] = t
    BY DEF CommandOk
  <1>0. AppTypeOK /\ LoopShape /\ RegInv /\ TypeOK
    BY DEF CommandInv, ServeInv, RegInv, AppShape, AppTypeOK
  <1>1. \A k \in Conns : Stays(k)
    BY <1>0, StepLoop
  <1>2. cmd \in [Tests -> Command \cup {None}]
    BY <1>0 DEF AppTypeOK
  <1>3. CASE cmd'[t] = cmd[t]
    <2>1. cmd[t] \in Command /\ cmd[t].conn \in Conns
      BY <1>2, <1>3 DEF Command
    <2>2. conn[cmd[t].conn].pc # "unopened" /\ CallOwner[conn[cmd[t].conn].call] = t
      BY <1>3 DEF CommandInv, CommandOk
    <2> QED
      BY <1>1, <1>3, <2>1, <2>2 DEF Stays
  <1>4. CASE SendCommand(t)
    <2> DEFINE k == appConn[holds[t]]
    <2>1. holds[t] \in Objs /\ holds[t] # None /\ k \in Conns /\ k # None
      BY <1>0, <1>4 DEF SendCommand, AppTypeOK, TypeOK
    <2>2. obj[holds[t]].id = t
      BY <1>0, <2>1 DEF RegInv, HeldSessionStable, OwnId, Ids
    <2>3. conn[k].pc # "unopened" /\ CallOwner[conn[k].call] = t
      BY <2>1, <2>2, IdsAssumption DEF CommandInv, HandsOut
    <2>4. cmd'[t].conn = k
      BY <1>2, <1>4 DEF SendCommand
    <2> QED
      BY <1>1, <2>1, <2>3, <2>4 DEF Stays
  <1>5. ASSUME NEW u \in Tests, SendCommand(u) \/ CommandSent(u), u # t PROVE cmd'[t] = cmd[t]
    BY <1>2, <1>5 DEF SendCommand, CommandSent
  <1>6. ~CommandSent(t)
    BY <1>2 DEF CommandSent
  <1>7. ASSUME NEW k \in Conns, LoopStep(k) \/ Jambonz(k) PROVE cmd' = cmd
    BY <1>7, LoopLeaves
  <1>8. cmd' = cmd \/ \E u \in Tests : SendCommand(u) \/ CommandSent(u)
    BY <1>7 DEF AppNext, AppRelease, allVars, appVars
  <1> QED
    BY <1>3, <1>4, <1>5, <1>6, <1>8

\* SendCommand of a test writes on a socket of a call of that test, for any number
\* of tests in parallel on the shared path, whatever frames and hooks bound before.
THEOREM CommandsReachOwnCall == AppSpec => []CommandsOnOwnCall
  <1>1. AppInit => CommandInv
    <2>1. AppInit => HandsOut /\ CommandOk
      BY DEF AppInit, HandsOut, CommandOk
    <2> QED
      BY <2>1, InitServe DEF CommandInv
  <1>2. CommandInv /\ [AppNext]_allVars => CommandInv'
    BY StepServe, StepHandsOut, StepCommand DEF CommandInv
  <1>3. CommandInv => CommandsOnOwnCall
    BY DEF CommandInv, CommandOk, CommandsOnOwnCall
  <1> QED
    BY <1>1, <1>2, <1>3, PTL DEF AppSpec

-----------------------------------------------------------------------------
(* Sure routing of sockets.                                                *)

(* No other socket of the call of k is served by the placeholder.          *)
OthersOff(k) ==
    \A j \in Conns \ {k} : conn[j].call = conn[k].call => ~ByPlaceholder(j)

(* The search of resolveAppWSSession cannot miss the session the test      *)
(* holds: each point it is at has something that names the test.           *)
OnTrack(k) ==
    /\ conn[k].pc \notin {"newId", "newPath"}
    /\ conn[k].pc = "path" =>
          \/ conn[k].id # None
          \/ callSidIndex[conn[k].call] # None
          \/ conn[k].path # Shared
    /\ conn[k].pc = "bySid" => callSidIndex[conn[k].call] # None
    /\ conn[k].sess # None => conn[k].sess = holds[CallOwner[conn[k].call]]

SocketSure ==
    \A k \in Conns :
        conn[k].sure =>
            /\ holds[CallOwner[conn[k].call]] # None
            /\ OthersOff(k) => OnTrack(k)

SocketInv == ServeInv /\ SocketSure

\* A loop on track stays on it.
LEMMA LoopOnTrack ==
  ASSUME SocketInv, [AppNext]_allVars, NEW k \in Conns, LoopStep(k) \/ ReadErr(k),
         conn[k].sure, OthersOff(k)
  PROVE  OnTrack(k)'
  <1>0. AppTypeOK /\ LoopShape /\ TypeOK /\ ServeInv /\ HeldSessionStable
    BY DEF SocketInv, ServeInv, RegInv, AppShape, AppTypeOK
  <1>1. conn[k].pc # "unopened"
    BY <1>0 DEF LoopShape
  <1>2. /\ conn[k].call \in Calls /\ conn[k].path \in Ids
        /\ conn[k].id # None => conn[k].id \in Ids
        /\ FoundByPath(k) \in Objs \cup {None}
        /\ conn[k].id # None => Lookup(conn[k].id) \in Objs \cup {None}
        /\ LookupByCallSid(conn[k].call) \in Objs \cup {None}
        /\ conn[k].sess \in Objs \cup {None}
    BY <1>0, <1>1, LookupTypes
  <1> DEFINE t == CallOwner[conn[k].call]
  <1>3. /\ conn[k].path \in {t, Shared} /\ conn[k].id \in {None, t}
        /\ conn[k].pc \in {"byId", "newId"} => conn[k].id # None
        /\ conn[k].pc \in Resolving => conn[k].sess = None
    BY <1>0, <1>1 DEF LoopShape
  <1>4. t \in Tests /\ t # Shared /\ t # None /\ holds[t] # None /\ OnTrack(k)
    BY <1>2, OwnerAssumption, IdsAssumption DEF SocketInv, SocketSure
  <1>5. sessions[t] = holds[t]
    BY <1>0, <1>4 DEF HeldSessionStable
  <1>6. holds' = holds
    <2>1. Jambonz(k) \/ LoopStep(k)
      BY DEF Jambonz
    <2> QED
      BY <2>1, LoopLeaves
  <1>7. callSidIndex[conn[k].call] # None => callSidIndex'[conn[k].call] # None
    BY <1>0, <1>2, StepIndex
  <1>8. ASSUME NEW pc \in Pcs, NEW o \in Objs \cup {None}, Moves(k, pc, o),
               pc \notin {"newId", "newPath", "path"}, o \in {None, holds[t]},
               pc = "bySid" => callSidIndex[conn[k].call] # None
        PROVE  OnTrack(k)'
    <2>1. conn'[k].pc = pc /\ conn'[k].sess = o /\ conn'[k].call = conn[k].call
      BY <1>8 DEF Moves
    <2> QED
      BY <1>6, <1>7, <1>8, <2>1 DEF OnTrack
  <1> HIDE DEF t
  <1>9. CASE ByPath(k)
    <2>1. CASE FoundByPath(k) # None
      <3>1. conn[k].path # Shared
        BY <2>1 DEF FoundByPath
      <3>2. FoundByPath(k) = holds[t]
        BY <1>3, <1>5, <3>1 DEF FoundByPath, Lookup
      <3>3. Moves(k, "bindConn", FoundByPath(k))
        BY <1>0, <1>2, <1>9, <2>1, GotoMoves DEF ByPath, Pcs
      <3> QED
        BY <1>2, <1>8, <3>2, <3>3 DEF Pcs
    <2>2. CASE FoundByPath(k) = None
      <3>1. conn[k].path = Shared
        BY <1>3, <1>4, <1>5, <2>2 DEF FoundByPath, Lookup
      <3>2. conn[k].id # None \/ callSidIndex[conn[k].call] # None
        BY <1>4, <1>9, <3>1 DEF OnTrack, ByPath
      <3>3. AfterPath(k) \in {"byId", "bySid"}
            /\ (AfterPath(k) = "bySid" => callSidIndex[conn[k].call] # None)
        BY <3>2 DEF AfterPath
      <3>4. Moves(k, AfterPath(k), None)
        BY <1>0, <1>9, <2>2, <3>3, GotoMoves DEF ByPath, Pcs
      <3> QED
        BY <1>8, <3>3, <3>4 DEF Pcs
    <2> QED
      BY <2>1, <2>2
  <1>10. CASE ById(k)
    <2>1. conn[k].id = t
      BY <1>3, <1>10 DEF ById
    <2>2. Lookup(conn[k].id) = holds[t]
      BY <1>5, <2>1 DEF Lookup
    <2>3. Moves(k, "bindConn", holds[t])
      BY <1>0, <1>2, <1>4, <1>10, <2>1, <2>2, GotoMoves DEF ById, Pcs
    <2> QED
      BY <1>2, <1>4, <1>8, <2>1, <2>2, <2>3 DEF Pcs
  <1>11. CASE NewById(k) \/ NewByPath(k)
    BY <1>4, <1>11 DEF NewById, NewByPath, OnTrack
  <1>12. CASE BySid(k)
    <2>1. callSidIndex[conn[k].call] # None
      BY <1>4, <1>12 DEF OnTrack, BySid
    <2>2. callSidIndex[conn[k].call] # Shared
      <3> SUFFICES ASSUME callSidIndex[conn[k].call] = Shared PROVE FALSE
        OBVIOUS
      <3>1. PICK j \in Conns : conn[j].call = conn[k].call /\ ByPlaceholder(j)
        BY <1>0, <1>2 DEF ServeInv, IndexOk, OnPlaceholder
      <3>2. j # k
        BY <1>3, <1>12, <3>1 DEF BySid, Resolving, ByPlaceholder
      <3> QED
        BY <3>1, <3>2 DEF OthersOff
    <2>3. callSidIndex[conn[k].call] = t
      BY <1>0, <1>2, <2>1, <2>2 DEF ServeInv, IndexOk, t
    <2>4. LookupByCallSid(conn[k].call) = holds[t]
      BY <1>5, <2>1, <2>3 DEF LookupByCallSid
    <2>5. Moves(k, "bindConn", holds[t])
      BY <1>0, <1>2, <1>4, <1>12, <2>4, GotoMoves DEF BySid, Pcs
    <2> QED
      BY <1>2, <1>8, <2>4, <2>5 DEF Pcs
  <1>13. ASSUME NEW pc \in {"bindSid", "record", "read", "reply", "writing"},
                Goto(k, pc, conn[k].sess)
         PROVE  OnTrack(k)'
    <2>1. Moves(k, pc, conn[k].sess)
      BY <1>0, <1>2, <1>13, GotoMoves DEF Pcs
    <2>2. conn[k].sess \in {None, holds[t]}
      BY <1>4 DEF OnTrack, t
    <2> QED
      BY <1>2, <1>8, <2>1, <2>2 DEF Pcs
  <1>14. CASE BindAppConn(k) \/ BindSid(k) \/ CaptureFrame(k) \/ AckBegins(k) \/ AckEnds(k)
    BY <1>13, <1>14 DEF BindAppConn, BindSid, CaptureFrame, AckBegins, AckEnds
  <1>15. CASE AppOutcome(k) \/ ReadErr(k)
    <2>1. conn \in [Conns -> Loop] /\ conn[k] \in Loop
      BY <1>0 DEF AppTypeOK
    <2>2. conn'[k].pc \in {"write", "closed"} /\ conn'[k].sess = conn[k].sess
          /\ conn'[k].call = conn[k].call
      <3>1. CASE AppOutcome(k)
        BY <2>1, <3>1 DEF AppOutcome, Loop
      <3>2. CASE ReadErr(k)
        BY <2>1, <3>2 DEF ReadErr, Loop
      <3> QED
        BY <1>15, <3>1, <3>2
    <2> QED
      BY <1>4, <1>6, <2>2 DEF OnTrack
  <1> QED
    BY <1>9, <1>10, <1>11, <1>12, <1>14, <1>15 DEF LoopStep

\* Every step keeps the sure sockets sure.
LEMMA StepSocket == SocketInv /\ [AppNext]_allVars => SocketSure'
  <1> SUFFICES ASSUME SocketInv, [AppNext]_allVars, NEW k \in Conns, conn'[k].sure
               PROVE  /\ holds'[CallOwner[conn'[k].call]] # None
                      /\ OthersOff(k)' => OnTrack(k)'
    BY DEF SocketSure
  <1>0. AppShape /\ AppTypeOK /\ LoopShape /\ TypeOK /\ ServeInv /\ RegInv
    BY DEF SocketInv, ServeInv, RegInv, AppShape, AppTypeOK
  <1>1. Stays(k) /\ IdsStay /\ conn' \in [Conns -> Loop] /\ LoopShape'
    BY <1>0, StepLoop, StepReg
  <1>2. \A c \in Calls : callSidIndex[c] # None => callSidIndex'[c] # None
    BY <1>0, StepIndex
  <1>3. \A t \in Tests : holds[t] # None => holds'[t] = holds[t] \/ AppRelease(t)
    BY <1>0, StepReg
  <1>4. ASSUME conn[k].pc # "unopened", OthersOff(k)' PROVE OthersOff(k)
    <2> SUFFICES ASSUME NEW j \in Conns \ {k}, conn[j].call = conn[k].call, ByPlaceholder(j)
                 PROVE  FALSE
      BY DEF OthersOff
    <2>1. ByPlaceholder(j)' /\ conn'[j].call = conn[j].call
      BY <1>0, PlaceholderStays
    <2>2. conn'[k].call = conn[k].call
      BY <1>1, <1>4 DEF Stays
    <2> QED
      BY <1>4, <2>1, <2>2 DEF OthersOff
  <1>5. CASE /\ conn[k].sure /\ conn'[k].pc = conn[k].pc /\ conn'[k].call = conn[k].call
             /\ conn'[k].path = conn[k].path /\ conn'[k].id = conn[k].id
             /\ conn'[k].sess = conn[k].sess
             /\ ~AppRelease(CallOwner[conn[k].call])
    <2>1. conn[k].pc # "unopened" /\ conn[k].call \in Calls /\ CallOwner[conn[k].call] \in Tests
      BY <1>0, <1>5, OwnerAssumption DEF LoopShape
    <2>2. holds[CallOwner[conn[k].call]] # None
      BY <1>5 DEF SocketInv, SocketSure
    <2>3. holds'[CallOwner[conn[k].call]] = holds[CallOwner[conn[k].call]]
      BY <1>3, <1>5, <2>1, <2>2
    <2>4. OthersOff(k) => OnTrack(k)
      BY <1>5 DEF SocketInv, SocketSure
    <2>5. OthersOff(k)' => OnTrack(k)'
      BY <1>2, <1>4, <1>5, <2>1, <2>3, <2>4 DEF OnTrack
    <2> QED
      BY <1>5, <2>2, <2>3, <2>5
  <1>6. CASE LoopStep(k) \/ ReadErr(k)
    <2>1. PICK pc \in Pcs, o \in Objs \cup {None} : Moves(k, pc, o) /\ InOrder(k, pc, o)
      BY <1>0, <1>6, LoopMoves
    <2>2. conn[k].sure /\ conn'[k].call = conn[k].call /\ conn[k].pc # "unopened"
      BY <2>1 DEF Moves, InOrder
    <2>3. holds' = holds
      <3>1. Jambonz(k) \/ LoopStep(k)
        BY <1>6 DEF Jambonz
      <3> QED
        BY <3>1, LoopLeaves
    <2>4. holds[CallOwner[conn[k].call]] # None
      BY <2>2 DEF SocketInv, SocketSure
    <2>5. OthersOff(k)' => OnTrack(k)'
      BY <1>4, <1>6, <2>2, LoopOnTrack
    <2> QED
      BY <2>2, <2>3, <2>4, <2>5
  <1>7. ASSUME NEW f \in FrameTypes, NEW i \in Tests \cup {None}, ReadFrame(k, f, i)
        PROVE  /\ holds'[CallOwner[conn'[k].call]] # None
               /\ OthersOff(k)' => OnTrack(k)'
    <2>1. /\ conn[k].pc = "read"
          /\ conn'[k].pc = IF conn[k].sess = None THEN "path" ELSE "bindSid"
          /\ conn'[k].call = conn[k].call /\ conn'[k].path = conn[k].path
          /\ conn'[k].id = i
          /\ conn'[k].sess = conn[k].sess
          /\ conn'[k].sure <=> IF conn[k].sess = None THEN FrameCorrelated(k, i) ELSE conn[k].sure
      BY <1>0, <1>7, FrameRead
    <2>2. holds' = holds /\ callSidIndex' = callSidIndex
      BY <1>7 DEF ReadFrame, regVars, testVars
    <2>3. CASE conn[k].sess = None
      <3>1. FrameCorrelated(k, i)
        BY <2>1, <2>3
      <3>2. /\ holds[CallOwner[conn[k].call]] # None
            /\ i # None \/ callSidIndex[conn[k].call] # None \/ conn[k].path # Shared
        BY <3>1 DEF FrameCorrelated, Correlated
      <3> QED
        BY <2>1, <2>2, <2>3, <3>2 DEF OnTrack
    <2>4. CASE conn[k].sess # None
      <3>1. conn[k].sure
        BY <2>1, <2>4
      <3>2. holds[CallOwner[conn[k].call]] # None /\ (OthersOff(k) => OnTrack(k))
        BY <3>1 DEF SocketInv, SocketSure
      <3>3. OthersOff(k)' => OthersOff(k)
        BY <1>4, <2>1
      <3> QED
        BY <2>1, <2>2, <2>4, <3>2, <3>3 DEF OnTrack
    <2> QED
      BY <2>3, <2>4
  <1>8. ASSUME NEW t \in Tests, AppRelease(t)
        PROVE  /\ holds'[CallOwner[conn'[k].call]] # None
               /\ OthersOff(k)' => OnTrack(k)'
    <2>1. /\ conn'[k].pc = conn[k].pc /\ conn'[k].call = conn[k].call
          /\ conn'[k].path = conn[k].path /\ conn'[k].id = conn[k].id
          /\ conn'[k].sess = conn[k].sess /\ conn[k].sure
          /\ conn[k].call # None => CallOwner[conn[k].call] # t
      BY <1>0, <1>8, ReleaseUnsures
    <2>2. conn[k].call \in Calls /\ conn[k].call # None /\ CallOwner[conn[k].call] \in Tests
      BY <1>0, <2>1, OwnerAssumption, IdsAssumption DEF LoopShape
    <2>3. holds[CallOwner[conn[k].call]] # None /\ holds'[CallOwner[conn[k].call]] = holds[CallOwner[conn[k].call]]
      BY <1>0, <1>8, <2>1, <2>2 DEF AppRelease, Release, TypeOK, SocketInv, SocketSure
    <2>4. OthersOff(k) => OnTrack(k)
      BY <2>1 DEF SocketInv, SocketSure
    <2>5. conn[k].pc # "unopened"
      BY <1>0, <2>1 DEF LoopShape
    <2>6. OthersOff(k)' => OnTrack(k)'
      BY <1>2, <1>4, <2>1, <2>2, <2>3, <2>4, <2>5 DEF OnTrack
    <2> QED
      BY <2>1, <2>3, <2>6
  <1>9. CASE conn'[k] = conn[k] /\ ~\E t \in Tests : AppRelease(t)
    <2>1. conn[k].pc # "unopened" /\ conn[k].call \in Calls /\ CallOwner[conn[k].call] \in Tests
      BY <1>0, <1>9, OwnerAssumption DEF LoopShape
    <2> QED
      BY <1>5, <1>9, <2>1
  <1>10. ASSUME NEW j \in Conns, j # k, LoopStep(j) \/ ReadErr(j) PROVE conn'[k] = conn[k]
    BY <1>0, <1>10, LoopMoves DEF Moves
  <1>11. ASSUME NEW j \in Conns, NEW c \in Calls, NEW p \in {CallOwner[c], Shared}, Connect(j, c, p)
         PROVE  conn'[k] = conn[k]
    <2>1. j # k
      <3>1. conn[j].pc = "unopened" /\ conn'[j].sure = conn[j].sure
        BY <1>0, <1>11, ConnectOpens
      <3>2. ~conn[j].sure
        BY <1>0, <3>1 DEF LoopShape
      <3> QED
        BY <3>1, <3>2
    <2> QED
      BY <1>0, <1>11, <2>1, ConnectOpens
  <1>12. ASSUME NEW j \in Conns, j # k, NEW f \in FrameTypes, NEW i \in Tests \cup {None}, ReadFrame(j, f, i)
         PROVE  conn'[k] = conn[k]
    BY <1>0, <1>12, FrameRead
  <1> QED
    BY <1>6, <1>7, <1>8, <1>9, <1>10, <1>11, <1>12, ConnKinds

\* A socket whose first frame can be correlated while its test holds the session is
\* served by that session until the release, for any number of tests and sockets.
THEOREM SocketsReachTheirTest == AppSpec => []SocketSureRouting
  <1>1. AppInit => SocketInv
    <2>1. AppInit => SocketSure
      BY DEF AppInit, Unopened, SocketSure
    <2> QED
      BY <2>1, InitServe DEF SocketInv
  <1>2. SocketInv /\ [AppNext]_allVars => SocketInv'
    BY StepServe, StepSocket DEF SocketInv
  <1>3. SocketInv => SocketSureRouting
    BY DEF SocketInv, SocketSure, OnTrack, OthersOff, SocketSureRouting
  <1> QED
    BY <1>1, <1>2, <1>3, PTL DEF AppSpec
-----------------------------------------------------------------------------
(* Sure routing of HTTP hooks beside the sockets.                          *)

(* sessionFor cannot miss the session the test holds.                      *)
HookOnTrack(h) ==
    /\ req[h].pc \notin {"create", "anon"}
    /\ req[h].pc = "route" => req[h].id # None \/ callSidIndex[req[h].call] # None
    /\ req[h].pc \in Routed => req[h].sess = holds[CallOwner[req[h].call]]

HookSure ==
    \A h \in Handlers :
        req[h].sure =>
            /\ req[h].pc # "idle"
            /\ holds[CallOwner[req[h].call]] # None
            /\ ~OnPlaceholder(req[h].call) => HookOnTrack(h)

HookInv == ServeInv /\ HookSure

\* A handler on track stays on it.
LEMMA HandlerOnTrack ==
  ASSUME HookInv, NEW h \in Handlers, HandlerStep(h), req[h].sure, req'[h].sure,
         UNCHANGED appVars, ~OnPlaceholder(req[h].call)
  PROVE  HookOnTrack(h)'
  <1>0. TypeOK /\ Shape /\ ServeInv /\ HeldSessionStable
    BY DEF HookInv, ServeInv, RegInv, AppShape, AppTypeOK
  <1>1. /\ req[h].pc # "idle" /\ holds[CallOwner[req[h].call]] # None
        /\ HookOnTrack(h)
    BY DEF HookInv, HookSure
  <1>2. req[h] \in Request /\ req[h].call \in Calls /\ req \in [Handlers -> Request]
    BY <1>0, <1>1, RequestFields DEF Shape, TypeOK
  <1> DEFINE t == CallOwner[req[h].call]
  <1>3. t \in Tests /\ sessions[t] = holds[t] /\ holds[t] # None
    BY <1>0, <1>1, <1>2, OwnerAssumption DEF HeldSessionStable
  <1>4. CASE Route(h)
    <2>1. req[h].id \in {None, t} /\ callSidIndex[req[h].call] \in {None, t}
      BY <1>0, <1>1, <1>2 DEF ServeInv, ReqNames, IndexOk
    <2>2. req[h].id # None \/ callSidIndex[req[h].call] # None
      BY <1>1, <1>4 DEF HookOnTrack, Route
    <2>3. Found(h) = holds[t]
      BY <1>3, <2>1, <2>2 DEF Found, Lookup, LookupByCallSid
    <2>4. req'[h].sess = Found(h) /\ req'[h].call = req[h].call
      BY <1>2, <1>4 DEF Route, Request
    <2>5. req'[h].pc = IF req[h].id # None
                         THEN IF Found(h) # None THEN "bind" ELSE "create"
                         ELSE IF Found(h) # None THEN "record" ELSE "anon"
      BY <1>2, <1>4 DEF Route, Request
    <2>6. req'[h].pc \in {"bind", "record"}
      BY <1>3, <2>3, <2>5
    <2>7. holds' = holds
      BY <1>4 DEF Route, testVars
    <2> QED
      BY <2>3, <2>4, <2>6, <2>7 DEF HookOnTrack
  <1>5. CASE Create(h) \/ CreateAnon(h)
    BY <1>1, <1>5 DEF HookOnTrack, Create, CreateAnon
  <1>6. ASSUME NEW p \in {"record", "reply", "done"}, req[h].pc \in Routed,
               req'[h].pc = p, req'[h].sess = req[h].sess, req'[h].call = req[h].call,
               holds' = holds
        PROVE  HookOnTrack(h)'
    BY <1>1, <1>6 DEF HookOnTrack
  <1>7. CASE Bind(h)
    BY <1>2, <1>6, <1>7 DEF Bind, Request, Routed, testVars
  <1>8. CASE Capture(h)
    BY <1>2, <1>6, <1>8 DEF Capture, Request, Routed, testVars
  <1>9. CASE Reply(h)
    BY <1>2, <1>6, <1>9 DEF Reply, Request, Routed, testVars
  <1>10. CASE Return(h)
    <2>1. ~req'[h].sure
      BY <1>2, <1>10 DEF Return, Idle
    <2> QED
      BY <2>1
  <1> QED
    BY <1>4, <1>5, <1>7, <1>8, <1>9, <1>10 DEF HandlerStep

\* Every step keeps the sure requests sure.
LEMMA StepHook == HookInv /\ [AppNext]_allVars => HookSure'
  <1> SUFFICES ASSUME HookInv, [AppNext]_allVars, NEW h \in Handlers, req'[h].sure
               PROVE  /\ req'[h].pc # "idle"
                      /\ holds'[CallOwner[req'[h].call]] # None
                      /\ ~OnPlaceholder(req[h].call)' => HookOnTrack(h)'
    BY DEF HookSure
  <1>0. TypeOK /\ Shape /\ ServeInv /\ RegInv
    BY DEF HookInv, ServeInv, RegInv, AppShape, AppTypeOK
  <1>1. /\ \A c \in Calls : callSidIndex[c] # None => callSidIndex'[c] # None
        /\ \A c \in Calls : OnPlaceholder(c) => OnPlaceholder(c)'
        /\ \A t \in Tests : holds[t] # None => holds'[t] = holds[t] \/ AppRelease(t)
    BY <1>0, StepIndex, PlaceholderStays, StepReg
  <1>2. req[h].sure => /\ req[h].pc # "idle" /\ req[h].call \in Calls /\ req[h].call # None
                       /\ CallOwner[req[h].call] \in Tests
                       /\ holds[CallOwner[req[h].call]] # None
                       /\ ~OnPlaceholder(req[h].call) => HookOnTrack(h)
    <2>1. req[h].pc # "idle" => req[h].call \in Calls
      BY <1>0, RequestFields DEF Shape, TypeOK
    <2> QED
      BY <2>1, OwnerAssumption, IdsAssumption DEF HookInv, HookSure
  <1>3. ASSUME req[h].sure, req'[h].pc = req[h].pc, req'[h].id = req[h].id,
               req'[h].call = req[h].call, req'[h].sess = req[h].sess,
               ~AppRelease(CallOwner[req[h].call])
        PROVE  /\ req'[h].pc # "idle"
               /\ holds'[CallOwner[req'[h].call]] # None
               /\ ~OnPlaceholder(req[h].call)' => HookOnTrack(h)'
    <2>1. holds'[CallOwner[req[h].call]] = holds[CallOwner[req[h].call]]
      BY <1>1, <1>2, <1>3
    <2>2. callSidIndex[req[h].call] # None => callSidIndex'[req[h].call] # None
      BY <1>1, <1>2, <1>3
    <2>3. OnPlaceholder(req[h].call) => OnPlaceholder(req[h].call)'
      BY <1>1, <1>2, <1>3 DEF OnPlaceholder, ByPlaceholder
    <2>4. HookOnTrack(h) => HookOnTrack(h)'
      BY <1>3, <2>1, <2>2 DEF HookOnTrack
    <2> QED
      BY <1>2, <1>3, <2>1, <2>3, <2>4
  <1>4. CASE \E t \in Tests : AppRelease(t)
    <2>1. PICK t \in Tests : AppRelease(t)
      BY <1>4
    <2>2. /\ req'[h].pc = req[h].pc /\ req'[h].id = req[h].id
          /\ req'[h].call = req[h].call /\ req'[h].sess = req[h].sess
          /\ req[h].sure
          /\ req[h].call # None => CallOwner[req[h].call] # t
      BY <1>0, <2>1, ReleaseReq DEF AppRelease
    <2>3. CallOwner[req[h].call] # t
      BY <1>2, <2>2
    <2>4. ~AppRelease(CallOwner[req[h].call])
      <3>1. holds' = [holds EXCEPT ![t] = None] /\ holds \in [Tests -> Objs \cup {None}]
        BY <1>0, <2>1 DEF AppRelease, Release, TypeOK
      <3>2. holds'[CallOwner[req[h].call]] # None
        BY <1>2, <2>2, <2>3, <3>1
      <3>3. AppRelease(CallOwner[req[h].call]) => holds'[CallOwner[req[h].call]] = None
        BY <1>2, <2>2, <3>1 DEF AppRelease, Release
      <3> QED
        BY <3>2, <3>3
    <2> QED
      BY <1>3, <2>2, <2>4
  <1>5. CASE req'[h] = req[h] /\ ~\E t \in Tests : AppRelease(t)
    BY <1>2, <1>3, <1>5
  <1>6. CASE Arrival
    <2>1. PICK g \in Handlers, c \in Calls : \E i \in {CallOwner[c], None} :
             /\ req'[g].pc = "route" /\ req'[g].call = c /\ req'[g].id = i
             /\ req'[g].sure <=> Correlated(c, i)
             /\ \A f \in Handlers \ {g} : req'[f] = req[f]
             /\ UNCHANGED <<callSidIndex, holds>>
      BY <1>0, <1>6, ArrivalReq
    <2>2. PICK i \in {CallOwner[c], None} :
             /\ req'[g].pc = "route" /\ req'[g].call = c /\ req'[g].id = i
             /\ req'[g].sure <=> Correlated(c, i)
             /\ \A f \in Handlers \ {g} : req'[f] = req[f]
             /\ UNCHANGED <<callSidIndex, holds>>
      BY <2>1
    <2>3. CASE g = h
      <3>1. Correlated(c, i) /\ req'[h].pc = "route" /\ req'[h].call = c /\ req'[h].id = i
        BY <2>2, <2>3
      <3> QED
        BY <2>2, <3>1 DEF Correlated, HookOnTrack, Routed
    <2>4. CASE g # h
      BY <1>4, <1>5, <2>2, <2>4
    <2> QED
      BY <2>3, <2>4
  <1>7. ASSUME NEW g \in Handlers, HandlerStep(g), UNCHANGED appVars
        PROVE  /\ req'[h].pc # "idle"
               /\ holds'[CallOwner[req'[h].call]] # None
               /\ ~OnPlaceholder(req[h].call)' => HookOnTrack(h)'
    <2>1. CASE g # h
      BY <1>0, <1>4, <1>5, <1>7, <2>1, HandlerReq
    <2>2. CASE g = h
      <3>1. HandlerStep(h)
        BY <1>7, <2>2
      <3>2. /\ req[h].pc # "idle" /\ req[h].sure
            /\ req'[h].call = req[h].call
        BY <1>0, <3>1, HandlerReq
      <3>3. holds' = holds
        BY <3>1 DEF HandlerStep, Route, Create, Bind, CreateAnon, Capture, Reply, Return, testVars
      <3>4. OnPlaceholder(req[h].call) => OnPlaceholder(req[h].call)'
        BY <1>1, <1>2, <3>2 DEF OnPlaceholder, ByPlaceholder
      <3>6. ~OnPlaceholder(req[h].call)' => HookOnTrack(h)'
        BY <1>7, <3>1, <3>2, <3>4, HandlerOnTrack
      <3>7. req'[h].pc # "idle"
        <4>1. req'[h].pc = "idle" => ~req'[h].sure
          <5>1. req[h] \in Request /\ req \in [Handlers -> Request]
            BY <1>0 DEF TypeOK
          <5>2. CASE Return(h)
            BY <5>1, <5>2 DEF Return, Idle
          <5>3. CASE Route(h)
            BY <5>1, <5>3 DEF Route, Request
          <5>4. CASE Create(h) \/ CreateAnon(h)
            BY <5>1, <5>4 DEF Create, CreateAnon, Request
          <5>5. CASE Bind(h) \/ Capture(h) \/ Reply(h)
            BY <5>1, <5>5 DEF Bind, Capture, Reply, Request
          <5> QED
            BY <3>1, <5>2, <5>3, <5>4, <5>5 DEF HandlerStep
        <4> QED
          BY <4>1
      <3> QED
        BY <1>2, <3>2, <3>3, <3>6, <3>7
    <2> QED
      BY <2>1, <2>2
  <1>8. CASE req' = req
    BY <1>4, <1>5, <1>8
  <1> QED
    BY <1>4, <1>6, <1>7, <1>8, ReqKinds

\* HTTP hooks of a call keep reaching the session of their test though every frame
\* of a socket binds the call anew, unless a socket of the call is served by the
\* placeholder; for any number of tests, calls, handlers and sockets.
THEOREM HooksReachTheirTest == AppSpec => []HooksKeepTheirTest
  <1>1. AppInit => HookInv
    <2>1. AppInit => HookSure
      BY DEF AppInit, Init, Idle, HookSure
    <2> QED
      BY <2>1, InitServe DEF HookInv
  <1>2. HookInv /\ [AppNext]_allVars => HookInv'
    BY StepServe, StepHook DEF HookInv
  <1>3. HookInv => HooksKeepTheirTest
    BY DEF HookInv, HookSure, HookOnTrack, Routed, HooksKeepTheirTest
  <1> QED
    BY <1>1, <1>2, <1>3, PTL DEF AppSpec
=============================================================================
