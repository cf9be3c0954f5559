------------------------------ MODULE Observer ------------------------------
(***************************************************************************)
(* The record a Call keeps of its SIP messages: the Call-ID registry and   *)
(* the request middleware of internal/sip/observer.go, the constructors,   *)
(* in-dialog requests and message accessors of call.go, and the messages   *)
(* of messages.go.                                                         *)
(*                                                                         *)
(* Four kinds of goroutine touch one call: the Owner that builds it,       *)
(* answers or places it and at last hangs it up; diago's handler of each   *)
(* request of the peer, entered through the middleware; a test goroutine   *)
(* that sends requests in the dialog; and those that wait for a request to *)
(* show up on record.  The registry is looked at twice per request, when   *)
(* it arrives and when it is answered, and the call may be registered or   *)
(* may end in between.                                                     *)
(***************************************************************************)
EXTENDS Naturals, Sequences

CONSTANTS Requests,  \* the peer's in-dialog requests
          Sends,     \* requests the test may send, one after another
          Waiters,   \* goroutines in AwaitReceivedRequest
          Method,    \* the method of each request and send, and the one awaited
          Invite,    \* the transaction that opened the call
          None

Transactions == Requests \cup Sends \cup {Invite}

Messages == [method: {"INVITE", "INFO", "BYE", "ACK"}, code: {0, 180, 200, 481},
             of: Transactions]

ASSUME NamesAssumption ==
  /\ Invite \notin Requests \cup Sends
  /\ Requests \cap Sends = {}
  /\ None \notin Messages
ASSUME MethodAssumption ==
  /\ \A q \in Requests : Method[q] \in {"INFO", "INVITE", "BYE"}
  /\ \A x \in Sends : Method[x] \in {"INFO", "INVITE"}
  /\ \A w \in Waiters : Method[w] \in {"INFO", "INVITE", "BYE"}

VARIABLES
  direction,   \* Call.direction
  state,       \* Call.state; "init" stands for trying and ringing too
  answeredAt,  \* Call.answeredAt is set
  ended,       \* Call.endedAt is set
  registered,  \* the registry maps the Call-ID to the call
  unregister,  \* setState ended the call and has not reached unregister yet
  hooked,      \* d.OnState was called
  dialog,      \* diago's dialog (external)
  callback,    \* diago's OnState callback is under way
  recv, sent,  \* Call.recv and Call.sent
  owner,       \* the Owner's program counter
  req,         \* the handler of each request of the peer
  send,        \* each request the test sends
  wait,        \* each waiter
  got          \* and the message it returned

callVars == <<direction, state, answeredAt, ended, registered, unregister, hooked>>
vars == <<callVars, dialog, callback, recv, sent, owner, req, send, wait, got>>

TypeOK ==
  /\ direction \in {"inbound", "outbound"}
  /\ state \in {"init", "answered", "ended"}
  /\ answeredAt \in BOOLEAN /\ ended \in BOOLEAN
  /\ registered \in BOOLEAN /\ unregister \in BOOLEAN /\ hooked \in BOOLEAN
  /\ dialog \in {"early", "open", "ended"}
  /\ callback \in BOOLEAN
  /\ recv \in Seq(Messages) /\ sent \in Seq(Messages)
  /\ owner \in {"build", "register", "hook", "answer", "respond", "setAnswered",
                "record200", "talk", "bye", "setEnded", "gone"}
  /\ req \in [Requests -> {"none", "handling", "answered"}]
  /\ send \in [Sends -> {"idle", "checked", "waiting", "ack", "done"}]
  /\ wait \in [Waiters -> {"idle", "polling", "returned", "expired"}]
  /\ got \in [Waiters -> Messages \cup {None}]

\* newRequestMsg, and newResponseMsg: a response has the method of its CSeq.
RequestMsg(m, t) == [method |-> m, code |-> 0, of |-> t]
ResponseMsg(m, code, t) == [method |-> m, code |-> code, of |-> t]

\* An INVITE came in, or one of ours has been answered and acknowledged: from then
\* on its peer may send requests.
Init ==
  /\ direction \in {"inbound", "outbound"}
  /\ state = "init"
  /\ answeredAt = FALSE /\ ended = FALSE
  /\ registered = FALSE /\ unregister = FALSE /\ hooked = FALSE
  /\ dialog = IF direction = "inbound" THEN "early" ELSE "open"
  /\ callback = FALSE
  /\ recv = << >> /\ sent = << >>
  /\ owner = "build"
  /\ req = [q \in Requests |-> "none"]
  /\ send = [x \in Sends |-> "idle"]
  /\ wait = [w \in Waiters |-> "idle"]
  /\ got = [w \in Waiters |-> None]

-----------------------------------------------------------------------------
\* The Owner.

Build ==
  /\ owner = "build"
  /\ owner' = "register"
  /\ IF direction = "inbound"
     THEN recv' = Append(recv, RequestMsg("INVITE", Invite)) /\ UNCHANGED sent
     ELSE sent' = Append(sent, RequestMsg("INVITE", Invite)) /\ UNCHANGED recv
  /\ UNCHANGED <<callVars, dialog, callback, req, send, wait, got>>

Register ==
  /\ owner = "register"
  /\ owner' = "hook"
  /\ registered' = TRUE
  /\ UNCHANGED <<direction, state, answeredAt, ended, unregister, hooked,
                 dialog, callback, recv, sent, req, send, wait, got>>

\* A dialog that has ended by now is never reported.
Hook ==
  /\ owner = "hook"
  /\ owner' = IF direction = "inbound" THEN "answer" ELSE "setAnswered"
  /\ hooked' = TRUE
  /\ UNCHANGED <<direction, state, answeredAt, ended, registered, unregister,
                 dialog, callback, recv, sent, req, send, wait, got>>

\* Mutants: the transaction keeps the call it found when the request arrived; a
\* response is recorded on an answered call only.
EagerLookup(t) == t # Invite /\ registered
AnsweredLookup(t) == registered /\ (t = Invite \/ state = "answered")

\* The call observedTx.Respond finds for a response of transaction t.
Lookup(t) == registered

Respond(m, code, t) ==
  sent' = IF Lookup(t) THEN Append(sent, ResponseMsg(m, code, t)) ELSE sent

\* Ringing.
Ring ==
  /\ owner = "answer" /\ dialog # "ended"
  /\ \A i \in 1..Len(sent) : sent[i].code # 180
  /\ state = "init"
  /\ Respond("INVITE", 180, Invite)
  /\ UNCHANGED <<callVars, dialog, callback, recv, owner, req, send, wait, got>>

\* Answer reads State(); a handler that cannot answer returns, and the call is
\* hung up.
Answer ==
  /\ owner = "answer"
  /\ owner' = IF state = "init" THEN "respond" ELSE "talk"
  /\ UNCHANGED <<callVars, dialog, callback, recv, sent, req, send, wait, got>>

\* The 200 goes out, or cannot: the peer has cancelled.
Respond200 ==
  /\ owner = "respond"
  /\ Respond("INVITE", 200, Invite)
  /\ IF dialog = "ended"
     THEN owner' = "talk" /\ UNCHANGED dialog
     ELSE owner' = "setAnswered" /\ dialog' = "open"
  /\ UNCHANGED <<callVars, callback, recv, req, send, wait, got>>

SetAnswered ==
  /\ owner = "setAnswered"
  /\ state' = "answered" /\ answeredAt' = TRUE
  /\ owner' = IF direction = "inbound" THEN "talk" ELSE "record200"
  /\ UNCHANGED <<direction, ended, registered, unregister, hooked,
                 dialog, callback, recv, sent, req, send, wait, got>>

\* Stack.Invite records the answer before it returns the call.
Record200 ==
  /\ owner = "record200"
  /\ recv' = Append(recv, ResponseMsg("INVITE", 200, Invite))
  /\ owner' = "talk"
  /\ UNCHANGED <<callVars, dialog, callback, sent, req, send, wait, got>>

\* Mutant: a dialog diago knows to be over is not hung up.
DialogOpen == dialog # "ended"

\* Hangup has something to do.
HangupDue == state # "ended"

\* The test is over, its handler has returned or the stack stops: Hangup.
Hangup ==
  /\ owner = "talk"
  /\ owner' = IF HangupDue THEN "bye" ELSE "gone"
  /\ UNCHANGED <<callVars, dialog, callback, recv, sent, req, send, wait, got>>

\* diago sends the BYE, which nothing records, and ends the dialog.
HangupBye ==
  /\ owner = "bye"
  /\ owner' = "setEnded"
  /\ dialog' = "ended"
  /\ callback' = (callback \/ (hooked /\ dialog # "ended"))
  /\ UNCHANGED <<callVars, recv, sent, req, send, wait, got>>

\* setState(StateEnded) up to the unlock: the one that ends the call owes the
\* registry its entry.
SetState ==
  /\ state' = "ended"
  /\ ended' = TRUE
  /\ unregister' = (unregister \/ ~ended)

SetEnded ==
  /\ owner = "setEnded"
  /\ owner' = "gone"
  /\ SetState
  /\ UNCHANGED <<direction, answeredAt, registered, hooked, dialog, callback, recv, sent,
                 req, send, wait, got>>

\* diago's callback.
OnState ==
  /\ callback
  /\ callback' = FALSE
  /\ SetState
  /\ UNCHANGED <<direction, answeredAt, registered, hooked, dialog, recv, sent, owner,
                 req, send, wait, got>>

Unregister ==
  /\ unregister
  /\ unregister' = FALSE
  /\ registered' = FALSE
  /\ UNCHANGED <<direction, state, answeredAt, ended, hooked,
                 dialog, callback, recv, sent, owner, req, send, wait, got>>

-----------------------------------------------------------------------------
\* The peer's requests.

\* observeRequestMiddleware
Observe(q) ==
  /\ req[q] = "none"
  /\ dialog = "open"
  /\ recv' = IF registered THEN Append(recv, RequestMsg(Method[q], q)) ELSE recv
  /\ req' = [req EXCEPT ![q] = "handling"]
  /\ UNCHANGED <<callVars, dialog, callback, sent, owner, send, wait, got>>

\* diago's handler of a BYE ends the dialog, before or after it answers.  A caller
\* that gives up before the answer cancels.
EndDialog ==
  /\ dialog # "ended"
  /\ \/ dialog = "early"
     \/ \E q \in Requests : Method[q] = "BYE" /\ req[q] # "none"
  /\ dialog' = "ended"
  /\ callback' = hooked
  /\ UNCHANGED <<callVars, recv, sent, owner, req, send, wait, got>>

\* It answers the request through the observed transaction.
Reply(q) ==
  /\ req[q] = "handling"
  /\ Respond(Method[q], 200, q)
  /\ req' = [req EXCEPT ![q] = "answered"]
  /\ UNCHANGED <<callVars, dialog, callback, recv, owner, send, wait, got>>

-----------------------------------------------------------------------------
\* Requests of ours: SendInfo, SendMessage (INFO), SendReinvite (INVITE).

\* The call is out of its constructor, and in the hands of the test.
Shared == owner \in {"answer", "respond", "setAnswered", "talk", "bye", "setEnded", "gone"}
          /\ (direction = "outbound" => owner # "setAnswered")

BeginSend(x) ==
  /\ send[x] = "idle" /\ Shared
  /\ \A z \in Sends : send[z] \in {"idle", "done"}
  /\ Method[x] = "INVITE" => direction = "outbound"
  /\ state = "answered"
  /\ send' = [send EXCEPT ![x] = "checked"]
  /\ UNCHANGED <<callVars, dialog, callback, recv, sent, owner, req, wait, got>>

RecordSend(x) ==
  /\ send[x] = "checked"
  /\ sent' = Append(sent, RequestMsg(Method[x], x))
  /\ send' = [send EXCEPT ![x] = "waiting"]
  /\ UNCHANGED <<callVars, dialog, callback, recv, owner, req, wait, got>>

\* Do returns a response, recorded here and not by the observer; a 2xx to a
\* re-INVITE is acknowledged.  What a rejected INFO returns makes no difference.
SendAnswered(x) ==
  /\ send[x] = "waiting"
  /\ \E code \in (IF Method[x] = "INVITE" THEN {200, 481} ELSE {200}) :
       /\ recv' = Append(recv, ResponseMsg(Method[x], code, x))
       /\ send' = [send EXCEPT ![x] = IF Method[x] = "INVITE" /\ code = 200
                                      THEN "ack" ELSE "done"]
  /\ UNCHANGED <<callVars, dialog, callback, sent, owner, req, wait, got>>

\* Do fails without one: the context expires, or the dialog is over.
SendFails(x) ==
  /\ send[x] = "waiting"
  /\ send' = [send EXCEPT ![x] = "done"]
  /\ UNCHANGED <<callVars, dialog, callback, recv, sent, owner, req, wait, got>>

SendAck(x) ==
  /\ send[x] = "ack"
  /\ sent' = Append(sent, RequestMsg("ACK", x))
  /\ send' = [send EXCEPT ![x] = "done"]
  /\ UNCHANGED <<callVars, dialog, callback, recv, owner, req, wait, got>>

-----------------------------------------------------------------------------
\* Reading the record.

\* Mutant: a message of any kind matches by its method.
MatchMethod(w, m) == m.method = Method[w]

\* What AwaitReceivedRequest looks for: a request, its method awaited.
Match(w, m) == m.code = 0 /\ m.method = Method[w]

Found(w) == {i \in 1..Len(recv) : Match(w, recv[i])}

AwaitReceivedRequest(w) ==
  /\ wait[w] = "idle" /\ Shared
  /\ wait' = [wait EXCEPT ![w] = "polling"]
  /\ UNCHANGED <<callVars, dialog, callback, recv, sent, owner, req, send, got>>

\* The first look, or a tick: the earliest match is returned.
Poll(w) ==
  /\ wait[w] = "polling"
  /\ \E i \in Found(w) :
       /\ \A j \in Found(w) : i <= j
       /\ got' = [got EXCEPT ![w] = recv[i]]
  /\ wait' = [wait EXCEPT ![w] = "returned"]
  /\ UNCHANGED <<callVars, dialog, callback, recv, sent, owner, req, send>>

AwaitExpires(w) ==
  /\ wait[w] = "polling"
  /\ wait' = [wait EXCEPT ![w] = "expired"]
  /\ UNCHANGED <<callVars, dialog, callback, recv, sent, owner, req, send, got>>

\* A 2xx of an INVITE.
InviteOk(m) == m.code = 200 /\ m.method = "INVITE"

\* AnsweredResponse: the last one on the side of the call that answers.
AnsweredResponse ==
  LET s == IF direction = "outbound" THEN recv ELSE sent
      ok == {i \in 1..Len(s) : InviteOk(s[i])}
  IN IF ok = {} THEN None ELSE s[CHOOSE i \in ok : \A j \in ok : j <= i]

-----------------------------------------------------------------------------

OwnerStep ==
  \/ Build \/ Register \/ Hook \/ Answer \/ Respond200 \/ SetAnswered \/ Record200
  \/ Hangup \/ HangupBye \/ SetEnded

Next ==
  \/ OwnerStep \/ Ring \/ OnState \/ Unregister \/ EndDialog
  \/ \E q \in Requests : Observe(q) \/ Reply(q)
  \/ \E x \in Sends : \/ BeginSend(x) \/ RecordSend(x) \/ SendAnswered(x)
                      \/ SendFails(x) \/ SendAck(x)
  \/ \E w \in Waiters : AwaitReceivedRequest(w) \/ Poll(w) \/ AwaitExpires(w)

\* Every test hangs its call up in the end, in its body, its cleanup or the stack's
\* drain; callbacks run.  The peer owes nothing.
Fairness ==
  /\ WF_vars(OwnerStep)
  /\ WF_vars(OnState)
  /\ WF_vars(Unregister)

Spec == Init /\ [][Next]_vars /\ Fairness

-----------------------------------------------------------------------------
\* Properties.

\* AwaitReceivedRequest returns a request of the peer with the method awaited, never
\* the peer's answer to a request of ours, whose entry bears that method too.
AwaitHonest ==
  \A w \in Waiters :
    wait[w] = "returned" =>
      \/ got[w].of \in Requests /\ Method[got[w].of] = Method[w]
      \/ got[w].of = Invite /\ direction = "inbound" /\ Method[w] = "INVITE"

\* A test that holds an answered call finds its answer: AnsweredResponse is the 200
\* of an INVITE, in whichever order the registration, the answer and the requests of
\* both sides came.  Only a call that ended before its 200 went out has none.
AnswerOnRecord ==
  answeredAt /\ ~ended /\ owner # "record200" =>
    /\ AnsweredResponse # None
    /\ AnsweredResponse.of = Invite \/ Method[AnsweredResponse.of] = "INVITE"

\* A request is on record without the answer we gave it only if the call has ended:
\* the record of a live call has no holes.
LossMeansEnd ==
  \A q \in Requests :
    /\ req[q] = "answered"
    /\ \E i \in 1..Len(recv) : recv[i].of = q
    /\ \A i \in 1..Len(sent) : sent[i].of # q
    => ended

\* A dialog that ends, at whatever point of the call's construction, leaves a call
\* that has ended and is not registered: through the callback, or if that was
\* installed too late, through the Hangup the test owes.
EveryCallEnds == dialog = "ended" ~> ended /\ ~registered
=============================================================================
