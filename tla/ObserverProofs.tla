--------------------------- MODULE ObserverProofs ---------------------------
(***************************************************************************)
(* Proofs about the record a Call keeps of its SIP messages, for every set *)
(* of requests, sends and waiters.                                         *)
(*                                                                         *)
(* Two sequences grow at their ends, and sixteen actions leave them alone: *)
(* RecvGrows and SentGrows say once what may be appended and when, and the *)
(* invariants about the record are proved from these two.                  *)
(***************************************************************************)
EXTENDS Observer, TLAPS

-----------------------------------------------------------------------------
\* What is appended to the record, and when.

Received(m) ==
  \/ m = RequestMsg("INVITE", Invite) /\ direction = "inbound" /\ owner = "build"
  \/ m = ResponseMsg("INVITE", 200, Invite) /\ owner = "record200" /\ owner' = "talk"
  \/ \E q \in Requests : m = RequestMsg(Method[q], q) /\ registered /\ req[q] = "none"
  \/ \E x \in Sends : \E code \in {200, 481} : m = ResponseMsg(Method[x], code, x)

Emitted(m) ==
  \/ m = RequestMsg("INVITE", Invite)
  \/ \E code \in {180, 200} : m = ResponseMsg("INVITE", code, Invite)
  \/ \E q \in Requests : m = ResponseMsg(Method[q], 200, q)
  \/ \E x \in Sends : m = RequestMsg(Method[x], x) \/ m = RequestMsg("ACK", x)

\* What the middleware, the accessors and the senders make are messages.
LEMMA MessageTypes ==
  /\ \A m : Received(m) => m \in Messages
  /\ \A m : Emitted(m) => m \in Messages
  BY MethodAssumption DEF Received, Emitted, Messages, RequestMsg, ResponseMsg, Transactions

\* A step leaves recv alone or appends one message of these kinds.
LEMMA RecvGrows ==
  ASSUME [Next]_vars
  PROVE  recv' = recv \/ \E m \in Messages : Received(m) /\ recv' = Append(recv, m)
<1> SUFFICES \/ recv' = recv
             \/ \E m : Received(m) /\ recv' = Append(recv, m)
  BY MessageTypes
<1>1. CASE Build
  BY <1>1 DEF Build, Received
<1>2. CASE Record200
  BY <1>2 DEF Record200, Received
<1>3. ASSUME NEW q \in Requests, Observe(q) PROVE recv' = recv \/ \E m : Received(m) /\ recv' = Append(recv, m)
  <2>1. CASE ~registered
    BY <1>3, <2>1 DEF Observe
  <2>2. CASE registered
    <3>1. Received(RequestMsg(Method[q], q))
      BY <1>3, <2>2 DEF Observe, Received
    <3> QED
      BY <1>3, <2>2, <3>1 DEF Observe
  <2> QED
    BY <2>1, <2>2
<1>4. ASSUME NEW x \in Sends, SendAnswered(x) PROVE recv' = recv \/ \E m : Received(m) /\ recv' = Append(recv, m)
  <2>1. PICK code \in {200, 481} : recv' = Append(recv, ResponseMsg(Method[x], code, x))
    BY <1>4 DEF SendAnswered
  <2>2. Received(ResponseMsg(Method[x], code, x))
    BY DEF Received
  <2> QED
    BY <2>1, <2>2
<1>5. CASE \/ Register \/ Hook \/ Answer \/ Respond200 \/ SetAnswered \/ Hangup \/ HangupBye
           \/ SetEnded \/ Ring \/ OnState \/ Unregister \/ EndDialog
  BY <1>5 DEF Register, Hook, Answer, Respond200, SetAnswered, Hangup, HangupBye,
              SetEnded, Ring, OnState, Unregister, EndDialog
<1>6. CASE \/ \E q \in Requests : Reply(q)
           \/ \E x \in Sends : BeginSend(x) \/ RecordSend(x) \/ SendFails(x) \/ SendAck(x)
           \/ \E w \in Waiters : AwaitReceivedRequest(w) \/ Poll(w) \/ AwaitExpires(w)
           \/ UNCHANGED vars
  BY <1>6 DEF Reply, BeginSend, RecordSend, SendFails, SendAck, AwaitReceivedRequest, Poll,
              AwaitExpires, vars
<1> QED
  BY <1>1, <1>2, <1>3, <1>4, <1>5, <1>6 DEF Next, OwnerStep

\* And the same for sent.
LEMMA SentGrows ==
  ASSUME [Next]_vars
  PROVE  sent' = sent \/ \E m \in Messages : Emitted(m) /\ sent' = Append(sent, m)
<1> SUFFICES \/ sent' = sent
             \/ \E m : Emitted(m) /\ sent' = Append(sent, m)
  BY MessageTypes
<1>1. CASE Build
  BY <1>1 DEF Build, Emitted
<1>2. CASE Ring \/ Respond200
  BY <1>2 DEF Ring, Respond200, Respond, Emitted
<1>3. ASSUME NEW q \in Requests, Reply(q) PROVE sent' = sent \/ \E m : Emitted(m) /\ sent' = Append(sent, m)
  <2>1. Emitted(ResponseMsg(Method[q], 200, q))
    BY DEF Emitted
  <2> QED
    BY <1>3, <2>1 DEF Reply, Respond
<1>4. ASSUME NEW x \in Sends, RecordSend(x) \/ SendAck(x) PROVE sent' = sent \/ \E m : Emitted(m) /\ sent' = Append(sent, m)
  <2>1. Emitted(RequestMsg(Method[x], x)) /\ Emitted(RequestMsg("ACK", x))
    BY DEF Emitted
  <2> QED
    BY <1>4, <2>1 DEF RecordSend, SendAck
<1>5. CASE \/ Register \/ Hook \/ Answer \/ SetAnswered \/ Record200 \/ Hangup \/ HangupBye
           \/ SetEnded \/ OnState \/ Unregister \/ EndDialog
  BY <1>5 DEF Register, Hook, Answer, SetAnswered, Record200, Hangup, HangupBye,
              SetEnded, OnState, Unregister, EndDialog
<1>6. CASE \/ \E q \in Requests : Observe(q)
           \/ \E x \in Sends : BeginSend(x) \/ SendAnswered(x) \/ SendFails(x)
           \/ \E w \in Waiters : AwaitReceivedRequest(w) \/ Poll(w) \/ AwaitExpires(w)
           \/ UNCHANGED vars
  BY <1>6 DEF Observe, BeginSend, SendAnswered, SendFails, AwaitReceivedRequest, Poll,
              AwaitExpires, vars
<1> QED
  BY <1>1, <1>2, <1>3, <1>4, <1>5, <1>6 DEF Next, OwnerStep

-----------------------------------------------------------------------------
\* Types.

\* Everything but the record.
PlainTypes ==
  /\ direction \in {"inbound", "outbound"}
  /\ state \in {"init", "answered", "ended"}
  /\ answeredAt \in BOOLEAN /\ ended \in BOOLEAN
  /\ registered \in BOOLEAN /\ unregister \in BOOLEAN /\ hooked \in BOOLEAN
  /\ dialog \in {"early", "open", "ended"}
  /\ callback \in BOOLEAN
  /\ owner \in {"build", "register", "hook", "answer", "respond", "setAnswered",
                "record200", "talk", "bye", "setEnded", "gone"}

ProcessTypes ==
  /\ req \in [Requests -> {"none", "handling", "answered"}]
  /\ send \in [Sends -> {"idle", "checked", "waiting", "ack", "done"}]
  /\ wait \in [Waiters -> {"idle", "polling", "returned", "expired"}]
  /\ got \in [Waiters -> Messages \cup {None}]

\* The steps of handlers, senders and waiters, none of which touches the call.
Quiet ==
  \/ \E q \in Requests : Observe(q) \/ Reply(q)
  \/ \E x \in Sends : \/ BeginSend(x) \/ RecordSend(x) \/ SendAnswered(x)
                      \/ SendFails(x) \/ SendAck(x)
  \/ \E w \in Waiters : AwaitReceivedRequest(w) \/ Poll(w) \/ AwaitExpires(w)

LEMMA QuietPlain == Quiet => UNCHANGED <<callVars, dialog, callback, owner>>
  BY DEF Quiet, Observe, Reply, BeginSend, RecordSend, SendAnswered, SendFails, SendAck,
         AwaitReceivedRequest, Poll, AwaitExpires

LEMMA TypeParts ==
  TypeOK <=> PlainTypes /\ ProcessTypes /\ recv \in Seq(Messages) /\ sent \in Seq(Messages)
  BY DEF TypeOK, PlainTypes, ProcessTypes

LEMMA OwnerTypes ==
  ASSUME TypeOK, OwnerStep
  PROVE  PlainTypes' /\ ProcessTypes'
<1>1. ProcessTypes'
  <2>1. UNCHANGED <<req, send, wait, got>>
    BY DEF OwnerStep, Build, Register, Hook, Answer, Respond200, SetAnswered, Record200,
           Hangup, HangupBye, SetEnded
  <2> QED
    BY <2>1 DEF TypeOK, ProcessTypes
<1>2. PlainTypes'
  <2> USE DEF TypeOK, PlainTypes, callVars
  <2>1. CASE Build
    BY <2>1 DEF Build
  <2>2. CASE Register
    BY <2>2 DEF Register
  <2>3. CASE Hook
    BY <2>3 DEF Hook
  <2>4. CASE Answer
    BY <2>4 DEF Answer
  <2>5. CASE Respond200
    BY <2>5 DEF Respond200
  <2>6. CASE SetAnswered
    BY <2>6 DEF SetAnswered
  <2>7. CASE Record200
    BY <2>7 DEF Record200
  <2>8. CASE Hangup
    BY <2>8 DEF Hangup
  <2>9. CASE HangupBye
    BY <2>9 DEF HangupBye
  <2>10. CASE SetEnded
    BY <2>10 DEF SetEnded, SetState
  <2> QED
    BY <2>1, <2>2, <2>3, <2>4, <2>5, <2>6, <2>7, <2>8, <2>9, <2>10 DEF OwnerStep
<1> QED
  BY <1>1, <1>2

LEMMA StepType == TypeOK /\ [Next]_vars => TypeOK'
<1> SUFFICES ASSUME TypeOK, [Next]_vars PROVE TypeOK'
  OBVIOUS
<1>1. recv' \in Seq(Messages) /\ sent' \in Seq(Messages)
  <2>1. recv' = recv \/ \E m \in Messages : recv' = Append(recv, m)
    BY RecvGrows
  <2>2. sent' = sent \/ \E m \in Messages : sent' = Append(sent, m)
    BY SentGrows
  <2>3. recv \in Seq(Messages) /\ sent \in Seq(Messages)
    BY DEF TypeOK
  <2>4. \A s \in Seq(Messages), m \in Messages : Append(s, m) \in Seq(Messages)
    OBVIOUS
  <2> QED
    BY <2>1, <2>2, <2>3, <2>4
<1>2. PlainTypes' /\ ProcessTypes'
  <2>1. CASE OwnerStep
    BY <2>1, OwnerTypes
  <2>2. CASE Ring \/ Unregister \/ EndDialog \/ OnState
    <3>1. ProcessTypes'
      BY <2>2 DEF TypeOK, ProcessTypes, Ring, Unregister, EndDialog, OnState
    <3>2. CASE Ring
      BY <3>1, <3>2 DEF TypeOK, PlainTypes, callVars, Ring
    <3>3. CASE Unregister
      BY <3>1, <3>3, ZenonT(60) DEF TypeOK, PlainTypes, callVars, Unregister
    <3>4. CASE EndDialog
      BY <3>1, <3>4 DEF TypeOK, PlainTypes, callVars, EndDialog
    <3>5. CASE OnState
      BY <3>1, <3>5 DEF TypeOK, PlainTypes, callVars, OnState, SetState
    <3> QED
      BY <2>2, <3>2, <3>3, <3>4, <3>5
  <2>3. CASE Quiet
    <3>1. PlainTypes'
      BY <2>3, QuietPlain DEF TypeOK, PlainTypes, callVars
    <3>2. ASSUME NEW q \in Requests, Observe(q) PROVE ProcessTypes'
      BY <3>2 DEF TypeOK, ProcessTypes, Observe
    <3>3. ASSUME NEW q \in Requests, Reply(q) PROVE ProcessTypes'
      BY <3>3 DEF TypeOK, ProcessTypes, Reply
    <3>4. ASSUME NEW x \in Sends,
                 BeginSend(x) \/ RecordSend(x) \/ SendAnswered(x) \/ SendFails(x) \/ SendAck(x)
          PROVE  ProcessTypes'
      <4>1. UNCHANGED <<req, wait, got>>
        BY <3>4 DEF BeginSend, RecordSend, SendAnswered, SendFails, SendAck
      <4>2. \E p \in {"checked", "waiting", "ack", "done"} : send' = [send EXCEPT ![x] = p]
        BY <3>4 DEF BeginSend, RecordSend, SendAnswered, SendFails, SendAck
      <4> QED
        BY <4>1, <4>2 DEF TypeOK, ProcessTypes
    <3>5. ASSUME NEW w \in Waiters, AwaitReceivedRequest(w) \/ AwaitExpires(w)
          PROVE  ProcessTypes'
      BY <3>5 DEF TypeOK, ProcessTypes, AwaitReceivedRequest, AwaitExpires
    <3>6. ASSUME NEW w \in Waiters, Poll(w) PROVE ProcessTypes'
      BY <3>6 DEF TypeOK, ProcessTypes, Poll, Found
    <3> QED
      BY <2>3, <3>1, <3>2, <3>3, <3>4, <3>5, <3>6 DEF Quiet
  <2>4. CASE UNCHANGED vars
    BY <2>4 DEF vars, callVars, TypeOK, PlainTypes, ProcessTypes
  <2> QED
    BY <2>1, <2>2, <2>3, <2>4 DEF Next, Quiet
<1> QED
  BY <1>1, <1>2 DEF TypeOK, PlainTypes, ProcessTypes

LEMMA InitType == Init => TypeOK
<1> SUFFICES ASSUME Init PROVE TypeOK
  OBVIOUS
<1>1. PlainTypes
  BY DEF Init, PlainTypes
<1>2. ProcessTypes
  BY DEF Init, ProcessTypes
<1> QED
  BY <1>1, <1>2, TypeParts DEF Init

\* The state of a call and its record keep their types: the messages on record are
\* well formed whoever files them.
THEOREM ObserverTypeCorrect == Spec => []TypeOK
  BY InitType, StepType, PTL DEF Spec
-----------------------------------------------------------------------------
\* The life of a call, whatever the peer does to its dialog while it is built.

\* The call is in the registry from Register until it has ended, and nothing ends
\* it before its callback is installed; the owner answers it once, on the side
\* the direction says.
Life ==
  /\ owner \in {"build", "register"} => ~registered
  /\ owner \in {"build", "register", "hook"} => ~hooked /\ ~ended /\ ~answeredAt
  /\ callback => hooked
  /\ unregister => ended
  /\ owner \notin {"build", "register"} /\ ~ended => registered
  /\ owner \in {"answer", "respond"} => direction = "inbound"
  /\ owner = "record200" => direction = "outbound"
  /\ owner \in {"answer", "respond", "setAnswered"} => ~answeredAt

LEMMA StepLife == TypeOK /\ Life /\ [Next]_vars => Life'
<1> SUFFICES ASSUME TypeOK, Life, [Next]_vars PROVE Life'
  OBVIOUS
<1> USE DEF Life, callVars
<1>1. CASE Build
  BY <1>1 DEF Build
<1>2. CASE Register
  BY <1>2 DEF Register
<1>3. CASE Hook
  BY <1>3 DEF Hook, TypeOK
<1>4. CASE Answer
  BY <1>4 DEF Answer
<1>5. CASE Respond200
  BY <1>5 DEF Respond200
<1>6. CASE SetAnswered
  BY <1>6 DEF SetAnswered, TypeOK
<1>7. CASE Record200
  BY <1>7 DEF Record200
<1>8. CASE Hangup
  BY <1>8 DEF Hangup
<1>9. CASE HangupBye
  BY <1>9 DEF HangupBye
<1>10. CASE SetEnded
  BY <1>10 DEF SetEnded, SetState
<1>11. CASE Ring
  BY <1>11 DEF Ring
<1>12. CASE OnState
  BY <1>12 DEF OnState, SetState
<1>13. CASE Unregister
  BY <1>13 DEF Unregister
<1>14. CASE EndDialog
  BY <1>14 DEF EndDialog
<1>15. CASE Quiet
  BY <1>15, QuietPlain
<1>16. CASE UNCHANGED vars
  BY <1>16 DEF vars
<1> QED
  BY <1>1, <1>2, <1>3, <1>4, <1>5, <1>6, <1>7, <1>8, <1>9, <1>10, <1>11, <1>12, <1>13,
     <1>14, <1>15, <1>16 DEF Next, OwnerStep, Quiet

\* An entry of a longer record is an entry of the shorter one or the new one.
LEMMA Entries ==
  ASSUME NEW s \in Seq(Messages), NEW m \in Messages
  PROVE  /\ Len(Append(s, m)) = Len(s) + 1 /\ Len(s) \in Nat
         /\ \A i \in 1..Len(s) : Append(s, m)[i] = s[i]
         /\ Append(s, m)[Len(s) + 1] = m
         /\ \A i \in 1..(Len(s) + 1) : i \in 1..Len(s) \/ i = Len(s) + 1
  OBVIOUS

-----------------------------------------------------------------------------
\* AwaitReceivedRequest.

\* A request on record is one of the peer's, under its own method.
FromPeer(m) ==
  m.code = 0 => \/ m.of \in Requests /\ m.method = Method[m.of]
                \/ m.of = Invite /\ m.method = "INVITE" /\ direction = "inbound"

RecvHonest == \A i \in 1..Len(recv) : FromPeer(recv[i])

AwaitInv ==
  /\ TypeOK
  /\ RecvHonest
  /\ AwaitHonest

LEMMA DirectionFixed == [Next]_vars => direction' = direction
  BY DEF Next, OwnerStep, Build, Register, Hook, Answer, Respond200, SetAnswered, Record200,
         Hangup, HangupBye, SetEnded, Ring, OnState, Unregister, EndDialog, Observe, Reply,
         BeginSend, RecordSend, SendAnswered, SendFails, SendAck, AwaitReceivedRequest,
         Poll, AwaitExpires, vars, callVars

LEMMA ReceivedFromPeer == \A m : Received(m) => FromPeer(m)
  BY DEF Received, FromPeer, RequestMsg, ResponseMsg

LEMMA StepRecvHonest == TypeOK /\ RecvHonest /\ [Next]_vars => RecvHonest'
<1> SUFFICES ASSUME TypeOK, RecvHonest, [Next]_vars PROVE RecvHonest'
  OBVIOUS
<1>1. direction' = direction
  BY DirectionFixed
<1>2. CASE recv' = recv
  BY <1>1, <1>2 DEF RecvHonest, FromPeer
<1>3. ASSUME NEW m \in Messages, Received(m), recv' = Append(recv, m) PROVE RecvHonest'
  <2>1. recv \in Seq(Messages)
    BY DEF TypeOK
  <2>2. FromPeer(m)
    BY <1>3, ReceivedFromPeer
  <2>3. \A i \in 1..Len(recv') : FromPeer(recv'[i])
    BY <1>3, <2>1, <2>2, Entries DEF RecvHonest
  <2> QED
    BY <1>1, <2>3 DEF RecvHonest, FromPeer
<1> QED
  BY <1>2, <1>3, RecvGrows

LEMMA StepAwait == AwaitInv /\ [Next]_vars => AwaitHonest'
<1> SUFFICES ASSUME AwaitInv, [Next]_vars PROVE AwaitHonest'
  OBVIOUS
<1>1. direction' = direction
  BY DirectionFixed
<1>2. wait \in [Waiters -> {"idle", "polling", "returned", "expired"}]
      /\ got \in [Waiters -> Messages \cup {None}]
  BY DEF AwaitInv, TypeOK
<1>3. ASSUME NEW w \in Waiters, Poll(w) PROVE AwaitHonest'
  <2>1. PICK i \in Found(w) : got' = [got EXCEPT ![w] = recv[i]]
    BY <1>3 DEF Poll
  <2>2. i \in 1..Len(recv) /\ recv[i].code = 0 /\ recv[i].method = Method[w]
    BY DEF Found, Match
  <2>3. FromPeer(recv[i])
    BY <2>2 DEF AwaitInv, RecvHonest
  <2>4. got'[w] = recv[i] /\ \A u \in Waiters \ {w} : got'[u] = got[u] /\ wait'[u] = wait[u]
    BY <1>2, <1>3, <2>1 DEF Poll
  <2>5. \/ got'[w].of \in Requests /\ Method[got'[w].of] = Method[w]
        \/ got'[w].of = Invite /\ direction' = "inbound" /\ Method[w] = "INVITE"
    BY <1>1, <2>2, <2>3, <2>4 DEF FromPeer
  <2> QED
    BY <1>1, <2>4, <2>5 DEF AwaitInv, AwaitHonest
<1>4. ASSUME NEW w \in Waiters, AwaitReceivedRequest(w) \/ AwaitExpires(w) PROVE AwaitHonest'
  <2>1. got' = got /\ \A u \in Waiters : wait'[u] = "returned" => wait[u] = "returned"
    BY <1>2, <1>4 DEF AwaitReceivedRequest, AwaitExpires
  <2> QED
    BY <1>1, <2>1 DEF AwaitInv, AwaitHonest
<1>5. CASE UNCHANGED <<wait, got>>
  BY <1>1, <1>5 DEF AwaitInv, AwaitHonest
<1> QED
  BY <1>3, <1>4, <1>5 DEF Next, OwnerStep, Build, Register, Hook, Answer, Respond200,
     SetAnswered, Record200, Hangup, HangupBye, SetEnded, Ring, OnState, Unregister,
     EndDialog, Observe, Reply, BeginSend, RecordSend, SendAnswered, SendFails, SendAck, vars

\* Whatever is filed while a goroutine polls, AwaitReceivedRequest hands it a request
\* the peer sent, never an answer that bears the method awaited.
THEOREM AwaitIsHonest == Spec => []AwaitHonest
<1>1. Init => AwaitInv
  <2>1. Init => TypeOK
    BY InitType
  <2> QED
    BY <2>1 DEF Init, AwaitInv, RecvHonest, AwaitHonest
<1>2. AwaitInv /\ [Next]_vars => AwaitInv'
  BY StepType, StepRecvHonest, StepAwait DEF AwaitInv
<1>3. AwaitInv => AwaitHonest
  BY DEF AwaitInv
<1> QED
  BY <1>1, <1>2, <1>3, PTL DEF Spec
-----------------------------------------------------------------------------
\* The answer is on record.

\* An INVITE's 200 is filed under the transaction of an INVITE.
OkOfInvite(m) == InviteOk(m) => m.of = Invite \/ Method[m.of] = "INVITE"

\* The record s has a 200 of an INVITE, and a last one: what AnsweredResponse looks
\* for is there to be found.
HasOk(s) ==
  \E i \in 1..Len(s) : InviteOk(s[i]) /\ \A j \in 1..Len(s) : InviteOk(s[j]) => j <= i

\* A call that was answered and has not ended has its answer on record, from the
\* step that sends it (inbound) or the one that files it (outbound).
AnswerFiled ==
  /\ direction = "inbound" /\ ~ended /\ (answeredAt \/ owner = "setAnswered") => HasOk(sent)
  /\ direction = "outbound" /\ answeredAt /\ owner # "record200" => HasOk(recv)

AnswerInv ==
  /\ TypeOK
  /\ Life
  /\ \A i \in 1..Len(recv) : OkOfInvite(recv[i])
  /\ \A i \in 1..Len(sent) : OkOfInvite(sent[i])
  /\ AnswerFiled

LEMMA FiledOks ==
  /\ \A m : Received(m) => OkOfInvite(m)
  /\ \A m : Emitted(m) => OkOfInvite(m)
  BY DEF Received, Emitted, OkOfInvite, InviteOk, RequestMsg, ResponseMsg

\* A longer record still has one, and a 200 of an INVITE makes one.
LEMMA OkStays ==
  ASSUME NEW s \in Seq(Messages), NEW m \in Messages, HasOk(s) \/ InviteOk(m)
  PROVE  HasOk(Append(s, m))
<1>1. /\ Len(Append(s, m)) = Len(s) + 1 /\ Len(s) \in Nat
      /\ \A i \in 1..Len(s) : Append(s, m)[i] = s[i]
      /\ Append(s, m)[Len(s) + 1] = m
  BY Entries
<1>2. CASE InviteOk(m)
  <2>1. Len(s) + 1 \in 1..Len(Append(s, m)) /\ InviteOk(Append(s, m)[Len(s) + 1])
    BY <1>1, <1>2
  <2>2. \A j \in 1..Len(Append(s, m)) : j <= Len(s) + 1
    BY <1>1
  <2> QED
    BY <2>1, <2>2 DEF HasOk
<1>3. CASE ~InviteOk(m) /\ HasOk(s)
  <2>1. PICK i \in 1..Len(s) : InviteOk(s[i]) /\ \A j \in 1..Len(s) : InviteOk(s[j]) => j <= i
    BY <1>3 DEF HasOk
  <2>2. i \in 1..Len(Append(s, m)) /\ InviteOk(Append(s, m)[i])
    BY <1>1, <2>1
  <2>3. ASSUME NEW j \in 1..Len(Append(s, m)), InviteOk(Append(s, m)[j]) PROVE j <= i
    <3>1. j \in 1..Len(s)
      BY <1>1, <1>3, <2>3
    <3> QED
      BY <1>1, <2>1, <2>3, <3>1
  <2> QED
    BY <2>2, <2>3 DEF HasOk
<1> QED
  BY <1>2, <1>3

LEMMA RecordKeepsOk ==
  ASSUME TypeOK, [Next]_vars
  PROVE  (HasOk(recv) => HasOk(recv')) /\ (HasOk(sent) => HasOk(sent'))
<1>1. recv' = recv \/ \E m \in Messages : recv' = Append(recv, m)
  BY RecvGrows
<1>2. sent' = sent \/ \E m \in Messages : sent' = Append(sent, m)
  BY SentGrows
<1>3. recv \in Seq(Messages) /\ sent \in Seq(Messages)
  BY DEF TypeOK
<1> QED
  BY <1>1, <1>2, <1>3, OkStays

LEMMA StepOks ==
  ASSUME AnswerInv, [Next]_vars
  PROVE  /\ \A i \in 1..Len(recv') : OkOfInvite(recv'[i])
         /\ \A i \in 1..Len(sent') : OkOfInvite(sent'[i])
<1>1. recv \in Seq(Messages) /\ sent \in Seq(Messages)
  BY DEF AnswerInv, TypeOK
<1>2. recv' = recv \/ \E m \in Messages : OkOfInvite(m) /\ recv' = Append(recv, m)
  BY RecvGrows, FiledOks
<1>3. sent' = sent \/ \E m \in Messages : OkOfInvite(m) /\ sent' = Append(sent, m)
  BY SentGrows, FiledOks
<1>4. \A i \in 1..Len(recv') : OkOfInvite(recv'[i])
  BY <1>1, <1>2, Entries DEF AnswerInv
<1>5. \A i \in 1..Len(sent') : OkOfInvite(sent'[i])
  BY <1>1, <1>3, Entries DEF AnswerInv
<1> QED
  BY <1>4, <1>5

LEMMA OkMessage ==
  LET m == ResponseMsg("INVITE", 200, Invite) IN m \in Messages /\ InviteOk(m)
  BY DEF ResponseMsg, Messages, Transactions, InviteOk

LEMMA StepFiled == AnswerInv /\ [Next]_vars => AnswerFiled'
<1> SUFFICES ASSUME AnswerInv, [Next]_vars PROVE AnswerFiled'
  OBVIOUS
<1>1. (HasOk(recv) => HasOk(recv')) /\ (HasOk(sent) => HasOk(sent'))
  BY RecordKeepsOk DEF AnswerInv
<1>2. direction' = direction /\ recv \in Seq(Messages) /\ sent \in Seq(Messages)
  BY DirectionFixed DEF AnswerInv, TypeOK
<1>3. CASE Respond200
  <2>1. ~ended => registered
    BY <1>3 DEF Respond200, AnswerInv, Life
  <2>2. ~ended => HasOk(sent')
    BY <1>2, <1>3, <2>1, OkStays, OkMessage DEF Respond200, Respond, Lookup
  <2>3. direction = "inbound" /\ answeredAt' = answeredAt /\ ended' = ended
    BY <1>3 DEF Respond200, AnswerInv, Life, callVars
  <2> QED
    BY <1>2, <2>2, <2>3 DEF AnswerFiled
<1>4. CASE Record200
  <2>1. HasOk(recv') /\ direction = "outbound"
    BY <1>2, <1>4, OkStays, OkMessage DEF Record200, AnswerInv, Life
  <2> QED
    BY <1>2, <2>1 DEF AnswerFiled
<1>5. CASE SetAnswered
  <2>1. ended' = ended /\ owner = "setAnswered" /\ (direction = "outbound" => owner' = "record200")
    BY <1>5 DEF SetAnswered
  <2> QED
    BY <1>1, <1>2, <2>1 DEF AnswerInv, AnswerFiled
<1>6. CASE Hook
  <2>1. answeredAt' = answeredAt /\ ended' = ended /\ ~answeredAt /\ (direction = "inbound" => owner' = "answer")
    BY <1>6 DEF Hook, AnswerInv, Life
  <2> QED
    BY <1>2, <2>1 DEF AnswerFiled
<1>7. CASE Build \/ Register \/ Answer \/ Hangup \/ HangupBye
  <2>1. answeredAt' = answeredAt /\ ended' = ended /\ owner' # "setAnswered" /\ owner # "record200"
    BY <1>7 DEF Build, Register, Answer, Hangup, HangupBye, callVars
  <2> QED
    BY <1>1, <1>2, <2>1 DEF AnswerInv, AnswerFiled
<1>8. CASE SetEnded
  <2>1. answeredAt' = answeredAt /\ ended' /\ owner # "record200"
    BY <1>8 DEF SetEnded, SetState
  <2> QED
    BY <1>1, <1>2, <2>1 DEF AnswerInv, AnswerFiled
<1>9. CASE OnState
  <2>1. answeredAt' = answeredAt /\ ended' /\ owner' = owner
    BY <1>9 DEF OnState, SetState
  <2> QED
    BY <1>1, <1>2, <2>1 DEF AnswerInv, AnswerFiled
<1>10. CASE UNCHANGED <<answeredAt, ended, owner>>
  BY <1>1, <1>2, <1>10 DEF AnswerInv, AnswerFiled
<1>11. Ring \/ Unregister \/ EndDialog \/ Quiet \/ UNCHANGED vars => UNCHANGED <<answeredAt, ended, owner>>
  BY QuietPlain DEF Ring, Unregister, EndDialog, callVars, vars
<1> QED
  BY <1>3, <1>4, <1>5, <1>6, <1>7, <1>8, <1>9, <1>10, <1>11 DEF Next, OwnerStep, Quiet

\* AnsweredResponse returns a 200 of an INVITE when there is one on its side.
LEMMA AnsweredFinds ==
  ASSUME NEW s \in Seq(Messages), HasOk(s),
         s = (IF direction = "outbound" THEN recv ELSE sent)
  PROVE  \E i \in 1..Len(s) : AnsweredResponse = s[i] /\ InviteOk(s[i])
<1> DEFINE ok == {i \in 1..Len(s) : InviteOk(s[i])}
<1>1. \E i \in ok : \A j \in ok : j <= i
  BY DEF HasOk
<1>2. ok # {} /\ AnsweredResponse = s[CHOOSE i \in ok : \A j \in ok : j <= i]
  BY <1>1 DEF AnsweredResponse
<1>3. (CHOOSE i \in ok : \A j \in ok : j <= i) \in ok
  BY <1>1
<1> QED
  BY <1>2, <1>3

\* A call that was answered and has not ended has its answer on record, in whichever
\* order the registration, the answer, requests of both sides and the end of the
\* dialog came.
THEOREM AnswerIsOnRecord == Spec => []AnswerOnRecord
<1>1. Init => AnswerInv
  <2>1. Init => TypeOK
    BY InitType
  <2>2. Init => Life
    BY DEF Init, Life
  <2>3. Init => AnswerFiled
    BY DEF Init, AnswerFiled
  <2> QED
    BY <2>1, <2>2, <2>3 DEF Init, AnswerInv
<1>2. AnswerInv /\ [Next]_vars => AnswerInv'
  <2> SUFFICES ASSUME AnswerInv, [Next]_vars PROVE AnswerInv'
    OBVIOUS
  <2>1. TypeOK' /\ Life'
    BY StepType, StepLife DEF AnswerInv
  <2>2. AnswerFiled'
    BY StepFiled
  <2>3. /\ \A i \in 1..Len(recv') : OkOfInvite(recv'[i])
        /\ \A i \in 1..Len(sent') : OkOfInvite(sent'[i])
    BY StepOks
  <2> QED
    BY <2>1, <2>2, <2>3 DEF AnswerInv, OkOfInvite, InviteOk
<1>3. AnswerInv => AnswerOnRecord
  <2> SUFFICES ASSUME AnswerInv, answeredAt, ~ended, owner # "record200"
               PROVE  /\ AnsweredResponse # None
                      /\ AnsweredResponse.of = Invite \/ Method[AnsweredResponse.of] = "INVITE"
    BY DEF AnswerOnRecord
  <2> DEFINE s == IF direction = "outbound" THEN recv ELSE sent
  <2>1. s \in Seq(Messages) /\ \A i \in 1..Len(s) : OkOfInvite(s[i])
    BY DEF AnswerInv, TypeOK
  <2>2. HasOk(s)
    BY DEF AnswerInv, AnswerFiled, TypeOK
  <2>3. PICK i \in 1..Len(s) : AnsweredResponse = s[i] /\ InviteOk(s[i])
    BY <2>1, <2>2, AnsweredFinds
  <2>4. s[i] \in Messages
    BY <2>1
  <2> QED
    BY <2>1, <2>3, <2>4, NamesAssumption DEF OkOfInvite
<1> QED
  BY <1>1, <1>2, <1>3, PTL DEF Spec

-----------------------------------------------------------------------------
\* Nothing is lost from the record of a live call.

\* A request of the peer on record came through the registry.
ThroughRegistry ==
  (\E i \in 1..Len(recv) : recv[i].of \in Requests) => owner \notin {"build", "register"}

LossInv ==
  /\ TypeOK
  /\ Life
  /\ ThroughRegistry
  /\ LossMeansEnd

\* What a new entry of recv is about.
LEMMA ReceivedAbout ==
  ASSUME NEW m \in Messages, Received(m), m.of \in Requests
  PROVE  registered /\ req[m.of] = "none"
  BY NamesAssumption DEF Received, RequestMsg, ResponseMsg

LEMMA StepThrough == LossInv /\ [Next]_vars => ThroughRegistry'
<1> SUFFICES ASSUME LossInv, [Next]_vars, NEW i \in 1..Len(recv'), recv'[i].of \in Requests
             PROVE  owner' \notin {"build", "register"}
  BY DEF ThroughRegistry
<1>1. recv \in Seq(Messages)
  BY DEF LossInv, TypeOK
<1>2. owner \notin {"build", "register"}
  <2>1. CASE recv' = recv
    BY <2>1 DEF LossInv, ThroughRegistry
  <2>2. ASSUME NEW m \in Messages, Received(m), recv' = Append(recv, m)
        PROVE  owner \notin {"build", "register"}
    <3>1. CASE i \in 1..Len(recv)
      BY <1>1, <2>2, <3>1, Entries DEF LossInv, ThroughRegistry
    <3>2. CASE recv'[i] = m
      BY <2>2, <3>2, ReceivedAbout DEF LossInv, Life
    <3> QED
      BY <1>1, <2>2, <3>1, <3>2, Entries
  <2> QED
    BY <2>1, <2>2, RecvGrows
<1> QED
  <2>1. OwnerStep \/ owner' = owner
    BY QuietPlain DEF Next, Quiet, Ring, OnState, Unregister, EndDialog, vars
  <2> QED
    BY <1>2, <2>1 DEF OwnerStep, Build, Register, Hook, Answer, Respond200, SetAnswered,
       Record200, Hangup, HangupBye, SetEnded, LossInv, TypeOK

LEMMA EndedStays == [Next]_vars => (ended => ended')
  BY DEF Next, OwnerStep, Build, Register, Hook, Answer, Respond200, SetAnswered, Record200,
         Hangup, HangupBye, SetEnded, Ring, OnState, SetState, Unregister, EndDialog, Observe,
         Reply, BeginSend, RecordSend, SendAnswered, SendFails, SendAck, AwaitReceivedRequest,
         Poll, AwaitExpires, vars, callVars

LEMMA ReqMoves ==
  ASSUME TypeOK, [Next]_vars, NEW q \in Requests
  PROVE  req'[q] = req[q] \/ Observe(q) \/ Reply(q)
<1>1. req \in [Requests -> {"none", "handling", "answered"}]
  BY DEF TypeOK
<1>2. ASSUME NEW r \in Requests, Observe(r) \/ Reply(r)
      PROVE  req'[q] = req[q] \/ Observe(q) \/ Reply(q)
  BY <1>1, <1>2 DEF Observe, Reply
<1> QED
  BY <1>2 DEF Next, OwnerStep, Build, Register, Hook, Answer, Respond200, SetAnswered,
     Record200, Hangup, HangupBye, SetEnded, Ring, OnState, Unregister, EndDialog,
     BeginSend, RecordSend, SendAnswered, SendFails, SendAck, AwaitReceivedRequest,
     Poll, AwaitExpires, vars

LEMMA StepLoss == LossInv /\ [Next]_vars => LossMeansEnd'
<1> SUFFICES ASSUME LossInv, [Next]_vars, NEW q \in Requests,
                    req'[q] = "answered",
                    \E i \in 1..Len(recv') : recv'[i].of = q,
                    \A i \in 1..Len(sent') : sent'[i].of # q
             PROVE  ended'
  BY DEF LossMeansEnd
<1>1. recv \in Seq(Messages) /\ sent \in Seq(Messages)
      /\ req \in [Requests -> {"none", "handling", "answered"}]
  BY DEF LossInv, TypeOK
<1>2. req[q] # "none"
  <2>1. CASE Observe(q)
    BY <1>1, <2>1 DEF Observe
  <2>2. CASE req'[q] = req[q] \/ Reply(q)
    BY <2>2 DEF Reply
  <2> QED
    BY <2>1, <2>2, ReqMoves DEF LossInv
<1>3. \E i \in 1..Len(recv) : recv[i].of = q
  <2>1. CASE recv' = recv
    BY <2>1
  <2>2. ASSUME NEW m \in Messages, Received(m), recv' = Append(recv, m)
        PROVE  \E i \in 1..Len(recv) : recv[i].of = q
    <3>1. m.of # q
      BY <1>2, <2>2, ReceivedAbout
    <3> QED
      BY <1>1, <2>2, <3>1, Entries
  <2> QED
    BY <2>1, <2>2, RecvGrows
<1>4. \A i \in 1..Len(sent) : sent[i].of # q
  <2>1. sent' = sent \/ \E m \in Messages : sent' = Append(sent, m)
    BY SentGrows
  <2> QED
    BY <1>1, <2>1, Entries
<1>5. CASE Reply(q)
  <2>1. ~Lookup(q)
    <3> SUFFICES ASSUME Lookup(q) PROVE FALSE
      OBVIOUS
    <3>1. ResponseMsg(Method[q], 200, q) \in Messages /\ ResponseMsg(Method[q], 200, q).of = q
      BY MethodAssumption DEF ResponseMsg, Messages, Transactions
    <3>2. sent' = Append(sent, ResponseMsg(Method[q], 200, q))
      BY <1>5 DEF Reply, Respond
    <3>3. Len(sent') = Len(sent) + 1 /\ Len(sent) \in Nat /\ sent'[Len(sent) + 1].of = q
      BY <1>1, <3>1, <3>2, Entries
    <3> QED
      BY <3>3
  <2>2. owner \notin {"build", "register"}
    BY <1>3 DEF LossInv, ThroughRegistry
  <2>3. ended
    BY <2>1, <2>2 DEF Lookup, LossInv, Life
  <2> QED
    BY <2>3, EndedStays
<1>6. CASE req'[q] = req[q]
  BY <1>3, <1>4, <1>6, EndedStays DEF LossInv, LossMeansEnd
<1> QED
  BY <1>1, <1>5, <1>6, ReqMoves DEF LossInv, Observe

\* The registry is looked at twice per request, and between the looks the call may
\* be registered or may end: only the second leaves a request without its answer.
THEOREM LossIsTheEnd == Spec => []LossMeansEnd
<1>1. Init => LossInv
  <2>1. Init => TypeOK
    BY InitType
  <2>2. Init => Life
    BY DEF Init, Life
  <2> QED
    BY <2>1, <2>2 DEF Init, LossInv, ThroughRegistry, LossMeansEnd
<1>2. LossInv /\ [Next]_vars => LossInv'
  BY StepType, StepLife, StepThrough, StepLoss DEF LossInv
<1>3. LossInv => LossMeansEnd
  BY DEF LossInv
<1> QED
  BY <1>1, <1>2, <1>3, PTL DEF Spec


=============================================================================
