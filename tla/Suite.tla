-------------------------------- MODULE Suite -------------------------------
(***************************************************************************)
(* The life of a test process against a shared jambonz cluster:            *)
(* AccountSweeper.Sweep, SetupSuiteAccount, the tests and                  *)
(* SuiteAccount.Teardown of internal/provision, as TestMain calls them.    *)
(*                                                                         *)
(* Several processes (Runs) work on one database at once and each may be   *)
(* killed at any moment.  A REST request is one step: it is refused        *)
(* without effect, takes effect and is answered, or takes effect and the   *)
(* answer is lost.  The database is the environment: DELETE of an account  *)
(* does not cascade to its SIP clients and fails while there is one.       *)
(***************************************************************************)
EXTENDS Naturals, FiniteSets

CONSTANTS Runs,     \* test processes
          RunID,    \* the RUN_ID of each; packages of one "make test" may share it
          Accounts, \* account SIDs
          Foreign,  \* accounts under the service provider that are not ours
          Clients,  \* SIP client SIDs
          AgeGate,  \* the sweeper's MinAge > 0
          Callers,  \* runs whose tests place a call (at most one each)
          None

ASSUME RunsAssumption == None \notin Runs /\ \A r \in Runs : RunID[r] # None
ASSUME AccountsAssumption == Foreign \subseteq Accounts /\ None \notin Accounts
ASSUME AgeGateAssumption == AgeGate \in BOOLEAN

VARIABLES
  acct,    \* the accounts table; id is the run ID in "it-<runID>-<suffix>"
  client,  \* the clients table
  call,    \* the call each run places: its dialog and its Redis record
  run      \* the processes

vars == <<acct, client, call, run>>

Ids == {RunID[r] : r \in Runs} \cup {None}

Account == [st   : {"unused", "there", "gone"},
            id   : Ids,                           \* None: no "it-" prefix
            age  : {"young", "old", "unknown"},   \* against MinAge; created_at unreadable
            key  : BOOLEAN,                       \* its API key is valid
            realm: BOOLEAN]                       \* sip_realm is set

PCs == {"start", "sweepList", "sweep", "create", "key", "realm", "verify",
        "testing", "listCalls", "hangup", "deleteCall", "listClients",
        "delClients", "delAccount", "confirm", "done", "failed", "crashed"}

Process == [pc   : PCs,
            job  : {"sweep", "undo", "teardown"}, \* whose deletions these are
            sid  : Accounts \cup {None},          \* the suite account
            todo : SUBSET Accounts,               \* accounts Sweep still has to look at
            snap : SUBSET Clients,                \* clients as they were listed
            cur  : Accounts \cup {None},          \* account being deleted
            left : SUBSET Clients,                \* of its clients, those still to delete
            made : SUBSET Clients,                \* clients of running tests
            errs : BOOLEAN,                       \* Teardown has an error to report
            fault: BOOLEAN,                       \* a request of the sweep, or the read after a 403,
                                                  \* was refused or not answered
            owed : SUBSET Accounts]               \* orphans this run's sweep met

\* record: Redis has it; asked: jambonz has accepted to end the call; dropped: the
\* cleanup of ManagedCall deleted the record (history).
CallRecord == [up: BOOLEAN, record: BOOLEAN, placed: BOOLEAN, managed: BOOLEAN,
               asked: BOOLEAN, dropped: BOOLEAN]

\* A call as it is placed, and none.
NewCall(m) == [up |-> TRUE, record |-> TRUE, placed |-> TRUE, managed |-> m,
               asked |-> FALSE, dropped |-> FALSE]
NoCall == [up |-> FALSE, record |-> FALSE, placed |-> FALSE, managed |-> FALSE,
           asked |-> FALSE, dropped |-> FALSE]

TypeOK ==
  /\ acct \in [Accounts -> Account]
  /\ client \in [Clients -> [st: {"unused", "there", "gone"}, acct: Accounts \cup {None}]]
  /\ call \in [Runs -> CallRecord]
  /\ run \in [Runs -> Process]

Over(r) == run[r].pc \in {"done", "failed", "crashed"}

\* A process with nothing in hand.
Blank(pc) ==
  [pc |-> pc, job |-> "sweep", sid |-> None, todo |-> {}, snap |-> {}, cur |-> None,
   left |-> {}, made |-> {}, errs |-> FALSE, fault |-> FALSE, owed |-> {}]

\* The service provider's own accounts are old, and may have clients.
Init ==
  /\ acct = [a \in Accounts |->
               [st |-> IF a \in Foreign THEN "there" ELSE "unused", id |-> None,
                age |-> "old", key |-> FALSE, realm |-> FALSE]]
  /\ client \in {f \in [Clients -> [st: {"unused", "there"}, acct: Foreign \cup {None}]] :
                   \A c \in Clients : f[c].st = "there" <=> f[c].acct # None}
  /\ call = [r \in Runs |-> NoCall]
  /\ run = [r \in Runs |-> Blank("start")]

There == {a \in Accounts : acct[a].st = "there"}
Listed == {c \in Clients : client[c].st = "there"}

\* A request took effect, and the client knows it, unless the answer was lost.
Outcomes == {"ok", "refused", "lost"}
TakesEffect(o) == o # "refused"
Fails(o) == o # "ok"

-----------------------------------------------------------------------------
\* AccountSweeper.Sweep.

\* What a sweep exists for: old harness accounts that no living process uses.
Orphans(r) == {a \in There : /\ acct[a].id \notin {None, RunID[r]}
                             /\ acct[a].age = "old"
                             /\ \A q \in Runs : run[q].sid = a => Over(q)}

ListAccounts(r) ==
  /\ run[r].pc = "start"
  /\ \/ run' = [run EXCEPT ![r].pc = "sweepList", ![r].todo = There,
                           ![r].owed = Orphans(r)]
     \/ run' = [run EXCEPT ![r].pc = "create"]
  /\ UNCHANGED <<acct, client, call>>

\* Mutant: no age gate.
ShouldSweepAnyAge(r, a) == acct[a].id \notin {None, RunID[r]}

\* shouldSweep
ShouldSweep(r, a) ==
  /\ acct[a].id # None
  /\ acct[a].id # RunID[r]
  /\ AgeGate => acct[a].age = "old"

\* All clients are listed once, then time.Now() is read.  Without the list the
\* accounts are swept all the same.
ListSIPClients(r) ==
  /\ run[r].pc = "sweepList"
  /\ \E o \in {"ok", "refused"} :
       run' = [run EXCEPT ![r].pc = "sweep",
                          ![r].snap = IF o = "ok" THEN Listed ELSE {},
                          ![r].todo = {a \in @ : ShouldSweep(r, a)},
                          ![r].fault = Fails(o)]
  /\ UNCHANGED <<acct, client, call>>

\* Mutant: the account is deleted before its clients.
NoneOf(r, a) == {}

\* The listed clients of account a.
ClientsOf(r, a) == {c \in run[r].snap : client[c].acct = a}

SweepAccount(r) ==
  /\ run[r].pc = "sweep"
  /\ \E a \in run[r].todo :
       run' = [run EXCEPT ![r].pc = "delClients", ![r].job = "sweep", ![r].cur = a,
                          ![r].todo = @ \ {a}, ![r].left = ClientsOf(r, a)]
  /\ UNCHANGED <<acct, client, call>>

\* A sweep whose requests were not all answered owes nothing; the next run tries
\* again.
SweepEnds(r) ==
  /\ run[r].pc = "sweep"
  /\ run[r].todo = {}
  /\ run' = [run EXCEPT ![r].pc = "create", ![r].snap = {}, ![r].cur = None,
                        ![r].fault = FALSE, ![r].owed = IF run[r].fault THEN {} ELSE @]
  /\ UNCHANGED <<acct, client, call>>

-----------------------------------------------------------------------------
\* Deleting an account: its clients first.

\* An error Teardown would report, and in a sweep, which reports none, a fault.
Noting(r, err, fault) ==
  [run[r] EXCEPT !.errs  = @ \/ (err /\ run[r].job = "teardown"),
                 !.fault = @ \/ (fault /\ run[r].job = "sweep")]

\* DeleteSIPClient: a client that is gone (404) is a success.
DeleteSIPClient(r) ==
  /\ run[r].pc = "delClients"
  /\ \E c \in run[r].left, o \in Outcomes :
       /\ client' = IF TakesEffect(o) THEN [client EXCEPT ![c].st = "gone"] ELSE client
       /\ run' = [run EXCEPT ![r] = [Noting(r, Fails(o), Fails(o)) EXCEPT
                                        !.left = run[r].left \ {c}]]
  /\ UNCHANGED <<acct, call>>

\* Teardown deletes the API key too, and ignores whether that worked.
DeleteApiKey(r) ==
  /\ run[r].pc = "delClients"
  /\ run[r].left = {}
  /\ \E o \in (IF run[r].job = "teardown" THEN Outcomes ELSE {"refused"}) :
       acct' = IF TakesEffect(o) THEN [acct EXCEPT ![run[r].cur].key = FALSE] ELSE acct
  /\ run' = [run EXCEPT ![r].pc = "delAccount"]
  /\ UNCHANGED <<client, call>>

\* What the server does with DELETE /Accounts/<sid>: 403 for an account it cannot
\* see, or for one we may not delete; 500 while a client refers to it.
Answers(a) ==
  {"refused"} \cup
  (IF acct[a].st # "there" THEN {"403", "404"}
   ELSE {"403"} \cup
        (IF \E c \in Listed : client[c].acct = a THEN {"500"} ELSE {"204", "lost"}))

\* Where a process goes on once an account has been dealt with.
Onward(r) == CASE run[r].job = "sweep" -> "sweep"
               [] run[r].job = "undo"  -> "failed"
               [] OTHER                -> "done"

\* Mutant: an error that is no APIError is dropped.
ReportsStatus(w) == w = "500"

\* The answers DeleteAccount makes an error of, a 403 apart.
Reports(w) == w \in {"refused", "lost", "500"}

\* DeleteAccount; a 403 is looked into before it is reported.
DeleteAccount(r) ==
  /\ run[r].pc = "delAccount"
  /\ \E w \in Answers(run[r].cur) :
       /\ acct' = IF w \in {"204", "lost"}
                  THEN [acct EXCEPT ![run[r].cur].st = "gone", ![run[r].cur].key = FALSE]
                  ELSE acct
       /\ run' = [run EXCEPT ![r] =
                    [Noting(r, Reports(w), w \in {"refused", "lost"}) EXCEPT
                       !.pc = IF w = "403" THEN "confirm" ELSE Onward(r)]]
  /\ UNCHANGED <<client, call>>

\* accountVisible: the read was answered, with the account.
AccountVisible(a, answered) == answered /\ acct[a].st = "there"

ConfirmGone(r) ==
  /\ run[r].pc = "confirm"
  /\ \E answered \in BOOLEAN :
       LET visible == AccountVisible(run[r].cur, answered) IN
       run' = [run EXCEPT ![r] =
                 [Noting(r, visible, FALSE) EXCEPT
                    !.pc = Onward(r), !.fault = run[r].fault \/ ~answered \/ visible]]
  /\ UNCHANGED <<acct, client, call>>

-----------------------------------------------------------------------------
\* SetupSuiteAccount.

\* If the answer is lost the account exists and its SID is not known.
CreateAccount(r) ==
  /\ run[r].pc = "create"
  /\ \E o \in Outcomes, a \in {x \in Accounts : acct[x].st = "unused"},
        g \in {"young", "unknown"} :
       /\ acct' = IF TakesEffect(o)
                  THEN [acct EXCEPT ![a] = [st |-> "there", id |-> RunID[r], age |-> g,
                                            key |-> FALSE, realm |-> FALSE]]
                  ELSE acct
       /\ run' = [run EXCEPT ![r].pc = IF Fails(o) THEN "failed" ELSE "key",
                             ![r].sid = IF Fails(o) THEN None ELSE a]
  /\ UNCHANGED <<client, call>>

\* bestEffortDeleteAccount, on the way out of a setup that failed.  The suite
\* account has no client yet, whether or not they can be listed.
Undo(r) == [run[r] EXCEPT !.pc = "delClients", !.job = "undo", !.cur = run[r].sid,
                          !.left = {}]

CreateApiKey(r) ==
  /\ run[r].pc = "key"
  /\ \E o \in (IF acct[run[r].sid].st = "there" THEN Outcomes ELSE {"refused"}) :
       /\ acct' = IF TakesEffect(o) THEN [acct EXCEPT ![run[r].sid].key = TRUE] ELSE acct
       /\ run' = [run EXCEPT ![r] = IF Fails(o) THEN Undo(r)
                                    ELSE [run[r] EXCEPT !.pc = "realm"]]
  /\ UNCHANGED <<client, call>>

\* SetSipRealm: a 500 is accepted, though the realm need not have been stored.
SetSipRealm(r) ==
  LET a == run[r].sid IN
  /\ run[r].pc = "realm"
  /\ \E w \in {"refused", "500"} \cup (IF acct[a].key THEN {"204", "500 stored", "lost"} ELSE {}) :
       /\ acct' = IF w \in {"204", "500 stored", "lost"}
                  THEN [acct EXCEPT ![a].realm = TRUE] ELSE acct
       /\ run' = [run EXCEPT ![r] = IF w \in {"refused", "lost"} THEN Undo(r)
                                    ELSE [run[r] EXCEPT !.pc = "verify"]]
  /\ UNCHANGED <<client, call>>

\* The account GetAccount returns has the realm.
RealmPersisted(r) == acct[run[r].sid].st = "there" /\ acct[run[r].sid].realm

VerifyRealm(r) ==
  /\ run[r].pc = "verify"
  /\ \/ /\ RealmPersisted(r)
        /\ run' = [run EXCEPT ![r].pc = "testing"]
     \/ run' = [run EXCEPT ![r] = Undo(r)]
  /\ UNCHANGED <<acct, client, call>>

-----------------------------------------------------------------------------
\* The tests.

\* ManagedSIPClient; without an answer the test fails and nothing cleans up.
ManagedSIPClient(r) ==
  LET a == run[r].sid IN
  /\ run[r].pc = "testing"
  /\ acct[a].st = "there" /\ acct[a].key
  /\ \E c \in {x \in Clients : client[x].st = "unused"}, o \in {"ok", "lost"} :
       /\ client' = [client EXCEPT ![c] = [st |-> "there", acct |-> a]]
       /\ run' = [run EXCEPT ![r].made = IF Fails(o) THEN @ ELSE @ \cup {c}]
  /\ UNCHANGED <<acct, call>>

\* Its t.Cleanup: an error is only logged.
CleanupClient(r) ==
  /\ run[r].pc = "testing"
  /\ \E c \in run[r].made, o \in Outcomes :
       /\ client' = IF TakesEffect(o) /\ acct[run[r].sid].key
                    THEN [client EXCEPT ![c].st = "gone"] ELSE client
       /\ run' = [run EXCEPT ![r].made = @ \ {c}]
  /\ UNCHANGED <<acct, call>>

\* A call is placed, with a record in Redis, by Stack.Invite or by ManagedCall.
PlaceCall(r) ==
  /\ run[r].pc = "testing"
  /\ r \in Callers /\ ~call[r].placed
  /\ acct[run[r].sid].st = "there" /\ acct[run[r].sid].key
  /\ \E m \in BOOLEAN : call' = [call EXCEPT ![r] = NewCall(m)]
  /\ UNCHANGED <<acct, client, run>>

\* The t.Cleanup of ManagedCall: DeleteCall removes the record, nothing else.
CleanupCall(r) ==
  /\ run[r].pc = "testing"
  /\ call[r].managed /\ call[r].record
  /\ acct[run[r].sid].key
  /\ call' = [call EXCEPT ![r].record = FALSE, ![r].dropped = TRUE]
  /\ UNCHANGED <<acct, client, run>>

\* A call ends: by itself, a hangup by its SIP leg, its time limit, or the request of
\* HangupCall, which jambonz applies when it gets there, or never.
CallEnds(r) ==
  /\ call[r].up
  /\ call' = [call EXCEPT ![r].up = FALSE]
  /\ UNCHANGED <<acct, client, run>>

TestsEnd(r) ==
  /\ run[r].pc = "testing"
  /\ run' = [run EXCEPT ![r].pc = "listCalls", ![r].made = {}]
  /\ UNCHANGED <<acct, client, call>>

-----------------------------------------------------------------------------
\* SuiteAccount.Teardown.

\* ListLiveCalls shows the calls with a record; IsLive keeps those that are up.
ListLiveCalls(r) ==
  /\ run[r].pc = "listCalls"
  /\ \/ /\ acct[run[r].sid].key
        /\ run' = [run EXCEPT ![r].pc = IF call[r].record /\ call[r].up
                                        THEN "hangup" ELSE "listClients"]
     \/ run' = [run EXCEPT ![r].pc = "listClients", ![r].errs = TRUE]
  /\ UNCHANGED <<acct, client, call>>

\* Mutant: the backstop only deletes the record.
NoHangup(r, o) == call

\* HangupCall: jambonz accepts the request (202) and will end the call; a call that is
\* over is a 404, which counts as a success.
HangsUp(r, o) == IF TakesEffect(o) THEN [call EXCEPT ![r].asked = call[r].up] ELSE call

HangupCall(r) ==
  /\ run[r].pc = "hangup"
  /\ \E o \in (IF acct[run[r].sid].key THEN Outcomes ELSE {"refused"}) :
       /\ call' = HangsUp(r, o)
       /\ run' = [run EXCEPT ![r].pc = "deleteCall", ![r].errs = @ \/ Fails(o)]
  /\ UNCHANGED <<acct, client>>

DeleteCall(r) ==
  /\ run[r].pc = "deleteCall"
  /\ \E o \in (IF acct[run[r].sid].key THEN Outcomes ELSE {"refused"}) :
       /\ call' = IF TakesEffect(o) THEN [call EXCEPT ![r].record = FALSE] ELSE call
       /\ run' = [run EXCEPT ![r].pc = "listClients", ![r].errs = @ \/ Fails(o)]
  /\ UNCHANGED <<acct, client>>

\* ListSIPClientsForAccount
ListedOwn(r) == {c \in Listed : client[c].acct = run[r].sid}

ListClientsForAccount(r) ==
  /\ run[r].pc = "listClients"
  /\ \E o \in {"ok", "refused"} :
       run' = [run EXCEPT ![r].pc = "delClients", ![r].job = "teardown",
                          ![r].cur = run[r].sid, ![r].errs = @ \/ Fails(o),
                          ![r].left = IF Fails(o) THEN {} ELSE ListedOwn(r)]
  /\ UNCHANGED <<acct, client, call>>

-----------------------------------------------------------------------------
\* The world.

\* The process is killed, or log.Fatalf skips what follows.
Crash(r) ==
  /\ ~Over(r) /\ run[r].pc # "start"
  /\ run' = [run EXCEPT ![r] = Blank("crashed")]
  /\ UNCHANGED <<acct, client, call>>

\* MinAge passes.
Ages(a) ==
  /\ acct[a].st = "there" /\ acct[a].age = "young"
  /\ acct' = [acct EXCEPT ![a].age = "old"]
  /\ UNCHANGED <<client, call, run>>

Sweeping(r) == ListAccounts(r) \/ ListSIPClients(r) \/ SweepAccount(r) \/ SweepEnds(r)
Deleting(r) == DeleteSIPClient(r) \/ DeleteApiKey(r) \/ DeleteAccount(r) \/ ConfirmGone(r)
Setup(r) == CreateAccount(r) \/ CreateApiKey(r) \/ SetSipRealm(r) \/ VerifyRealm(r)
Testing(r) == \/ ManagedSIPClient(r) \/ CleanupClient(r) \/ PlaceCall(r)
              \/ CleanupCall(r) \/ CallEnds(r) \/ TestsEnd(r)
Teardown(r) == \/ ListLiveCalls(r) \/ HangupCall(r) \/ DeleteCall(r)
               \/ ListClientsForAccount(r)

Next ==
  \/ \E r \in Runs : \/ Sweeping(r) \/ Deleting(r) \/ Setup(r) \/ Testing(r)
                     \/ Teardown(r) \/ Crash(r)
  \/ \E a \in Accounts : Ages(a)

Spec == Init /\ [][Next]_vars

-----------------------------------------------------------------------------
\* Properties.

\* No sweep and no teardown, of however many processes at once, deletes an account
\* of the service provider or one of its clients (safety properties 1 to 3 of
\* sweeper_accounts.go).
ForeignUntouched ==
  /\ \A a \in Foreign : acct[a].st = "there"
  /\ \A c \in Clients : client[c].acct \in Foreign => client[c].st = "there"

\* While a process runs its tests its account is there, with the realm and the key
\* its tests use and every client they made, whatever other processes sweep or tear
\* down meanwhile, until it is older than MinAge (safety property 5).
LiveSuiteKept ==
  \A r \in Runs :
    LET a == run[r].sid IN
    run[r].pc = "testing" /\ acct[a].age # "old" =>
      /\ acct[a].st = "there" /\ acct[a].key /\ acct[a].realm
      /\ \A c \in run[r].made : client[c].st = "there"

\* Whatever processes sweep and tear down, and in whatever order, they leave alone
\* what is not theirs: the service provider's own accounts, and those of processes
\* that are testing.
OthersSpared == ForeignUntouched /\ LiveSuiteKept

\* A Teardown that reports no error has deleted the account, with tests that left
\* clients behind and answers that were lost.  The exception is a refused DELETE
\* whose confirming read failed: accountVisible takes the account for gone.
TeardownHonest ==
  \A r \in Runs :
    run[r].pc = "done" /\ ~run[r].errs /\ ~run[r].fault => acct[run[r].sid].st = "gone"

\* A call that is up after a Teardown without errors is one that jambonz has accepted
\* to hang up: the backstop of suite.go.  The exception is a call whose record the
\* cleanup of ManagedCall has deleted, by which Teardown would have found it.
BackstopAsksCalls ==
  \A r \in Runs :
    run[r].pc = "done" /\ ~run[r].errs /\ call[r].up => call[r].asked \/ call[r].dropped

\* "ManagedCall creates a call and registers a t.Cleanup that hangs it up if still
\* active when the test ends": one that is up after its process has finished without
\* errors was at least asked to hang up.  Violated: the cleanup deletes the Redis record
\* only, so that the call goes on and the backstop does not see it.
ManagedCallsHungUp ==
  \A r \in Runs :
    run[r].pc = "done" /\ ~run[r].errs /\ call[r].managed /\ call[r].up => call[r].asked

\* A sweep whose requests were all answered deletes every orphan there was when it
\* listed the accounts, clients and all.
OrphansSwept ==
  \A r \in Runs :
    run[r].pc \in {"create", "key", "realm", "verify", "testing"}
      => \A a \in run[r].owed : acct[a].st = "gone"
=============================================================================
