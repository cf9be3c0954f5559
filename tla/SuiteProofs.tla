---------------------------- MODULE SuiteProofs -----------------------------
(***************************************************************************)
(* Theorems about Suite, for any number of processes, accounts and SIP     *)
(* clients, killed and answered as they may be.                            *)
(***************************************************************************)
EXTENDS Suite, TLAPS

-----------------------------------------------------------------------------
\* Type correctness.

Client == [st: {"unused", "there", "gone"}, acct: Accounts \cup {None}]

\* What an action gives a process, of the type a process has.
LEMMA RunType ==
  ASSUME TypeOK, NEW r \in Runs, NEW q \in Process, run' = [run EXCEPT ![r] = q]
  PROVE  run' \in [Runs -> Process]
  BY DEF TypeOK

\* A process that goes on to the deletion of its own account.
LEMMA UndoType ==
  ASSUME TypeOK, NEW r \in Runs
  PROVE  Undo(r) \in Process
  <1>1. run[r] \in Process
    BY DEF TypeOK
  <1>2. run[r].sid \in Accounts \cup {None}
    BY <1>1 DEF Process
  <1> QED
    BY <1>1, <1>2 DEF Undo, Process, PCs

\* A process after an answer.
LEMMA NotingType ==
  ASSUME TypeOK, NEW r \in Runs, NEW e \in BOOLEAN, NEW f \in BOOLEAN
  PROVE  Noting(r, e, f) \in Process
  <1>1. run[r] \in Process
    BY DEF TypeOK
  <1> DEFINE errs  == run[r].errs \/ (e /\ run[r].job = "teardown")
             fault == run[r].fault \/ (f /\ run[r].job = "sweep")
  <1>2. errs \in BOOLEAN /\ fault \in BOOLEAN
    BY <1>1 DEF Process
  <1>3. Noting(r, e, f) = [run[r] EXCEPT !.errs = errs, !.fault = fault]
    BY <1>1 DEF Noting, Process
  <1> HIDE DEF errs, fault
  <1> QED
    BY <1>1, <1>2, <1>3 DEF Process

LEMMA SuiteInitType == Init => TypeOK
  <1> SUFFICES ASSUME Init PROVE TypeOK
    OBVIOUS
  <1>1. acct \in [Accounts -> Account]
    BY DEF Init, Account, Ids
  <1>2. client \in [Clients -> [st: {"unused", "there", "gone"}, acct: Accounts \cup {None}]]
    BY AccountsAssumption DEF Init
  <1>3. run \in [Runs -> Process]
    BY DEF Init, Blank, Process, PCs
  <1>4. call \in [Runs -> CallRecord]
    BY DEF Init, NoCall, CallRecord
  <1> QED
    BY <1>1, <1>2, <1>3, <1>4 DEF TypeOK

-----------------------------------------------------------------------------
\* What a step does to the tables.

\* Of the accounts table a step changes one row at most: MinAge passes, a deletion
\* takes its key or the account, a setup creates it or gives it a key or its realm.
LEMMA AcctMoves ==
  ASSUME [Next]_vars
  PROVE  \/ UNCHANGED acct
         \/ \E a \in Accounts : acct' = [acct EXCEPT ![a].age = "old"]
         \/ \E r \in Runs :
              \/ /\ run[r].pc = "delClients" /\ run[r].job = "teardown"
                 /\ acct' = [acct EXCEPT ![run[r].cur].key = FALSE]
              \/ /\ run[r].pc = "delAccount"
                 /\ acct' = [acct EXCEPT ![run[r].cur].st = "gone", ![run[r].cur].key = FALSE]
              \/ run[r].pc = "key" /\ acct' = [acct EXCEPT ![run[r].sid].key = TRUE]
              \/ run[r].pc = "realm" /\ acct' = [acct EXCEPT ![run[r].sid].realm = TRUE]
              \/ /\ run[r].pc = "create"
                 /\ \E a \in Accounts, g \in {"young", "unknown"} :
                      /\ acct[a].st = "unused"
                      /\ acct' = [acct EXCEPT ![a] =
                                    [st |-> "there", id |-> RunID[r], age |-> g,
                                     key |-> FALSE, realm |-> FALSE]]
  <1>1. ASSUME NEW r \in Runs, DeleteApiKey(r)
        PROVE  \/ UNCHANGED acct
               \/ /\ run[r].pc = "delClients" /\ run[r].job = "teardown"
                  /\ acct' = [acct EXCEPT ![run[r].cur].key = FALSE]
    BY <1>1 DEF DeleteApiKey, TakesEffect
  <1>2. ASSUME NEW r \in Runs, DeleteAccount(r)
        PROVE  \/ UNCHANGED acct
               \/ /\ run[r].pc = "delAccount"
                  /\ acct' = [acct EXCEPT ![run[r].cur].st = "gone", ![run[r].cur].key = FALSE]
    BY <1>2 DEF DeleteAccount
  <1>3. ASSUME NEW r \in Runs, CreateApiKey(r)
        PROVE  \/ UNCHANGED acct
               \/ run[r].pc = "key" /\ acct' = [acct EXCEPT ![run[r].sid].key = TRUE]
    BY <1>3 DEF CreateApiKey
  <1>4. ASSUME NEW r \in Runs, SetSipRealm(r)
        PROVE  \/ UNCHANGED acct
               \/ run[r].pc = "realm" /\ acct' = [acct EXCEPT ![run[r].sid].realm = TRUE]
    BY <1>4 DEF SetSipRealm
  <1>5. ASSUME NEW r \in Runs, CreateAccount(r)
        PROVE  \/ UNCHANGED acct
               \/ /\ run[r].pc = "create"
                  /\ \E a \in Accounts, g \in {"young", "unknown"} :
                       /\ acct[a].st = "unused"
                       /\ acct' = [acct EXCEPT ![a] =
                                     [st |-> "there", id |-> RunID[r], age |-> g,
                                      key |-> FALSE, realm |-> FALSE]]
    BY <1>5 DEF CreateAccount
  <1>6. ASSUME NEW a \in Accounts, Ages(a)
        PROVE  acct' = [acct EXCEPT ![a].age = "old"]
    BY <1>6 DEF Ages
  <1>7. ASSUME NEW r \in Runs,
               \/ Sweeping(r) \/ Testing(r) \/ Teardown(r) \/ Crash(r) \/ DeleteSIPClient(r)
               \/ ConfirmGone(r) \/ VerifyRealm(r)
        PROVE  UNCHANGED acct
    BY <1>7 DEF Sweeping, ListAccounts, ListSIPClients, SweepAccount, SweepEnds, Testing,
                ManagedSIPClient, CleanupClient, PlaceCall, CleanupCall, CallEnds, TestsEnd,
                Teardown, ListLiveCalls, HangupCall, DeleteCall, ListClientsForAccount, Crash,
                DeleteSIPClient, ConfirmGone, VerifyRealm
  <1> QED
    BY <1>1, <1>2, <1>3, <1>4, <1>5, <1>6, <1>7 DEF Next, vars, Deleting, Setup

\* Of the clients table: a client is deleted by whoever has it on a list, or a test
\* makes one.
LEMMA ClientMoves ==
  ASSUME TypeOK, [Next]_vars
  PROVE  \/ UNCHANGED client
         \/ \E r \in Runs, c \in Clients :
              \/ /\ \/ run[r].pc = "delClients" /\ c \in run[r].left
                    \/ run[r].pc = "testing" /\ c \in run[r].made /\ c \notin run'[r].made
                 /\ client' = [client EXCEPT ![c].st = "gone"]
              \/ /\ run[r].pc = "testing" /\ client[c].st = "unused"
                 /\ client' = [client EXCEPT ![c] = [st |-> "there", acct |-> run[r].sid]]
  <1>0. \A r \in Runs : run[r].left \subseteq Clients /\ run[r].made \subseteq Clients
    BY DEF TypeOK, Process
  <1>1. ASSUME NEW r \in Runs, DeleteSIPClient(r)
        PROVE  \/ UNCHANGED client
               \/ \E c \in Clients : /\ run[r].pc = "delClients" /\ c \in run[r].left
                                     /\ client' = [client EXCEPT ![c].st = "gone"]
    BY <1>0, <1>1 DEF DeleteSIPClient
  <1>2. ASSUME NEW r \in Runs, CleanupClient(r)
        PROVE  \/ UNCHANGED client
               \/ \E c \in Clients : /\ run[r].pc = "testing"
                                     /\ c \in run[r].made /\ c \notin run'[r].made
                                     /\ client' = [client EXCEPT ![c].st = "gone"]
    <2>1. PICK c \in Clients : /\ run[r].pc = "testing" /\ c \in run[r].made
                               /\ run' = [run EXCEPT ![r].made = run[r].made \ {c}]
                               /\ \/ UNCHANGED client
                                  \/ client' = [client EXCEPT ![c].st = "gone"]
      BY <1>0, <1>2 DEF CleanupClient, TypeOK
    <2>2. run'[r].made = run[r].made \ {c}
      BY <2>1 DEF TypeOK, Process
    <2> QED
      BY <2>1, <2>2
  <1>3. ASSUME NEW r \in Runs, ManagedSIPClient(r)
        PROVE  \E c \in Clients :
                 /\ run[r].pc = "testing" /\ client[c].st = "unused"
                 /\ client' = [client EXCEPT ![c] = [st |-> "there", acct |-> run[r].sid]]
    BY <1>3 DEF ManagedSIPClient
  <1>4. ASSUME NEW r \in Runs,
               \/ Sweeping(r) \/ Setup(r) \/ Teardown(r) \/ Crash(r) \/ DeleteApiKey(r)
               \/ DeleteAccount(r) \/ ConfirmGone(r) \/ PlaceCall(r) \/ CleanupCall(r)
               \/ CallEnds(r) \/ TestsEnd(r)
        PROVE  UNCHANGED client
    BY <1>4 DEF Sweeping, ListAccounts, ListSIPClients, SweepAccount, SweepEnds, Setup,
                CreateAccount, CreateApiKey, SetSipRealm, VerifyRealm, Teardown,
                ListLiveCalls, HangupCall, DeleteCall, ListClientsForAccount, Crash,
                DeleteApiKey, DeleteAccount, ConfirmGone, PlaceCall, CleanupCall, CallEnds,
                TestsEnd
  <1>5. ASSUME NEW a \in Accounts, Ages(a) PROVE UNCHANGED client
    BY <1>5 DEF Ages
  <1> QED
    BY <1>1, <1>2, <1>3, <1>4, <1>5, ZenonT(60) DEF Next, vars, Deleting, Testing

\* Of the calls: a test places its own and drops its record in its cleanup, Teardown
\* asks for its end and deletes its record, and it ends.
LEMMA CallMoves ==
  ASSUME [Next]_vars
  PROVE  \/ UNCHANGED call
         \/ \E r \in Runs :
              \/ call' = [call EXCEPT ![r].up = FALSE]
              \/ call' = [call EXCEPT ![r].asked = call[r].up]
              \/ call' = [call EXCEPT ![r].record = FALSE, ![r].dropped = TRUE]
              \/ run[r].pc = "deleteCall" /\ call' = [call EXCEPT ![r].record = FALSE]
              \/ /\ run[r].pc = "testing" /\ UNCHANGED run
                 /\ \E m \in BOOLEAN : call' = [call EXCEPT ![r] = NewCall(m)]
  <1>1. ASSUME NEW r \in Runs, PlaceCall(r)
        PROVE  /\ run[r].pc = "testing" /\ UNCHANGED run
               /\ \E m \in BOOLEAN : call' = [call EXCEPT ![r] = NewCall(m)]
    BY <1>1 DEF PlaceCall
  <1>2. ASSUME NEW r \in Runs, CleanupCall(r) \/ DeleteCall(r)
        PROVE  \/ UNCHANGED call
               \/ call' = [call EXCEPT ![r].record = FALSE, ![r].dropped = TRUE]
               \/ run[r].pc = "deleteCall" /\ call' = [call EXCEPT ![r].record = FALSE]
    BY <1>2 DEF CleanupCall, DeleteCall
  <1>3. ASSUME NEW r \in Runs, CallEnds(r) \/ HangupCall(r)
        PROVE  \/ UNCHANGED call
               \/ call' = [call EXCEPT ![r].up = FALSE]
               \/ call' = [call EXCEPT ![r].asked = call[r].up]
    BY <1>3 DEF CallEnds, HangupCall, HangsUp
  <1>4. ASSUME NEW r \in Runs,
               \/ Sweeping(r) \/ Setup(r) \/ Deleting(r) \/ Crash(r) \/ ListLiveCalls(r)
               \/ ListClientsForAccount(r) \/ TestsEnd(r) \/ ManagedSIPClient(r)
               \/ CleanupClient(r)
        PROVE  UNCHANGED call
    BY <1>4 DEF Sweeping, ListAccounts, ListSIPClients, SweepAccount, SweepEnds, Setup,
                CreateAccount, CreateApiKey, SetSipRealm, VerifyRealm, Deleting,
                DeleteSIPClient, DeleteApiKey, DeleteAccount, ConfirmGone, Crash,
                ListLiveCalls, ListClientsForAccount, TestsEnd, ManagedSIPClient,
                CleanupClient
  <1>5. ASSUME NEW a \in Accounts, Ages(a) PROVE UNCHANGED call
    BY <1>5 DEF Ages
  <1> QED
    BY <1>1, <1>2, <1>3, <1>4, <1>5 DEF Next, vars, Teardown, Testing

\* An account stays as it was made: its name, once it is old its age, and that it is
\* gone.
LEMMA AcctKept ==
  ASSUME TypeOK, [Next]_vars
  PROVE  /\ acct' \in [Accounts -> Account]
         /\ \A a \in Accounts : acct[a].st # "unused" =>
              /\ acct'[a].id = acct[a].id
              /\ acct[a].age = "old" => acct'[a].age = "old"
              /\ acct'[a].st \in {acct[a].st, "gone"}
              /\ acct[a].realm => acct'[a].realm
  <1>0. acct \in [Accounts -> Account]
    BY DEF TypeOK
  <1>1. CASE UNCHANGED acct
    BY <1>0, <1>1
  <1>2. ASSUME NEW a \in Accounts, acct' = [acct EXCEPT ![a].age = "old"]
        PROVE  /\ acct' \in [Accounts -> Account]
               /\ \A b \in Accounts : /\ acct'[b].id = acct[b].id /\ acct'[b].st = acct[b].st
                                      /\ acct'[b].age \in {acct[b].age, "old"}
                                      /\ acct'[b].realm = acct[b].realm
    BY <1>0, <1>2 DEF Account
  <1>3. ASSUME NEW a, acct' = [acct EXCEPT ![a].key = FALSE]
        PROVE  /\ acct' \in [Accounts -> Account]
               /\ \A b \in Accounts : /\ acct'[b].id = acct[b].id /\ acct'[b].st = acct[b].st
                                      /\ acct'[b].age = acct[b].age
                                      /\ acct'[b].realm = acct[b].realm
    BY <1>0, <1>3, ZenonT(60) DEF Account
  <1>4. ASSUME NEW a, acct' = [acct EXCEPT ![a].key = TRUE]
        PROVE  /\ acct' \in [Accounts -> Account]
               /\ \A b \in Accounts : /\ acct'[b].id = acct[b].id /\ acct'[b].st = acct[b].st
                                      /\ acct'[b].age = acct[b].age
                                      /\ acct'[b].realm = acct[b].realm
    BY <1>0, <1>4, ZenonT(60) DEF Account
  <1>5. ASSUME NEW a, acct' = [acct EXCEPT ![a].realm = TRUE]
        PROVE  /\ acct' \in [Accounts -> Account]
               /\ \A b \in Accounts : /\ acct'[b].id = acct[b].id /\ acct'[b].st = acct[b].st
                                      /\ acct'[b].age = acct[b].age
                                      /\ acct[b].realm => acct'[b].realm
    BY <1>0, <1>5, ZenonT(60) DEF Account
  <1>6. ASSUME NEW a, acct' = [acct EXCEPT ![a].st = "gone", ![a].key = FALSE]
        PROVE  /\ acct' \in [Accounts -> Account]
               /\ \A b \in Accounts : /\ acct'[b].id = acct[b].id
                                      /\ acct'[b].st \in {acct[b].st, "gone"}
                                      /\ acct'[b].age = acct[b].age
                                      /\ acct'[b].realm = acct[b].realm
    BY <1>0, <1>6, ZenonT(60) DEF Account
  <1>7. ASSUME NEW r \in Runs, NEW a \in Accounts, NEW g \in {"young", "unknown"},
               acct' = [acct EXCEPT ![a] = [st |-> "there", id |-> RunID[r], age |-> g,
                                            key |-> FALSE, realm |-> FALSE]]
        PROVE  /\ acct' \in [Accounts -> Account]
               /\ \A b \in Accounts : b # a => acct'[b] = acct[b]
    <2>1. [st |-> "there", id |-> RunID[r], age |-> g, key |-> FALSE, realm |-> FALSE]
            \in Account
      BY DEF Account, Ids
    <2> QED
      BY <1>0, <1>7, <2>1
  <1> QED
    BY <1>1, <1>2, <1>3, <1>4, <1>5, <1>6, <1>7, AcctMoves, ZenonT(60)

\* A client stays with its account, and once it is deleted it does not come back.
LEMMA ClientKept ==
  ASSUME TypeOK, [Next]_vars
  PROVE  /\ client' \in [Clients -> Client]
         /\ \A c \in Clients : client[c].st # "unused" =>
              /\ client'[c].acct = client[c].acct
              /\ client'[c].st \in {client[c].st, "gone"}
  <1>0. client \in [Clients -> Client]
    BY DEF TypeOK, Client
  <1>1. ASSUME NEW c \in Clients, client' = [client EXCEPT ![c].st = "gone"]
        PROVE  /\ client' \in [Clients -> Client]
               /\ \A d \in Clients : /\ client'[d].acct = client[d].acct
                                     /\ client'[d].st \in {client[d].st, "gone"}
    BY <1>0, <1>1 DEF Client
  <1>2. ASSUME NEW r \in Runs, NEW c \in Clients,
               client' = [client EXCEPT ![c] = [st |-> "there", acct |-> run[r].sid]]
        PROVE  /\ client' \in [Clients -> Client]
               /\ \A d \in Clients : d # c => client'[d] = client[d]
    <2>1. run[r].sid \in Accounts \cup {None}
      BY DEF TypeOK, Process
    <2>2. [st |-> "there", acct |-> run[r].sid] \in Client
      BY <2>1 DEF Client
    <2> QED
      BY <1>0, <1>2, <2>2
  <1> QED
    BY <1>0, <1>1, <1>2, ClientMoves

\* The calls keep their type.
LEMMA CallType ==
  ASSUME TypeOK, [Next]_vars
  PROVE  call' \in [Runs -> CallRecord]
  <1>0. call \in [Runs -> CallRecord]
    BY DEF TypeOK
  <1>1. ASSUME NEW r \in Runs, call' = [call EXCEPT ![r].up = FALSE]
        PROVE  call' \in [Runs -> CallRecord]
    BY <1>0, <1>1 DEF CallRecord
  <1>2. ASSUME NEW r \in Runs, call' = [call EXCEPT ![r].record = FALSE]
        PROVE  call' \in [Runs -> CallRecord]
    BY <1>0, <1>2 DEF CallRecord
  <1>3. ASSUME NEW r \in Runs, NEW m \in BOOLEAN, call' = [call EXCEPT ![r] = NewCall(m)]
        PROVE  call' \in [Runs -> CallRecord]
    BY <1>0, <1>3 DEF CallRecord, NewCall
  <1>4. ASSUME NEW r \in Runs, call' = [call EXCEPT ![r].asked = call[r].up]
        PROVE  call' \in [Runs -> CallRecord]
    BY <1>0, <1>4 DEF CallRecord
  <1>5. ASSUME NEW r \in Runs, call' = [call EXCEPT ![r].record = FALSE, ![r].dropped = TRUE]
        PROVE  call' \in [Runs -> CallRecord]
    BY <1>0, <1>5 DEF CallRecord
  <1> QED
    BY <1>0, <1>1, <1>2, <1>3, <1>4, <1>5, CallMoves

\* The fields the actions assign together, replaced.
LEMMA FieldsType ==
  ASSUME NEW q \in Process, NEW pc \in PCs
  PROVE  /\ \A e \in BOOLEAN : [q EXCEPT !.pc = pc, !.errs = e] \in Process
         /\ [q EXCEPT !.pc = pc, !.made = {}] \in Process
         /\ \A n \in SUBSET Clients, t \in SUBSET Accounts, f \in BOOLEAN :
              [q EXCEPT !.pc = pc, !.snap = n, !.todo = t, !.fault = f] \in Process
         /\ \A a \in Accounts, t \in SUBSET Accounts, l \in SUBSET Clients :
              [q EXCEPT !.pc = pc, !.job = "sweep", !.cur = a, !.todo = t, !.left = l]
                \in Process
         /\ \A o \in SUBSET Accounts :
              [q EXCEPT !.pc = pc, !.snap = {}, !.cur = None, !.fault = FALSE, !.owed = o]
                \in Process
         /\ \A e \in BOOLEAN, l \in SUBSET Clients, a \in Accounts \cup {None} :
              [q EXCEPT !.pc = pc, !.job = "teardown", !.cur = a, !.errs = e, !.left = l]
                \in Process
  BY ZenonT(60) DEF Process

\* So do the processes.
LEMMA ProcessType ==
  ASSUME TypeOK, [Next]_vars
  PROVE  run' \in [Runs -> Process]
  <1>0. run \in [Runs -> Process]
    BY DEF TypeOK
  <1>1. ASSUME NEW r \in Runs, Sweeping(r) PROVE run' \in [Runs -> Process]
    <2>1. CASE ListAccounts(r)
      <3>1. There \in SUBSET Accounts /\ Orphans(r) \in SUBSET Accounts
        BY DEF There, Orphans
      <3> QED
        BY <1>0, <2>1, <3>1 DEF ListAccounts, Process, PCs
    <2>2. CASE ListSIPClients(r)
      <3>1. PICK snap \in SUBSET Clients, todo \in SUBSET Accounts, fault \in BOOLEAN :
              run' = [run EXCEPT ![r].pc = "sweep", ![r].snap = snap, ![r].todo = todo,
                                 ![r].fault = fault]
        <4> DEFINE todo == {a \in run[r].todo : ShouldSweep(r, a)}
        <4>1. PICK o \in {"ok", "refused"} :
                run' = [run EXCEPT ![r].pc = "sweep",
                                   ![r].snap = IF o = "ok" THEN Listed ELSE {},
                                   ![r].todo = todo, ![r].fault = Fails(o)]
          BY <2>2 DEF ListSIPClients
        <4>2. todo \in SUBSET Accounts
          BY <1>0 DEF Process
        <4>3. (IF o = "ok" THEN Listed ELSE {}) \in SUBSET Clients /\ Fails(o) \in BOOLEAN
          BY DEF Listed, Fails
        <4> HIDE DEF todo
        <4> QED
          BY <4>1, <4>2, <4>3
      <3>2. [run[r] EXCEPT !.pc = "sweep", !.snap = snap, !.todo = todo,
                            !.fault = fault] \in Process
        BY <1>0, FieldsType, ZenonT(60) DEF PCs
      <3> QED
        BY <1>0, <3>1, <3>2, RunType
    <2>3. CASE SweepAccount(r)
      <3>1. PICK a \in Accounts, todo \in SUBSET Accounts, left \in SUBSET Clients :
              run' = [run EXCEPT ![r].pc = "delClients", ![r].job = "sweep", ![r].cur = a,
                                 ![r].todo = todo, ![r].left = left]
        <4>1. PICK a \in run[r].todo :
                run' = [run EXCEPT ![r].pc = "delClients", ![r].job = "sweep", ![r].cur = a,
                                   ![r].todo = run[r].todo \ {a},
                                   ![r].left = ClientsOf(r, a)]
          BY <1>0, <2>3 DEF SweepAccount
        <4>2. /\ a \in Accounts /\ run[r].todo \ {a} \in SUBSET Accounts
              /\ ClientsOf(r, a) \in SUBSET Clients
          BY <1>0 DEF Process, ClientsOf
        <4> QED
          BY <4>1, <4>2
      <3>2. [run[r] EXCEPT !.pc = "delClients", !.job = "sweep", !.cur = a,
                            !.todo = todo, !.left = left] \in Process
        BY <1>0, FieldsType DEF PCs
      <3> QED
        BY <1>0, <3>1, <3>2, RunType
    <2>4. CASE SweepEnds(r)
      <3>1. PICK owed \in SUBSET Accounts :
              run' = [run EXCEPT ![r].pc = "create", ![r].snap = {}, ![r].cur = None,
                                 ![r].fault = FALSE, ![r].owed = owed]
        <4>1. (IF run[r].fault THEN {} ELSE run[r].owed) \in SUBSET Accounts
          BY <1>0 DEF Process
        <4> QED
          BY <1>0, <2>4, <4>1 DEF SweepEnds
      <3>2. [run[r] EXCEPT !.pc = "create", !.snap = {}, !.cur = None,
                            !.fault = FALSE, !.owed = owed] \in Process
        BY <1>0, FieldsType DEF PCs
      <3> QED
        BY <1>0, <3>1, <3>2, RunType
    <2> QED
      BY <1>1, <2>1, <2>2, <2>3, <2>4 DEF Sweeping
  <1>2. ASSUME NEW r \in Runs, Deleting(r) PROVE run' \in [Runs -> Process]
    <2>0. Onward(r) \in PCs
      BY DEF Onward, PCs
    <2>1. CASE DeleteSIPClient(r)
      <3>1. PICK c, o : run' = [run EXCEPT ![r] = [Noting(r, Fails(o), Fails(o)) EXCEPT
                                                     !.left = run[r].left \ {c}]]
        BY <2>1 DEF DeleteSIPClient
      <3>2. Noting(r, Fails(o), Fails(o)) \in Process
        BY NotingType DEF Fails
      <3>3. [Noting(r, Fails(o), Fails(o)) EXCEPT !.left = run[r].left \ {c}] \in Process
        BY <1>0, <3>2 DEF Process
      <3> QED
        BY <1>0, <3>1, <3>3
    <2>2. CASE DeleteApiKey(r)
      BY <1>0, <2>2 DEF DeleteApiKey, Process, PCs
    <2>3. CASE DeleteAccount(r)
      <3>1. PICK w : run' = [run EXCEPT ![r] =
                       [Noting(r, Reports(w), w \in {"refused", "lost"}) EXCEPT
                          !.pc = IF w = "403" THEN "confirm" ELSE Onward(r)]]
        BY <2>3 DEF DeleteAccount
      <3>2. Noting(r, Reports(w), w \in {"refused", "lost"}) \in Process
        BY NotingType, Reports(w) \in BOOLEAN, (w \in {"refused", "lost"}) \in BOOLEAN DEF Reports
      <3>3. [Noting(r, Reports(w), w \in {"refused", "lost"}) EXCEPT
               !.pc = IF w = "403" THEN "confirm" ELSE Onward(r)] \in Process
        BY <2>0, <3>2 DEF Process, PCs
      <3> QED
        BY <1>0, <3>1, <3>3
    <2>4. CASE ConfirmGone(r)
      <3>1. PICK answered \in BOOLEAN, visible \in BOOLEAN :
              run' = [run EXCEPT ![r] =
                        [Noting(r, visible, FALSE) EXCEPT
                           !.pc = Onward(r),
                           !.fault = run[r].fault \/ ~answered \/ visible]]
        BY <2>4 DEF ConfirmGone, AccountVisible
      <3>2. Noting(r, visible, FALSE) \in Process
        BY NotingType
      <3>3. (run[r].fault \/ ~answered \/ visible) \in BOOLEAN
        OBVIOUS
      <3>4. [Noting(r, visible, FALSE) EXCEPT
               !.pc = Onward(r), !.fault = run[r].fault \/ ~answered \/ visible] \in Process
        BY <2>0, <3>2, <3>3 DEF Process
      <3> QED
        BY <1>0, <3>1, <3>4
    <2> QED
      BY <1>2, <2>1, <2>2, <2>3, <2>4 DEF Deleting
  <1>3. ASSUME NEW r \in Runs, Setup(r) PROVE run' \in [Runs -> Process]
    <2>0. Undo(r) \in Process
      BY UndoType
    <2>1. CASE CreateAccount(r)
      <3>1. PICK pc \in PCs, sid \in Accounts \cup {None} :
              run' = [run EXCEPT ![r].pc = pc, ![r].sid = sid]
        BY <2>1 DEF CreateAccount, PCs
      <3>2. [run[r] EXCEPT !.pc = pc, !.sid = sid] \in Process
        BY <1>0, ZenonT(60) DEF Process
      <3> QED
        BY <1>0, <3>1, <3>2, RunType
    <2>2. [run[r] EXCEPT !.pc = "realm"] \in Process /\ [run[r] EXCEPT !.pc = "verify"] \in Process
      BY <1>0 DEF Process, PCs
    <2>3. CASE CreateApiKey(r)
      BY <1>0, <2>0, <2>2, <2>3 DEF CreateApiKey
    <2>4. CASE SetSipRealm(r)
      BY <1>0, <2>0, <2>2, <2>4 DEF SetSipRealm
    <2>5. CASE VerifyRealm(r)
      BY <1>0, <2>0, <2>5 DEF VerifyRealm, Process, PCs
    <2> QED
      BY <1>3, <2>1, <2>3, <2>4, <2>5 DEF Setup
  <1>4. ASSUME NEW r \in Runs, Testing(r) PROVE run' \in [Runs -> Process]
    <2>1. CASE ManagedSIPClient(r)
      <3>1. PICK made \in SUBSET Clients : run' = [run EXCEPT ![r].made = made]
        <4>1. PICK c \in Clients, o \in {"ok", "lost"} :
                run' = [run EXCEPT ![r].made = IF Fails(o) THEN run[r].made
                                               ELSE run[r].made \cup {c}]
          BY <1>0, <2>1 DEF ManagedSIPClient
        <4>2. (IF Fails(o) THEN run[r].made ELSE run[r].made \cup {c}) \in SUBSET Clients
          BY <1>0 DEF Process
        <4> QED
          BY <4>1, <4>2
      <3>2. [run[r] EXCEPT !.made = made] \in Process
        BY <1>0 DEF Process
      <3> QED
        BY <1>0, <3>1, <3>2, RunType
    <2>2. CASE CleanupClient(r)
      BY <1>0, <2>2 DEF CleanupClient, Process
    <2>3. CASE TestsEnd(r)
      <3>1. {} \in SUBSET Clients
        OBVIOUS
      <3>2. [run[r] EXCEPT !.pc = "listCalls", !.made = {}] \in Process
        BY <1>0, <3>1, FieldsType DEF PCs
      <3> QED
        BY <1>0, <2>3, <3>2, RunType DEF TestsEnd
    <2> QED
      BY <1>0, <1>4, <2>1, <2>2, <2>3 DEF Testing, PlaceCall, CleanupCall, CallEnds
  <1>5. ASSUME NEW r \in Runs, Teardown(r) PROVE run' \in [Runs -> Process]
    <2>1. CASE ListLiveCalls(r)
      BY <1>0, <2>1 DEF ListLiveCalls, Process, PCs
    <2>2. CASE HangupCall(r)
      <3>1. PICK errs \in BOOLEAN : run' = [run EXCEPT ![r].pc = "deleteCall", ![r].errs = errs]
        BY <1>0, <2>2, \A o : (run[r].errs \/ Fails(o)) \in BOOLEAN DEF HangupCall
      <3>2. [run[r] EXCEPT !.pc = "deleteCall", !.errs = errs] \in Process
        BY <1>0, FieldsType DEF PCs
      <3> QED
        BY <1>0, <3>1, <3>2, RunType
    <2>3. CASE DeleteCall(r)
      <3>1. PICK errs \in BOOLEAN : run' = [run EXCEPT ![r].pc = "listClients", ![r].errs = errs]
        BY <1>0, <2>3, \A o : (run[r].errs \/ Fails(o)) \in BOOLEAN DEF DeleteCall
      <3>2. [run[r] EXCEPT !.pc = "listClients", !.errs = errs] \in Process
        BY <1>0, FieldsType DEF PCs
      <3> QED
        BY <1>0, <3>1, <3>2, RunType
    <2>4. CASE ListClientsForAccount(r)
      <3>1. PICK errs \in BOOLEAN, left \in SUBSET Clients :
              run' = [run EXCEPT ![r].pc = "delClients", ![r].job = "teardown",
                                 ![r].cur = run[r].sid, ![r].errs = errs, ![r].left = left]
        <4>1. PICK o \in {"ok", "refused"} :
                run' = [run EXCEPT ![r].pc = "delClients", ![r].job = "teardown",
                                   ![r].cur = run[r].sid, ![r].errs = run[r].errs \/ Fails(o),
                                   ![r].left = IF Fails(o) THEN {} ELSE ListedOwn(r)]
          BY <1>0, <2>4 DEF ListClientsForAccount
        <4>2. (IF Fails(o) THEN {} ELSE ListedOwn(r)) \in SUBSET Clients
          BY DEF ListedOwn, Listed
        <4> QED
          BY <4>1, <4>2
      <3>2. [run[r] EXCEPT !.pc = "delClients", !.job = "teardown", !.cur = run[r].sid,
                            !.errs = errs, !.left = left] \in Process
        <4>1. run[r] \in Process /\ run[r].sid \in Accounts \cup {None}
          BY <1>0 DEF Process
        <4> QED
          BY <4>1, FieldsType, ZenonT(60) DEF PCs
      <3> QED
        BY <1>0, <3>1, <3>2, RunType
    <2> QED
      BY <1>5, <2>1, <2>2, <2>3, <2>4 DEF Teardown
  <1>6. ASSUME NEW r \in Runs, Crash(r) PROVE run' \in [Runs -> Process]
    <2>1. Blank("crashed") \in Process
      BY DEF Blank, Process, PCs
    <2> QED
      BY <1>0, <1>6, <2>1 DEF Crash
  <1> QED
    BY <1>0, <1>1, <1>2, <1>3, <1>4, <1>5, <1>6 DEF Next, vars, Ages

LEMMA SuiteStepType == TypeOK /\ [Next]_vars => TypeOK'
  BY AcctKept, ClientKept, CallType, ProcessType DEF TypeOK, Client, CallRecord

\* The tables and the processes keep their types.
THEOREM SuiteTypeCorrect == Spec => []TypeOK
  BY SuiteInitType, SuiteStepType, PTL DEF Spec

-----------------------------------------------------------------------------
\* Whose accounts a process works on.

Deletes == {"delClients", "delAccount", "confirm"}
Owns == {"key", "realm", "verify", "testing", "listCalls", "hangup", "deleteCall",
         "listClients", "done"}

\* A process that sweeps, deletions of the sweep included.
InSweep(r) == run[r].pc = "sweep" \/ (run[r].pc \in Deletes /\ run[r].job = "sweep")

\* The suite account is one the process created; a sweep deletes what shouldSweep
\* chose, Teardown and a failed setup the suite account; and the clients a process
\* has on its list are of the account it deletes or of its suite account.
Holds(r) ==
  /\ run[r].sid # None => /\ acct[run[r].sid].st # "unused"
                          /\ acct[run[r].sid].id = RunID[r]
  /\ run[r].pc \in Owns => run[r].sid # None
  /\ run[r].pc \in Deletes =>
       /\ run[r].cur \in Accounts /\ acct[run[r].cur].st # "unused"
       /\ run[r].job = "sweep" => ShouldSweep(r, run[r].cur)
       /\ run[r].job # "sweep" => run[r].cur = run[r].sid
       /\ \A c \in run[r].left : client[c].st # "unused" /\ client[c].acct = run[r].cur
  /\ run[r].pc = "sweepList" => \A a \in run[r].todo : acct[a].st # "unused"
  /\ InSweep(r) => \A a \in run[r].todo : acct[a].st # "unused" /\ ShouldSweep(r, a)
  /\ run[r].pc # "testing" => run[r].made = {}
  /\ run[r].pc = "testing" =>
       \A c \in run[r].made : client[c].st # "unused" /\ client[c].acct = run[r].sid

\* No two processes have one suite account.
Apart == \A r, q \in Runs : run[r].sid = run[q].sid => r = q \/ run[r].sid = None

\* An account that is not ours has no name of ours.
ForeignNamed == \A a \in Foreign : acct[a].id = None

\* A client that was never made has no account.
ClientsNamed == \A c \in Clients : client[c].st = "unused" => client[c].acct = None

OwnInv == /\ Apart /\ ForeignNamed /\ ClientsNamed /\ ForeignUntouched
          /\ \A r \in Runs : Holds(r)

\* The initial state.
LEMMA InitOwn == Init => OwnInv
  <1> SUFFICES ASSUME Init PROVE OwnInv
    OBVIOUS
  <1>1. Apart /\ \A r \in Runs : Holds(r)
    BY DEF Init, Apart, Holds, Blank, Owns, Deletes, InSweep
  <1>2. ForeignNamed /\ ClientsNamed /\ ForeignUntouched
    BY AccountsAssumption DEF Init, ForeignNamed, ClientsNamed, ForeignUntouched
  <1> QED
    BY <1>1, <1>2 DEF OwnInv

\* What a process still has of its own after a request of a deletion.
LEMMA NotingFields ==
  ASSUME TypeOK, NEW r \in Runs, NEW e \in BOOLEAN, NEW f \in BOOLEAN, NEW n,
         n = Noting(r, e, f)
  PROVE  /\ n.pc = run[r].pc /\ n.job = run[r].job /\ n.sid = run[r].sid
         /\ n.todo = run[r].todo /\ n.snap = run[r].snap /\ n.cur = run[r].cur
         /\ n.left = run[r].left /\ n.made = run[r].made /\ n.owed = run[r].owed
         /\ n.errs <=> run[r].errs \/ (e /\ run[r].job = "teardown")
         /\ n.fault <=> run[r].fault \/ (f /\ run[r].job = "sweep")
         /\ n \in Process
  <1>1. n \in Process
    BY NotingType
  <1>2. run[r] \in Process
    BY DEF TypeOK
  <1> QED
    BY <1>1, <1>2 DEF Noting, Process

\* The deletions, as the process sees them.
LEMMA DeletingMoves ==
  ASSUME TypeOK, NEW r \in Runs, Deleting(r)
  PROVE  /\ run[r].pc \in Deletes
         /\ run'[r].job = run[r].job /\ run'[r].sid = run[r].sid
         /\ run'[r].todo = run[r].todo /\ run'[r].snap = run[r].snap
         /\ run'[r].cur = run[r].cur /\ run'[r].owed = run[r].owed
         /\ run'[r].made = run[r].made
         /\ run'[r].left \subseteq run[r].left
         /\ run'[r].pc \in Deletes \cup {Onward(r)}
         /\ run[r].errs => run'[r].errs
         /\ run[r].fault => run'[r].fault
         /\ \A q \in Runs : q # r => run'[q] = run[q]
  <1>0. run[r] \in Process /\ run \in [Runs -> Process]
    BY DEF TypeOK
  <1>1. CASE DeleteSIPClient(r)
    <2>1. PICK c, o : /\ run[r].pc = "delClients"
                      /\ run' = [run EXCEPT ![r] = [Noting(r, Fails(o), Fails(o)) EXCEPT
                                                      !.left = run[r].left \ {c}]]
      BY <1>1 DEF DeleteSIPClient
    <2>2. PICK n : n = Noting(r, Fails(o), Fails(o))
      OBVIOUS
    <2>3. Fails(o) \in BOOLEAN
      BY DEF Fails
    <2>4. run'[r] = [n EXCEPT !.left = run[r].left \ {c}] /\ n \in Process
      BY <1>0, <2>1, <2>2, <2>3, NotingFields
    <2>5. /\ run'[r].pc = n.pc /\ run'[r].job = n.job /\ run'[r].sid = n.sid
          /\ run'[r].todo = n.todo /\ run'[r].snap = n.snap /\ run'[r].cur = n.cur
          /\ run'[r].owed = n.owed /\ run'[r].left = run[r].left \ {c}
          /\ run'[r].made = n.made
          /\ run'[r].errs = n.errs /\ run'[r].fault = n.fault
      BY <2>4 DEF Process
    <2> QED
      BY <1>0, <2>1, <2>2, <2>3, <2>5, NotingFields DEF Deletes
  <1>2. CASE DeleteApiKey(r)
    BY <1>0, <1>2 DEF DeleteApiKey, Process, Deletes
  <1>3. CASE DeleteAccount(r)
    <2>1. PICK w : /\ run[r].pc = "delAccount"
                   /\ run' = [run EXCEPT ![r] =
                       [Noting(r, Reports(w), w \in {"refused", "lost"}) EXCEPT
                          !.pc = IF w = "403" THEN "confirm" ELSE Onward(r)]]
      BY <1>3 DEF DeleteAccount
    <2>2. PICK e \in BOOLEAN, f \in BOOLEAN :
            e = Reports(w) /\ f = (w \in {"refused", "lost"})
      <3> Reports(w) \in BOOLEAN /\ (w \in {"refused", "lost"}) \in BOOLEAN
        BY DEF Reports
      <3> WITNESS Reports(w) \in BOOLEAN, (w \in {"refused", "lost"}) \in BOOLEAN
      <3> QED
        OBVIOUS
    <2>3. PICK n : n = Noting(r, e, f)
      OBVIOUS
    <2>4. /\ run'[r] = [n EXCEPT !.pc = IF w = "403" THEN "confirm" ELSE Onward(r)]
          /\ n \in Process
      BY <1>0, <2>1, <2>2, <2>3, NotingFields
    <2>5. /\ run'[r].pc \in {"confirm", Onward(r)} /\ run'[r].job = n.job
          /\ run'[r].sid = n.sid /\ run'[r].left = n.left /\ run'[r].made = n.made
          /\ run'[r].todo = n.todo /\ run'[r].snap = n.snap /\ run'[r].cur = n.cur
          /\ run'[r].owed = n.owed /\ run'[r].errs = n.errs /\ run'[r].fault = n.fault
      BY <2>4 DEF Process
    <2>6. /\ n.job = run[r].job /\ n.sid = run[r].sid
          /\ n.todo = run[r].todo /\ n.snap = run[r].snap /\ n.cur = run[r].cur
          /\ n.left = run[r].left /\ n.owed = run[r].owed /\ n.made = run[r].made
          /\ run[r].errs => n.errs
          /\ run[r].fault => n.fault
      BY <2>3, NotingFields
    <2>7. \A q \in Runs : q # r => run'[q] = run[q]
      BY <1>0, <2>1
    <2> QED
      BY <2>1, <2>5, <2>6, <2>7 DEF Deletes
  <1>4. CASE ConfirmGone(r)
    <2>1. PICK answered \in BOOLEAN, visible \in BOOLEAN :
            /\ run[r].pc = "confirm"
            /\ run' = [run EXCEPT ![r] =
                        [Noting(r, visible, FALSE) EXCEPT
                           !.pc = Onward(r),
                           !.fault = run[r].fault \/ ~answered \/ visible]]
      BY <1>4 DEF ConfirmGone, AccountVisible
    <2>2. PICK f \in BOOLEAN : \E n : f = FALSE /\ n = Noting(r, visible, f)
      OBVIOUS
    <2>2a. PICK n : f = FALSE /\ n = Noting(r, visible, f)
      BY <2>2
    <2>3. /\ run'[r] = [n EXCEPT !.pc = Onward(r),
                                 !.fault = run[r].fault \/ ~answered \/ visible]
          /\ n \in Process
      BY <1>0, <2>1, <2>2a, NotingFields
    <2>4. /\ run'[r].pc = Onward(r) /\ run'[r].job = n.job
          /\ run'[r].sid = n.sid /\ run'[r].left = n.left /\ run'[r].made = n.made
          /\ run'[r].todo = n.todo /\ run'[r].snap = n.snap /\ run'[r].cur = n.cur
          /\ run'[r].owed = n.owed /\ run'[r].errs = n.errs
          /\ run[r].fault => run'[r].fault
      BY <2>3 DEF Process
    <2>6. /\ n.job = run[r].job /\ n.sid = run[r].sid
          /\ n.todo = run[r].todo /\ n.snap = run[r].snap /\ n.cur = run[r].cur
          /\ n.left = run[r].left /\ n.owed = run[r].owed /\ n.made = run[r].made
          /\ run[r].errs => n.errs
          /\ run[r].fault => n.fault
      BY <2>2a, NotingFields
    <2>7. \A q \in Runs : q # r => run'[q] = run[q]
      BY <1>0, <2>1
    <2> QED
      BY <2>1, <2>4, <2>6, <2>7 DEF Deletes
  <1> QED
    BY <1>1, <1>2, <1>3, <1>4 DEF Deleting

\* A process that does not move holds what it held.
LEMMA StableHolds ==
  ASSUME TypeOK, [Next]_vars, NEW r \in Runs, Holds(r), run'[r] = run[r]
  PROVE  Holds(r)'
  <1>1. /\ run[r].sid \in Accounts \cup {None} /\ run[r].todo \subseteq Accounts
        /\ run[r].left \subseteq Clients /\ run[r].made \subseteq Clients
    BY DEF TypeOK, Process
  <1>2. \A a \in Accounts : acct[a].st # "unused" =>
          /\ acct'[a].st # "unused" /\ acct'[a].id = acct[a].id
          /\ ShouldSweep(r, a) => ShouldSweep(r, a)'
    BY AcctKept DEF ShouldSweep
  <1>3. \A c \in Clients : client[c].st # "unused" =>
          client'[c].st # "unused" /\ client'[c].acct = client[c].acct
    BY ClientKept
  <1> QED
    BY <1>1, <1>2, <1>3 DEF Holds, InSweep

\* A process that moves: its deletions of the sweep and of its own account.
LEMMA MovedHolds ==
  ASSUME TypeOK, OwnInv, [Next]_vars, NEW r \in Runs,
         \/ Sweeping(r) \/ Deleting(r) \/ Setup(r) \/ Testing(r) \/ Teardown(r) \/ Crash(r)
  PROVE  Holds(r)'
  <1>0. run[r] \in Process /\ run \in [Runs -> Process]
    BY DEF TypeOK
  <1>1. /\ run[r].sid \in Accounts \cup {None} /\ run[r].todo \subseteq Accounts
        /\ run[r].left \subseteq Clients /\ run[r].made \subseteq Clients
        /\ run[r].snap \subseteq Clients
    BY DEF TypeOK, Process
  <1>2. \A a \in Accounts : acct[a].st # "unused" =>
          /\ acct'[a].st # "unused" /\ acct'[a].id = acct[a].id
          /\ ShouldSweep(r, a) => ShouldSweep(r, a)'
    BY AcctKept DEF ShouldSweep
  <1>3. \A c \in Clients : client[c].st # "unused" =>
          client'[c].st # "unused" /\ client'[c].acct = client[c].acct
    BY ClientKept
  <1>4. Holds(r)
    BY DEF OwnInv
  <1>5. CASE Sweeping(r)
    <2>1. CASE ListAccounts(r)
      <3>1. /\ run[r].pc = "start"
            /\ run'[r].pc \in {"sweepList", "create"} /\ run'[r].sid = run[r].sid
            /\ run'[r].made = run[r].made
            /\ run'[r].pc = "sweepList" => run'[r].todo = There
        BY <1>0, <2>1 DEF ListAccounts, Process
      <3>2. \A a \in There : a \in Accounts /\ acct[a].st # "unused"
        BY DEF There
      <3> QED
        BY <1>1, <1>2, <1>4, <3>1, <3>2 DEF Holds, Owns, Deletes, InSweep
    <2>2. CASE ListSIPClients(r)
      <3>1. /\ run[r].pc = "sweepList" /\ run'[r].pc = "sweep" /\ run'[r].sid = run[r].sid
            /\ run'[r].made = run[r].made
            /\ run'[r].todo = {a \in run[r].todo : ShouldSweep(r, a)}
        <4> DEFINE todo == {a \in run[r].todo : ShouldSweep(r, a)}
        <4>1. PICK o \in {"ok", "refused"} :
                /\ run[r].pc = "sweepList"
                /\ run' = [run EXCEPT ![r].pc = "sweep",
                                      ![r].snap = IF o = "ok" THEN Listed ELSE {},
                                      ![r].todo = todo, ![r].fault = Fails(o)]
          BY <2>2 DEF ListSIPClients
        <4> HIDE DEF todo
        <4>2. /\ run'[r].pc = "sweep" /\ run'[r].sid = run[r].sid /\ run'[r].todo = todo
              /\ run'[r].made = run[r].made
          BY <1>0, <4>1 DEF Process
        <4> QED
          BY <4>1, <4>2 DEF todo
      <3> QED
        BY <1>1, <1>2, <1>4, <3>1 DEF Holds, Owns, Deletes, InSweep
    <2>3. CASE SweepAccount(r)
      <3>1. PICK a \in run[r].todo :
              /\ run[r].pc = "sweep" /\ run'[r].pc = "delClients" /\ run'[r].job = "sweep"
              /\ run'[r].cur = a /\ run'[r].todo = run[r].todo \ {a}
              /\ run'[r].left = ClientsOf(r, a) /\ run'[r].sid = run[r].sid
              /\ run'[r].made = run[r].made
        BY <1>0, <2>3 DEF SweepAccount, Process
      <3>2. a \in Accounts /\ acct[a].st # "unused" /\ ShouldSweep(r, a)
        BY <1>1, <1>4, <3>1 DEF Holds, InSweep
      <3>3. \A c \in ClientsOf(r, a) : c \in Clients /\ client[c].acct = a
        BY <1>1 DEF ClientsOf
      <3>4. \A c \in Clients : client[c].acct # None => client[c].st # "unused"
        BY DEF OwnInv, ClientsNamed
      <3> QED
        BY <1>1, <1>2, <1>3, <1>4, <3>1, <3>2, <3>3, <3>4, AccountsAssumption
        DEF Holds, Owns, Deletes, InSweep
    <2>4. CASE SweepEnds(r)
      <3>1. /\ run[r].pc = "sweep" /\ run'[r].pc = "create" /\ run'[r].sid = run[r].sid
            /\ run'[r].made = run[r].made
        BY <1>0, <2>4 DEF SweepEnds, Process
      <3> QED
        BY <1>1, <1>2, <1>4, <3>1 DEF Holds, Owns, Deletes, InSweep
    <2> QED
      BY <1>5, <2>1, <2>2, <2>3, <2>4 DEF Sweeping
  <1>6. CASE Deleting(r)
    <2>1. Onward(r) \in {"sweep", "failed", "done"}
      BY DEF Onward
    <2>2. run[r].cur \in Accounts /\ acct[run[r].cur].st # "unused"
      BY <1>4, <1>6, DeletingMoves DEF Holds
    <2>3. Onward(r) = "done" => run[r].sid # None
      BY <1>4, <1>6, <2>2, DeletingMoves, AccountsAssumption DEF Holds, Onward
    <2>4. Onward(r) = "sweep" => run[r].job = "sweep"
      BY DEF Onward
    <2> QED
      BY <1>1, <1>2, <1>3, <1>4, <1>6, <2>1, <2>2, <2>3, <2>4, DeletingMoves
      DEF Holds, InSweep, Deletes, Owns
  <1>7. CASE Setup(r)
    <2>1. CASE CreateAccount(r)
      <3>1. PICK o \in Outcomes, a \in Accounts, g \in {"young", "unknown"} :
              /\ run[r].pc = "create"
              /\ acct' = IF TakesEffect(o)
                         THEN [acct EXCEPT ![a] = [st |-> "there", id |-> RunID[r],
                                                   age |-> g, key |-> FALSE, realm |-> FALSE]]
                         ELSE acct
              /\ run' = [run EXCEPT ![r].pc = IF Fails(o) THEN "failed" ELSE "key",
                                    ![r].sid = IF Fails(o) THEN None ELSE a]
        BY <2>1 DEF CreateAccount
      <3>2. CASE Fails(o)
        <4>1. run'[r].pc = "failed" /\ run'[r].sid = None /\ run'[r].made = run[r].made
          BY <1>0, <3>1, <3>2 DEF Process
        <4> QED
          BY <1>4, <3>1, <4>1 DEF Holds, InSweep, Deletes, Owns
      <3>3. CASE ~Fails(o)
        <4>1. run'[r].pc = "key" /\ run'[r].sid = a /\ run'[r].made = run[r].made
          BY <1>0, <3>1, <3>3 DEF Process
        <4>2. acct'[a].st = "there" /\ acct'[a].id = RunID[r]
          BY <3>1, <3>3 DEF Fails, TakesEffect, TypeOK, Account
        <4>3. a # None
          BY AccountsAssumption
        <4> QED
          BY <1>4, <3>1, <4>1, <4>2, <4>3 DEF Holds, InSweep, Deletes, Owns
      <3> QED
        BY <3>2, <3>3
    <2>2. CASE CreateApiKey(r) \/ SetSipRealm(r) \/ VerifyRealm(r)
      <3>1. /\ run[r].pc \in {"key", "realm", "verify"}
            /\ \/ run'[r] = Undo(r)
               \/ \E pc \in {"realm", "verify", "testing"} : run'[r] = [run[r] EXCEPT !.pc = pc]
        BY <1>0, <2>2 DEF CreateApiKey, SetSipRealm, VerifyRealm
      <3>2. run[r].sid # None /\ run[r].made = {}
        BY <1>4, <3>1 DEF Holds, Owns
      <3>3. CASE run'[r] = Undo(r)
        <4>1. /\ run'[r].pc = "delClients" /\ run'[r].job = "undo"
              /\ run'[r].cur = run[r].sid /\ run'[r].sid = run[r].sid /\ run'[r].left = {}
              /\ run'[r].made = run[r].made
          BY <1>0, <3>3 DEF Undo, Process
        <4> QED
          BY <1>1, <1>2, <1>4, <3>2, <4>1 DEF Holds, InSweep, Deletes, Owns
      <3>4. CASE \E pc \in {"realm", "verify", "testing"} : run'[r] = [run[r] EXCEPT !.pc = pc]
        <4>1. /\ run'[r].pc \in {"realm", "verify", "testing"}
              /\ run'[r].sid = run[r].sid /\ run'[r].made = run[r].made
          BY <1>0, <3>4 DEF Process
        <4> QED
          BY <1>1, <1>2, <1>4, <3>2, <4>1 DEF Holds, InSweep, Deletes, Owns
      <3> QED
        BY <3>1, <3>3, <3>4
    <2> QED
      BY <1>7, <2>1, <2>2 DEF Setup
  <1>8. CASE Testing(r)
    <2>1. CASE ManagedSIPClient(r)
      <3>1. PICK c \in Clients, o \in {"ok", "lost"} :
              /\ run[r].pc = "testing"
              /\ client' = [client EXCEPT ![c] = [st |-> "there", acct |-> run[r].sid]]
              /\ run' = [run EXCEPT ![r].made = IF Fails(o) THEN run[r].made
                                                ELSE run[r].made \cup {c}]
        BY <1>0, <2>1 DEF ManagedSIPClient
      <3>3. /\ run'[r].pc = "testing" /\ run'[r].sid = run[r].sid
            /\ run'[r].made \subseteq run[r].made \cup {c}
        BY <1>0, <3>1 DEF Process
      <3>2. client'[c].st = "there" /\ client'[c].acct = run[r].sid
        BY <3>1 DEF TypeOK
      <3> QED
        BY <1>1, <1>2, <1>3, <1>4, <3>1, <3>2, <3>3 DEF Holds, InSweep, Deletes, Owns
    <2>2. CASE CleanupClient(r)
      <3>1. /\ run[r].pc = "testing"
            /\ run'[r].pc = "testing" /\ run'[r].sid = run[r].sid
            /\ run'[r].made \subseteq run[r].made
        BY <1>0, <2>2 DEF CleanupClient, Process
      <3> QED
        BY <1>1, <1>2, <1>3, <1>4, <3>1 DEF Holds, InSweep, Deletes, Owns
    <2>3. CASE TestsEnd(r)
      <3>1. /\ run[r].pc = "testing" /\ run'[r].pc = "listCalls" /\ run'[r].sid = run[r].sid
            /\ run'[r].made = {}
        BY <1>0, <2>3 DEF TestsEnd, Process
      <3> QED
        BY <1>1, <1>2, <1>4, <3>1 DEF Holds, InSweep, Deletes, Owns
    <2> QED
      BY <1>4, <1>8, <2>1, <2>2, <2>3, StableHolds
      DEF Testing, PlaceCall, CleanupCall, CallEnds
  <1>9. CASE Teardown(r)
    <2>1. CASE ListClientsForAccount(r)
      <3>1. /\ run[r].pc = "listClients" /\ run'[r].pc = "delClients"
            /\ run'[r].job = "teardown" /\ run'[r].cur = run[r].sid
            /\ run'[r].sid = run[r].sid /\ run'[r].left \subseteq ListedOwn(r)
            /\ run'[r].made = run[r].made
        BY <1>0, <2>1 DEF ListClientsForAccount, Process
      <3>2. \A c \in ListedOwn(r) : /\ c \in Clients /\ client[c].st # "unused"
                                    /\ client[c].acct = run[r].sid
        BY DEF ListedOwn, Listed
      <3> QED
        BY <1>1, <1>2, <1>3, <1>4, <3>1, <3>2 DEF Holds, InSweep, Deletes, Owns
    <2>2. CASE ListLiveCalls(r) \/ HangupCall(r) \/ DeleteCall(r)
      <3>1. /\ run[r].pc \in {"listCalls", "hangup", "deleteCall"}
            /\ run'[r].pc \in {"hangup", "deleteCall", "listClients"}
            /\ run'[r].sid = run[r].sid /\ run'[r].made = run[r].made
        BY <1>0, <2>2 DEF ListLiveCalls, HangupCall, DeleteCall, Process
      <3> QED
        BY <1>1, <1>2, <1>4, <3>1 DEF Holds, InSweep, Deletes, Owns
    <2> QED
      BY <1>9, <2>1, <2>2 DEF Teardown
  <1>10. CASE Crash(r)
    <2>1. run'[r].pc = "crashed" /\ run'[r].sid = None /\ run'[r].made = {}
      BY <1>0, <1>10 DEF Crash, Blank
    <2> QED
      BY <2>1 DEF Holds, InSweep, Deletes, Owns
  <1> QED
    BY <1>5, <1>6, <1>7, <1>8, <1>9, <1>10

\* One process moves at a time, and the only account it comes to own is one that
\* did not exist.
LEMMA OneMoves ==
  ASSUME TypeOK, [Next]_vars
  PROVE  \/ UNCHANGED run
         \/ \E r \in Runs :
              /\ \/ Sweeping(r) \/ Deleting(r) \/ Setup(r) \/ Testing(r) \/ Teardown(r)
                 \/ Crash(r)
              /\ \A q \in Runs : q # r => run'[q] = run[q]
              /\ \/ run'[r].sid \in {run[r].sid, None}
                 \/ \E a \in Accounts : acct[a].st = "unused" /\ run'[r].sid = a
  <1>0. run \in [Runs -> Process]
    BY DEF TypeOK
  <1>1. ASSUME NEW r \in Runs, Sweeping(r)
        PROVE  /\ \A q \in Runs : q # r => run'[q] = run[q]
               /\ run'[r].sid = run[r].sid
    <2>1. CASE ListAccounts(r)
      BY <1>0, <2>1 DEF ListAccounts, Process
    <2>2. CASE ListSIPClients(r)
      <3> DEFINE todo == {a \in run[r].todo : ShouldSweep(r, a)}
      <3>1. PICK o : run' = [run EXCEPT ![r].pc = "sweep",
                                        ![r].snap = IF o = "ok" THEN Listed ELSE {},
                                        ![r].todo = todo, ![r].fault = Fails(o)]
        BY <2>2 DEF ListSIPClients
      <3> HIDE DEF todo
      <3> QED
        BY <1>0, <3>1 DEF Process
    <2>3. CASE SweepAccount(r)
      BY <1>0, <2>3 DEF SweepAccount, Process
    <2>4. CASE SweepEnds(r)
      BY <1>0, <2>4 DEF SweepEnds, Process
    <2> QED
      BY <1>1, <2>1, <2>2, <2>3, <2>4 DEF Sweeping
  <1>2. ASSUME NEW r \in Runs, Setup(r)
        PROVE  /\ \A q \in Runs : q # r => run'[q] = run[q]
               /\ \/ run'[r].sid \in {run[r].sid, None}
                  \/ \E a \in Accounts : acct[a].st = "unused" /\ run'[r].sid = a
    <2>1. CASE CreateAccount(r)
      <3>1. PICK o \in Outcomes, a \in Accounts :
              /\ acct[a].st = "unused"
              /\ run' = [run EXCEPT ![r].pc = IF Fails(o) THEN "failed" ELSE "key",
                                    ![r].sid = IF Fails(o) THEN None ELSE a]
        BY <2>1 DEF CreateAccount
      <3>2. run'[r].sid \in {a, None} /\ \A q \in Runs : q # r => run'[q] = run[q]
        BY <1>0, <3>1 DEF Process
      <3> QED
        BY <3>1, <3>2
    <2>2. CASE CreateApiKey(r) \/ SetSipRealm(r) \/ VerifyRealm(r)
      <3>1. /\ \A q \in Runs : q # r => run'[q] = run[q]
            /\ \/ run'[r] = Undo(r)
               \/ \E pc \in {"realm", "verify", "testing"} : run'[r] = [run[r] EXCEPT !.pc = pc]
        BY <1>0, <2>2 DEF CreateApiKey, SetSipRealm, VerifyRealm
      <3>2. run'[r].sid = run[r].sid
        BY <1>0, <3>1 DEF Undo, Process
      <3> QED
        BY <3>1, <3>2
    <2> QED
      BY <1>2, <2>1, <2>2 DEF Setup
  <1>3. ASSUME NEW r \in Runs, Testing(r)
        PROVE  \/ UNCHANGED run
               \/ /\ \A q \in Runs : q # r => run'[q] = run[q]
                  /\ run'[r].sid = run[r].sid
    <2>1. CASE ManagedSIPClient(r)
      BY <1>0, <2>1 DEF ManagedSIPClient, Process
    <2>2. CASE CleanupClient(r)
      BY <1>0, <2>2 DEF CleanupClient, Process
    <2>3. CASE TestsEnd(r)
      BY <1>0, <2>3 DEF TestsEnd, Process
    <2> QED
      BY <1>3, <2>1, <2>2, <2>3 DEF Testing, PlaceCall, CleanupCall, CallEnds
  <1>4. ASSUME NEW r \in Runs, Teardown(r)
        PROVE  /\ \A q \in Runs : q # r => run'[q] = run[q]
               /\ run'[r].sid = run[r].sid
    <2>1. CASE ListLiveCalls(r)
      BY <1>0, <2>1 DEF ListLiveCalls, Process
    <2>2. CASE HangupCall(r)
      BY <1>0, <2>2 DEF HangupCall, Process
    <2>3. CASE DeleteCall(r)
      BY <1>0, <2>3 DEF DeleteCall, Process
    <2>4. CASE ListClientsForAccount(r)
      BY <1>0, <2>4 DEF ListClientsForAccount, Process
    <2> QED
      BY <1>4, <2>1, <2>2, <2>3, <2>4 DEF Teardown
  <1>5. ASSUME NEW r \in Runs, Crash(r)
        PROVE  /\ \A q \in Runs : q # r => run'[q] = run[q]
               /\ run'[r].sid = None
    BY <1>0, <1>5 DEF Crash, Blank
  <1>6. ASSUME NEW r \in Runs, Deleting(r)
        PROVE  /\ \A q \in Runs : q # r => run'[q] = run[q]
               /\ run'[r].sid = run[r].sid
    BY <1>6, DeletingMoves
  <1>7. ASSUME NEW a \in Accounts, Ages(a) PROVE UNCHANGED run
    BY <1>7 DEF Ages
  <1> QED
    BY <1>1, <1>2, <1>3, <1>4, <1>5, <1>6, <1>7 DEF Next, vars

\* What a process deletes or works in is not foreign.
LEMMA NotForeign ==
  ASSUME TypeOK, OwnInv, NEW r \in Runs
  PROVE  /\ run[r].sid \notin Foreign
         /\ run[r].pc \in Deletes => run[r].cur \notin Foreign
  <1>1. RunID[r] # None /\ Holds(r) /\ \A a \in Foreign : acct[a].id = None /\ a # None
    BY RunsAssumption, AccountsAssumption DEF OwnInv, ForeignNamed
  <1>2. run[r].sid \notin Foreign
    BY <1>1 DEF Holds
  <1> QED
    BY <1>1, <1>2 DEF Holds, ShouldSweep

\* Whoever takes an account or its key from it is deleting it.
LEMMA AcctLost ==
  ASSUME TypeOK, [Next]_vars, NEW a \in Accounts, acct[a].st = "there",
         acct'[a].st # "there" \/ (acct[a].key /\ ~acct'[a].key)
  PROVE  \E r \in Runs : run[r].cur = a /\ run[r].pc \in Deletes
  <1>0. acct \in [Accounts -> Account]
    BY DEF TypeOK
  <1>1. ASSUME NEW b \in Accounts, acct' = [acct EXCEPT ![b].age = "old"] PROVE FALSE
    <2>1. acct'[a].st = acct[a].st /\ acct'[a].key = acct[a].key
      BY <1>0, <1>1 DEF Account
    <2> QED
      BY <2>1
  <1>2. ASSUME NEW b, acct' = [acct EXCEPT ![b].key = FALSE] PROVE a = b
    <2>1. a # b => acct'[a] = acct[a]
      BY <1>0, <1>2
    <2> QED
      BY <2>1
  <1>3. ASSUME NEW b, acct' = [acct EXCEPT ![b].key = TRUE] PROVE FALSE
    <2>1. acct'[a].st = acct[a].st /\ (acct[a].key => acct'[a].key)
      BY <1>0, <1>3 DEF Account
    <2> QED
      BY <2>1
  <1>4. ASSUME NEW b, acct' = [acct EXCEPT ![b].realm = TRUE] PROVE FALSE
    <2>1. acct'[a].st = acct[a].st /\ acct'[a].key = acct[a].key
      BY <1>0, <1>4 DEF Account
    <2> QED
      BY <2>1
  <1>5. ASSUME NEW b, acct' = [acct EXCEPT ![b].st = "gone", ![b].key = FALSE] PROVE a = b
    <2>1. a # b => acct'[a] = acct[a]
      BY <1>0, <1>5
    <2> QED
      BY <2>1
  <1>6. ASSUME NEW b \in Accounts, NEW q, acct[b].st = "unused",
               acct' = [acct EXCEPT ![b] = q]
        PROVE  FALSE
    BY <1>0, <1>6
  <1> QED
    BY <1>1, <1>2, <1>3, <1>4, <1>5, <1>6, AcctMoves DEF Deletes

\* Every step keeps OwnInv.
LEMMA StepOwn == TypeOK /\ OwnInv /\ [Next]_vars => OwnInv'
  <1> SUFFICES ASSUME TypeOK, OwnInv, [Next]_vars PROVE OwnInv'
    OBVIOUS
  <1>1. \A r \in Runs : Holds(r)'
    <2>1. \A r \in Runs : Holds(r)
      BY DEF OwnInv
    <2> QED
      BY <2>1, OneMoves, StableHolds, MovedHolds
  <1>2. Apart'
    <2>1. \A r, q \in Runs : run[r].sid = run[q].sid => r = q \/ run[r].sid = None
      BY DEF OwnInv, Apart
    <2>2. \A r \in Runs : run[r].sid # None => acct[run[r].sid].st # "unused"
      BY DEF OwnInv, Holds
    <2> QED
      BY <2>1, <2>2, OneMoves DEF Apart
  <1>3. ForeignNamed'
    BY AcctKept, AccountsAssumption DEF OwnInv, ForeignNamed, ForeignUntouched
  <1>4. ClientsNamed'
    <2>1. \A c \in Clients : client'[c].st = "unused" => client'[c] = client[c]
      <3>0. client \in [Clients -> Client]
        BY DEF TypeOK, Client
      <3>1. ASSUME NEW c \in Clients, client' = [client EXCEPT ![c].st = "gone"]
            PROVE  \A d \in Clients : client'[d].st = "unused" => client'[d] = client[d]
        BY <3>0, <3>1 DEF Client
      <3>2. ASSUME NEW c \in Clients, NEW a,
                   client' = [client EXCEPT ![c] = [st |-> "there", acct |-> a]]
            PROVE  \A d \in Clients : client'[d].st = "unused" => client'[d] = client[d]
        BY <3>0, <3>2
      <3> QED
        BY <3>1, <3>2, ClientMoves
    <2> QED
      BY <2>1 DEF OwnInv, ClientsNamed
  <1>5. \A a \in Foreign : acct'[a].st = "there"
    <2> SUFFICES ASSUME NEW a \in Foreign, acct'[a].st # "there" PROVE FALSE
      OBVIOUS
    <2>1. a \in Accounts /\ acct[a].st = "there" /\ acct[a] \in Account
      BY AccountsAssumption DEF OwnInv, ForeignUntouched, TypeOK
    <2> QED
      BY <2>1, AcctLost, NotForeign
  <1>6. \A c \in Clients : client'[c].acct \in Foreign => client'[c].st = "there"
    <2> SUFFICES ASSUME NEW c \in Clients, client'[c].acct \in Foreign,
                        client'[c].st # "there"
                 PROVE  FALSE
      OBVIOUS
    <2>0. client \in [Clients -> Client] /\ (client[c].acct \in Foreign => client[c].st = "there")
      BY DEF TypeOK, Client, OwnInv, ForeignUntouched
    <2>1. ASSUME NEW r \in Runs, NEW d \in Clients, client' = [client EXCEPT ![d].st = "gone"],
                 \/ run[r].pc = "delClients" /\ d \in run[r].left
                 \/ run[r].pc = "testing" /\ d \in run[r].made
          PROVE  FALSE
      <3>1. c = d /\ client[c].acct \in Foreign
        BY <2>0, <2>1 DEF Client
      <3> QED
        BY <2>1, <3>1, NotForeign DEF OwnInv, Holds, Deletes
    <2>2. ASSUME NEW d \in Clients, NEW a,
                 client' = [client EXCEPT ![d] = [st |-> "there", acct |-> a]]
          PROVE  FALSE
      BY <2>0, <2>2
    <2> QED
      BY <2>0, <2>1, <2>2, ClientMoves
  <1> QED
    BY <1>1, <1>2, <1>3, <1>4, <1>5, <1>6 DEF OwnInv, ForeignUntouched

\* Whatever any number of processes sweep and tear down, with or without the age
\* gate, the service provider's own accounts and their clients stay.
THEOREM ForeignSafe == Spec => []ForeignUntouched
  <1>1. OwnInv => ForeignUntouched
    BY DEF OwnInv
  <1> QED
    BY <1>1, InitOwn, StepOwn, SuiteInitType, SuiteStepType, PTL DEF Spec

-----------------------------------------------------------------------------
\* The account of a process that tests.

\* From its creation to the end of the tests the account is there, with what the
\* setup has given it so far, until it is old.
Live(r) ==
  LET a == run[r].sid IN
  /\ run[r].pc \in {"key", "realm", "verify", "testing"} /\ acct[a].age # "old" =>
       /\ acct[a].st = "there"
       /\ run[r].pc # "key" => acct[a].key
       /\ run[r].pc = "testing" => \A c \in run[r].made : client[c].st = "there"
  /\ run[r].pc = "testing" => acct[a].realm

AllLive == \A r \in Runs : Live(r)

\* Nobody else deletes a young suite account in use.
LEMMA NobodyDeletes ==
  ASSUME AgeGate, TypeOK, OwnInv, NEW r \in Runs, NEW q \in Runs,
         run[r].sid # None, acct[run[r].sid].age # "old", run[r].pc \notin Deletes,
         run[q].pc \in Deletes
  PROVE  run[q].cur # run[r].sid
  <1>1. run[q].job = "sweep" => acct[run[q].cur].age = "old"
    BY DEF OwnInv, Holds, ShouldSweep
  <1>2. run[q].job # "sweep" => run[q].cur = run[q].sid
    BY DEF OwnInv, Holds
  <1> QED
    BY <1>1, <1>2 DEF OwnInv, Apart

\* What stays of a suite account in use, and of its clients that are not cleaned up.
LEMMA LiveKept ==
  ASSUME AgeGate, TypeOK, OwnInv, [Next]_vars, NEW r \in Runs,
         run[r].pc \in {"key", "realm", "verify", "testing"}, Live(r),
         acct'[run[r].sid].age # "old"
  PROVE  /\ acct[run[r].sid].age # "old"
         /\ acct'[run[r].sid].st = "there"
         /\ acct[run[r].sid].key => acct'[run[r].sid].key
         /\ run[r].pc = "testing" =>
              \A c \in run[r].made : c \in run'[r].made => client'[c].st = "there"
  <1>1. run[r].sid \in Accounts /\ run[r].sid # None /\ run[r].pc \notin Deletes
    BY AccountsAssumption DEF TypeOK, Process, OwnInv, Holds, Owns, Deletes
  <1>2. acct[run[r].sid].st # "unused"
    BY <1>1 DEF OwnInv, Holds
  <1>3. acct[run[r].sid].age # "old"
    BY <1>1, <1>2, AcctKept
  <1>4. acct[run[r].sid].st = "there"
    BY <1>3 DEF Live
  <1>5. /\ acct'[run[r].sid].st = "there"
        /\ acct[run[r].sid].key => acct'[run[r].sid].key
    BY <1>1, <1>3, <1>4, AcctLost, NobodyDeletes
  <1>6. ASSUME run[r].pc = "testing", NEW c \in run[r].made, c \in run'[r].made,
               client'[c].st # "there"
        PROVE  FALSE
    <2>1. c \in Clients /\ client[c].acct = run[r].sid /\ client[c].st = "there"
      BY <1>3, <1>6 DEF TypeOK, Process, OwnInv, Holds, Live
    <2>2. client \in [Clients -> Client]
      BY DEF TypeOK, Client
    <2>3. ASSUME NEW q \in Runs, NEW d \in Clients, client' = [client EXCEPT ![d].st = "gone"],
                 \/ run[q].pc = "delClients" /\ d \in run[q].left
                 \/ run[q].pc = "testing" /\ d \in run[q].made /\ d \notin run'[q].made
          PROVE  FALSE
      <3>1. c = d
        BY <1>6, <2>1, <2>2, <2>3
      <3>2. CASE run[q].pc = "delClients" /\ d \in run[q].left
        <4>1. run[q].cur = run[r].sid
          BY <2>1, <3>1, <3>2 DEF OwnInv, Holds, Deletes
        <4> QED
          BY <1>1, <1>3, <3>2, <4>1, NobodyDeletes DEF Deletes
      <3>3. CASE run[q].pc = "testing" /\ d \in run[q].made /\ d \notin run'[q].made
        <4>1. run[q].sid = run[r].sid
          BY <2>1, <3>1, <3>3 DEF OwnInv, Holds
        <4> QED
          BY <1>1, <1>6, <3>1, <3>3, <4>1 DEF OwnInv, Apart
      <3> QED
        BY <2>3, <3>2, <3>3
    <2>4. ASSUME NEW d \in Clients, NEW a,
                 client' = [client EXCEPT ![d] = [st |-> "there", acct |-> a]]
          PROVE  FALSE
      BY <1>6, <2>1, <2>2, <2>4
    <2> QED
      BY <1>6, <2>1, <2>3, <2>4, ClientMoves
  <1> QED
    BY <1>3, <1>5, <1>6

\* Every step keeps the account of every process that sets up or tests.
LEMMA StepLive ==
  ASSUME AgeGate, TypeOK, OwnInv, [Next]_vars, AllLive
  PROVE  AllLive'
  <1> SUFFICES ASSUME NEW r \in Runs PROVE Live(r)'
    BY DEF AllLive
  <1> USE DEF Live
  <1>0. run[r] \in Process /\ run \in [Runs -> Process] /\ Live(r)
    BY DEF TypeOK, AllLive
  <1>1. run[r].pc \in {"key", "realm", "verify", "testing"} =>
          run[r].sid \in Accounts /\ acct[run[r].sid].st # "unused"
    BY <1>0, AccountsAssumption DEF Process, OwnInv, Holds, Owns
  <1>2. run[r].pc = "testing" => acct'[run[r].sid].realm
    BY <1>0, <1>1, AcctKept
  <1>3. CASE run'[r] = run[r]
    BY <1>0, <1>2, <1>3, LiveKept
  <1>4. CASE Sweeping(r) \/ Teardown(r) \/ Crash(r) \/ Deleting(r) \/ TestsEnd(r)
    <2>1. run'[r].pc \notin {"key", "realm", "verify", "testing"}
      <3>1. CASE ListAccounts(r)   BY <1>0, <3>1 DEF ListAccounts, Process
      <3>2. CASE ListSIPClients(r)
        <4> DEFINE todo == {a \in run[r].todo : ShouldSweep(r, a)}
        <4>1. PICK o : run' = [run EXCEPT ![r].pc = "sweep",
                                          ![r].snap = IF o = "ok" THEN Listed ELSE {},
                                          ![r].todo = todo, ![r].fault = Fails(o)]
          BY <3>2 DEF ListSIPClients
        <4> HIDE DEF todo
        <4> QED
          BY <1>0, <4>1 DEF Process
      <3>3. CASE SweepAccount(r)   BY <1>0, <3>3 DEF SweepAccount, Process
      <3>4. CASE SweepEnds(r)      BY <1>0, <3>4 DEF SweepEnds, Process
      <3>5. CASE ListLiveCalls(r)  BY <1>0, <3>5 DEF ListLiveCalls, Process
      <3>6. CASE HangupCall(r)     BY <1>0, <3>6 DEF HangupCall, Process
      <3>7. CASE DeleteCall(r)     BY <1>0, <3>7 DEF DeleteCall, Process
      <3>8. CASE ListClientsForAccount(r)
        BY <1>0, <3>8 DEF ListClientsForAccount, Process
      <3>9. CASE Crash(r)          BY <1>0, <3>9 DEF Crash, Blank
      <3>10. CASE TestsEnd(r)      BY <1>0, <3>10 DEF TestsEnd, Process
      <3>11. CASE Deleting(r)
        BY <3>11, DeletingMoves DEF Onward, Deletes
      <3> QED
        BY <1>4, <3>1, <3>2, <3>3, <3>4, <3>5, <3>6, <3>7, <3>8, <3>9, <3>10, <3>11
        DEF Sweeping, Teardown
    <2> QED
      BY <2>1
  <1>5. CASE CreateAccount(r)
    <2>1. PICK o \in Outcomes, a \in Accounts, g \in {"young", "unknown"} :
            /\ acct' = IF TakesEffect(o)
                       THEN [acct EXCEPT ![a] = [st |-> "there", id |-> RunID[r],
                                                 age |-> g, key |-> FALSE, realm |-> FALSE]]
                       ELSE acct
            /\ run' = [run EXCEPT ![r].pc = IF Fails(o) THEN "failed" ELSE "key",
                                  ![r].sid = IF Fails(o) THEN None ELSE a]
      BY <1>5 DEF CreateAccount
    <2>2. CASE Fails(o)
      <3>1. run'[r].pc = "failed"
        BY <1>0, <2>1, <2>2 DEF Process
      <3> QED
        BY <3>1
    <2>3. CASE ~Fails(o)
      <3>1. run'[r].pc = "key" /\ run'[r].sid = a
        BY <1>0, <2>1, <2>3 DEF Process
      <3>2. acct'[a].st = "there"
        BY <2>1, <2>3 DEF Fails, TakesEffect, TypeOK
      <3> QED
        BY <3>1, <3>2
    <2> QED
      BY <2>2, <2>3
  <1>6. CASE CreateApiKey(r)
    <2>1. PICK o \in Outcomes :
            /\ run[r].pc = "key"
            /\ acct' = IF TakesEffect(o) THEN [acct EXCEPT ![run[r].sid].key = TRUE] ELSE acct
            /\ run' = [run EXCEPT ![r] = IF Fails(o) THEN Undo(r)
                                         ELSE [run[r] EXCEPT !.pc = "realm"]]
      BY <1>6 DEF CreateApiKey, Outcomes
    <2>2. CASE Fails(o)
      <3>1. run'[r].pc = "delClients"
        BY <1>0, <2>1, <2>2 DEF Undo, Process
      <3> QED
        BY <3>1
    <2>3. CASE ~Fails(o)
      <3>1. run'[r].pc = "realm" /\ run'[r].sid = run[r].sid
        BY <1>0, <2>1, <2>3 DEF Process
      <3>2. acct'[run[r].sid].key
        BY <1>1, <2>1, <2>3 DEF Fails, TakesEffect, TypeOK, Account
      <3> QED
        BY <1>0, <2>1, <3>1, <3>2, LiveKept
    <2> QED
      BY <2>2, <2>3
  <1>7. CASE SetSipRealm(r)
    <2>1. /\ run[r].pc = "realm"
          /\ run'[r] = Undo(r) \/ run'[r] = [run[r] EXCEPT !.pc = "verify"]
      BY <1>0, <1>7 DEF SetSipRealm
    <2>2. \/ run'[r].pc = "delClients"
          \/ run'[r].pc = "verify" /\ run'[r].sid = run[r].sid
      BY <1>0, <2>1 DEF Undo, Process
    <2> QED
      BY <1>0, <2>1, <2>2, LiveKept
  <1>8. CASE VerifyRealm(r)
    <2>1. /\ run[r].pc = "verify" /\ acct' = acct
          /\ \/ run'[r] = Undo(r)
             \/ RealmPersisted(r) /\ run'[r] = [run[r] EXCEPT !.pc = "testing"]
      BY <1>0, <1>8 DEF VerifyRealm
    <2>2. \/ run'[r].pc = "delClients"
          \/ /\ run'[r].pc = "testing" /\ run'[r].sid = run[r].sid /\ run'[r].made = run[r].made
             /\ RealmPersisted(r)
      BY <1>0, <2>1 DEF Undo, Process
    <2>3. run[r].made = {}
      BY <2>1 DEF OwnInv, Holds
    <2> QED
      BY <1>0, <2>1, <2>2, <2>3, LiveKept DEF RealmPersisted
  <1>9. CASE ManagedSIPClient(r)
    <2>1. PICK c \in Clients, o \in {"ok", "lost"} :
            /\ run[r].pc = "testing"
            /\ client' = [client EXCEPT ![c] = [st |-> "there", acct |-> run[r].sid]]
            /\ run' = [run EXCEPT ![r].made = IF Fails(o) THEN run[r].made
                                              ELSE run[r].made \cup {c}]
      BY <1>0, <1>9 DEF ManagedSIPClient
    <2>2. /\ run'[r].pc = "testing" /\ run'[r].sid = run[r].sid
          /\ run'[r].made \subseteq run[r].made \cup {c}
      BY <1>0, <2>1 DEF Process
    <2>3. client'[c].st = "there"
      BY <2>1 DEF TypeOK
    <2> QED
      BY <1>0, <1>2, <2>1, <2>2, <2>3, LiveKept
  <1>10. CASE CleanupClient(r)
    <2>1. /\ run[r].pc = "testing"
          /\ run'[r].pc = "testing" /\ run'[r].sid = run[r].sid
          /\ run'[r].made \subseteq run[r].made
      BY <1>0, <1>10 DEF CleanupClient, Process
    <2> QED
      BY <1>0, <1>2, <2>1, LiveKept
  <1>11. PlaceCall(r) \/ CleanupCall(r) \/ CallEnds(r) => run'[r] = run[r]
    BY DEF PlaceCall, CleanupCall, CallEnds
  <1> QED
    BY <1>3, <1>4, <1>5, <1>6, <1>7, <1>8, <1>9, <1>10, <1>11, OneMoves DEF Setup, Testing

\* With the age gate, processes that sweep, tear down and die in any order leave alone
\* what is not theirs: the service provider's accounts, and while a process tests, the
\* account and the clients it tests with, until that account is older than MinAge.
THEOREM OthersSafe ==
  ASSUME AgeGate
  PROVE  Spec => []OthersSpared
  <1>1. Init => AllLive
    BY DEF Init, AllLive, Live, Blank
  <1>2. TypeOK /\ OwnInv /\ AllLive /\ [Next]_vars => AllLive'
    BY StepLive DEF AllLive
  <1>3. OwnInv /\ AllLive => OthersSpared
    BY DEF OwnInv, AllLive, Live, OthersSpared, LiveSuiteKept
  <1> QED
    BY <1>1, <1>2, <1>3, InitOwn, StepOwn, SuiteInitType, SuiteStepType, PTL DEF Spec

-----------------------------------------------------------------------------
\* What Teardown reports.

\* How a deletion ends: with the account gone, or with a request that failed, or with
\* a client left that keeps the account.
LEMMA DeletionEnds ==
  ASSUME TypeOK, OwnInv, [Next]_vars, NEW r \in Runs, Deleting(r), run'[r].pc \notin Deletes
  PROVE  \/ acct'[run[r].cur].st = "gone"
         \/ run'[r].fault
         \/ run[r].job = "undo"
         \/ run[r].job = "teardown" /\ run'[r].errs
         \/ /\ run[r].pc = "delAccount" /\ run[r].job = "sweep"
            /\ \E c \in Listed : client[c].acct = run[r].cur
  <1>0. run[r] \in Process /\ run \in [Runs -> Process] /\ acct \in [Accounts -> Account]
    BY DEF TypeOK
  <1>1. run[r].cur \in Accounts /\ acct[run[r].cur].st # "unused"
    BY DeletingMoves DEF OwnInv, Holds
  <1>2. CASE DeleteSIPClient(r)
    <2>1. PICK c, o : /\ run[r].pc = "delClients"
                      /\ run' = [run EXCEPT ![r] = [Noting(r, Fails(o), Fails(o)) EXCEPT
                                                      !.left = run[r].left \ {c}]]
      BY <1>2 DEF DeleteSIPClient
    <2>2. PICK n : n = Noting(r, Fails(o), Fails(o))
      OBVIOUS
    <2>3. Fails(o) \in BOOLEAN
      BY DEF Fails
    <2>4. n.pc = "delClients" /\ n \in Process
      BY <2>1, <2>2, <2>3, NotingFields
    <2>5. run'[r].pc = n.pc
      BY <1>0, <2>1, <2>2, <2>4 DEF Process
    <2> QED
      BY <2>4, <2>5 DEF Deletes
  <1>3. CASE DeleteApiKey(r)
    BY <1>0, <1>3 DEF DeleteApiKey, Process, Deletes
  <1>4. CASE DeleteAccount(r)
    <2>0. run[r].job \in {"sweep", "undo", "teardown"}
      BY <1>0 DEF Process
    <2>1. PICK w \in Answers(run[r].cur) :
            /\ run[r].pc = "delAccount"
            /\ acct' = IF w \in {"204", "lost"}
                       THEN [acct EXCEPT ![run[r].cur].st = "gone", ![run[r].cur].key = FALSE]
                       ELSE acct
            /\ run' = [run EXCEPT ![r] =
                       [Noting(r, Reports(w), w \in {"refused", "lost"}) EXCEPT
                          !.pc = IF w = "403" THEN "confirm" ELSE Onward(r)]]
      BY <1>4 DEF DeleteAccount
    <2>2. PICK e \in BOOLEAN, f \in BOOLEAN :
            e = Reports(w) /\ f = (w \in {"refused", "lost"})
      <3> Reports(w) \in BOOLEAN /\ (w \in {"refused", "lost"}) \in BOOLEAN
        BY DEF Reports
      <3> WITNESS Reports(w) \in BOOLEAN, (w \in {"refused", "lost"}) \in BOOLEAN
      <3> QED
        OBVIOUS
    <2>3. PICK n : n = Noting(r, e, f)
      OBVIOUS
    <2>4. /\ run'[r] = [n EXCEPT !.pc = IF w = "403" THEN "confirm" ELSE Onward(r)]
          /\ n \in Process
      BY <1>0, <2>1, <2>2, <2>3, NotingFields
    <2>5. /\ n.errs <=> run[r].errs \/ (e /\ run[r].job = "teardown")
          /\ n.fault <=> run[r].fault \/ (f /\ run[r].job = "sweep")
      BY <2>3, NotingFields
    <2>6. /\ run'[r].errs = n.errs /\ run'[r].fault = n.fault
          /\ w = "403" => run'[r].pc = "confirm"
      BY <2>4 DEF Process
    <2>7. w # "403"
      BY <2>6 DEF Deletes
    <2>8. CASE w \in {"204", "lost"}
      BY <1>0, <1>1, <2>1, <2>8 DEF Account
    <2>9. CASE w = "404"
      <3>1. acct[run[r].cur].st # "there" /\ acct' = acct
        BY <2>1, <2>9 DEF Answers
      <3> QED
        BY <1>0, <1>1, <3>1 DEF Account
    <2>10. CASE w = "refused"
      <3>1. e /\ f
        BY <2>2, <2>10 DEF Reports
      <3> QED
        BY <2>0, <2>5, <2>6, <3>1
    <2>11. CASE w = "500"
      <3>1. e /\ \E c \in Listed : client[c].acct = run[r].cur
        BY <2>1, <2>2, <2>11 DEF Answers, Reports
      <3> QED
        BY <2>0, <2>1, <2>5, <2>6, <3>1
    <2> QED
      BY <2>1, <2>7, <2>8, <2>9, <2>10, <2>11 DEF Answers
  <1>5. CASE ConfirmGone(r)
    <2>1. PICK answered \in BOOLEAN, visible \in BOOLEAN :
            /\ visible <=> answered /\ acct[run[r].cur].st = "there"
            /\ acct' = acct
            /\ run' = [run EXCEPT ![r] =
                        [Noting(r, visible, FALSE) EXCEPT
                           !.pc = Onward(r),
                           !.fault = run[r].fault \/ ~answered \/ visible]]
      BY <1>5 DEF ConfirmGone, AccountVisible
    <2>2. PICK f \in BOOLEAN : \E n : f = FALSE /\ n = Noting(r, visible, f)
      OBVIOUS
    <2>3. PICK n : f = FALSE /\ n = Noting(r, visible, f)
      BY <2>2
    <2>4. /\ run'[r] = [n EXCEPT !.pc = Onward(r),
                                 !.fault = run[r].fault \/ ~answered \/ visible]
          /\ n \in Process
      BY <1>0, <2>1, <2>3, NotingFields
    <2>5. ~answered \/ visible => run'[r].fault
      BY <2>4 DEF Process
    <2>6. answered /\ ~visible => acct'[run[r].cur].st = "gone"
      BY <1>0, <1>1, <2>1 DEF Account
    <2> QED
      BY <2>5, <2>6
  <1> QED
    BY <1>2, <1>3, <1>4, <1>5 DEF Deleting

\* The process that gets to "done" by a step was deleting its suite account.
LEMMA DoneBy ==
  ASSUME TypeOK, OwnInv, [Next]_vars, NEW r \in Runs, run'[r].pc = "done"
  PROVE  \/ run'[r] = run[r]
         \/ /\ Deleting(r) /\ run[r].job = "teardown"
            /\ run[r].cur = run[r].sid /\ run'[r].sid = run[r].sid
  <1>0. run[r] \in Process /\ run \in [Runs -> Process]
    BY DEF TypeOK
  <1>1. CASE Deleting(r)
    <2>1. /\ run[r].pc \in Deletes /\ run'[r].sid = run[r].sid /\ Onward(r) = "done"
      BY <1>1, DeletingMoves DEF Deletes
    <2>2. run[r].job = "teardown"
      BY <1>0, <2>1 DEF Onward, Process
    <2> QED
      BY <1>1, <2>1, <2>2 DEF OwnInv, Holds
  <1>2. CASE Sweeping(r) \/ Teardown(r) \/ Crash(r) \/ TestsEnd(r)
    <2>1. CASE ListAccounts(r)   BY <1>0, <2>1 DEF ListAccounts, Process
    <2>2. CASE ListSIPClients(r)
      <3> DEFINE todo == {a \in run[r].todo : ShouldSweep(r, a)}
      <3>1. PICK o : run' = [run EXCEPT ![r].pc = "sweep",
                                        ![r].snap = IF o = "ok" THEN Listed ELSE {},
                                        ![r].todo = todo, ![r].fault = Fails(o)]
        BY <2>2 DEF ListSIPClients
      <3> HIDE DEF todo
      <3> QED
        BY <1>0, <3>1 DEF Process
    <2>3. CASE SweepAccount(r)   BY <1>0, <2>3 DEF SweepAccount, Process
    <2>4. CASE SweepEnds(r)      BY <1>0, <2>4 DEF SweepEnds, Process
    <2>5. CASE ListLiveCalls(r)  BY <1>0, <2>5 DEF ListLiveCalls, Process
    <2>6. CASE HangupCall(r)     BY <1>0, <2>6 DEF HangupCall, Process
    <2>7. CASE DeleteCall(r)     BY <1>0, <2>7 DEF DeleteCall, Process
    <2>8. CASE ListClientsForAccount(r)
      BY <1>0, <2>8 DEF ListClientsForAccount, Process
    <2>9. CASE Crash(r)          BY <1>0, <2>9 DEF Crash, Blank
    <2>10. CASE TestsEnd(r)      BY <1>0, <2>10 DEF TestsEnd, Process
    <2> QED
      BY <1>2, <2>1, <2>2, <2>3, <2>4, <2>5, <2>6, <2>7, <2>8, <2>9, <2>10
      DEF Sweeping, Teardown
  <1>3. CASE Setup(r)
    <2>1. CASE CreateAccount(r)
      BY <1>0, <2>1 DEF CreateAccount, Process
    <2>2. CASE CreateApiKey(r) \/ SetSipRealm(r) \/ VerifyRealm(r)
      <3>1. \/ run'[r] = Undo(r)
            \/ \E pc \in {"realm", "verify", "testing"} : run'[r] = [run[r] EXCEPT !.pc = pc]
        BY <1>0, <2>2 DEF CreateApiKey, SetSipRealm, VerifyRealm
      <3> QED
        BY <1>0, <3>1 DEF Undo, Process
    <2> QED
      BY <1>3, <2>1, <2>2 DEF Setup
  <1>4. CASE ManagedSIPClient(r)
    BY <1>0, <1>4 DEF ManagedSIPClient, Process
  <1>5. CASE CleanupClient(r)
    BY <1>0, <1>5 DEF CleanupClient, Process
  <1>6. PlaceCall(r) \/ CleanupCall(r) \/ CallEnds(r) => run'[r] = run[r]
    BY DEF PlaceCall, CleanupCall, CallEnds
  <1> QED
    BY <1>1, <1>2, <1>3, <1>4, <1>5, <1>6, OneMoves DEF Testing

\* A Teardown that reports no error, and whose confirming read, if it needed one, was
\* answered, has deleted the account: with answers lost, clients left behind, and
\* other processes sweeping.
THEOREM TeardownSafe == Spec => []TeardownHonest
  <1>1. Init => TeardownHonest
    BY DEF Init, TeardownHonest, Blank
  <1>2. TypeOK /\ OwnInv /\ TeardownHonest /\ [Next]_vars => TeardownHonest'
    <2> SUFFICES ASSUME TypeOK, OwnInv, TeardownHonest, [Next]_vars,
                        NEW r \in Runs, run'[r].pc = "done", ~run'[r].errs, ~run'[r].fault
                 PROVE  acct'[run'[r].sid].st = "gone"
      BY DEF TeardownHonest
    <2>1. CASE run'[r] = run[r]
      <3>1. run[r].sid \in Accounts /\ acct[run[r].sid].st = "gone"
        BY <2>1 DEF TeardownHonest, OwnInv, Holds, Owns, TypeOK, Process
      <3> QED
        BY <2>1, <3>1, AcctKept
    <2>2. CASE /\ Deleting(r) /\ run[r].job = "teardown"
               /\ run[r].cur = run[r].sid /\ run'[r].sid = run[r].sid
      <3>1. run'[r].pc \notin Deletes
        BY DEF Deletes
      <3> QED
        BY <2>2, <3>1, DeletionEnds
    <2> QED
      BY <2>1, <2>2, DoneBy
  <1> QED
    BY <1>1, <1>2, InitOwn, StepOwn, SuiteInitType, SuiteStepType, PTL DEF Spec

-----------------------------------------------------------------------------
\* The calls Teardown leaves.

\* Teardown is past the backstop.
PastBackstop(r) ==
  \/ run[r].pc \in {"deleteCall", "listClients", "done"}
  \/ run[r].pc \in Deletes /\ run[r].job = "teardown"

\* A call that is up, that nobody asked to end and whose record the test has not dropped.
Running(r) == call[r].up /\ ~call[r].asked /\ ~call[r].dropped

\* It has the record by which Teardown finds it, or an error has been noted; past the
\* backstop an error has.
Backstop(r) ==
  Running(r) =>
    /\ run[r].pc # "crashed" => call[r].record \/ run[r].errs
    /\ PastBackstop(r) => run[r].errs

AllBackstop == \A r \in Runs : Backstop(r)

\* A call that is so after a step was so before, with its record unless Teardown deleted
\* that, or a test has just placed it.
LEMMA UpBefore ==
  ASSUME TypeOK, [Next]_vars, NEW r \in Runs, Running(r)'
  PROVE  \/ /\ Running(r)
            /\ call'[r].record = call[r].record \/ run[r].pc = "deleteCall"
         \/ run[r].pc = "testing" /\ UNCHANGED run /\ call'[r].record
  <1>0. call \in [Runs -> CallRecord] /\ call[r] \in CallRecord
    BY DEF TypeOK
  <1>1. ASSUME NEW q \in Runs,
               \/ call' = [call EXCEPT ![q].up = FALSE]
               \/ call' = [call EXCEPT ![q].asked = call[q].up]
               \/ call' = [call EXCEPT ![q].record = FALSE, ![q].dropped = TRUE]
        PROVE  call'[r] = call[r]
    <2>1. CASE q = r
      <3>1. call'[r].up = FALSE \/ call'[r].asked = call'[r].up \/ call'[r].dropped = TRUE
        BY <1>0, <1>1, <2>1 DEF CallRecord
      <3> QED
        BY <3>1 DEF Running
    <2> QED
      BY <1>0, <1>1, <2>1
  <1>2. ASSUME NEW q \in Runs, call' = [call EXCEPT ![q].record = FALSE],
               run[q].pc = "deleteCall"
        PROVE  call'[r] = call[r] \/ (run[r].pc = "deleteCall" /\ Running(r))
    <2>1. CASE q = r
      <3>1. /\ call'[r].up = call[r].up /\ call'[r].asked = call[r].asked
            /\ call'[r].dropped = call[r].dropped
        BY <1>0, <1>2, <2>1 DEF CallRecord
      <3> QED
        BY <1>2, <2>1, <3>1 DEF Running
    <2> QED
      BY <1>0, <1>2, <2>1
  <1>3. ASSUME NEW q \in Runs, NEW m \in BOOLEAN, run[q].pc = "testing", UNCHANGED run,
               call' = [call EXCEPT ![q] = NewCall(m)]
        PROVE  call'[r] = call[r] \/ (run[r].pc = "testing" /\ UNCHANGED run /\ call'[r].record)
    BY <1>0, <1>3 DEF NewCall
  <1>4. CASE call'[r] = call[r]
    BY <1>4 DEF Running
  <1> QED
    BY <1>1, <1>2, <1>3, <1>4, CallMoves

\* Every step keeps the backstop.
LEMMA StepBackstop ==
  ASSUME TypeOK, OwnInv, [Next]_vars, AllBackstop
  PROVE  AllBackstop'
  <1> SUFFICES ASSUME NEW r \in Runs, Running(r)'
               PROVE  /\ run'[r].pc # "crashed" => call'[r].record \/ run'[r].errs
                      /\ PastBackstop(r)' => run'[r].errs
    BY DEF AllBackstop, Backstop
  <1>0. run[r] \in Process /\ run \in [Runs -> Process]
    BY DEF TypeOK
  <1>1. CASE run[r].pc = "testing" /\ UNCHANGED run /\ call'[r].record
    BY <1>1 DEF PastBackstop, Deletes
  <1>2. CASE /\ Running(r)
             /\ call'[r].record = call[r].record \/ run[r].pc = "deleteCall"
    <2>0. /\ run[r].pc # "crashed" => call[r].record \/ run[r].errs
          /\ PastBackstop(r) => run[r].errs
      BY <1>2 DEF AllBackstop, Backstop
    <2>1. run[r].pc # "crashed" => call'[r].record \/ run[r].errs
      BY <1>2, <2>0 DEF PastBackstop
    <2>2. CASE run'[r] = run[r]
      BY <2>0, <2>1, <2>2 DEF PastBackstop
    <2>3. ASSUME run[r].pc # "crashed", run'[r].errs = run[r].errs,
                 run'[r].pc \notin Deletes \cup {"deleteCall", "listClients", "done"}
                   \/ (run'[r].pc \in Deletes /\ run'[r].job # "teardown")
          PROVE  /\ run'[r].pc # "crashed" => call'[r].record \/ run'[r].errs
                 /\ PastBackstop(r)' => run'[r].errs
      BY <2>1, <2>3 DEF PastBackstop, Deletes
    <2>4. CASE Sweeping(r)
      <3>1. CASE ListAccounts(r)
        BY <1>0, <2>3, <3>1 DEF ListAccounts, Process, Deletes
      <3>2. CASE ListSIPClients(r)
        <4> DEFINE todo == {a \in run[r].todo : ShouldSweep(r, a)}
        <4>1. PICK o : /\ run[r].pc = "sweepList"
                       /\ run' = [run EXCEPT ![r].pc = "sweep",
                                             ![r].snap = IF o = "ok" THEN Listed ELSE {},
                                             ![r].todo = todo, ![r].fault = Fails(o)]
          BY <3>2 DEF ListSIPClients
        <4> HIDE DEF todo
        <4>2. run'[r].pc = "sweep" /\ run'[r].errs = run[r].errs
          BY <1>0, <4>1 DEF Process
        <4> QED
          BY <2>3, <4>1, <4>2 DEF Deletes
      <3>3. CASE SweepAccount(r)
        <4>1. /\ run[r].pc = "sweep" /\ run'[r].pc = "delClients"
              /\ run'[r].job = "sweep" /\ run'[r].errs = run[r].errs
          BY <1>0, <3>3 DEF SweepAccount, Process
        <4> QED
          BY <2>3, <4>1 DEF Deletes
      <3>4. CASE SweepEnds(r)
        BY <1>0, <2>3, <3>4 DEF SweepEnds, Process, Deletes
      <3> QED
        BY <2>4, <3>1, <3>2, <3>3, <3>4 DEF Sweeping
    <2>5. CASE Setup(r)
      <3>1. CASE CreateAccount(r)
        <4>1. /\ run[r].pc = "create" /\ run'[r].pc \in {"failed", "key"}
              /\ run'[r].errs = run[r].errs
          BY <1>0, <3>1 DEF CreateAccount, Process
        <4> QED
          BY <2>3, <4>1 DEF Deletes
      <3>2. CASE CreateApiKey(r) \/ SetSipRealm(r) \/ VerifyRealm(r)
        <4>1. /\ run[r].pc \in {"key", "realm", "verify"}
              /\ \/ run'[r] = Undo(r)
                 \/ \E pc \in {"realm", "verify", "testing"} :
                      run'[r] = [run[r] EXCEPT !.pc = pc]
          BY <1>0, <3>2 DEF CreateApiKey, SetSipRealm, VerifyRealm
        <4>2. /\ run'[r].errs = run[r].errs
              /\ \/ run'[r].pc = "delClients" /\ run'[r].job = "undo"
                 \/ run'[r].pc \in {"realm", "verify", "testing"}
          <5>1. CASE run'[r] = Undo(r)
            BY <1>0, <5>1 DEF Undo, Process
          <5>2. ASSUME NEW pc \in {"realm", "verify", "testing"}, run'[r] = [run[r] EXCEPT !.pc = pc]
                PROVE  run'[r].errs = run[r].errs /\ run'[r].pc = pc
            BY <1>0, <5>2 DEF Process
          <5> QED
            BY <4>1, <5>1, <5>2
        <4> QED
          BY <2>3, <4>1, <4>2 DEF Deletes
      <3> QED
        BY <2>5, <3>1, <3>2 DEF Setup
    <2>6. CASE ManagedSIPClient(r) \/ CleanupClient(r) \/ TestsEnd(r)
      <3>1. /\ run[r].pc = "testing" /\ run'[r].pc \in {"testing", "listCalls"}
            /\ run'[r].errs = run[r].errs
        <4>1. CASE ManagedSIPClient(r) BY <1>0, <4>1 DEF ManagedSIPClient, Process
        <4>2. CASE CleanupClient(r)    BY <1>0, <4>2 DEF CleanupClient, Process
        <4>3. CASE TestsEnd(r)         BY <1>0, <4>3 DEF TestsEnd, Process
        <4> QED
          BY <2>6, <4>1, <4>2, <4>3
      <3> QED
        BY <2>3, <3>1 DEF Deletes
    <2>7. CASE Teardown(r)
      <3>1. CASE ListLiveCalls(r)
        <4>1. /\ run[r].pc = "listCalls"
              /\ \/ run'[r].errs
                 \/ run'[r].errs = run[r].errs /\ (call[r].record => run'[r].pc = "hangup")
          BY <1>0, <1>2, <3>1 DEF ListLiveCalls, Process, Running
        <4>2. call'[r].record \/ run[r].errs
          BY <2>1, <4>1
        <4>3. call'[r].record => call[r].record
          BY <1>2, <4>1
        <4> QED
          BY <4>1, <4>2, <4>3 DEF PastBackstop, Deletes
      <3>2. CASE HangupCall(r)
        <4>1. PICK o : /\ run[r].pc = "hangup" /\ call' = HangsUp(r, o)
                       /\ run' = [run EXCEPT ![r].pc = "deleteCall",
                                             ![r].errs = run[r].errs \/ Fails(o)]
          BY <1>0, <3>2 DEF HangupCall
        <4>2. ~TakesEffect(o)
          <5>1. ASSUME TakesEffect(o) PROVE call'[r].asked = call[r].up
            BY <4>1, <5>1 DEF HangsUp, TypeOK, CallRecord
          <5> QED
            BY <1>2, <5>1 DEF Running
        <4>3. Fails(o)
          BY <4>2 DEF Fails, TakesEffect
        <4>4. run'[r].errs
          BY <1>0, <4>1, <4>3 DEF Process
        <4> QED
          BY <4>4
      <3>3. CASE DeleteCall(r)
        <4>1. /\ run[r].pc = "deleteCall" /\ (run[r].errs => run'[r].errs)
          BY <1>0, <3>3 DEF DeleteCall, Process
        <4> QED
          BY <2>0, <4>1 DEF PastBackstop
      <3>4. CASE ListClientsForAccount(r)
        <4>1. run[r].pc = "listClients" /\ (run[r].errs => run'[r].errs)
          BY <1>0, <3>4 DEF ListClientsForAccount, Process
        <4> QED
          BY <2>0, <4>1 DEF PastBackstop
      <3> QED
        BY <2>7, <3>1, <3>2, <3>3, <3>4 DEF Teardown
    <2>8. CASE Deleting(r)
      <3>1. /\ run[r].pc \in Deletes /\ run'[r].job = run[r].job
            /\ run'[r].pc \in Deletes \cup {Onward(r)} /\ (run[r].errs => run'[r].errs)
        BY <2>8, DeletingMoves
      <3>2. Onward(r) \in {"sweep", "failed"} \/ (Onward(r) = "done" /\ run[r].job = "teardown")
        BY <1>0 DEF Onward, Process
      <3> QED
        BY <2>0, <2>1, <3>1, <3>2 DEF PastBackstop, Deletes
    <2>9. CASE Crash(r)
      <3>1. run'[r].pc = "crashed"
        BY <1>0, <2>9 DEF Crash, Blank
      <3> QED
        BY <3>1 DEF PastBackstop, Deletes
    <2>10. PlaceCall(r) \/ CleanupCall(r) \/ CallEnds(r) => run'[r] = run[r]
      BY DEF PlaceCall, CleanupCall, CallEnds
    <2> QED
      BY <2>2, <2>4, <2>5, <2>6, <2>7, <2>8, <2>9, <2>10, OneMoves DEF Testing
  <1> QED
    BY <1>1, <1>2, UpBefore

\* Of the calls a Teardown without errors leaves up, jambonz has accepted to end all but
\* those whose record the cleanup of ManagedCall dropped.
THEOREM BackstopSafe == Spec => []BackstopAsksCalls
  <1>1. Init => AllBackstop
    BY DEF Init, NoCall, AllBackstop, Backstop, Running
  <1>2. TypeOK /\ OwnInv /\ AllBackstop /\ [Next]_vars => AllBackstop'
    BY StepBackstop
  <1>3. AllBackstop => BackstopAsksCalls
    BY DEF AllBackstop, Backstop, Running, PastBackstop, BackstopAsksCalls
  <1> QED
    BY <1>1, <1>2, <1>3, InitOwn, StepOwn, SuiteInitType, SuiteStepType, PTL DEF Spec

-----------------------------------------------------------------------------
\* The orphans.

\* Account a is an orphan for the sweep of r: of another run, old, and no process that
\* is still running has it.
Orphan(r, a) ==
  /\ acct[a].id \notin {None, RunID[r]} /\ acct[a].age = "old" /\ acct[a].st # "unused"
  /\ \A q \in Runs : run[q].sid = a => Over(q)

\* Every client that account a has is in s.
Covered(a, s) == \A c \in Listed : client[c].acct = a => c \in s

\* Where a sweep that met no fault stands with an orphan it owes: the account is gone,
\* or still to do with all its clients listed, or being deleted with its remaining
\* clients at hand.
Pending(r, a) ==
  \/ acct[a].st = "gone"
  \/ a \in run[r].todo /\ Covered(a, run[r].snap)
  \/ /\ run[r].pc \in Deletes /\ run[r].cur = a
     /\ Covered(a, IF run[r].pc = "delClients" THEN run[r].left ELSE {})

Sweeps(r) ==
  /\ run[r].pc = "start" => run[r].owed = {}
  /\ run[r].pc = "sweepList" =>
       \A a \in run[r].owed : Orphan(r, a) /\ a \in run[r].todo
  /\ InSweep(r) => \A a \in run[r].owed : Orphan(r, a) /\ (~run[r].fault => Pending(r, a))
  /\ run[r].pc \in {"create", "key", "realm", "verify", "testing"} =>
       \A a \in run[r].owed : acct[a].st = "gone"

AllSweeps == \A r \in Runs : Sweeps(r)

\* A process that is over does nothing more.
LEMMA OverStays ==
  ASSUME TypeOK, [Next]_vars, NEW q \in Runs, Over(q)
  PROVE  run'[q] = run[q]
  <1>1. ~Sweeping(q) /\ ~Setup(q) /\ ~Teardown(q) /\ ~Crash(q)
    BY DEF Over, Sweeping, ListAccounts, ListSIPClients, SweepAccount, SweepEnds, Setup,
           CreateAccount, CreateApiKey, SetSipRealm, VerifyRealm, Teardown, ListLiveCalls,
           HangupCall, DeleteCall, ListClientsForAccount, Crash
  <1>2. ~Deleting(q)
    BY DEF Over, Deleting, DeleteSIPClient, DeleteApiKey, DeleteAccount, ConfirmGone
  <1>3. Testing(q) => run'[q] = run[q]
    BY DEF Over, Testing, ManagedSIPClient, CleanupClient, PlaceCall, CleanupCall, CallEnds,
           TestsEnd
  <1> QED
    BY <1>1, <1>2, <1>3, OneMoves

\* An orphan stays one.
LEMMA OrphanStays ==
  ASSUME TypeOK, OwnInv, [Next]_vars, NEW r \in Runs, NEW a \in Accounts, Orphan(r, a)
  PROVE  Orphan(r, a)'
  <1>1. /\ acct'[a].id \notin {None, RunID[r]} /\ acct'[a].age = "old"
        /\ acct'[a].st # "unused"
    BY AcctKept DEF Orphan
  <1>2. ASSUME NEW q \in Runs, run'[q].sid = a PROVE Over(q)'
    <2>1. a # None
      BY AccountsAssumption
    <2>2. run'[q].sid = run[q].sid
      BY <1>2, <2>1, OneMoves DEF Orphan
    <2>3. Over(q)
      BY <1>2, <2>2 DEF Orphan
    <2> QED
      BY <2>3, OverStays DEF Over
  <1> QED
    BY <1>1, <1>2 DEF Orphan

\* And gets no new clients.
LEMMA CoveredStays ==
  ASSUME TypeOK, OwnInv, [Next]_vars, NEW r \in Runs, NEW a \in Accounts, Orphan(r, a),
         NEW s, Covered(a, s)
  PROVE  Covered(a, s)'
  <1> SUFFICES ASSUME NEW c \in Clients, client'[c].st = "there", client'[c].acct = a
               PROVE  c \in s
    BY DEF Covered, Listed
  <1>0. client \in [Clients -> Client]
    BY DEF TypeOK, Client
  <1>1. CASE client'[c] = client[c]
    BY <1>1 DEF Covered, Listed
  <1>2. ASSUME NEW d \in Clients, client' = [client EXCEPT ![d].st = "gone"]
        PROVE  client'[c] = client[c]
    BY <1>0, <1>2 DEF Client
  <1>3. ASSUME NEW q \in Runs, NEW d \in Clients, run[q].pc = "testing",
               client' = [client EXCEPT ![d] = [st |-> "there", acct |-> run[q].sid]]
        PROVE  client'[c] = client[c]
    <2>1. c = d => run[q].sid = a
      BY <1>0, <1>3
    <2>2. run[q].sid # a
      BY <1>3 DEF Orphan, Over
    <2> QED
      BY <1>0, <1>3, <2>1, <2>2
  <1> QED
    BY <1>1, <1>2, <1>3, ClientMoves

\* A sweep that does not move stands where it stood.
LEMMA StableSweeps ==
  ASSUME TypeOK, OwnInv, [Next]_vars, NEW r \in Runs, Sweeps(r), run'[r] = run[r]
  PROVE  Sweeps(r)'
  <1>0. run[r].owed \subseteq Accounts
    BY DEF TypeOK, Process
  <1>1. \A a \in Accounts : acct[a].st = "gone" => acct'[a].st = "gone"
    BY AcctKept
  <1>2. \A a \in Accounts : Orphan(r, a) => Orphan(r, a)'
    BY OrphanStays
  <1>3. \A a \in Accounts : Orphan(r, a) /\ Pending(r, a) => Pending(r, a)'
    <2> SUFFICES ASSUME NEW a \in Accounts, Orphan(r, a), Pending(r, a) PROVE Pending(r, a)'
      OBVIOUS
    <2>2. PICK s : s = IF run[r].pc = "delClients" THEN run[r].left ELSE {}
      OBVIOUS
    <2>3. Covered(a, s) => \A c \in Listed' : client'[c].acct = a => c \in s
      BY CoveredStays DEF Covered
    <2>4. Covered(a, run[r].snap) => \A c \in Listed' : client'[c].acct = a => c \in run[r].snap
      <3>1. PICK n : n = run[r].snap
        OBVIOUS
      <3>2. Covered(a, n) => \A c \in Listed' : client'[c].acct = a => c \in n
        BY CoveredStays DEF Covered
      <3> QED
        BY <3>1, <3>2
    <2> QED
      BY <1>1, <2>2, <2>3, <2>4 DEF Pending, Covered
  <1> QED
    BY <1>0, <1>1, <1>2, <1>3 DEF Sweeps, InSweep

\* One request of a deletion, in a sweep: a client that is not answered for is a fault.
LEMMA SweepDeletes ==
  ASSUME TypeOK, OwnInv, [Next]_vars, NEW r \in Runs, Deleting(r), run[r].job = "sweep",
         ~run'[r].fault, run'[r].pc \in Deletes, NEW a \in Accounts, Orphan(r, a),
         Covered(a, IF run[r].pc = "delClients" THEN run[r].left ELSE {})
  PROVE  Covered(a, IF run[r].pc = "delClients" THEN run[r].left ELSE {})'
  <1>0. run[r] \in Process /\ run \in [Runs -> Process] /\ run[r].left \subseteq Clients
    BY DEF TypeOK, Process
  <1>1. CASE DeleteSIPClient(r)
    <2>1. PICK c \in run[r].left, o \in Outcomes :
            /\ run[r].pc = "delClients"
            /\ client' = IF TakesEffect(o) THEN [client EXCEPT ![c].st = "gone"] ELSE client
            /\ run' = [run EXCEPT ![r] = [Noting(r, Fails(o), Fails(o)) EXCEPT
                                            !.left = run[r].left \ {c}]]
      BY <1>1 DEF DeleteSIPClient
    <2>2. PICK n : n = Noting(r, Fails(o), Fails(o))
      OBVIOUS
    <2>3. Fails(o) \in BOOLEAN
      BY DEF Fails
    <2>4. n.pc = "delClients" /\ n \in Process /\ (Fails(o) => n.fault)
      BY <2>1, <2>2, <2>3, NotingFields
    <2>5. run'[r].pc = n.pc /\ run'[r].left = run[r].left \ {c} /\ run'[r].fault = n.fault
      BY <1>0, <2>1, <2>2, <2>4 DEF Process
    <2>6. TakesEffect(o)
      BY <2>4, <2>5 DEF Fails, TakesEffect
    <2>7. c \in Clients /\ client'[c].st = "gone"
      BY <1>0, <2>1, <2>6 DEF TypeOK
    <2>8. \A d \in Clients : d # c => client'[d] = client[d]
      BY <2>1, <2>6 DEF TypeOK
    <2>9. \A d \in Listed' : d \in Clients /\ d # c /\ d \in Listed
      BY <2>7, <2>8 DEF Listed
    <2>10. \A d \in Listed' : client'[d].acct = a => d \in run[r].left \ {c}
      BY <2>1, <2>8, <2>9 DEF Covered
    <2>11. run'[r].pc = "delClients"
      BY <2>4, <2>5
    <2> QED
      BY <2>5, <2>10, <2>11 DEF Covered
  <1>2. CASE DeleteApiKey(r)
    <2>1. /\ run[r].pc = "delClients" /\ run[r].left = {} /\ run'[r].pc = "delAccount"
          /\ client' = client
      BY <1>0, <1>2 DEF DeleteApiKey, Process
    <2> QED
      BY <2>1 DEF Covered, Listed
  <1>3. CASE DeleteAccount(r) \/ ConfirmGone(r)
    <2>1. run[r].pc \in {"delAccount", "confirm"} /\ client' = client
      BY <1>3 DEF DeleteAccount, ConfirmGone
    <2>2. run'[r].pc # "delClients"
      <3>1. Onward(r) # "delClients"
        BY DEF Onward
      <3>2. CASE DeleteAccount(r)
        <4>1. PICK w : run' = [run EXCEPT ![r] =
                       [Noting(r, Reports(w), w \in {"refused", "lost"}) EXCEPT
                          !.pc = IF w = "403" THEN "confirm" ELSE Onward(r)]]
          BY <3>2 DEF DeleteAccount
        <4>2. PICK n : n = Noting(r, Reports(w), w \in {"refused", "lost"})
          OBVIOUS
        <4>3. Reports(w) \in BOOLEAN /\ (w \in {"refused", "lost"}) \in BOOLEAN
          BY DEF Reports
        <4>4. n \in Process
          BY <4>2, <4>3, NotingType
        <4> QED
          BY <1>0, <3>1, <4>1, <4>2, <4>4 DEF Process
      <3>3. CASE ConfirmGone(r)
        <4>1. PICK answered \in BOOLEAN, visible \in BOOLEAN :
                run' = [run EXCEPT ![r] =
                          [Noting(r, visible, FALSE) EXCEPT
                             !.pc = Onward(r),
                             !.fault = run[r].fault \/ ~answered \/ visible]]
          BY <3>3 DEF ConfirmGone, AccountVisible
        <4>2. PICK n : n = Noting(r, visible, FALSE)
          OBVIOUS
        <4>3. n \in Process
          BY <4>2, NotingType
        <4> QED
          BY <1>0, <3>1, <4>1, <4>2, <4>3 DEF Process
      <3> QED
        BY <1>3, <3>2, <3>3
    <2> QED
      BY <2>1, <2>2 DEF Covered, Listed
  <1> QED
    BY <1>1, <1>2, <1>3 DEF Deleting

\* The steps of a sweep.
LEMMA SweepingSweeps ==
  ASSUME TypeOK, OwnInv, [Next]_vars, NEW r \in Runs, Sweeps(r), Sweeping(r)
  PROVE  Sweeps(r)'
  <1>0. /\ run[r] \in Process /\ run \in [Runs -> Process] /\ run[r].owed \subseteq Accounts
        /\ run[r].todo \subseteq Accounts
    BY DEF TypeOK, Process
  <1>1. acct' = acct /\ client' = client /\ Listed' = Listed
    BY DEF Sweeping, ListAccounts, ListSIPClients, SweepAccount, SweepEnds, Listed
  <1>2. \A a \in Accounts : Orphan(r, a) => Orphan(r, a)'
    BY OrphanStays
  <1>3. CASE ListAccounts(r)
    <2>1. /\ run[r].pc = "start"
          /\ \/ /\ run'[r].pc = "sweepList" /\ run'[r].todo = There
                /\ run'[r].owed = Orphans(r)
             \/ run'[r].pc = "create" /\ run'[r].owed = run[r].owed
      BY <1>0, <1>3 DEF ListAccounts, Process
    <2>2. \A a \in Orphans(r) : a \in There /\ a \in Accounts /\ Orphan(r, a)
      BY DEF Orphans, There, Orphan
    <2> QED
      BY <1>2, <2>1, <2>2 DEF Sweeps, InSweep, Deletes
  <1>4. CASE ListSIPClients(r)
    <2> DEFINE todo == {a \in run[r].todo : ShouldSweep(r, a)}
    <2>1. PICK o \in {"ok", "refused"} :
            /\ run[r].pc = "sweepList"
            /\ run' = [run EXCEPT ![r].pc = "sweep",
                                  ![r].snap = IF o = "ok" THEN Listed ELSE {},
                                  ![r].todo = todo, ![r].fault = Fails(o)]
      BY <1>4 DEF ListSIPClients
    <2> HIDE DEF todo
    <2>2. /\ run'[r].pc = "sweep" /\ run'[r].todo = todo /\ run'[r].owed = run[r].owed
          /\ run'[r].snap = IF o = "ok" THEN Listed ELSE {}
          /\ run'[r].fault = Fails(o)
      BY <1>0, <2>1 DEF Process
    <2>3. ~run'[r].fault => run'[r].snap = Listed
      BY <2>2 DEF Fails
    <2>4. ASSUME NEW a \in run[r].owed
          PROVE  a \in Accounts /\ Orphan(r, a) /\ a \in todo
      BY <1>0, <2>1, <2>4 DEF Sweeps, Orphan, ShouldSweep, todo
    <2>5. ASSUME NEW a \in run[r].owed, ~run'[r].fault PROVE Pending(r, a)'
      BY <2>2, <2>3, <2>4, <2>5, <1>1 DEF Pending, Covered
    <2> QED
      BY <1>2, <2>2, <2>4, <2>5 DEF Sweeps, InSweep, Deletes
  <1>5. CASE SweepAccount(r)
    <2>1. PICK b \in run[r].todo :
            /\ run[r].pc = "sweep" /\ run'[r].pc = "delClients" /\ run'[r].job = "sweep"
            /\ run'[r].cur = b /\ run'[r].todo = run[r].todo \ {b}
            /\ run'[r].left = ClientsOf(r, b) /\ run'[r].snap = run[r].snap
            /\ run'[r].owed = run[r].owed /\ run'[r].fault = run[r].fault
      BY <1>0, <1>5 DEF SweepAccount, Process
    <2>2. ASSUME NEW a \in run[r].owed
          PROVE  Orphan(r, a) /\ (~run[r].fault => Pending(r, a))
      BY <2>1, <2>2 DEF Sweeps, InSweep
    <2>3. ASSUME NEW a \in run[r].owed, ~run[r].fault PROVE Pending(r, a)'
      <3>1. acct[a].st = "gone" \/ (a \in run[r].todo /\ Covered(a, run[r].snap))
        BY <2>1, <2>2, <2>3 DEF Pending, Deletes
      <3>2. CASE acct[a].st = "gone"
        BY <1>1, <3>2 DEF Pending
      <3>3. CASE a # b /\ a \in run[r].todo /\ Covered(a, run[r].snap)
        BY <1>1, <2>1, <3>3 DEF Pending, Covered
      <3>4. CASE a = b /\ Covered(a, run[r].snap)
        <4>1. \A c \in Listed' : client'[c].acct = a => c \in run'[r].left
          BY <1>1, <2>1, <3>4 DEF Covered, ClientsOf
        <4> QED
          BY <2>1, <3>4, <4>1 DEF Pending, Covered, Deletes
      <3> QED
        BY <3>1, <3>2, <3>3, <3>4
    <2> QED
      BY <1>0, <1>2, <2>1, <2>2, <2>3 DEF Sweeps, InSweep, Deletes
  <1>6. CASE SweepEnds(r)
    <2>1. /\ run[r].pc = "sweep" /\ run[r].todo = {} /\ run'[r].pc = "create"
          /\ run'[r].owed = IF run[r].fault THEN {} ELSE run[r].owed
      BY <1>0, <1>6 DEF SweepEnds, Process
    <2>2. ~run[r].fault => \A a \in run[r].owed : acct[a].st = "gone"
      BY <2>1 DEF Sweeps, InSweep, Pending, Deletes
    <2> QED
      BY <1>1, <2>1, <2>2 DEF Sweeps, InSweep, Deletes
  <1> QED
    BY <1>3, <1>4, <1>5, <1>6 DEF Sweeping

\* The deletions of a sweep.
LEMMA DeletingSweeps ==
  ASSUME TypeOK, OwnInv, [Next]_vars, NEW r \in Runs, Sweeps(r), Deleting(r)
  PROVE  Sweeps(r)'
  <1>0. /\ run[r] \in Process /\ run \in [Runs -> Process] /\ run[r].owed \subseteq Accounts
        /\ run[r].job \in {"sweep", "undo", "teardown"}
    BY DEF TypeOK, Process
  <1>1. /\ run[r].pc \in Deletes /\ run'[r].job = run[r].job /\ run'[r].owed = run[r].owed
        /\ run'[r].todo = run[r].todo /\ run'[r].snap = run[r].snap
        /\ run'[r].cur = run[r].cur
        /\ run'[r].pc \in Deletes \cup {Onward(r)} /\ (run[r].fault => run'[r].fault)
    BY DeletingMoves
  <1>2. CASE run[r].job # "sweep"
    <2>1. Onward(r) \in {"failed", "done"}
      BY <1>2 DEF Onward
    <2> QED
      BY <1>1, <1>2, <2>1 DEF Sweeps, InSweep, Deletes
  <1>3. CASE run[r].job = "sweep"
    <2>1. Onward(r) = "sweep" /\ InSweep(r)
      BY <1>1, <1>3 DEF Onward, InSweep
    <2>2. ASSUME NEW a \in run[r].owed
          PROVE  /\ a \in Accounts /\ Orphan(r, a) /\ Orphan(r, a)'
                 /\ ~run'[r].fault => Pending(r, a)
      BY <1>0, <1>1, <2>1, <2>2, OrphanStays DEF Sweeps
    <2>3. ASSUME NEW a \in run[r].owed, ~run'[r].fault PROVE Pending(r, a)'
      <3>1. CASE acct[a].st = "gone"
        BY <2>2, <3>1, AcctKept DEF Pending
      <3>2. CASE a \in run[r].todo /\ Covered(a, run[r].snap)
        <4>1. PICK n : n = run[r].snap
          OBVIOUS
        <4>2. \A c \in Listed' : client'[c].acct = a => c \in n
          BY <2>2, <2>3, <3>2, <4>1, CoveredStays DEF Covered
        <4> QED
          BY <1>1, <3>2, <4>1, <4>2 DEF Pending, Covered
      <3>3. CASE /\ run[r].cur = a
                 /\ Covered(a, IF run[r].pc = "delClients" THEN run[r].left ELSE {})
        <4>1. CASE run'[r].pc \in Deletes
          BY <1>1, <1>3, <2>2, <2>3, <3>3, <4>1, SweepDeletes DEF Pending
        <4>2. CASE run'[r].pc \notin Deletes
          <5>1. run[r].pc = "delAccount" => ~\E c \in Listed : client[c].acct = a
            BY <3>3 DEF Covered
          <5>2. acct'[a].st = "gone"
            BY <1>3, <2>3, <3>3, <4>2, <5>1, DeletionEnds
          <5> QED
            BY <5>2 DEF Pending
        <4> QED
          BY <4>1, <4>2
      <3> QED
        BY <2>2, <2>3, <3>1, <3>2, <3>3 DEF Pending
    <2> QED
      BY <1>1, <1>3, <2>1, <2>2, <2>3 DEF Sweeps, InSweep, Deletes
  <1> QED
    BY <1>2, <1>3

\* Every step keeps what the sweeps owe.
LEMMA StepSweeps ==
  ASSUME TypeOK, OwnInv, [Next]_vars, AllSweeps
  PROVE  AllSweeps'
  <1> SUFFICES ASSUME NEW r \in Runs PROVE Sweeps(r)'
    BY DEF AllSweeps
  <1>0. /\ run[r] \in Process /\ run \in [Runs -> Process] /\ run[r].owed \subseteq Accounts
        /\ Sweeps(r)
    BY DEF TypeOK, Process, AllSweeps
  <1>1. \A a \in Accounts : acct[a].st = "gone" => acct'[a].st = "gone"
    BY AcctKept
  <1>2. ASSUME run[r].pc \in {"create", "key", "realm", "verify", "testing"},
               run'[r].owed = run[r].owed,
               run'[r].pc \in {"key", "realm", "verify", "testing", "failed", "listCalls"}
                 \/ (run'[r].pc = "delClients" /\ run'[r].job = "undo")
        PROVE  Sweeps(r)'
    BY <1>0, <1>1, <1>2 DEF Sweeps, InSweep, Deletes
  <1>3. CASE CreateAccount(r)
    <2>1. /\ run[r].pc = "create" /\ run'[r].pc \in {"failed", "key"}
          /\ run'[r].owed = run[r].owed
      BY <1>0, <1>3 DEF CreateAccount, Process
    <2> QED
      BY <1>2, <2>1
  <1>4. CASE CreateApiKey(r) \/ SetSipRealm(r) \/ VerifyRealm(r)
    <2>1. /\ run[r].pc \in {"key", "realm", "verify"}
          /\ \/ run'[r] = Undo(r)
             \/ \E pc \in {"realm", "verify", "testing"} : run'[r] = [run[r] EXCEPT !.pc = pc]
      BY <1>0, <1>4 DEF CreateApiKey, SetSipRealm, VerifyRealm
    <2>2. CASE run'[r] = Undo(r)
      <3>1. /\ run'[r].owed = run[r].owed
            /\ run'[r].pc = "delClients" /\ run'[r].job = "undo"
        BY <1>0, <2>2 DEF Undo, Process
      <3> QED
        BY <1>2, <2>1, <3>1
    <2>3. ASSUME NEW pc \in {"realm", "verify", "testing"}, run'[r] = [run[r] EXCEPT !.pc = pc]
          PROVE  Sweeps(r)'
      <3>1. run'[r].owed = run[r].owed /\ run'[r].pc = pc
        BY <1>0, <2>3 DEF Process
      <3> QED
        BY <1>2, <2>1, <3>1
    <2> QED
      BY <2>1, <2>2, <2>3
  <1>5. CASE ManagedSIPClient(r) \/ CleanupClient(r) \/ TestsEnd(r)
    <2>1. /\ run[r].pc = "testing" /\ run'[r].pc \in {"testing", "listCalls"}
          /\ run'[r].owed = run[r].owed
      <3>1. CASE ManagedSIPClient(r) BY <1>0, <3>1 DEF ManagedSIPClient, Process
      <3>2. CASE CleanupClient(r)    BY <1>0, <3>2 DEF CleanupClient, Process
      <3>3. CASE TestsEnd(r)         BY <1>0, <3>3 DEF TestsEnd, Process
      <3> QED
        BY <1>5, <3>1, <3>2, <3>3
    <2> QED
      BY <1>2, <2>1
  <1>6. CASE Teardown(r)
    <2>1. \/ run'[r].pc \in {"hangup", "deleteCall", "listClients"}
          \/ run'[r].pc = "delClients" /\ run'[r].job = "teardown"
      <3>1. CASE ListLiveCalls(r)  BY <1>0, <3>1 DEF ListLiveCalls, Process
      <3>2. CASE HangupCall(r)     BY <1>0, <3>2 DEF HangupCall, Process
      <3>3. CASE DeleteCall(r)     BY <1>0, <3>3 DEF DeleteCall, Process
      <3>4. CASE ListClientsForAccount(r)
        BY <1>0, <3>4 DEF ListClientsForAccount, Process
      <3> QED
        BY <1>6, <3>1, <3>2, <3>3, <3>4 DEF Teardown
    <2> QED
      BY <2>1 DEF Sweeps, InSweep, Deletes
  <1>7. CASE Crash(r)
    <2>1. run'[r].pc = "crashed"
      BY <1>0, <1>7 DEF Crash, Blank
    <2> QED
      BY <2>1 DEF Sweeps, InSweep, Deletes
  <1>8. PlaceCall(r) \/ CleanupCall(r) \/ CallEnds(r) => run'[r] = run[r]
    BY DEF PlaceCall, CleanupCall, CallEnds
  <1> QED
    BY <1>0, <1>3, <1>4, <1>5, <1>6, <1>7, <1>8, OneMoves, StableSweeps, SweepingSweeps,
       DeletingSweeps
    DEF Setup, Testing

\* A sweep whose requests were all answered has deleted, by the time its process sets
\* up its own account, every orphan there was when it listed the accounts, clients and
\* all, whatever other processes do meanwhile.
THEOREM SweepSafe == Spec => []OrphansSwept
  <1>1. Init => AllSweeps
    BY DEF Init, AllSweeps, Sweeps, Blank, InSweep, Deletes
  <1>2. TypeOK /\ OwnInv /\ AllSweeps /\ [Next]_vars => AllSweeps'
    BY StepSweeps
  <1>3. AllSweeps => OrphansSwept
    BY DEF AllSweeps, Sweeps, OrphansSwept
  <1> QED
    BY <1>1, <1>2, <1>3, InitOwn, StepOwn, SuiteInitType, SuiteStepType, PTL DEF Spec

=============================================================================
