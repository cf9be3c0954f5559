------------------------------ MODULE Managed -------------------------------
(***************************************************************************)
(* The Managed* helpers of internal/provision: a test creates resources at *)
(* the API server and registers a t.Cleanup for each that deletes it; the  *)
(* cleanups run last in, first out when the test ends, failed or not.      *)
(*                                                                         *)
(* A resource may hang off another one (a gateway or a phone number off    *)
(* its carrier, an application off its account).  The server refuses to    *)
(* delete one in use, or deletes what hangs off it too; which, differs by  *)
(* resource (TestError_422_InUse).  A request can fail before or after it  *)
(* takes effect.                                                           *)
(***************************************************************************)
EXTENDS Naturals, Sequences, SequencesExt

CONSTANTS Tests,
          Resources,
          Plan,     \* the resources each test creates, in order
          Parent,    \* the resource another hangs off, or itself
          Cascades  \* the resources whose deletion deletes what hangs off them

ASSUME PlanAssumption ==
  /\ Plan \in [Tests -> Seq(Resources)]
  /\ Parent \in [Resources -> Resources]
  /\ \A r \in Resources : Parent[Parent[r]] = Parent[r]
  /\ Cascades \subseteq Resources

\* A resource has a SID of its own, made up when it is created.  It hangs off one
\* that its test has created before, or off one that no test of the plan creates.
ASSUME SidsAssumption ==
  \A t, u \in Tests : \A i \in 1..Len(Plan[t]), j \in 1..Len(Plan[u]) :
    /\ Plan[t][i] = Plan[u][j] => t = u /\ i = j
    /\ Parent[Plan[t][i]] = Plan[u][j] => t = u /\ j <= i

VARIABLES
  server,    \* resources that exist (external)
  test,      \* each test: creating, in its body, cleaning up, ended
  made,      \* resources of its plan it has created
  cleanups,  \* its registered cleanups, oldest first
  lost       \* resources whose creation or deletion went wrong on the way

managedVars == <<server, test, made, cleanups, lost>>

ManagedTypeOK ==
  /\ server \subseteq Resources
  /\ test \in [Tests -> {"creating", "body", "cleaning", "ended"}]
  /\ made \in [Tests -> Nat]
  /\ cleanups \in [Tests -> Seq(Resources)]
  /\ lost \subseteq Resources

ManagedInit ==
  /\ server = {}
  /\ test = [t \in Tests |-> "creating"]
  /\ made = [t \in Tests |-> 0]
  /\ cleanups = [t \in Tests |-> << >>]
  /\ lost = {}

-----------------------------------------------------------------------------
\* CreateX answers: the cleanup is registered.
Create(t) ==
  LET r == Plan[t][made[t] + 1] IN
  /\ test[t] = "creating" /\ made[t] < Len(Plan[t])
  /\ server' = server \cup {r}
  /\ cleanups' = [cleanups EXCEPT ![t] = Append(@, r)]
  /\ made' = [made EXCEPT ![t] = @ + 1]
  /\ UNCHANGED <<test, lost>>

\* CreateX returns an error, and t.Fatalf ends the test.  The request failed, the
\* server refused it, or it did create the resource and the answer was lost, had
\* another status, broke its contract or did not decode.
CreateFails(t) ==
  LET r == Plan[t][made[t] + 1] IN
  /\ test[t] = "creating" /\ made[t] < Len(Plan[t])
  /\ \/ UNCHANGED <<server, lost>>
     \/ server' = server \cup {r} /\ lost' = lost \cup {r}
  /\ test' = [test EXCEPT ![t] = "cleaning"]
  /\ UNCHANGED <<made, cleanups>>

Created(t) ==
  /\ test[t] = "creating" /\ made[t] = Len(Plan[t])
  /\ test' = [test EXCEPT ![t] = "body"]
  /\ UNCHANGED <<server, made, cleanups, lost>>

\* What hangs off a resource.
Dependents(r) == {s \in server : Parent[s] = r /\ s # r}

\* What is left when the server has answered a DELETE of r: 204, 404 for one that is
\* gone, or 422 for one in use.
AfterDelete(r) ==
  IF r \in Cascades THEN server \ ({r} \cup Dependents(r))
  ELSE IF Dependents(r) = {} THEN server \ {r} ELSE server

\* A test deletes a resource of its own in its body, as the CRUD tests do.
DeleteInBody(t) ==
  /\ test[t] = "body"
  /\ \E r \in ToSet(cleanups[t]) : r \in server /\ server' = AfterDelete(r)
  /\ UNCHANGED <<test, made, cleanups, lost>>

\* The test returns, or fails.
EndBody(t) ==
  /\ test[t] = "body"
  /\ test' = [test EXCEPT ![t] = "cleaning"]
  /\ UNCHANGED <<server, made, cleanups, lost>>

\* Mutant: the cleanups run in the order they were registered.
Oldest(t) == 1

\* The cleanup that runs next.
Latest(t) == Len(cleanups[t])

\* DeleteX in a cleanup, under a context of its own: the server answers, or the
\* request or the answer is lost.  404 is no error, and an error is only logged.
Cleanup(t) ==
  LET r == cleanups[t][Latest(t)] IN
  /\ test[t] = "cleaning" /\ cleanups[t] # << >>
  /\ \/ server' = AfterDelete(r) /\ UNCHANGED lost
     \/ /\ server' \in {server, AfterDelete(r)}
        /\ lost' = lost \cup {r}
  /\ cleanups' = [cleanups EXCEPT ![t] = RemoveAt(@, Latest(t))]
  /\ UNCHANGED <<test, made>>

EndTest(t) ==
  /\ test[t] = "cleaning" /\ cleanups[t] = << >>
  /\ test' = [test EXCEPT ![t] = "ended"]
  /\ UNCHANGED <<server, made, cleanups, lost>>

ManagedStep(t) ==
  \/ Create(t) \/ CreateFails(t) \/ Created(t) \/ DeleteInBody(t) \/ EndBody(t)
  \/ Cleanup(t) \/ EndTest(t)

-----------------------------------------------------------------------------

\* What a test leaves behind has a cause outside the test: each of its resources
\* that still exists when it has ended saw one of its own requests go wrong, or is
\* held by one that did.  Where the test failed, what it deleted itself and what
\* the server cascades make no difference.
LeaksHaveCause ==
  \A t \in Tests : test[t] = "ended" =>
    \A r \in ToSet(Plan[t]) \cap server : r \in lost \/ Dependents(r) # {}
=============================================================================
