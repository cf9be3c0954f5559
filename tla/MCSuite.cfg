\* Two processes sweep, set up, test, tear down and die beside an account that is
\* not theirs.
CONSTANTS
  r1 = r1
  r2 = r2
  a1 = a1
  a2 = a2
  c1 = c1
  c2 = c2
  None = None
  Runs = {r1, r2}
  RunID <- OwnIDs
  Accounts = {f, a1, a2}
  Foreign = {f}
  Clients = {c1, c2}
  AgeGate = TRUE
  Callers = {r1}
SYMMETRY SIDs
SPECIFICATION Spec
CHECK_DEADLOCK FALSE
INVARIANTS OthersSpared TeardownHonest OrphansSwept BackstopAsksCalls
