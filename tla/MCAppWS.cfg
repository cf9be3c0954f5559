\* Two tests; a socket on the shared path or on its own, and HTTP hooks of the same call.
CONSTANTS
  t1 = t1
  c1 = c1
  Tests = {t1, t2}
  Calls = {c1}
  CallOwner <- OneCall
  Anon = anon
  Shared = shared
  Objs = {o1, o2, o3}
  Handlers = {h1}
  Verbs = {"gather"}
  Routes = {"gather"}
  Scripts <- OneScripted
  QueueCap = 1
  MaxPosts = 3
  MaxClaims = 1
  None = None
  Conns = {k1}
SPECIFICATION AppSpec
CHECK_DEADLOCK FALSE
SYMMETRY ObjSymmetry
INVARIANTS HooksKeepTheirTest SocketSureRouting CommandsOnOwnCall
