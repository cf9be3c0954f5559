\* A command and an acknowledgement on one socket.
CONSTANTS
  t1 = t1
  c1 = c1
  Tests = {t1}
  Calls = {c1}
  CallOwner <- OneCall
  Anon = anon
  Shared = shared
  Objs = {o1, o2, o3}
  Handlers = {}
  Verbs = {"gather"}
  Routes = {"gather"}
  Scripts <- OneScripted
  QueueCap = 1
  MaxPosts = 2
  MaxClaims = 1
  None = None
  Conns = {k1}
SPECIFICATION AppSpec
CHECK_DEADLOCK FALSE
INVARIANT NoConcurrentWrite
