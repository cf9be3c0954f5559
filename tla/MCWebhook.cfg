\* Two tests that run twice (go test -count=2), a call of one of them, two handlers.
CONSTANTS
  t1 = t1
  c1 = c1
  Tests = {t1, t2}
  Calls = {c1}
  CallOwner <- OneCall
  Anon = anon
  Shared = shared
  Objs = {o1, o2, o3}
  Handlers = {h1, h2}
  Verbs = {"gather"}
  Routes = {"call_hook", "call_status_hook", "gather"}
  Scripts <- OneScripted
  QueueCap = 1
  MaxPosts = 2
  MaxClaims = 2
  None = None
SPECIFICATION Spec
CHECK_DEADLOCK FALSE
SYMMETRY HandlerSymmetry
INVARIANTS RoutedToOwner ScriptAnswered SureRouting LossIsFlagged
