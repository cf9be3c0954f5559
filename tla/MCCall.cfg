\* One goroutine signals, another plays and records, over one recording and one
\* silence loop.
CONSTANTS
  t1 = t1
  t2 = t2
  Threads = {t1, t2}
  Methods <- Roles
  Owner = t1
  Peer = peer
  Reaper = reaper
  Recs = {r1}
  Sils = {s1}
  None = None
  WakeSends = 1
SPECIFICATION FairSpec
CHECK_DEADLOCK FALSE
INVARIANTS EndedIsUnregistered SingleFinalizer NoOrphanSilence
PROPERTIES ImplementsCall HangupReturns EndStopsMedia
