\* Two goroutines in WaitState beside one that answers and hangs up, and the peer.
CONSTANTS
  Threads = {t1}
  Methods <- Signalling
  Owner = t1
  Peer = peer
  Reaper = reaper
  Recs = {}
  Sils = {}
  None = None
  WakeSends = 4
  Waiters = {w1, w2}
SPECIFICATION WaitSpec
CHECK_DEADLOCK FALSE
PROPERTIES WatchersWoken
