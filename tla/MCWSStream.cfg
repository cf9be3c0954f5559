\* Two connections to the session, one after the other or at once; a queue of two.
CONSTANTS
  Conns = {k1, k2}
  InboundCap = 2
  MaxFrames = 3
  None = None
SPECIFICATION FairSpec
CHECK_DEADLOCK FALSE
INVARIANTS NoMarkMissed
PROPERTIES CollectsEverything ReadersReleased
