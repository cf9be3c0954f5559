---------------------------- MODULE MCObserver ------------------------------
EXTENDS Observer, TLC
CONSTANTS i, b, x, y, w
\* The peer sends an INFO and a BYE, we an INFO and a re-INVITE, and a test waits for
\* an INFO.
Methods == (i :> "INFO") @@ (b :> "BYE") @@ (x :> "INFO") @@ (y :> "INVITE") @@ (w :> "INFO")
=============================================================================
