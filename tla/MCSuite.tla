------------------------------ MODULE MCSuite -------------------------------
EXTENDS Suite, TLC
CONSTANTS r1, r2, a1, a2, c1, c2
\* Two packages with RUN_IDs of their own.
OwnIDs == (r1 :> "id1") @@ (r2 :> "id2")
\* SIDs are interchangeable.
SIDs == Permutations({a1, a2}) \cup Permutations({c1, c2})
=============================================================================
