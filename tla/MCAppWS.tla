------------------------------ MODULE MCAppWS ------------------------------
(* Small instances of AppWS.                                               *)
EXTENDS AppWS, TLC

CONSTANTS t1, c1

\* Test t1 places the call; t2, where there is one, runs in parallel.
OneCall == c1 :> t1

\* It scripts the action hook of its verb.
OneScripted == [t \in Tests |-> IF t = t1 THEN Verbs ELSE {}]

ObjSymmetry == Permutations(Objs)
\* Two sockets of the call are alike as well.
SocketSymmetry == Permutations(Objs) \cup Permutations(Conns)

=============================================================================
