----------------------------- MODULE MCWebhook -----------------------------
(* Small instances of Webhook.                                             *)
EXTENDS Webhook, TLC

CONSTANTS t1, c1

\* Test t1 places the call; t2 runs in parallel.
OneCall == c1 :> t1

\* It scripts its call_hook and the action hook of its verb, each when it likes.
OneScripted == [t \in Tests |-> IF t = t1 THEN Scriptable ELSE {}]

HandlerSymmetry == Permutations(Objs) \cup Permutations(Handlers)

=============================================================================
