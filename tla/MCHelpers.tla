----------------------------- MODULE MCHelpers ------------------------------
EXTENDS Helpers
CONSTANTS l1, l2, l3, t1, t2, t3, carrier, number, gateway, account, app
\* Test t1 hangs a number and a gateway off a carrier, t2 an application off an account.
Plans   == (t1 :> <<carrier, number, gateway>>) @@ (t2 :> <<account, app>>)
Parents == (number :> carrier) @@ (gateway :> carrier) @@ (app :> account)
             @@ [r \in {carrier, account} |-> r]
\* Three answers for one text, one of them longer.
Lengths == (t1 :> 3) @@ (t2 :> 4) @@ (t3 :> 3)
\* Test t1 records two legs of one role, t2 one leg.
TwoTests == (l1 :> t1) @@ (l2 :> t1) @@ (l3 :> t2)
SameRole == [l \in {l1, l2, l3} |-> <<"caller">>]
OwnDirs  == (t1 :> "d1") @@ (t2 :> "d2")
=============================================================================
