----------------------------- MODULE MCSessions -----------------------------
EXTENDS Sessions, TLC
CONSTANTS e1, e2, e3, w1, w2
TwoWorkers == e1 :> w1 @@ e2 :> w2
WithSibling == e1 :> w1 @@ e2 :> w1 @@ e3 :> w2
Symm == Permutations(Request) \cup Permutations(Session)
=============================================================================
