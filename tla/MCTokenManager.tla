--------------------------- MODULE MCTokenManager ---------------------------
(* Small instances of TokenManager: three contents, the third of them of   *)
(* another account.                                                        *)
EXTENDS TokenManager

CONSTANTS k1, k2, k3

MCTokens == {k1, k2, k3}
MCTwoTokens == {k1, k3}
MCAccountOf == [k \in MCTokens |-> IF k = k3 THEN "second" ELSE "first"]
=============================================================================
