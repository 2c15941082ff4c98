------------------------- MODULE MCCredentialRefresh -------------------------
(* One credential of one account, refreshed, switched between two accounts *)
(* and updated: p1 is a pending content, k1 and k2 are complete ones.      *)
EXTENDS CredentialRefresh, TLC

CONSTANTS p1, k1, k2, scan, s1, s2, m1

MCTokens == {p1, k1, k2}
MCAccountOf == [k \in MCTokens |-> IF k = k2 THEN "second" ELSE "first"]
MCJobs == [f \in Files |-> scan]

(* The account switches are interchangeable.                               *)
Symmetry == Permutations(Switches)
=============================================================================
