--------------------------- MODULE MCCredentialQuota ---------------------------
(* Credentials, coroutines and the meters of a kind are interchangeable.   *)
EXTENDS CredentialQuota, TLC

Symmetry ==
    Permutations(Creds) \union Permutations(Tasks) \union Permutations(Manual)
        \union Permutations(OAuth)
==============================================================================
