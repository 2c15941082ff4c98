---------------------------- MODULE MCOAuthPolling ----------------------------
(* The names upstream gives to logins are interchangeable.                 *)
EXTENDS OAuthPolling, TLC

Symmetry == Permutations(States)
==============================================================================
