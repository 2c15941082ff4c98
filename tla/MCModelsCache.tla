----------------------------- MODULE MCModelsCache -----------------------------
(* Small instances of ModelsCache.                                         *)
EXTENDS ModelsCache

CONSTANTS c1, c2, q1, q2
=============================================================================
