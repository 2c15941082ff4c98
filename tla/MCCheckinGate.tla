----------------------------- MODULE MCCheckinGate -----------------------------
(* Two accounts, two requests and the cycle's jobs.  *)
EXTENDS CheckinGate

CONSTANTS a1, a2, x1, x2

MCJobs == [a \in Accounts |-> IF a = a1 THEN x1 ELSE x2]
=============================================================================
