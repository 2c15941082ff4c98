---------------------------- MODULE MCUsageStats ----------------------------
(* Hours of two units, kept for two; the ranges begin or end at full hours *)
(* or within one.  The older database holds a model that never succeeded.  *)
EXTENDS UsageStats

Event(i, t, b, o) == [id |-> i, at |-> t, bucket |-> b, outcome |-> o]
MCHistories == {{Event(1, 0, 1, "failure"), Event(2, 0, 2, "failure")},
                {Event(1, 0, 1, "success"), Event(2, 1, 1, "failure")},
                {Event(1, 0, 2, "failure")}}
MCRanges == {[from |-> 1, to |-> 5]}
=============================================================================
