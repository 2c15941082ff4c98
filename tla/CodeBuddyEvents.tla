-------------------------- MODULE CodeBuddyEvents ---------------------------
(***************************************************************************)
(* The events of one upstream stream, as both protocols see them, and what *)
(* the protocols share: which tool call a delta belongs to.                *)
(***************************************************************************)
EXTENDS Integers, Sequences, FiniteSets, SequencesExt, TLC

CONSTANTS
    None,
    Ids          \* identifiers of tool calls

(* CodeBuddyResponseEvent: the values of a delta are sequences of pieces,  *)
(* so that adding to a string is concatenation.  "note" is JSON that is no *)
(* object; "broken" has something the strict protocol refuses (a legacy    *)
(* function_call, a malformed usage, an unknown finish reason, a call's    *)
(* function that is no object).                                            *)
Event == [kind |-> "chunk", role |-> FALSE, think |-> << >>, text |-> << >>,
          tools |-> << >>, finish |-> None, usage |-> FALSE]

IsSeq(s) == s \in Seq(Range(s))

HasOutput(e) == e.think # << >> \/ e.text # << >> \/ e.tools # << >>

(* A dictionary with one more entry, and tool indexes from low to high.    *)
NoTools == [i \in {} |-> None]
Put(f, i, x) == [j \in DOMAIN f \union {i} |-> IF j = i THEN x ELSE f[j]]

ByIndex(S) ==
    [p \in 1..Cardinality(S) |-> CHOOSE i \in S : Cardinality({j \in S : j < i}) = p - 1]

(* ToolCallIndexState: an index is the upstream's, or the one the id was   *)
(* given, or the current one.                                              *)
NoIndexes == [byId |-> [d \in Ids |-> None], used |-> {}, current |-> None]

Generated(used) == CHOOSE i \in 0..Cardinality(used) :
    i \notin used /\ \A j \in 0..(i - 1) : j \in used

Resolve(state, call) ==
    LET given == IF call.index # None THEN call.index
                 ELSE Generated(state.used)
    IN CASE call.index = None /\ call.id = None -> state
         [] call.index = None /\ call.id # None /\ state.byId[call.id] # None ->
              [state EXCEPT !.current = state.byId[call.id]]
         [] OTHER ->
              [byId |-> IF call.id = None THEN state.byId
                        ELSE [state.byId EXCEPT ![call.id] = given],
               used |-> state.used \union {given},
               current |-> given]
=============================================================================
