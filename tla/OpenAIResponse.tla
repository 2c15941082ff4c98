--------------------------- MODULE OpenAIResponse ---------------------------
(***************************************************************************)
(* The two ways to answer an OpenAI request from the same events: chunks   *)
(* passed on with their envelope normalised, and the aggregated answer.    *)
(* Both are lenient: what they do not know is passed on or ignored.        *)
(***************************************************************************)
EXTENDS CodeBuddyEvents

(* _OpenAIStreamState *)
StreamState == [bad |-> FALSE, sawFinish |-> FALSE, indexes |-> NoIndexes,
                roleSent |-> FALSE, out |-> << >>]

Chunk(role, delta, finish, usage) ==
    [type |-> "chunk", role |-> role, delta |-> delta, finish |-> finish, usage |-> usage]

NoDelta == [think |-> << >>, text |-> << >>, tools |-> << >>]

(* add_openai_tool_call_indexes: the calls of an event, each with its index. *)
IndexCall(acc, call) ==
    LET r == Resolve(acc.indexes, call)
    IN [indexes |-> r,
        calls |-> Append(acc.calls, [call EXCEPT !.index =
            IF r.current = None THEN call.index ELSE r.current])]

Indexed(indexes, calls) ==
    FoldLeft(IndexCall, [indexes |-> indexes, calls |-> << >>], calls)

(* OpenAIStreamNormalizer.normalize.  An empty delta is passed on only for *)
(* the finish reason or the usage that comes with it.                      *)
Normalize(s, e, calls) ==
    LET role  == ~s.roleSent /\ (e.role \/ HasOutput(e))
        empty == ~HasOutput(e)
        delta == [think |-> e.think, text |-> e.text, tools |-> calls]
    IN [s EXCEPT
          !.roleSent = @ \/ role,
          !.out = (IF role THEN <<Chunk(TRUE, NoDelta, None, FALSE)>> ELSE << >>)
                  \o (IF empty /\ e.finish = None /\ ~e.usage THEN << >>
                      ELSE <<Chunk(FALSE, delta, e.finish, e.usage)>>)]

(* process_stream_event *)
PassOn(s, e) ==
    LET r == Indexed(s.indexes, e.tools)
    IN IF e.kind = "note" THEN [s EXCEPT !.out = <<[type |-> "note"]>>]
       ELSE Normalize([s EXCEPT !.sawFinish = @ \/ e.finish # None,
                                !.indexes = r.indexes], e, r.calls)

FinalizeStream(s, done) ==
    IF done \/ s.sawFinish THEN [s EXCEPT !.out = <<[type |-> "done"]>>]
    ELSE [s EXCEPT !.bad = TRUE]

-----------------------------------------------------------------------------
(* StreamResponseAggregator *)

Answer == [bad |-> FALSE, think |-> << >>, text |-> << >>, finish |-> None,
           usage |-> FALSE, indexes |-> NoIndexes, tools |-> NoTools]

UnnamedCall == [id |-> None, name |-> None, args |-> << >>]

Newest(old, new) == IF new = None THEN old ELSE new

(* _process_tool_calls: a call without a function is passed over before    *)
(* its index is looked up, which a stream does for every call.             *)
AddCall(s, call) ==
    LET indexes == Resolve(s.indexes, call)
        i       == indexes.current
        known   == IF i \in DOMAIN s.tools THEN s.tools[i] ELSE UnnamedCall
    IN IF call.bare THEN s
       ELSE IF i = None THEN [s EXCEPT !.indexes = indexes]
       ELSE [s EXCEPT
               !.indexes = indexes,
               !.tools = Put(@, i, [id |-> Newest(known.id, call.id),
                                    name |-> Newest(known.name, call.name),
                                    args |-> known.args \o call.args])]

(* process_event *)
Add(s, e) ==
    IF e.kind = "note" THEN s
    ELSE FoldLeft(AddCall,
                  [s EXCEPT !.think = @ \o e.think, !.text = @ \o e.text,
                            !.finish = Newest(s.finish, e.finish),
                            !.usage = @ \/ e.usage],
                  e.tools)

FinalizeAnswer(s, done) ==
    IF done \/ s.finish # None THEN s ELSE [s EXCEPT !.bad = TRUE]

(* finalize: an answer that named no reason gets one from what it holds. *)
Completion(s) ==
    [think |-> s.think, text |-> s.text, usage |-> s.usage,
     tools |-> s.tools,
     finish |-> IF s.finish # None THEN s.finish
                ELSE IF DOMAIN s.tools # {} THEN "tool_calls" ELSE "stop"]
=============================================================================
