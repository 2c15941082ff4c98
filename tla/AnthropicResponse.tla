------------------------- MODULE AnthropicResponse --------------------------
(***************************************************************************)
(* The two ways to answer an Anthropic request from the same events: the   *)
(* encoder of the named events of a stream, and the aggregator of a single *)
(* message.  Both are strict: what the protocol cannot say is a violation. *)
(***************************************************************************)
EXTENDS CodeBuddyEvents

(* json.loads: arguments are complete when they open and close once. *)
Parses(args) == args = <<"{", "}">>

UnnamedTool == [id |-> None, name |-> None, args |-> << >>, closed |-> FALSE]

(* _AnthropicEventConsumer.__init__: what both keep of the events.         *)
Aggregator == [bad |-> FALSE, finish |-> None, usage |-> FALSE,
               indexes |-> NoIndexes, tools |-> NoTools, pending |-> {},
               blocks |-> << >>]

(* The text or thinking block that is open, if any. *)
NoScalar == [type |-> None, index |-> None, value |-> << >>]

Encoder == [bad |-> FALSE, finish |-> None, usage |-> FALSE,
            indexes |-> NoIndexes, tools |-> NoTools, pending |-> {},
            out |-> << >>, started |-> FALSE, finished |-> FALSE,
            next |-> 0, scalar |-> NoScalar]

Violation(s) == [s EXCEPT !.bad = TRUE]

Changes(old, new) == old # None /\ new # None /\ old # new
Latest(old, new) == IF new = None THEN old ELSE new

Capture(s, e) ==
    IF e.kind = "broken" \/ Changes(s.finish, e.finish) THEN Violation(s)
    ELSE [s EXCEPT !.finish = Latest(s.finish, e.finish),
                   !.usage = s.usage \/ e.usage]

Known(s, i) == IF i \in DOMAIN s.tools THEN s.tools[i] ELSE UnnamedTool

(* _tool_state and _ToolState.merge *)
Merge(s, call) ==
    LET indexes == Resolve(s.indexes, call)
        i       == indexes.current
        tool    == Known(s, i)
    IN IF \/ s.bad \/ i = None \/ tool.closed
          \/ Changes(tool.id, call.id) \/ Changes(tool.name, call.name)
       THEN Violation(s)
       ELSE [s EXCEPT
               !.indexes = indexes,
               !.pending = @ \union {i},
               !.tools = Put(@, i, [id |-> Latest(tool.id, call.id),
                                    name |-> Latest(tool.name, call.name),
                                    args |-> tool.args \o call.args,
                                    closed |-> FALSE])]

(* parsed_input of every tool of the group, before any of them is closed. *)
GroupParses(s) == \A i \in s.pending :
    /\ s.tools[i].id # None /\ s.tools[i].name # None
    /\ Parses(s.tools[i].args)

Group(s) == ByIndex(s.pending)

CloseGroup(s) ==
    IF ~GroupParses(s) THEN Violation(s)
    ELSE [s EXCEPT !.pending = {},
                   !.tools = [i \in DOMAIN s.tools |->
                       [s.tools[i] EXCEPT !.closed = @ \/ i \in s.pending]]]

(* _require_complete: a refusal may come without usage. *)
Complete(s) == s.finish # None /\ (s.usage \/ s.finish = "content_filter")

-----------------------------------------------------------------------------
(* AnthropicNonStreamAggregator *)

(* What an event does not bring changes nothing.                           *)
AppendScalar(s, part) ==
    LET c == CloseGroup(s)
        n == Len(c.blocks)
    IN IF part.value = << >> THEN s
       ELSE IF c.bad THEN c
       ELSE IF n > 0 /\ c.blocks[n].type = part.type
       THEN [c EXCEPT !.blocks[n].value = @ \o part.value]
       ELSE [c EXCEPT !.blocks = Append(@, part)]

AppendTool(s, call) ==
    LET t == Merge(s, call)
    IN IF t.bad \/ t.pending = s.pending THEN t
       ELSE [t EXCEPT !.blocks =
               Append(@, [type |-> "tool_use", value |-> t.indexes.current])]

(* The thinking and the text of an event, in the order of both encoders.   *)
Thinking(e) == [type |-> "thinking", value |-> e.think]
Text(e) == [type |-> "text", value |-> e.text]

Aggregate(s, e) ==
    LET c == Capture(s, e)
    IN IF e.kind = "note" THEN s
       ELSE IF c.bad THEN c
       ELSE LET t == AppendScalar(AppendScalar(c, Thinking(e)), Text(e))
            IN IF t.bad THEN t ELSE FoldLeft(AppendTool, t, e.tools)

(* _final_blocks: the tools of one run are put in the order of their       *)
(* upstream indexes.                                                       *)
IsTool(b) == b.type = "tool_use"

Run(blocks, p) ==
    {q \in DOMAIN blocks : \A r \in (p..q) \union (q..p) : IsTool(blocks[r])}

ToolBlock(tool, args) ==
    [type |-> "tool_use", id |-> tool.id, name |-> tool.name, value |-> args]

FinalBlock(s, p) ==
    LET run     == Run(s.blocks, p)
        indexes == ByIndex({s.blocks[q].value : q \in run})
        place   == Cardinality({q \in run : q <= p})
        tool    == s.tools[indexes[place]]
    IN IF IsTool(s.blocks[p]) THEN ToolBlock(tool, tool.args) ELSE s.blocks[p]

FinalBlocks(s) == [p \in DOMAIN s.blocks |-> FinalBlock(s, p)]

FinalizeAggregate(s) == IF Complete(s) THEN CloseGroup(s) ELSE Violation(s)

Message(s) == [blocks |-> FinalBlocks(s), stop |-> s.finish]

-----------------------------------------------------------------------------
(* AnthropicStreamEncoder.  "out" is what one call returns. *)

EnsureStarted(s) ==
    IF s.started THEN s
    ELSE [s EXCEPT !.started = TRUE,
                   !.out = Append(@, [type |-> "message_start"])]

Start(i, block) == [type |-> "content_block_start", index |-> i, block |-> block]
Delta(i, value) == [type |-> "content_block_delta", index |-> i, value |-> value]
Signature(i, value) == [type |-> "signature", index |-> i, value |-> value]
Stop(i) == [type |-> "content_block_stop", index |-> i]

CloseScalar(s) ==
    IF s.scalar.type = None THEN s
    ELSE [s EXCEPT
            !.scalar = NoScalar,
            !.out = @ \o (IF s.scalar.type = "thinking"
                          THEN <<Signature(s.scalar.index, s.scalar.value)>>
                          ELSE << >>)
                      \o <<Stop(s.scalar.index)>>]

(* Three chunks of every tool of the group, one tool after the other.      *)
EmitTool(s, i) ==
    LET tool == s.tools[i]
    IN [s EXCEPT !.next = @ + 1,
                 !.out = @ \o <<Start(s.next, ToolBlock(tool, << >>)),
                                Delta(s.next, tool.args), Stop(s.next)>>]

FlushGroup(s) ==
    LET c == CloseGroup(s)
    IN IF c.bad THEN c ELSE FoldLeft(EmitTool, c, Group(s))

Continues(scalar, type) == scalar.type # None
Continued(scalar, type) == scalar.type = type

EmitScalar(s, part) ==
    LET f == FlushGroup(s)
        c == CloseScalar(f)
        empty == [type |-> part.type, value |-> << >>]
        opened == [c EXCEPT !.next = @ + 1,
                            !.scalar = [type |-> part.type, index |-> c.next, value |-> << >>],
                            !.out = Append(@, Start(c.next, empty))]
        b == IF Continued(f.scalar, part.type) THEN f ELSE opened
    IN IF part.value = << >> THEN s
       ELSE IF f.bad THEN f
       ELSE [b EXCEPT !.scalar.value = @ \o part.value,
                      !.out = Append(@, Delta(b.scalar.index, part.value))]

Encode(s, e) ==
    LET c == Capture([s EXCEPT !.out = << >>], e)
        t == EmitScalar(EmitScalar(EnsureStarted(c), Thinking(e)), Text(e))
    IN IF e.kind = "note" THEN [s EXCEPT !.out = << >>]
       ELSE IF s.finished THEN Violation(s)
       ELSE IF c.bad THEN c
       ELSE IF t.bad \/ e.tools = << >> THEN t
       ELSE FoldLeft(Merge, CloseScalar(t), e.tools)

FinalizeEncode(s) ==
    LET f == FlushGroup(CloseScalar(EnsureStarted([s EXCEPT !.out = << >>])))
    IN IF s.finished \/ ~Complete(s) THEN Violation(s)
       ELSE IF f.bad THEN f
       ELSE [f EXCEPT !.finished = TRUE,
                      !.out = @ \o <<[type |-> "message_delta", stop |-> f.finish],
                                     [type |-> "message_stop"]>>]
=============================================================================
