-------------------------- MODULE StreamDelivery ----------------------------
(***************************************************************************)
(* One chat request, from its body to its line in the statistics: the      *)
(* generator that asks upstream and retries (SSEConnectionManager), the    *)
(* response that waits for a first chunk while it listens for the client's *)
(* departure (_ManagedStreamingResponse), the middleware around both and   *)
(* the statistics it completes (UsageStatsContext).                        *)
(***************************************************************************)
EXTENDS CodeBuddyEvents

CONSTANTS
    MaxRetries,   \* max_connect_retries
    Events,       \* what upstream may send
    MaxEvents     \* bound on the events of one stream

(* A tool call as it stands in an event: an index and an id, if any; a     *)
(* bare one comes without a function, so without a name and arguments.     *)
IsCall(c) ==
    /\ c \in [index : Int \union {None}, id : Ids \union {None},
              name : {c.name}, args : {c.args}, bare : BOOLEAN]
    /\ IsSeq(c.args)
    /\ c.bare => c.name = None /\ c.args = << >>

ASSUME RetriesAssumption == MaxRetries \in Nat
ASSUME EventsAssumption == \A e \in Events :
    /\ IsSeq(e.think) /\ IsSeq(e.text) /\ IsSeq(e.tools)
    /\ \A p \in DOMAIN e.tools : IsCall(e.tools[p])

A == INSTANCE AnthropicResponse
O == INSTANCE OpenAIResponse

(* Where the request's own task is, what it unwinds with, how it is        *)
(* recorded, the status of an answer, and the ends and blocks of a stream. *)
MainAts == {"body", "first", "stream", "cleanup", "closing", "plain",
            "answer", "finish", "completing", "ended"}
Reasons == {"upstream", "gone", "cancelled"}
Outcomes == {"success", "failure", "cancelled"}
Statuses == {200, 400, 401, 500, 502}
Marks == {"done", "eof", "thinking", "text"}

ASSUME NoneIsNothing ==
    None \notin MainAts \union Reasons \union Outcomes \union Marks /\ None \notin Statuses

VARIABLES
    req,      \* protocol, and whether the client wants a stream
    main,     \* where the request's own task is, and what it unwinds with
    gen,      \* the generator stream_with_retry (or request_once)
    net,      \* the upstream connection, and how often upstream was asked
    work,     \* the adapter's state for this attempt
    read,     \* what upstream has sent in this attempt
    task,     \* first_chunk_task, stream_task, disconnect_task; the chunk held
    resp,     \* what the server has taken: status, chunks, completed
    reply,    \* the response that is no stream
    client,   \* the client is there; the server has cancelled the request
    seen,     \* the middleware's client_disconnected
    stats     \* UsageStatsContext and what became of it

vars == <<req, main, gen, net, work, read, task, resp, reply, client, seen, stats>>

Anthropic == req.proto = "anthropic"

Fresh == IF Anthropic
         THEN IF req.stream THEN A!Encoder ELSE A!Aggregator
         ELSE IF req.stream THEN O!StreamState ELSE O!Answer

Handle(s, e) ==
    IF Anthropic
    THEN IF req.stream THEN A!Encode(s, e) ELSE A!Aggregate(s, e)
    ELSE IF req.stream THEN O!PassOn(s, e) ELSE O!Add(s, e)

Finalize(s, done) ==
    IF Anthropic
    THEN IF req.stream THEN A!FinalizeEncode(s) ELSE A!FinalizeAggregate(s)
    ELSE IF req.stream THEN O!FinalizeStream(s, done) ELSE O!FinalizeAnswer(s, done)

Result(s) == IF Anthropic THEN A!Message(s) ELSE O!Completion(s)

Chunks(s) == IF req.stream THEN s.out ELSE << >>

ErrorChunk == [type |-> "error"]

NotRead == [events |-> << >>, end |-> None]
NoReply == [status |-> None, body |-> None]
NoTasks == [first |-> "none", body |-> "none", watch |-> "none", held |-> None]

Init ==
    /\ req \in [proto : {"anthropic", "openai"}, stream : BOOLEAN]
    /\ main = [at |-> "body", raised |-> None]
    /\ gen = [at |-> "new", attempt |-> 0, queue |-> << >>]
    /\ net = [open |-> FALSE, asked |-> 0]
    /\ work = None
    /\ read = NotRead
    /\ task = NoTasks
    /\ resp = [status |-> None, wire |-> << >>, completed |-> FALSE]
    /\ reply = NoReply
    /\ client = [here |-> TRUE, cancelled |-> None]
    /\ seen = FALSE
    /\ stats = [error |-> FALSE, gone |-> FALSE, usage |-> FALSE,
                credential |-> FALSE, outcome |-> None, thread |-> "none",
                charges |-> 0, dropped |-> 0]

Goes(at) == main' = [main EXCEPT !.at = at]
Raises(at, what) == main' = [at |-> at, raised |-> what]

(* _observe_error, mark_failure: UsageStatsContext keeps the last error. *)
Observed == [stats EXCEPT !.error = TRUE]

-----------------------------------------------------------------------------
(* chat_completions, anthropic_messages: the client leaves while its body  *)
(* is read; the request is refused (malformed, no credential, internal     *)
(* error); or it is executed.                                              *)
BodyLost ==
    /\ main.at = "body" /\ ~client.here
    /\ Raises("finish", "gone")
    /\ seen' = TRUE
    /\ UNCHANGED <<req, gen, net, work, read, task, resp, reply, client, stats>>

Refuses(status) ==
    /\ main.at = "body"
    /\ Goes("answer")
    /\ reply' = [status |-> status, body |-> ErrorChunk]
    /\ stats' = Observed
    /\ UNCHANGED <<req, gen, net, work, read, task, resp, client, seen>>

CompletionsRefuses(status) == ~Anthropic /\ Refuses(status)
MessagesRefuses(status) == Anthropic /\ Refuses(status)

Execute ==
    /\ main.at = "body"
    /\ Goes(IF req.stream THEN "first" ELSE "plain")
    /\ gen' = [gen EXCEPT !.at = "connect"]
    /\ task' = IF req.stream
               THEN [task EXCEPT !.first = "pull", !.watch = "listening"] ELSE task
    /\ stats' = [stats EXCEPT !.credential = TRUE]
    /\ UNCHANGED <<req, net, work, read, resp, reply, client, seen>>

-----------------------------------------------------------------------------
(* The generator runs while somebody awaits its next chunk. *)
Demand == task.first = "pull" \/ task.body = "pull" \/ main.at = "plain"

Runs(at) == gen.at = at /\ Demand

(* An exception leaves the generator: the connection is released. *)
Fails ==
    /\ gen' = [gen EXCEPT !.at = "failed"]
    /\ net' = [net EXCEPT !.open = FALSE]

RetryForEver(error) == error = "connect"
MayRetry(error) == error = "connect" /\ gen.attempt < MaxRetries

(* Upstream does not answer.  Only errors in connecting are retried, when  *)
(* the request cannot have been sent.                                      *)
NoAnswer(error) ==
    /\ Runs("connect")
    /\ net' = [net EXCEPT !.asked = IF error = "connect" THEN @ ELSE @ + 1]
    /\ gen' = [gen EXCEPT !.at = IF MayRetry(error) THEN "backoff" ELSE "failed"]
    /\ UNCHANGED <<req, main, work, read, task, resp, reply, client, seen, stats>>

WaitBeforeRetry ==
    /\ Runs("backoff")
    /\ gen' = [gen EXCEPT !.at = "connect", !.attempt = @ + 1]
    /\ UNCHANGED <<req, main, net, work, read, task, resp, reply, client, seen, stats>>

(* Upstream refuses with a status of its own. *)
UpstreamRefuses ==
    /\ Runs("connect")
    /\ net' = [net EXCEPT !.asked = @ + 1]
    /\ gen' = [gen EXCEPT !.at = "failed"]
    /\ UNCHANGED <<req, main, work, read, task, resp, reply, client, seen, stats>>

UpstreamAccepts ==
    /\ Runs("connect")
    /\ net' = [open |-> TRUE, asked |-> net.asked + 1]
    /\ gen' = [gen EXCEPT !.at = "stream", !.attempt = 0]  \* of no further use
    /\ work' = Fresh
    /\ read' = NotRead
    /\ UNCHANGED <<req, main, task, resp, reply, client, seen, stats>>

(* What the adapter makes of s: chunks to pass on, or a violation. *)
Yields(s, at) ==
    /\ work' = s
    /\ IF s.bad THEN Fails
       ELSE /\ gen' = [gen EXCEPT !.at = at, !.queue = Chunks(s)]
            /\ UNCHANGED net

(* _iter_normalized_upstream_events: the event is observed first. *)
Reads(e) ==
    /\ Runs("stream") /\ gen.queue = << >>
    /\ Len(read.events) < MaxEvents
    /\ read' = [read EXCEPT !.events = Append(@, e)]
    /\ stats' = [stats EXCEPT !.usage = @ \/ e.usage]
    /\ IF e.kind = "error" THEN Fails /\ UNCHANGED work
       ELSE Yields(Handle(work, e), "stream")
    /\ UNCHANGED <<req, main, task, resp, reply, client, seen>>

(* [DONE], or the end of the stream without it. *)
StreamEnds(done) ==
    /\ Runs("stream") /\ gen.queue = << >>
    /\ read' = [read EXCEPT !.end = IF done THEN "done" ELSE "eof"]
    /\ Yields(Finalize(work, done), "last")
    /\ UNCHANGED <<req, main, task, resp, reply, client, seen, stats>>

(* The connection breaks or is silent for too long. *)
ReadFails ==
    /\ Runs("stream") /\ gen.queue = << >>
    /\ Fails
    /\ UNCHANGED <<req, main, work, read, task, resp, reply, client, seen, stats>>

Upstream ==
    \/ \E error \in {"connect", "sent"} : NoAnswer(error)
    \/ UpstreamRefuses
    \/ UpstreamAccepts
    \/ \E e \in Events : Reads(e)
    \/ \E done \in BOOLEAN : StreamEnds(done)
    \/ ReadFails

-----------------------------------------------------------------------------
(* prefetch_first_chunk: a chunk, an error, or 310 seconds without either. *)
Closed == /\ gen' = [gen EXCEPT !.at = "closed", !.queue = << >>]
          /\ net' = [net EXCEPT !.open = FALSE]

FirstChunk ==
    /\ task.first = "pull" /\ gen.queue # << >>
    /\ task' = [task EXCEPT !.first = "ready", !.held = Head(gen.queue)]
    /\ gen' = [gen EXCEPT !.queue = Tail(@)]
    /\ UNCHANGED <<req, main, net, work, read, resp, reply, client, seen, stats>>

FirstFails ==
    /\ task.first = "pull" /\ gen.queue = << >>
    /\ task' = [task EXCEPT !.first = "failed"]
    /\ stats' = Observed
    /\ Closed
    /\ UNCHANGED <<req, main, work, read, resp, reply, client, seen>>

(* response_body, after the first chunk. *)
NextChunk ==
    /\ task.body = "pull" /\ gen.queue # << >>
    /\ task' = [task EXCEPT !.body = "send", !.held = Head(gen.queue)]
    /\ gen' = [gen EXCEPT !.queue = Tail(@)]
    /\ UNCHANGED <<req, main, net, work, read, resp, reply, client, seen, stats>>

BodyFails ==
    /\ task.body = "pull" /\ gen.at = "failed"
    /\ task' = [task EXCEPT !.body = "send", !.held = ErrorChunk]
    /\ stats' = Observed
    /\ Closed
    /\ UNCHANGED <<req, main, work, read, resp, reply, client, seen>>

BodyEnds ==
    /\ task.body = "pull" /\ gen.queue = << >> /\ gen.at \in {"last", "closed"}
    /\ task' = [task EXCEPT !.body = "final"]
    /\ Closed
    /\ UNCHANGED <<req, main, work, read, resp, reply, client, seen, stats>>

(* stream_response, through send_wrapper. *)
SendStart ==
    /\ task.body = "start"
    /\ task' = [task EXCEPT !.body = "send"]
    /\ resp' = [resp EXCEPT !.status = 200]
    /\ UNCHANGED <<req, main, gen, net, work, read, reply, client, seen, stats>>

SendChunk ==
    /\ task.body = "send"
    /\ task' = [task EXCEPT !.body = "pull", !.held = None]
    /\ resp' = [resp EXCEPT !.wire = Append(@, task.held)]
    /\ UNCHANGED <<req, main, gen, net, work, read, reply, client, seen, stats>>

SendFinal ==
    /\ task.body = "final"
    /\ task' = [task EXCEPT !.body = "done"]
    /\ resp' = [resp EXCEPT !.completed = TRUE]
    /\ UNCHANGED <<req, main, gen, net, work, read, reply, client, seen, stats>>

(* A server may also tell of the client's departure by an OSError. *)
SendFails ==
    /\ task.body \in {"start", "send", "final"} /\ ~client.here
    /\ task' = [task EXCEPT !.body = "oserror"]
    /\ seen' = TRUE
    /\ UNCHANGED <<req, main, gen, net, work, read, resp, reply, client, stats>>

(* listen_for_disconnect, through receive_wrapper: the server also says    *)
(* "disconnect" once the response is complete.                             *)
WatchSees ==
    /\ task.watch = "listening"
    /\ ~client.here \/ resp.completed
    /\ task' = [task EXCEPT !.watch = "seen"]
    /\ seen' = (seen \/ ~resp.completed)
    /\ UNCHANGED <<req, main, gen, net, work, read, resp, reply, client, stats>>

-----------------------------------------------------------------------------
(* _ManagedStreamingResponse.__call__: of two tasks that are both done the *)
(* client's departure goes first while there is no chunk, and the stream   *)
(* afterwards.                                                             *)
Departed == [stats EXCEPT !.gone = TRUE]

AwaitFirst ==
    /\ main.at = "first"
    /\ \/ /\ task.watch = "seen"
          /\ Raises("cleanup", None)
          /\ stats' = Departed
          /\ UNCHANGED task
       \/ /\ task.watch # "seen" /\ task.first = "failed"
          /\ Raises("cleanup", "upstream")
          /\ UNCHANGED <<task, stats>>
       \/ /\ task.watch # "seen" /\ task.first = "ready"
          /\ Goes("stream")
          /\ task' = [task EXCEPT !.body = "start"]
          /\ UNCHANGED stats
    /\ UNCHANGED <<req, gen, net, work, read, resp, reply, client, seen>>

StreamDone ==
    /\ task.body = "done"
    /\ Raises("cleanup", None)
    /\ UNCHANGED stats

StreamGone ==
    /\ task.body \notin {"done", "oserror"} /\ task.watch = "seen"
    /\ Raises("cleanup", None)
    /\ stats' = Departed

EndsWithoutError == StreamDone \/ StreamGone

(* What the stream task raises is raised, a departure among it. *)
StreamOver ==
    \/ StreamDone
    \/ StreamGone
    \/ /\ task.body = "oserror"
       /\ Raises("cleanup", "gone")
       /\ stats' = Departed

AwaitStream ==
    /\ main.at = "stream"
    /\ StreamOver
    /\ UNCHANGED <<req, gen, net, work, read, task, resp, reply, client, seen>>

(* The tasks are cancelled and awaited.  A task that awaits a chunk takes  *)
(* the generator with it; one that awaits the client leaves it suspended.  *)
Cancelled ==
    /\ task' = [first |-> "none", body |-> "none", watch |-> "none", held |-> None]
    /\ IF task.first = "pull" \/ task.body = "pull" THEN Closed
       ELSE UNCHANGED <<gen, net>>

Cleanup ==
    /\ main.at = "cleanup"
    /\ Cancelled
    /\ Goes("closing")
    /\ UNCHANGED <<req, work, read, resp, reply, client, seen, stats>>

CloseNothing == UNCHANGED <<gen, net>>

(* close_callback: managed_stream.aclose(). *)
CloseCallback == Closed

Close ==
    /\ main.at = "closing"
    /\ CloseCallback
    /\ Goes(IF main.raised = "upstream" THEN "answer" ELSE "finish")
    /\ reply' = IF main.raised = "upstream"
                THEN [status |-> 502, body |-> ErrorChunk] ELSE reply
    /\ UNCHANGED <<req, work, read, task, resp, client, seen, stats>>

(* handle_non_stream_response returns a message or raises. *)
PlainAnswer ==
    /\ main.at = "plain" /\ gen.at = "last"
    /\ Goes("answer")
    /\ reply' = [status |-> 200, body |-> Result(work)]
    /\ Closed
    /\ UNCHANGED <<req, work, read, task, resp, client, seen, stats>>

PlainFails ==
    /\ main.at = "plain" /\ gen.at = "failed"
    /\ Goes("answer")
    /\ reply' = [status |-> 502, body |-> ErrorChunk]
    /\ stats' = Observed
    /\ UNCHANGED <<req, gen, net, work, read, task, resp, client, seen>>

(* A response that is no stream is sent; the server drops it silently, or  *)
(* tells of it, when the client has left.                                  *)
SendAnswer ==
    /\ main.at = "answer"
    /\ Goes("finish")
    /\ resp' = [status |-> reply.status, wire |-> <<reply.body>>, completed |-> TRUE]
    /\ UNCHANGED <<req, gen, net, work, read, task, reply, client, seen, stats>>

AnswerFails ==
    /\ main.at = "answer" /\ ~client.here
    /\ Raises("finish", "gone")
    /\ seen' = TRUE
    /\ UNCHANGED <<req, gen, net, work, read, task, resp, reply, client, stats>>

-----------------------------------------------------------------------------
(* UsageStatsMiddleware, complete_response: a departure outweighs an       *)
(* error, and an error a status.  The record is written by a thread.       *)
LeftBehind == seen \/ (main.raised \in {"gone", "cancelled"} /\ ~resp.completed)

OutcomeByStatus(left) ==
    IF stats.gone \/ left THEN "cancelled"
    ELSE IF resp.status # None /\ resp.status >= 400 THEN "failure"
    ELSE "success"

OutcomeOf(left) ==
    IF stats.gone \/ left THEN "cancelled"
    ELSE IF stats.error \/ (resp.status # None /\ resp.status >= 400) THEN "failure"
    ELSE "success"

CompleteResponse ==
    /\ main.at = "finish"
    /\ Goes("completing")
    /\ seen' = LeftBehind
    /\ stats' = [stats EXCEPT !.outcome = OutcomeOf(LeftBehind), !.thread = "running"]
    /\ UNCHANGED <<req, gen, net, work, read, task, resp, reply, client>>

(* The credential is charged, then record_event succeeds or raises. *)
Record(ok) ==
    /\ stats.thread = "running"
    /\ stats' = [stats EXCEPT
           !.thread = IF ok THEN "recorded" ELSE "raised",
           !.charges = IF stats.credential /\ stats.usage THEN @ + 1 ELSE @]
    /\ UNCHANGED <<req, main, gen, net, work, read, task, resp, reply, client, seen>>

CompletionReturns ==
    /\ main.at = "completing" /\ stats.thread \in {"recorded", "raised"}
    /\ Goes("ended")
    /\ stats' = [stats EXCEPT !.dropped = IF stats.thread = "raised" THEN @ + 1 ELSE @]
    /\ UNCHANGED <<req, gen, net, work, read, task, resp, reply, client, seen>>

-----------------------------------------------------------------------------
(* The client closes its connection. *)
ClientLeaves ==
    /\ client.here
    /\ client' = [client EXCEPT !.here = FALSE]
    /\ UNCHANGED <<req, main, gen, net, work, read, task, resp, reply, seen, stats>>

(* The server cancels the request, once: its task is unwound from where it *)
(* is, the clean-up under way included.                                    *)
ServerCancels ==
    /\ client.cancelled = None /\ main.at \notin {"finish", "ended"}
    /\ client' = [client EXCEPT !.cancelled = main.at]
    /\ CASE main.at \in {"first", "stream"} ->
              Raises("cleanup", "cancelled") /\ UNCHANGED <<task, gen, net>>
         [] main.at = "cleanup" -> Raises("finish", "cancelled") /\ Cancelled
         [] main.at = "plain" ->
              Raises("finish", "cancelled") /\ Closed /\ UNCHANGED task
         [] main.at \in {"body", "answer", "closing"} ->
              Raises("finish", "cancelled") /\ UNCHANGED <<task, gen, net>>
         [] main.at = "completing" -> Goes("ended") /\ UNCHANGED <<task, gen, net>>
    /\ UNCHANGED <<req, work, read, resp, reply, seen, stats>>

Request ==
    \/ BodyLost
    \/ \E status \in {400, 401, 500} :
          CompletionsRefuses(status) \/ MessagesRefuses(status)
    \/ Execute
    \/ WaitBeforeRetry
    \/ FirstChunk \/ FirstFails \/ NextChunk \/ BodyFails \/ BodyEnds
    \/ SendStart \/ SendChunk \/ SendFinal \/ SendFails \/ WatchSees
    \/ AwaitFirst \/ AwaitStream \/ Cleanup \/ Close
    \/ PlainAnswer \/ PlainFails \/ SendAnswer \/ AnswerFails
    \/ CompleteResponse \/ (\E ok \in BOOLEAN : Record(ok)) \/ CompletionReturns

Next == Upstream \/ Request \/ ClientLeaves \/ ServerCancels

(* httpx's timeouts end every wait for upstream, and the server ends a     *)
(* send when the client reads or leaves.                                   *)
Spec == Init /\ [][Next]_vars /\ WF_vars(Upstream \/ Request)

-----------------------------------------------------------------------------
TypeOK ==
    /\ req \in [proto : {"anthropic", "openai"}, stream : BOOLEAN]
    /\ main \in [at : MainAts, raised : {None} \union Reasons]
    /\ gen.at \in {"new", "connect", "backoff", "stream", "last", "failed", "closed"}
    /\ gen.attempt \in 0..MaxRetries
    /\ net \in [open : BOOLEAN, asked : Nat]
    /\ task.first \in {"none", "pull", "ready", "failed"}
    /\ task.body \in {"none", "start", "send", "pull", "final", "done", "oserror"}
    /\ task.watch \in {"none", "listening", "seen"}
    /\ resp.status \in {None} \union Statuses
    /\ reply.status \in {None} \union Statuses
    /\ resp.completed \in BOOLEAN
    /\ client.here \in BOOLEAN
    /\ seen \in BOOLEAN
    /\ stats \in [error : BOOLEAN, gone : BOOLEAN, usage : BOOLEAN,
                  credential : BOOLEAN,
                  outcome : {None} \union Outcomes,
                  thread : {"none", "running", "recorded", "raised"},
                  charges : Nat, dropped : Nat]

-----------------------------------------------------------------------------
(* What a client makes of an Anthropic stream: the start of a block and    *)
(* the deltas of its index.                                                *)
Assemble(blocks, c) ==
    CASE c.type = "content_block_start" -> Append(blocks, c.block)
      [] c.type = "content_block_delta" ->
           [blocks EXCEPT ![c.index + 1].value = @ \o c.value]
      [] OTHER -> blocks

Assembled(w) == FoldLeft(Assemble, << >>, w)

(* The chunk c may follow w: one message, blocks numbered as they come and *)
(* one at a time, thinking signed as a whole, an error only at the end.    *)
LastType(w) == Last(w).type
LastBlock(w) == Last(Assembled(w))
IndexOf(w) == Len(Assembled(w)) - 1
Ongoing(w) == LastType(w) \in {"content_block_start", "content_block_delta", "signature"}
Between(w) == LastType(w) \in {"message_start", "content_block_stop"}

MayFollow(w, c) ==
    CASE c.type = "error" -> w # << >> /\ LastType(w) # "message_stop"
      [] c.type = "message_start" -> w = << >>
      [] c.type = "content_block_start" ->
           w # << >> /\ Between(w) /\ c.index = IndexOf(w) + 1
      [] c.type = "content_block_delta" ->
           w # << >> /\ Ongoing(w) /\ LastType(w) # "signature" /\ c.index = IndexOf(w)
      [] c.type = "signature" ->
           w # << >> /\ Ongoing(w) /\ c.index = IndexOf(w)
                     /\ c.value = LastBlock(w).value
      [] c.type = "content_block_stop" ->
           /\ w # << >> /\ Ongoing(w) /\ c.index = IndexOf(w)
           /\ LastBlock(w).type = "thinking" <=> LastType(w) = "signature"
      [] c.type = "message_delta" -> w # << >> /\ Between(w)
      [] c.type = "message_stop" -> w # << >> /\ LastType(w) = "message_delta"
      [] OTHER -> FALSE

WellFormed(w) == \A p \in DOMAIN w :
    /\ MayFollow(SubSeq(w, 1, p - 1), w[p])
    /\ w[p].type = "error" => p = Len(w)

(* The same for OpenAI: pieces in order, tool calls by their index.        *)
AddPiece(tools, call) ==
    LET known == IF call.index \in DOMAIN tools THEN tools[call.index] ELSE O!UnnamedCall
    IN IF call.index = None THEN tools
       ELSE Put(tools, call.index,
                [id |-> O!Newest(known.id, call.id),
                 name |-> O!Newest(known.name, call.name),
                 args |-> known.args \o call.args])

Hear(d, c) ==
    IF c.type # "chunk" THEN d
    ELSE [think |-> d.think \o c.delta.think, text |-> d.text \o c.delta.text,
          tools |-> FoldLeft(AddPiece, d.tools, c.delta.tools)]

Heard(w) == FoldLeft(Hear, [think |-> << >>, text |-> << >>, tools |-> NoTools], w)

(* The same events, aggregated as they are for a client that wants no      *)
(* stream.                                                                 *)
AggregatedOf(events) ==
    IF Anthropic THEN FoldLeft(A!Aggregate, A!Aggregator, events)
    ELSE FoldLeft(O!Add, O!Answer, events)

Aggregated ==
    LET s == AggregatedOf(read.events)
    IN IF s.bad \/ read.end = None THEN s
       ELSE IF Anthropic THEN A!FinalizeAggregate(s)
       ELSE O!FinalizeAnswer(s, read.end = "done")

Whole(w) == w # << >> /\ LastType(w) \in {"message_stop", "done"}

(* No tool call of the events is bare. *)
HaveFunctions(events) == \A p \in DOMAIN events : \A q \in DOMAIN events[p].tools :
    ~events[p].tools[q].bare

(* A client of the stream gets what a client of the message would get of   *)
(* the same upstream events: a stream that is well formed at every point,  *)
(* ends in an error where the message is refused, and otherwise tells the  *)
(* same blocks.  ("AnthropicStreamEncoder", "AnthropicNonStreamAggregator" *)
(* and their OpenAI counterparts keep separate states.)  The OpenAI pair   *)
(* agrees on tool calls only when each came with its function: the stream  *)
(* gives a bare call an index and passes on its id, and the aggregator     *)
(* passes it over, so that the id is lost and what follows it may go to    *)
(* another call; the text and the thinking are the same even then.         *)
StreamTellsMessage ==
    req.stream /\ net.asked > 0 =>
        /\ Anthropic /\ resp.status = 200 => WellFormed(resp.wire)
        /\ gen.at \in {"stream", "last"} => ~Aggregated.bad
        /\ Whole(resp.wire) =>
             IF Anthropic
             THEN /\ Assembled(resp.wire) = A!FinalBlocks(Aggregated)
                  /\ resp.wire[Len(resp.wire) - 1].stop = Aggregated.finish
             ELSE LET told == Heard(resp.wire)
                  IN /\ told.think = Aggregated.think /\ told.text = Aggregated.text
                     /\ HaveFunctions(read.events) => told.tools = Aggregated.tools

(* The line in the statistics is what happened: a success was sent whole   *)
(* and without an error, a failure ended in one, and "cancelled" is a      *)
(* client that left or a server that gave up before the end.               *)
HasError(w) == \E p \in DOMAIN w : w[p].type = "error"

OutcomeTells ==
    LET plain == reply.status # None
    IN /\ stats.outcome = "success" =>
            /\ resp.completed /\ resp.status = 200
            /\ plain \/ (Whole(resp.wire) /\ ~HasError(resp.wire))
       /\ stats.outcome = "failure" =>
            resp.completed /\ (resp.status >= 400 \/ HasError(resp.wire))
       /\ stats.outcome = "cancelled" =>
            ~client.here \/ client.cancelled # None

(* Every request leaves one trace: a record or a drop, unless the server   *)
(* cancelled it in its very completion; and its credential is charged once *)
(* if upstream told a usage, whatever became of the response.              *)
CountedOnce ==
    main.at = "ended" /\ stats.thread # "running" =>
        /\ client.cancelled # "completing" =>
             stats.dropped = IF stats.thread = "raised" THEN 1 ELSE 0
        /\ stats.charges = IF stats.usage THEN 1 ELSE 0

AccountsTell == OutcomeTells /\ CountedOnce

(* "Only errors that certainly precede the request are retried": upstream  *)
(* never does the work of one request twice; and when the application      *)
(* returns, neither a connection nor a task of the request is left, except *)
(* where the server cancels the very clean-up.                             *)
Released ==
    /\ net.asked <= 1
    /\ main.at \in {"answer", "finish", "completing", "ended"}
         /\ client.cancelled \notin {"cleanup", "closing"} =>
       ~net.open /\ task = NoTasks

(* Every request ends, whatever upstream, the client and the server do. *)
RequestEnds == <>(main.at = "ended")
=============================================================================
