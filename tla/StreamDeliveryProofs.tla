------------------------ MODULE StreamDeliveryProofs ------------------------
(***************************************************************************)
(* Proofs about one chat request for any events of upstream, any bound on  *)
(* them and any number of retries: the types, that everything upstream is  *)
(* released and asked at most once, that the statistics tell what became   *)
(* of the response, and that a stream tells the client the message that    *)
(* its events make.                                                        *)
(***************************************************************************)
EXTENDS StreamDelivery, FiniteSetTheorems, SequenceTheorems,
        NaturalsInduction, WellFoundedInduction, TLAPS

-----------------------------------------------------------------------------
(* The shape of every variable, field by field.                            *)
GenAts == {"new", "connect", "backoff", "stream", "last", "failed", "closed"}
Firsts == {"none", "pull", "ready", "failed"}
Bodies == {"none", "start", "send", "pull", "final", "done", "oserror"}
Watches == {"none", "listening", "seen"}
Threads == {"none", "running", "recorded", "raised"}
Answers == {None} \union Statuses

ReqOk == req \in [proto : {"anthropic", "openai"}, stream : BOOLEAN]
MainOk == main \in [at : MainAts, raised : {None} \union Reasons]
GenOk == gen \in [at : GenAts, attempt : 0..MaxRetries, queue : {gen.queue}]
NetOk == net \in [open : BOOLEAN, asked : Nat]
ReadOk == read \in [events : {read.events}, end : {read.end}]
TaskOk == task \in [first : Firsts, body : Bodies, watch : Watches, held : {task.held}]
RespOk == resp \in [status : Answers, wire : {resp.wire}, completed : BOOLEAN]
ReplyOk == reply \in [status : Answers, body : {reply.body}]
ClientOk == client \in [here : BOOLEAN, cancelled : {None} \union MainAts]
StatsOk == stats \in [error : BOOLEAN, gone : BOOLEAN, usage : BOOLEAN,
                      credential : BOOLEAN, outcome : {None} \union Outcomes,
                      thread : Threads, charges : Nat, dropped : Nat]
SeenOk == seen \in BOOLEAN

Shapes == ReqOk /\ MainOk /\ GenOk /\ NetOk /\ ReadOk /\ TaskOk /\ RespOk /\ ReplyOk
            /\ ClientOk /\ StatsOk /\ SeenOk

(* Where the request has no tasks, where upstream has not been asked, and  *)
(* where the response is over.                                             *)
Sleeping == {"body", "plain", "closing", "answer", "finish", "completing", "ended"}
Early == {"new", "connect", "backoff"}
Late == {"answer", "finish", "completing", "ended"}

(* Where the tasks, the generator and the connection may be.               *)
Control ==
    /\ main.at \in Sleeping => task = NoTasks
    /\ main.at = "body" => gen.at = "new"
    /\ net.open => gen.at \in {"stream", "last"}
    /\ net.asked <= 1
    /\ gen.at \in Early => net.asked = 0
    /\ gen.at = "backoff" => gen.attempt < MaxRetries
    /\ main.at \in Late /\ client.cancelled \notin {"cleanup", "closing"} => ~net.open
    /\ main.at = "answer" => reply.status # None

(* What the recording thread has written, by where it is.                  *)
Counting ==
    /\ stats.outcome = None <=> stats.thread = "none"
    /\ main.at \in {"completing", "ended"} <=> stats.thread # "none"
    /\ gen.at # "new" => stats.credential
    /\ main.at \in {"first", "stream", "cleanup", "closing", "plain"} => stats.credential
    /\ stats.usage => stats.credential
    /\ stats.charges = IF stats.thread \in {"recorded", "raised"} /\ stats.usage THEN 1 ELSE 0
    /\ main.at # "ended" => stats.dropped = 0
    /\ main.at = "ended" /\ client.cancelled # "completing" =>
         /\ stats.thread \in {"recorded", "raised"}
         /\ stats.dropped = IF stats.thread = "raised" THEN 1 ELSE 0

(* Closing the generator, and a failure in it, release the connection.     *)
LEMMA Releases ==
    ASSUME GenOk, NetOk
    PROVE  /\ Closed => /\ gen'.at = "closed" /\ gen'.queue = << >>
                        /\ gen'.attempt = gen.attempt
                        /\ net'.open = FALSE /\ net'.asked = net.asked
           /\ Fails => /\ gen'.at = "failed" /\ gen'.queue = gen.queue
                       /\ gen'.attempt = gen.attempt
                       /\ net'.open = FALSE /\ net'.asked = net.asked
BY DEF GenOk, NetOk, Closed, Fails

(* What becomes of the generator when the adapter has made s of the        *)
(* stream.                                                                 *)
LEMMA YieldsEffect ==
    ASSUME GenOk, NetOk, NEW s, NEW at, Yields(s, at)
    PROVE  /\ work' = s
           /\ s.bad => Fails
           /\ ~s.bad => /\ gen'.at = at /\ gen'.queue = Chunks(s) /\ gen'.attempt = gen.attempt
                        /\ UNCHANGED net
BY DEF GenOk, NetOk, Yields

(* What reading an event does: the generator fails, or the adapter has     *)
(* taken the event and its chunks wait to be passed on.                    *)
LEMMA ReadsEffect ==
    ASSUME GenOk, NetOk, NEW e, Reads(e)
    PROVE  /\ gen.at = "stream" /\ Demand /\ gen.queue = << >>
           /\ net'.asked = net.asked /\ gen'.attempt = gen.attempt
           /\ stats' = [stats EXCEPT !.usage = @ \/ e.usage]
           /\ UNCHANGED <<req, main, task, resp, reply, client, seen>>
           /\ \/ gen'.at = "failed" /\ net'.open = FALSE /\ gen'.queue = << >>
              \/ /\ e.kind # "error" /\ ~Handle(work, e).bad /\ work' = Handle(work, e)
                 /\ gen'.at = "stream" /\ gen'.queue = Chunks(work')
                 /\ net' = net
<1>1. gen.at = "stream" /\ Demand /\ gen.queue = << >>
  BY DEF Reads, Runs
<1>2. CASE e.kind = "error"
  BY <1>1, <1>2, Releases DEF Reads
<1>3. CASE e.kind # "error"
  <2>1. Yields(Handle(work, e), "stream")
    BY <1>3 DEF Reads
  <2> HIDE DEF Handle
  <2> QED BY <1>1, <1>3, <2>1, YieldsEffect, Releases DEF Reads
<1> QED BY <1>2, <1>3

(* What the end of the stream does: the generator fails, or the adapter    *)
(* has finalised and its last chunks wait to be passed on.                 *)
LEMMA EndsEffect ==
    ASSUME GenOk, NetOk, NEW done, StreamEnds(done)
    PROVE  /\ gen.at = "stream" /\ Demand /\ gen.queue = << >>
           /\ net'.asked = net.asked /\ gen'.attempt = gen.attempt
           /\ UNCHANGED <<req, main, task, resp, reply, client, seen, stats>>
           /\ \/ gen'.at = "failed" /\ net'.open = FALSE /\ gen'.queue = << >>
              \/ /\ ~Finalize(work, done).bad /\ work' = Finalize(work, done)
                 /\ gen'.at = "last" /\ gen'.queue = Chunks(work')
                 /\ net' = net
<1>1. gen.at = "stream" /\ Demand /\ gen.queue = << >>
  BY DEF StreamEnds, Runs
<1>2. Yields(Finalize(work, done), "last")
  BY DEF StreamEnds
<1> QED BY <1>1, <1>2, YieldsEffect, Releases DEF StreamEnds

(* What the server's cancelling does, by where the request's task is.      *)
LEMMA CancelEffect ==
    ASSUME MainOk, ServerCancels
    PROVE  /\ client.cancelled = None /\ main.at \notin {"finish", "ended"}
           /\ client' = [client EXCEPT !.cancelled = main.at]
           /\ UNCHANGED <<req, work, read, resp, reply, seen, stats>>
           /\ main.at \in {"first", "stream"} =>
                /\ main' = [at |-> "cleanup", raised |-> "cancelled"]
                /\ UNCHANGED <<task, gen, net>>
           /\ main.at = "cleanup" =>
                main' = [at |-> "finish", raised |-> "cancelled"] /\ Cancelled
           /\ main.at = "plain" =>
                main' = [at |-> "finish", raised |-> "cancelled"] /\ Closed /\ UNCHANGED task
           /\ main.at \in {"body", "answer", "closing"} =>
                /\ main' = [at |-> "finish", raised |-> "cancelled"]
                /\ UNCHANGED <<task, gen, net>>
           /\ main.at = "completing" =>
                main' = [main EXCEPT !.at = "ended"] /\ UNCHANGED <<task, gen, net>>
           /\ main.at \in {"first", "stream", "cleanup", "plain", "body", "answer",
                          "closing", "completing"}
<1>1. main.at \in MainAts
  BY DEF MainOk
<1> QED BY <1>1 DEF ServerCancels, MainAts, Raises, Goes

(* The shapes are what TypeOK says, and the fields it leaves free.         *)
LEMMA ShapesType ==
    Shapes <=> /\ TypeOK /\ GenOk /\ ReadOk /\ TaskOk
               /\ RespOk /\ ReplyOk /\ ClientOk
BY DEF Shapes, TypeOK, ReqOk, MainOk, GenOk, NetOk, ReadOk, TaskOk, RespOk, ReplyOk,
   ClientOk,
       StatsOk, SeenOk, GenAts, Firsts, Bodies, Watches, Threads, Answers

(* Every step keeps the shapes.                                            *)
LEMMA ShapesStep ==
    ASSUME Shapes, Control, [Next]_vars
    PROVE  Shapes'
<1> USE RetriesAssumption DEF Shapes
<1>1. ASSUME NEW error \in {"connect", "sent"}, NoAnswer(error) PROVE Shapes'
  <2> USE <1>1 DEF NoAnswer, Runs, Demand, MayRetry
  <2>1. NetOk'
    BY DEF NetOk
  <2>2. GenOk'
    BY DEF GenOk, GenAts, Control
  <2> QED BY <2>1, <2>2 DEF ReqOk, MainOk, ReadOk, TaskOk, RespOk, ReplyOk, ClientOk,
     StatsOk, SeenOk
<1>2. CASE UpstreamRefuses
  <2> USE <1>2 DEF UpstreamRefuses, Runs, Demand
  <2>1. NetOk'
    BY DEF NetOk
  <2>2. GenOk'
    BY DEF GenOk, GenAts, Control
  <2> QED BY <2>1, <2>2 DEF ReqOk, MainOk, ReadOk, TaskOk, RespOk, ReplyOk, ClientOk,
     StatsOk, SeenOk
<1>3. CASE UpstreamAccepts
  <2> USE <1>3 DEF UpstreamAccepts, Runs, Demand, NotRead
  <2>1. NetOk'
    BY DEF NetOk
  <2>2. GenOk'
    <3>1. 0 \in 0..MaxRetries
      OBVIOUS
    <3>2. gen' \in [at : {"stream"}, attempt : {0}, queue : {gen.queue}]
      BY DEF GenOk
    <3> QED BY <3>1, <3>2 DEF GenOk, GenAts
  <2>3. ReadOk'
    BY DEF ReadOk
  <2> QED BY <2>1, <2>2, <2>3 DEF ReqOk, MainOk, TaskOk, RespOk, ReplyOk, ClientOk,
     StatsOk, SeenOk
<1>4. ASSUME NEW e \in Events, Reads(e) PROVE Shapes'
  <2> USE <1>4 DEF Reads, Runs, Demand, Yields, Fails
  <2>1. ReadOk'
    BY DEF ReadOk
  <2>2. StatsOk'
    BY DEF StatsOk, Threads, Outcomes
  <2>3. GenOk'
    BY DEF GenOk, GenAts, Control
  <2>4. NetOk'
    BY DEF NetOk
  <2> QED BY <2>1, <2>2, <2>3, <2>4 DEF ReqOk, MainOk, TaskOk, RespOk, ReplyOk,
     ClientOk, SeenOk
<1>5. ASSUME NEW done \in BOOLEAN, StreamEnds(done) PROVE Shapes'
  <2> USE <1>5 DEF StreamEnds, Runs, Demand, Yields, Fails
  <2>1. ReadOk'
    BY DEF ReadOk
  <2>2. GenOk'
    BY DEF GenOk, GenAts, Control
  <2>3. NetOk'
    BY DEF NetOk
  <2> QED BY <2>1, <2>2, <2>3 DEF ReqOk, MainOk, TaskOk, RespOk, ReplyOk, ClientOk,
     StatsOk, SeenOk
<1>6. CASE ReadFails
  <2> USE <1>6 DEF ReadFails, Runs, Demand, Fails
  <2>1. GenOk'
    BY DEF GenOk, GenAts, Control
  <2>2. NetOk'
    BY DEF NetOk
  <2> QED BY <2>1, <2>2 DEF ReqOk, MainOk, ReadOk, TaskOk, RespOk, ReplyOk, ClientOk,
     StatsOk, SeenOk
<1>7. CASE BodyLost
  <2> USE <1>7 DEF BodyLost, Raises
  <2>1. MainOk'
    BY DEF MainOk, MainAts, Reasons
  <2>2. SeenOk'
    BY DEF SeenOk, RespOk
  <2> QED BY <2>1, <2>2 DEF ReqOk, GenOk, NetOk, ReadOk, TaskOk, RespOk, ReplyOk,
     ClientOk, StatsOk
<1>8. ASSUME NEW status \in {400, 401, 500}, Refuses(status) PROVE Shapes'
  <2> USE <1>8 DEF Refuses, Goes, Observed
  <2>1. MainOk'
    BY DEF MainOk, MainAts, Reasons
  <2>2. ReplyOk'
    BY DEF ReplyOk, Answers, Statuses
  <2>3. StatsOk'
    BY DEF StatsOk, Threads, Outcomes
  <2> QED BY <2>1, <2>2, <2>3 DEF ReqOk, GenOk, NetOk, ReadOk, TaskOk, RespOk,
     ClientOk, SeenOk
<1>9. CASE Execute
  <2> USE <1>9 DEF Execute, Goes
  <2>1. MainOk'
    BY DEF MainOk, MainAts, Reasons
  <2>2. GenOk'
    BY DEF GenOk, GenAts, Control
  <2>3. TaskOk'
    BY DEF TaskOk, Firsts, Bodies, Watches, NoTasks
  <2>4. StatsOk'
    BY DEF StatsOk, Threads, Outcomes
  <2> QED BY <2>1, <2>2, <2>3, <2>4 DEF ReqOk, NetOk, ReadOk, RespOk, ReplyOk,
     ClientOk, SeenOk
<1>10. CASE WaitBeforeRetry
  <2> USE <1>10 DEF WaitBeforeRetry, Runs, Demand
  <2>1. GenOk'
    <3>1. gen.attempt \in Nat /\ gen.attempt < MaxRetries
      BY DEF GenOk, Control
    <3>2. gen.attempt + 1 \in 0..MaxRetries
      BY <3>1
    <3>3. gen' \in [at : {"connect"}, attempt : {gen.attempt + 1}, queue : {gen.queue}]
      BY DEF GenOk
    <3> QED BY <3>2, <3>3 DEF GenOk, GenAts
  <2> QED BY <2>1 DEF ReqOk, MainOk, NetOk, ReadOk, TaskOk, RespOk, ReplyOk, ClientOk,
     StatsOk, SeenOk
<1>11. CASE FirstChunk
  <2> USE <1>11 DEF FirstChunk
  <2>1. TaskOk'
    BY DEF TaskOk, Firsts, Bodies, Watches, NoTasks
  <2>2. GenOk'
    BY DEF GenOk, GenAts, TaskOk, Control
  <2> QED BY <2>1, <2>2 DEF ReqOk, MainOk, NetOk, ReadOk, RespOk, ReplyOk, ClientOk,
     StatsOk, SeenOk
<1>12. CASE FirstFails
  <2> USE <1>12 DEF FirstFails, Observed, Closed
  <2>1. TaskOk'
    BY DEF TaskOk, Firsts, Bodies, Watches, NoTasks
  <2>2. StatsOk'
    BY DEF StatsOk, Threads, Outcomes
  <2>3. GenOk'
    BY DEF GenOk, GenAts, Control
  <2>4. NetOk'
    BY DEF NetOk
  <2> QED BY <2>1, <2>2, <2>3, <2>4 DEF ReqOk, MainOk, ReadOk, RespOk, ReplyOk,
     ClientOk, SeenOk
<1>13. CASE NextChunk
  <2> USE <1>13 DEF NextChunk
  <2>1. TaskOk'
    BY DEF TaskOk, Firsts, Bodies, Watches, NoTasks
  <2>2. GenOk'
    BY DEF GenOk, GenAts, TaskOk, Control
  <2> QED BY <2>1, <2>2 DEF ReqOk, MainOk, NetOk, ReadOk, RespOk, ReplyOk, ClientOk,
     StatsOk, SeenOk
<1>14. CASE BodyFails
  <2> USE <1>14 DEF BodyFails, Observed, Closed
  <2>1. TaskOk'
    BY DEF TaskOk, Firsts, Bodies, Watches, NoTasks
  <2>2. StatsOk'
    BY DEF StatsOk, Threads, Outcomes
  <2>3. GenOk'
    BY DEF GenOk, GenAts, Control
  <2>4. NetOk'
    BY DEF NetOk
  <2> QED BY <2>1, <2>2, <2>3, <2>4 DEF ReqOk, MainOk, ReadOk, RespOk, ReplyOk,
     ClientOk, SeenOk
<1>15. CASE BodyEnds
  <2> USE <1>15 DEF BodyEnds, Closed
  <2>1. TaskOk'
    BY DEF TaskOk, Firsts, Bodies, Watches, NoTasks
  <2>2. GenOk'
    BY DEF GenOk, GenAts, Control
  <2>3. NetOk'
    BY DEF NetOk
  <2> QED BY <2>1, <2>2, <2>3 DEF ReqOk, MainOk, ReadOk, RespOk, ReplyOk, ClientOk,
     StatsOk, SeenOk
<1>16. CASE SendStart
  <2> USE <1>16 DEF SendStart
  <2>1. TaskOk'
    BY DEF TaskOk, Firsts, Bodies, Watches, NoTasks
  <2>2. RespOk'
    BY DEF RespOk, Answers, Statuses
  <2> QED BY <2>1, <2>2 DEF ReqOk, MainOk, GenOk, NetOk, ReadOk, ReplyOk, ClientOk,
     StatsOk, SeenOk
<1>17. CASE SendChunk
  <2> USE <1>17 DEF SendChunk
  <2>1. TaskOk'
    BY DEF TaskOk, Firsts, Bodies, Watches, NoTasks
  <2>2. RespOk'
    <3>1. \A w : [resp EXCEPT !.wire = w] \in [status : {resp.status}, wire : {w},
                                              completed : {resp.completed}]
      BY DEF RespOk
    <3>2. resp.status \in Answers /\ resp.completed \in BOOLEAN
      BY DEF RespOk
    <3> QED BY <3>1, <3>2 DEF RespOk
  <2> QED BY <2>1, <2>2 DEF ReqOk, MainOk, GenOk, NetOk, ReadOk, ReplyOk, ClientOk,
     StatsOk, SeenOk
<1>18. CASE SendFinal
  <2> USE <1>18 DEF SendFinal
  <2>1. TaskOk'
    BY DEF TaskOk, Firsts, Bodies, Watches, NoTasks
  <2>2. RespOk'
    <3>1. resp' \in [status : {resp.status}, wire : {resp.wire}, completed : {TRUE}]
      BY DEF RespOk
    <3>2. resp.status \in Answers
      BY DEF RespOk
    <3> QED BY <3>1, <3>2 DEF RespOk
  <2> QED BY <2>1, <2>2 DEF ReqOk, MainOk, GenOk, NetOk, ReadOk, ReplyOk, ClientOk,
     StatsOk, SeenOk
<1>19. CASE SendFails
  <2> USE <1>19 DEF SendFails
  <2>1. TaskOk'
    BY DEF TaskOk, Firsts, Bodies, Watches, NoTasks
  <2>2. SeenOk'
    BY DEF SeenOk, RespOk
  <2> QED BY <2>1, <2>2 DEF ReqOk, MainOk, GenOk, NetOk, ReadOk, RespOk, ReplyOk,
     ClientOk, StatsOk
<1>20. CASE WatchSees
  <2> USE <1>20 DEF WatchSees
  <2>1. TaskOk'
    BY DEF TaskOk, Firsts, Bodies, Watches, NoTasks
  <2>2. SeenOk'
    BY DEF SeenOk, RespOk
  <2> QED BY <2>1, <2>2 DEF ReqOk, MainOk, GenOk, NetOk, ReadOk, RespOk, ReplyOk,
     ClientOk, StatsOk
<1>21. CASE AwaitFirst
  <2> USE <1>21 DEF AwaitFirst, Raises, Goes, Departed
  <2>1. MainOk'
    BY DEF MainOk, MainAts, Reasons
  <2>2. StatsOk'
    BY DEF StatsOk, Threads, Outcomes
  <2>3. TaskOk'
    BY DEF TaskOk, Firsts, Bodies, Watches, NoTasks
  <2> QED BY <2>1, <2>2, <2>3 DEF ReqOk, GenOk, NetOk, ReadOk, RespOk, ReplyOk,
     ClientOk, SeenOk
<1>22. CASE AwaitStream
  <2> USE <1>22 DEF AwaitStream, StreamOver, StreamDone, StreamGone, Raises, Departed
  <2>1. MainOk'
    BY DEF MainOk, MainAts, Reasons
  <2>2. StatsOk'
    BY DEF StatsOk, Threads, Outcomes
  <2> QED BY <2>1, <2>2 DEF ReqOk, GenOk, NetOk, ReadOk, TaskOk, RespOk, ReplyOk,
     ClientOk, SeenOk
<1>23. CASE Cleanup
  <2> USE <1>23 DEF Cleanup, Cancelled, Closed, Goes
  <2>1. MainOk'
    BY DEF MainOk, MainAts, Reasons
  <2>2. TaskOk'
    BY DEF TaskOk, Firsts, Bodies, Watches, NoTasks
  <2>3. GenOk'
    BY DEF GenOk, GenAts, Control
  <2>4. NetOk'
    BY DEF NetOk
  <2> QED BY <2>1, <2>2, <2>3, <2>4 DEF ReqOk, ReadOk, RespOk, ReplyOk, ClientOk,
     StatsOk, SeenOk
<1>24. CASE Close
  <2> USE <1>24 DEF Close, CloseCallback, Closed, Goes
  <2>1. MainOk'
    BY DEF MainOk, MainAts, Reasons
  <2>2. GenOk'
    BY DEF GenOk, GenAts, Control
  <2>3. NetOk'
    BY DEF NetOk
  <2>4. ReplyOk'
    BY DEF ReplyOk, Answers, Statuses
  <2> QED BY <2>1, <2>2, <2>3, <2>4 DEF ReqOk, ReadOk, TaskOk, RespOk, ClientOk,
     StatsOk, SeenOk
<1>25. CASE PlainAnswer
  <2> USE <1>25 DEF PlainAnswer, Closed, Goes
  <2>1. MainOk'
    BY DEF MainOk, MainAts, Reasons
  <2>2. ReplyOk'
    BY DEF ReplyOk, Answers, Statuses
  <2>3. GenOk'
    BY DEF GenOk, GenAts, Control
  <2>4. NetOk'
    BY DEF NetOk
  <2> QED BY <2>1, <2>2, <2>3, <2>4 DEF ReqOk, ReadOk, TaskOk, RespOk, ClientOk,
     StatsOk, SeenOk
<1>26. CASE PlainFails
  <2> USE <1>26 DEF PlainFails, Goes, Observed
  <2>1. MainOk'
    BY DEF MainOk, MainAts, Reasons
  <2>2. ReplyOk'
    BY DEF ReplyOk, Answers, Statuses
  <2>3. StatsOk'
    BY DEF StatsOk, Threads, Outcomes
  <2> QED BY <2>1, <2>2, <2>3 DEF ReqOk, GenOk, NetOk, ReadOk, TaskOk, RespOk,
     ClientOk, SeenOk
<1>27. CASE SendAnswer
  <2> USE <1>27 DEF SendAnswer, Goes
  <2>1. MainOk'
    BY DEF MainOk, MainAts, Reasons
  <2>2. RespOk'
    BY DEF RespOk, Answers, Statuses, ReplyOk
  <2> QED BY <2>1, <2>2 DEF ReqOk, GenOk, NetOk, ReadOk, TaskOk, ReplyOk, ClientOk,
     StatsOk, SeenOk
<1>28. CASE AnswerFails
  <2> USE <1>28 DEF AnswerFails, Raises
  <2>1. MainOk'
    BY DEF MainOk, MainAts, Reasons
  <2>2. SeenOk'
    BY DEF SeenOk, RespOk
  <2> QED BY <2>1, <2>2 DEF ReqOk, GenOk, NetOk, ReadOk, TaskOk, RespOk, ReplyOk,
     ClientOk, StatsOk
<1>29. CASE CompleteResponse
  <2> USE <1>29 DEF CompleteResponse, Goes, OutcomeOf, LeftBehind
  <2>1. MainOk'
    BY DEF MainOk, MainAts, Reasons
  <2>2. SeenOk'
    BY DEF SeenOk, RespOk
  <2>4. OutcomeOf(LeftBehind) \in {None} \union Outcomes /\ "running" \in Threads
    BY ONLY DEF OutcomeOf, Outcomes, Threads
  <2>5. PICK outcome \in {None} \union Outcomes, thread \in Threads :
            StatsOk /\ stats' = [stats EXCEPT !.outcome = outcome, !.thread = thread]
    BY ONLY <1>29, <2>4, Shapes DEF CompleteResponse, Shapes
  <2>3. StatsOk'
    BY ONLY <2>5 DEF StatsOk
  <2> QED BY <2>1, <2>2, <2>3 DEF ReqOk, GenOk, NetOk, ReadOk, TaskOk, RespOk,
     ReplyOk, ClientOk
<1>30. ASSUME NEW ok \in BOOLEAN, Record(ok) PROVE Shapes'
  <2> USE <1>30 DEF Record
  <2>1. StatsOk'
    <3>1. stats.charges \in Nat /\ stats.charges + 1 \in Nat
      BY DEF StatsOk
    <3>2. \A t \in Threads, n \in Nat :
            [stats EXCEPT !.thread = t, !.charges = n] \in
              [error : BOOLEAN, gone : BOOLEAN, usage : BOOLEAN,
               credential : BOOLEAN, outcome : {None} \union Outcomes,
               thread : Threads, charges : Nat, dropped : Nat]
      BY DEF StatsOk
    <3>3. \E t \in Threads, n \in Nat : stats' = [stats EXCEPT !.thread = t, !.charges = n]
      <4>1. (IF ok THEN "recorded" ELSE "raised") \in Threads
        BY DEF Threads
      <4> QED BY <3>1, <4>1
    <3>4. stats' \in [error : BOOLEAN, gone : BOOLEAN, usage : BOOLEAN,
                        credential : BOOLEAN, outcome : {None} \union Outcomes,
                        thread : Threads, charges : Nat, dropped : Nat]
      BY ONLY <3>2, <3>3
    <3> QED BY <3>4 DEF StatsOk
  <2> QED BY <2>1 DEF ReqOk, MainOk, GenOk, NetOk, ReadOk, TaskOk, RespOk, ReplyOk,
     ClientOk, SeenOk
<1>31. CASE CompletionReturns
  <2> USE <1>31 DEF CompletionReturns, Goes
  <2>1. MainOk'
    BY DEF MainOk, MainAts, Reasons
  <2>2. StatsOk'
    BY DEF StatsOk, Threads, Outcomes
  <2> QED BY <2>1, <2>2 DEF ReqOk, GenOk, NetOk, ReadOk, TaskOk, RespOk, ReplyOk,
     ClientOk, SeenOk
<1>32. CASE ClientLeaves
  <2> USE <1>32 DEF ClientLeaves
  <2>1. ClientOk'
    BY DEF ClientOk, MainAts, MainOk
  <2> QED BY <2>1 DEF ReqOk, MainOk, GenOk, NetOk, ReadOk, TaskOk, RespOk, ReplyOk,
     StatsOk, SeenOk
<1>33. CASE ServerCancels
  <2>1. ClientOk'
    BY <1>33, CancelEffect DEF ClientOk, MainOk
  <2>2. MainOk'
    <3>1. main' \in [at : {"cleanup", "finish", "ended"}, raised : {"cancelled", main.raised}]
      BY <1>33, CancelEffect DEF MainOk
    <3>2. {"cleanup", "finish", "ended"} \subseteq MainAts /\ "cancelled" \in Reasons
      BY DEF MainAts, Reasons
    <3> QED BY <3>1, <3>2 DEF MainOk
  <2>3. /\ task' = task \/ task' = NoTasks
        /\ UNCHANGED <<gen, net>> \/ Closed
    BY <1>33, CancelEffect DEF Cancelled, NoTasks
  <2>4. TaskOk'
    BY <2>3 DEF TaskOk, Firsts, Bodies, Watches, NoTasks
  <2>5. GenOk'
    BY <2>3 DEF GenOk, GenAts, Closed
  <2>6. NetOk'
    BY <2>3 DEF NetOk, Closed
  <2>7. UNCHANGED <<req, read, resp, reply, seen, stats>>
    BY <1>33 DEF ServerCancels
  <2> QED BY <2>1, <2>2, <2>4, <2>5, <2>6, <2>7 DEF ReqOk, ReadOk, RespOk, ReplyOk,
     StatsOk, SeenOk
<1>34. CASE UNCHANGED vars
  BY <1>34 DEF vars, ReqOk, MainOk, GenOk, NetOk, ReadOk, TaskOk, RespOk, ReplyOk,
     ClientOk, StatsOk, SeenOk
<1> QED
  BY <1>1, <1>2, <1>3, <1>4, <1>5, <1>6, <1>7, <1>8, <1>9, <1>10, <1>11, <1>12, <1>13,
     <1>14, <1>15, <1>16, <1>17, <1>18, <1>19, <1>20, <1>21, <1>22, <1>23, <1>24,
     <1>25, <1>26, <1>27, <1>28, <1>29, <1>30, <1>31, <1>32, <1>33, <1>34 DEF Next,
     Upstream, Request, CompletionsRefuses, MessagesRefuses

(* Every step keeps the control: the connection is open only while the     *)
(* generator reads, upstream is asked once at most, and no task outlives   *)
(* the response.                                                           *)
LEMMA ControlStep ==
    ASSUME Shapes, Control, [Next]_vars
    PROVE  Control'
<1> USE NoneIsNothing DEF Shapes, MainOk, GenOk, NetOk, TaskOk, ReplyOk, ClientOk,
        Control, Sleeping, Early, Late, NoTasks, MainAts, Statuses, Reasons, GenAts
<1>1. ASSUME NEW error \in {"connect", "sent"}, NoAnswer(error) PROVE Control'
  BY <1>1 DEF NoAnswer, Runs, Demand, MayRetry
<1>2. CASE UpstreamRefuses
  BY <1>2 DEF UpstreamRefuses, Runs, Demand
<1>3. CASE UpstreamAccepts
  BY <1>3 DEF UpstreamAccepts, Runs, Demand, NotRead
<1>4. ASSUME NEW e \in Events, Reads(e) PROVE Control'
  <2>3. GenOk /\ NetOk
    OBVIOUS
  <2>1. /\ gen.at = "stream" /\ gen'.at \in {"stream", "failed"}
        /\ net'.asked = net.asked /\ (net'.open => gen'.at = "stream" /\ net.open)
    BY ONLY <1>4, ReadsEffect, <2>3
  <2>2. UNCHANGED <<main, task, reply, client>>
    BY ONLY <1>4, ReadsEffect, <2>3
  <2>4. Control
    OBVIOUS
  <2> QED BY ONLY <2>1, <2>2, <2>4 DEF Control, Early
<1>5. ASSUME NEW done \in BOOLEAN, StreamEnds(done) PROVE Control'
  <2>3. GenOk /\ NetOk
    OBVIOUS
  <2>1. /\ gen.at = "stream" /\ gen'.at \in {"last", "failed"}
        /\ net'.asked = net.asked /\ (net'.open => gen'.at = "last" /\ net.open)
    BY ONLY <1>5, EndsEffect, <2>3
  <2>2. UNCHANGED <<main, task, reply, client>>
    BY ONLY <1>5, EndsEffect, <2>3
  <2>4. Control
    OBVIOUS
  <2> QED BY ONLY <2>1, <2>2, <2>4 DEF Control, Early
<1>6. CASE ReadFails
  BY <1>6 DEF ReadFails, Runs, Demand, Fails
<1>7. CASE BodyLost
  BY <1>7 DEF BodyLost, Raises
<1>8. ASSUME NEW status \in {400, 401, 500}, Refuses(status) PROVE Control'
  BY <1>8 DEF Refuses, Goes, Observed
<1>9. CASE Execute
  BY <1>9 DEF Execute, Goes
<1>10. CASE WaitBeforeRetry
  BY <1>10 DEF WaitBeforeRetry, Runs, Demand
<1>11. CASE FirstChunk
  BY <1>11 DEF FirstChunk
<1>12. CASE FirstFails
  BY <1>12 DEF FirstFails, Observed, Closed
<1>13. CASE NextChunk
  BY <1>13 DEF NextChunk
<1>14. CASE BodyFails
  BY <1>14 DEF BodyFails, Observed, Closed
<1>15. CASE BodyEnds
  BY <1>15 DEF BodyEnds, Closed
<1>16. CASE SendStart
  BY <1>16 DEF SendStart
<1>17. CASE SendChunk
  BY <1>17 DEF SendChunk
<1>18. CASE SendFinal
  BY <1>18 DEF SendFinal
<1>19. CASE SendFails
  BY <1>19 DEF SendFails
<1>20. CASE WatchSees
  BY <1>20 DEF WatchSees
<1>21. CASE AwaitFirst
  BY <1>21 DEF AwaitFirst, Raises, Goes, Departed
<1>22. CASE AwaitStream
  BY <1>22 DEF AwaitStream, StreamOver, StreamDone, StreamGone, Raises, Departed
<1>23. CASE Cleanup
  <2>6. GenOk /\ NetOk
    OBVIOUS
  <2>1. main.at = "cleanup" /\ main'.at = "closing" /\ task' = NoTasks
    BY <1>23 DEF Cleanup, Cancelled, Goes
  <2>2. UNCHANGED <<gen, net>> \/ (gen'.at = "closed" /\ ~net'.open /\ net'.asked = net.asked)
    BY ONLY <1>23, <2>6, Releases DEF Cleanup, Cancelled
  <2>3. UNCHANGED <<client, reply>>
    BY <1>23 DEF Cleanup
  <2> QED BY <2>1, <2>2, <2>3
<1>24. CASE Close
  BY <1>24 DEF Close, CloseCallback, Closed, Goes
<1>25. CASE PlainAnswer
  BY <1>25 DEF PlainAnswer, Closed, Goes
<1>26. CASE PlainFails
  BY <1>26 DEF PlainFails, Goes, Observed
<1>27. CASE SendAnswer
  BY <1>27 DEF SendAnswer, Goes
<1>28. CASE AnswerFails
  BY <1>28 DEF AnswerFails, Raises
<1>29. CASE CompleteResponse
  BY <1>29 DEF CompleteResponse, Goes, OutcomeOf, LeftBehind
<1>30. ASSUME NEW ok \in BOOLEAN, Record(ok) PROVE Control'
  BY <1>30 DEF Record
<1>31. CASE CompletionReturns
  BY <1>31 DEF CompletionReturns, Goes
<1>32. CASE ClientLeaves
  BY <1>32 DEF ClientLeaves
<1>33. CASE ServerCancels
  <2>1. main.at \in {"first", "stream"} => Control'
    BY <1>33, CancelEffect
  <2>c. main.at \in {"cleanup", "plain"} =>
          /\ main'.at = "finish" /\ client'.cancelled = main.at /\ UNCHANGED reply
          /\ task' = NoTasks
          /\ main.at = "plain" => Closed
          /\ Closed \/ UNCHANGED <<gen, net>>
    BY <1>33, CancelEffect DEF Cancelled
  <2>6. GenOk /\ NetOk
    OBVIOUS
  <2>d. Closed => gen'.at = "closed" /\ ~net'.open /\ net'.asked = net.asked
    BY ONLY <2>6, Releases
  <2>e. Control
    OBVIOUS
  <2>2. main.at = "cleanup" => Control'
    BY ONLY <2>c, <2>d, <2>e DEF Control, Early, Late, Sleeping
  <2>3. main.at = "plain" => Control'
    BY ONLY <2>c, <2>d, <2>e DEF Control, Early, Late, Sleeping
  <2>4. main.at \in {"body", "answer", "closing"} => Control'
    BY <1>33, CancelEffect
  <2>5. main.at = "completing" => Control'
    BY <1>33, CancelEffect
  <2> QED BY <2>1, <2>2, <2>3, <2>4, <2>5, <1>33, CancelEffect
<1>34. CASE UNCHANGED vars
  BY <1>34 DEF vars
<1> QED
  BY <1>1, <1>2, <1>3, <1>4, <1>5, <1>6, <1>7, <1>8, <1>9, <1>10, <1>11, <1>12, <1>13,
     <1>14, <1>15, <1>16, <1>17, <1>18, <1>19, <1>20, <1>21, <1>22, <1>23, <1>24,
     <1>25, <1>26, <1>27, <1>28, <1>29, <1>30, <1>31, <1>32, <1>33, <1>34 DEF Next,
     Upstream, Request, CompletionsRefuses, MessagesRefuses

(* Every step keeps the counting: the credential is charged by the one     *)
(* thread that records, and a drop is counted where it returns.            *)
LEMMA CountingStep ==
    ASSUME Shapes, Control, Counting, [Next]_vars
    PROVE  Counting'
<1> USE NoneIsNothing DEF Shapes, MainOk, GenOk, TaskOk, ClientOk, StatsOk, Control,
        Counting, Sleeping, NoTasks, MainAts, Reasons, GenAts, Outcomes, Threads
<1>1. ASSUME NEW error \in {"connect", "sent"}, NoAnswer(error) PROVE Counting'
  BY <1>1 DEF NoAnswer, Runs, Demand, MayRetry
<1>2. CASE UpstreamRefuses
  BY <1>2 DEF UpstreamRefuses, Runs, Demand
<1>3. CASE UpstreamAccepts
  BY <1>3 DEF UpstreamAccepts, Runs, Demand, NotRead
<1>4. ASSUME NEW e \in Events, Reads(e) PROVE Counting'
  <2>1. /\ gen.at = "stream" /\ Demand
        /\ stats' = [stats EXCEPT !.usage = @ \/ e.usage]
        /\ UNCHANGED <<main, task, client>>
    BY <1>4, ReadsEffect
  <2>2. Shapes /\ Control /\ Counting
    OBVIOUS
  <2>3. stats.credential /\ main.at \notin {"completing", "ended"}
    BY <2>1, <2>2 DEF Demand
  <2> QED BY ONLY <2>1, <2>2, <2>3 DEF Shapes, StatsOk, Counting, Threads
<1>5. ASSUME NEW done \in BOOLEAN, StreamEnds(done) PROVE Counting'
  BY <1>5 DEF StreamEnds, Runs, Demand, Yields, Fails
<1>6. CASE ReadFails
  BY <1>6 DEF ReadFails, Runs, Demand, Fails
<1>7. CASE BodyLost
  BY <1>7 DEF BodyLost, Raises
<1>8. ASSUME NEW status \in {400, 401, 500}, Refuses(status) PROVE Counting'
  BY <1>8 DEF Refuses, Goes, Observed
<1>9. CASE Execute
  BY <1>9 DEF Execute, Goes
<1>10. CASE WaitBeforeRetry
  BY <1>10 DEF WaitBeforeRetry, Runs, Demand
<1>11. CASE FirstChunk
  BY <1>11 DEF FirstChunk
<1>12. CASE FirstFails
  <2>1. /\ main.at \notin Sleeping /\ stats' = [stats EXCEPT !.error = TRUE]
        /\ UNCHANGED <<main, client>>
    BY <1>12 DEF FirstFails, Observed
  <2>2. Shapes /\ Control /\ Counting
    OBVIOUS
  <2> QED BY ONLY <2>1, <2>2 DEF Shapes, MainOk, MainAts, StatsOk, Counting, Sleeping
<1>13. CASE NextChunk
  BY <1>13 DEF NextChunk
<1>14. CASE BodyFails
  BY <1>14 DEF BodyFails, Observed, Closed
<1>15. CASE BodyEnds
  BY <1>15 DEF BodyEnds, Closed
<1>16. CASE SendStart
  BY <1>16 DEF SendStart
<1>17. CASE SendChunk
  BY <1>17 DEF SendChunk
<1>18. CASE SendFinal
  BY <1>18 DEF SendFinal
<1>19. CASE SendFails
  BY <1>19 DEF SendFails
<1>20. CASE WatchSees
  BY <1>20 DEF WatchSees
<1>21. CASE AwaitFirst
  BY <1>21 DEF AwaitFirst, Raises, Goes, Departed
<1>22. CASE AwaitStream
  BY <1>22 DEF AwaitStream, StreamOver, StreamDone, StreamGone, Raises, Departed
<1>23. CASE Cleanup
  <2>1. /\ main.at = "cleanup" /\ main'.at = "closing"
        /\ UNCHANGED <<client, stats>>
    BY <1>23 DEF Cleanup, Cancelled, Goes
  <2>2. Shapes /\ Control /\ Counting
    OBVIOUS
  <2> QED BY ONLY <2>1, <2>2 DEF Shapes, StatsOk, Counting
<1>24. CASE Close
  <2>1. /\ main.at = "closing" /\ main'.at \in {"answer", "finish"}
        /\ UNCHANGED <<client, stats>>
    BY <1>24 DEF Close, Goes
  <2>2. Shapes /\ Control /\ Counting
    OBVIOUS
  <2> QED BY ONLY <2>1, <2>2 DEF Shapes, StatsOk, Counting
<1>25. CASE PlainAnswer
  BY <1>25 DEF PlainAnswer, Closed, Goes
<1>26. CASE PlainFails
  BY <1>26 DEF PlainFails, Goes, Observed
<1>27. CASE SendAnswer
  BY <1>27 DEF SendAnswer, Goes
<1>28. CASE AnswerFails
  BY <1>28 DEF AnswerFails, Raises
<1>29. CASE CompleteResponse
  BY <1>29 DEF CompleteResponse, Goes, OutcomeOf, LeftBehind
<1>30. ASSUME NEW ok \in BOOLEAN, Record(ok) PROVE Counting'
  BY <1>30 DEF Record
<1>31. CASE CompletionReturns
  BY <1>31 DEF CompletionReturns, Goes
<1>32. CASE ClientLeaves
  BY <1>32 DEF ClientLeaves
<1>33. CASE ServerCancels
  <2>1. /\ client'.cancelled = main.at /\ UNCHANGED stats
        /\ main.at \notin {"finish", "ended"}
        /\ main'.at \in {"cleanup", "finish", "ended"}
        /\ main'.at = "ended" <=> main.at = "completing"
        /\ main.at \in {"body", "answer", "completing"} => UNCHANGED gen
        /\ main'.at = "cleanup" => main.at \in {"first", "stream"}
        /\ main.at \in {"first", "stream", "cleanup", "plain", "body", "answer",
                       "closing", "completing"}
    BY <1>33, CancelEffect
  <2>2. Shapes /\ Control /\ Counting
    OBVIOUS
  <2> QED BY ONLY <2>1, <2>2 DEF Shapes, StatsOk, Counting
<1>34. CASE UNCHANGED vars
  BY <1>34 DEF vars
<1> QED
  BY <1>1, <1>2, <1>3, <1>4, <1>5, <1>6, <1>7, <1>8, <1>9, <1>10, <1>11, <1>12, <1>13,
     <1>14, <1>15, <1>16, <1>17, <1>18, <1>19, <1>20, <1>21, <1>22, <1>23, <1>24,
     <1>25, <1>26, <1>27, <1>28, <1>29, <1>30, <1>31, <1>32, <1>33, <1>34 DEF Next,
     Upstream, Request, CompletionsRefuses, MessagesRefuses
-----------------------------------------------------------------------------
(* Sequences of chunks.                                                    *)
Plain(w) == IsSeq(w) /\ ~HasError(w)
EndsWell(c) == c.type \in {"message_stop", "done"}

(* A sequence over any set is one over its range.                          *)
LEMMA SeqOverRange ==
    ASSUME NEW S, NEW w \in Seq(S)
    PROVE  IsSeq(w)
<1>1. w = [p \in 1..Len(w) |-> w[p]] /\ Len(w) \in Nat /\ DOMAIN w = 1..Len(w)
  OBVIOUS
<1>2. \A p \in 1..Len(w) : w[p] \in Range(w)
  BY <1>1 DEF Range
<1>3. w \in [1..Len(w) -> Range(w)]
  <2> DEFINE n == Len(w)
  <2>1. n \in Nat /\ w = [p \in 1..n |-> w[p]] /\ \A p \in 1..n : w[p] \in Range(w)
    BY <1>1, <1>2
  <2> HIDE DEF n
  <2>2. w \in [1..n -> Range(w)]
    BY <2>1
  <2> QED BY <2>2 DEF n
<1>4. Seq(Range(w)) = UNION {[1..n -> Range(w)] : n \in Nat}
  BY SeqDef, Zenon
<1>5. w \in UNION {[1..n -> Range(w)] : n \in Nat}
  <2> DEFINE T(n) == [1..n -> Range(w)]
  <2>1. w \in T(Len(w)) /\ Len(w) \in Nat
    BY <1>1, <1>3
  <2> HIDE DEF T
  <2>2. w \in UNION {T(n) : n \in Nat}
    BY <2>1, Zenon
  <2> QED BY <2>2 DEF T
<1> QED BY <1>4, <1>5, Zenon DEF IsSeq

(* Concatenation, and what it keeps.                                       *)
LEMMA SeqConcat ==
    ASSUME NEW v, NEW w, IsSeq(v), IsSeq(w)
    PROVE  /\ IsSeq(v \o w)
           /\ HasError(v \o w) <=> HasError(v) \/ HasError(w)
           /\ w # << >> => (v \o w) # << >> /\ (v \o w)[Len(v \o w)] = w[Len(w)]
<1> DEFINE S == Range(v) \union Range(w)
<1>1. v \in Seq(S) /\ w \in Seq(S)
  BY DEF IsSeq
<1> HIDE DEF S
<1>2. v \o w \in Seq(S) /\ Len(v \o w) = Len(v) + Len(w)
  BY <1>1
<1>3. /\ \A p \in 1..Len(v) : (v \o w)[p] = v[p]
      /\ \A p \in 1..Len(w) : (v \o w)[Len(v) + p] = w[p]
  BY <1>1
<1>4. /\ Len(v) \in Nat /\ Len(w) \in Nat /\ DOMAIN v = 1..Len(v) /\ DOMAIN w = 1..Len(w)
      /\ DOMAIN (v \o w) = 1..(Len(v) + Len(w))
  BY <1>1, <1>2
<1>5. HasError(v) \/ HasError(w) => HasError(v \o w)
  <2>1. ASSUME NEW p \in DOMAIN v, v[p].type = "error" PROVE HasError(v \o w)
    <3>1. p \in DOMAIN (v \o w) /\ (v \o w)[p] = v[p]
      BY <1>3, <1>4, <2>1
    <3> QED BY <2>1, <3>1 DEF HasError
  <2>2. ASSUME NEW p \in DOMAIN w, w[p].type = "error" PROVE HasError(v \o w)
    <3>1. Len(v) + p \in DOMAIN (v \o w) /\ (v \o w)[Len(v) + p] = w[p]
      BY <1>3, <1>4, <2>2
    <3> QED BY <2>2, <3>1 DEF HasError
  <2> QED BY <2>1, <2>2 DEF HasError
<1>6. ASSUME NEW p \in DOMAIN (v \o w), (v \o w)[p].type = "error"
      PROVE  HasError(v) \/ HasError(w)
  <2>1. CASE p \in 1..Len(v)
    BY <1>3, <1>4, <1>6, <2>1 DEF HasError
  <2>2. CASE p \notin 1..Len(v)
    <3>1. p - Len(v) \in 1..Len(w) /\ Len(v) + (p - Len(v)) = p
      BY <1>4, <1>6, <2>2
    <3>2. w[p - Len(v)].type = "error"
      BY <1>3, <1>6, <3>1
    <3> QED BY <1>4, <3>1, <3>2 DEF HasError
  <2> QED BY <2>1, <2>2
<1>7. w # << >> => Len(w) \in 1..Len(w) /\ Len(v \o w) # 0
  BY <1>1, <1>2, <1>4
<1>8. w # << >> => (v \o w) # << >> /\ (v \o w)[Len(v \o w)] = w[Len(w)]
  BY <1>1, <1>2, <1>3, <1>7
<1>9. IsSeq(v \o w)
  <2>1. v \o w \in Seq(S)
    BY <1>2
  <2> QED BY <2>1, SeqOverRange, Zenon
<1>10. HasError(v \o w) => HasError(v) \/ HasError(w)
  BY <1>6 DEF HasError
<1> QED BY <1>5, <1>8, <1>9, <1>10

(* A sequence of one chunk.                                                *)
LEMMA SeqSingle ==
    ASSUME NEW c
    PROVE  /\ IsSeq(<<c>>) /\ <<c>> # << >> /\ <<c>>[Len(<<c>>)] = c
           /\ HasError(<<c>>) <=> c.type = "error"
<1>1. <<c>> \in Seq({c})
  OBVIOUS
<1>2. DOMAIN <<c>> = {1} /\ <<c>>[1] = c /\ Len(<<c>>) = 1
  OBVIOUS
<1>3. IsSeq(<<c>>)
  BY <1>1, SeqOverRange, Zenon
<1> QED BY <1>2, <1>3 DEF HasError

(* A chunk appended.                                                       *)
LEMMA SeqAppend ==
    ASSUME NEW w, NEW c, IsSeq(w)
    PROVE  /\ IsSeq(Append(w, c))
           /\ HasError(Append(w, c)) <=> HasError(w) \/ c.type = "error"
           /\ Append(w, c) # << >> /\ Append(w, c)[Len(Append(w, c))] = c
<1> DEFINE S == Range(w) \union {c}
<1>1. w \in Seq(S) /\ <<c>> \in Seq(S) /\ c \in S
  BY DEF IsSeq
<1>2. Append(w, c) = w \o <<c>>
  <2> HIDE DEF S
  <2> QED BY <1>1
<1> QED BY <1>2, SeqConcat, SeqSingle

(* A few chunks appended are appended one after the other.                 *)
LEMMA SeqFew ==
    ASSUME NEW w, IsSeq(w)
    PROVE  /\ w \o << >> = w
           /\ \A a : w \o <<a>> = Append(w, a)
           /\ \A a, b : w \o <<a, b>> = Append(Append(w, a), b)
           /\ \A a, b, c : w \o <<a, b, c>> = Append(Append(Append(w, a), b), c)
<1>1. w \in Seq(Range(w))
  BY DEF IsSeq
<1>2. ASSUME NEW a, NEW b, NEW c
      PROVE  /\ w \o <<a>> = Append(w, a)
             /\ w \o <<a, b>> = Append(Append(w, a), b)
             /\ w \o <<a, b, c>> = Append(Append(Append(w, a), b), c)
  <2> DEFINE S == Range(w) \union {a, b, c}
  <2>1. w \in Seq(S) /\ a \in S /\ b \in S /\ c \in S
    BY <1>1
  <2> HIDE DEF S
  <2> QED BY <2>1
<1>3. w \o << >> = w
  BY <1>1
<1> QED BY <1>2, <1>3

(* A chunk taken from the front.                                           *)
LEMMA SeqRest ==
    ASSUME NEW w, IsSeq(w), w # << >>
    PROVE  /\ IsSeq(Tail(w))
           /\ HasError(Tail(w)) => HasError(w)
           /\ Head(w).type = "error" => HasError(w)
           /\ IF Tail(w) = << >> THEN Head(w) = w[Len(w)]
              ELSE Tail(w)[Len(Tail(w))] = w[Len(w)]
<1> DEFINE S == Range(w)
<1>1. w \in Seq(S)
  BY DEF IsSeq
<1> HIDE DEF S
<1>2. /\ Len(w) \in Nat /\ Len(w) # 0 /\ DOMAIN w = 1..Len(w)
      /\ Tail(w) \in Seq(S) /\ Len(Tail(w)) = Len(w) - 1
      /\ DOMAIN Tail(w) = 1..(Len(w) - 1)
      /\ \A p \in 1..(Len(w) - 1) : Tail(w)[p] = w[p + 1]
      /\ Head(w) = w[1]
  BY <1>1
<1>3. HasError(Tail(w)) => HasError(w)
  <2>1. ASSUME NEW p \in 1..(Len(w) - 1), w[p + 1].type = "error" PROVE HasError(w)
    <3>1. p + 1 \in DOMAIN w
      BY <1>2
    <3> QED BY <2>1, <3>1 DEF HasError
  <2> QED BY <1>2, <2>1 DEF HasError
<1>4. Head(w).type = "error" => HasError(w)
  BY <1>2 DEF HasError
<1>5. Tail(w) = << >> => Len(w) = 1
  <2>1. \A t : t = << >> => Len(t) = 0
    OBVIOUS
  <2>2. Tail(w) = << >> => Len(Tail(w)) = 0
    BY <2>1, Zenon
  <2> QED BY <1>2, <2>2
<1>6. Tail(w) # << >> => Len(Tail(w)) \in 1..(Len(w) - 1) /\ Len(Tail(w)) + 1 = Len(w)
  BY <1>2
<1>7. IsSeq(Tail(w))
  <2>1. Tail(w) \in Seq(S)
    BY <1>2
  <2> QED BY <2>1, SeqOverRange, Zenon
<1>8. Tail(w) # << >> => Tail(w)[Len(Tail(w))] = w[Len(w)]
  BY <1>2, <1>6
<1>9. Tail(w) = << >> => Head(w) = w[Len(w)]
  BY <1>2, <1>5
<1> QED BY <1>3, <1>4, <1>7, <1>8, <1>9

(* No chunks.                                                              *)
LEMMA SeqNone == IsSeq(<< >>) /\ ~HasError(<< >>)
<1>1. << >> \in Seq({}) /\ DOMAIN << >> = {}
  OBVIOUS
<1>2. IsSeq(<< >>)
  BY <1>1, SeqOverRange, Zenon
<1> QED BY <1>1, <1>2 DEF HasError
-----------------------------------------------------------------------------
(* A set of finite sets has one that contains no other of them.            *)
LEMMA SmallestSet ==
    ASSUME NEW T, T # {}, \A S \in T : IsFiniteSet(S)
    PROVE  \E S \in T : \A U \in T : U \subseteq S => U = S
<1> PICK S0 \in T : TRUE
  OBVIOUS
<1> DEFINE R == StrictSubsetOrdering(S0)
           below == {U \in T : U \subseteq S0}
<1>1. IsWellFoundedOn(R, FiniteSubsetsOf(S0))
  BY FS_StrictSubsetOrderingWellFounded
<1>2. below \subseteq FiniteSubsetsOf(S0) /\ below # {}
  BY DEF FiniteSubsetsOf
<1>3. \E S \in below : \A U \in below : <<U, S>> \notin R
  <2> HIDE DEF R, below
  <2> QED BY <1>1, <1>2, WFMin
<1>4. PICK S \in below : \A U \in below : <<U, S>> \notin R
  BY <1>3
<1>5. ASSUME NEW U \in T, U \subseteq S PROVE U = S
  <2>1. U \in below
    BY <1>5
  <2>2. <<U, S>> \in (SUBSET S0) \X (SUBSET S0)
    BY <2>1
  <2>3. <<U, S>> \notin R
    BY <1>4, <2>1
  <2>4. QED
    BY <1>5, <2>2, <2>3 DEF StrictSubsetOrdering
<1>6. QED
  BY <1>5

(* What a fold takes next: the last of the positions left.                 *)
LEMMA LastIsOne ==
    ASSUME NEW n \in Nat, NEW T \in SUBSET (1..n), T # {}
    PROVE  Max(T) \in T
<1> DEFINE bounds == {k \in Nat : \A y \in T : y <= k}
<1>1. n \in bounds
  OBVIOUS
<1>2. PICK k \in bounds : \A j \in bounds : <<j, k>> \notin OpToRel(<, Nat)
  <2>1. bounds \subseteq Nat /\ bounds # {}
    BY <1>1
  <2> HIDE DEF bounds
  <2> QED BY <2>1, WFMin, NatLessThanWellFounded
<1>3. \A j \in bounds : ~(j < k)
  BY <1>2 DEF OpToRel
<1>4. k \in T
  <2> SUFFICES ASSUME k \notin T PROVE FALSE
    OBVIOUS
  <2>1. k \in Nat /\ \A y \in T : y \in Nat /\ y # 0 /\ y <= k /\ y # k
    OBVIOUS
  <2>2. \A y \in T : y <= k - 1
    BY <2>1
  <2>3. k - 1 \in Nat
    <3>1. PICK y \in T : TRUE
      OBVIOUS
    <3>2. y \in Nat /\ y # 0 /\ y <= k /\ k \in Nat
      BY <2>1, <3>1
    <3> QED BY <3>2
  <2>4. k - 1 \in bounds
    BY <2>2, <2>3
  <2> QED BY <1>3, <2>1, <2>4
<1>5. \E x \in T : \A y \in T : x >= y
  BY <1>4
<1> QED BY <1>5 DEF Max

(* The folds of the two protocols and of their clients, each a step of its *)
(* kind; none of what is said of a fold depends on which.                  *)
FoldStep(k, s, x) ==
    CASE k = "merge"    -> A!Merge(s, x)
      [] k = "tool"     -> A!AppendTool(s, x)
      [] k = "emit"     -> A!EmitTool(s, x)
      [] k = "event"    -> A!Aggregate(s, x)
      [] k = "index"    -> O!IndexCall(s, x)
      [] k = "call"     -> O!AddCall(s, x)
      [] k = "answer"   -> O!Add(s, x)
      [] k = "assemble" -> Assemble(s, x)
      [] k = "piece"    -> AddPiece(s, x)
      [] k = "hear"     -> Hear(s, x)

(* The function a fold chooses: the positions of a set are taken, the last *)
(* one last.                                                               *)
Folds(g, k, s, xs, S) ==
    g = [T \in SUBSET S |-> IF T = {} THEN s
                            ELSE FoldStep(k, g[T \ {Max(T)}], xs[Max(T)])]

Fold(k, s, xs) == (CHOOSE g : Folds(g, k, s, xs, DOMAIN xs))[DOMAIN xs]

Nested(T, S, n) == n \in Nat /\ S \in SUBSET (1..n) /\ T \in SUBSET S

(* Two such functions agree where both are defined.                        *)
LEMMA FoldsAgree ==
    ASSUME NEW n, NEW S, NEW T, NEW k, NEW s, NEW xs, NEW g, NEW h,
           Nested(T, S, n), Folds(g, k, s, xs, S), Folds(h, k, s, xs, T)
    PROVE  g[T] = h[T]
<1> USE DEF Nested
<1> DEFINE differ == {U \in SUBSET T : g[U] # h[U]}
<1> SUFFICES ASSUME differ # {} PROVE FALSE
  OBVIOUS
<1>1. \A U \in differ : IsFiniteSet(U)
  <2>1. IsFiniteSet(1..n)
    BY FS_Interval
  <2> QED BY <2>1, FS_Subset
<1>2. PICK U \in differ : \A V \in differ : V \subseteq U => V = U
  <2> HIDE DEF differ
  <2> QED BY <1>1, SmallestSet
<1>3. U \in SUBSET T /\ U \in SUBSET S /\ U \in SUBSET (1..n)
  OBVIOUS
<1>4. CASE U = {}
  BY <1>3, <1>4 DEF Folds
<1>5. CASE U # {}
  <2> DEFINE x == Max(U)
             rest == U \ {x}
  <2>1. x \in U
    BY <1>3, <1>5, LastIsOne
  <2>2. rest \in SUBSET T /\ rest \in SUBSET S /\ rest # U
    BY <1>3, <2>1
  <2>3. g[rest] = h[rest]
    BY <1>2, <2>2
  <2>4. g[U] = FoldStep(k, g[rest], xs[x]) /\ h[U] = FoldStep(k, h[rest], xs[x])
    BY <1>3, <1>5 DEF Folds
  <2> QED BY <2>3, <2>4
<1> QED BY <1>4, <1>5

(* There is one for the positions of every sequence.                       *)
LEMMA FoldsExist ==
    ASSUME NEW n \in Nat, NEW k, NEW s, NEW xs, NEW S \in SUBSET (1..n)
    PROVE  \E g : Folds(g, k, s, xs, S)
<1> DEFINE without == {T \in SUBSET S : ~\E g : Folds(g, k, s, xs, T)}
<1> SUFFICES ASSUME without # {} PROVE FALSE
  OBVIOUS
<1>1. \A T \in without : IsFiniteSet(T)
  <2>1. IsFiniteSet(1..n)
    BY FS_Interval
  <2> QED BY <2>1, FS_Subset
<1>2. PICK T \in without : \A U \in without : U \subseteq T => U = T
  <2> HIDE DEF without
  <2> QED BY <1>1, SmallestSet
<1>3. T \in SUBSET S /\ T \in SUBSET (1..n)
  OBVIOUS
<1>4. ASSUME NEW U \in SUBSET T, U # T
      PROVE  Folds(CHOOSE g : Folds(g, k, s, xs, U), k, s, xs, U)
  <2>1. \E g : Folds(g, k, s, xs, U)
    BY <1>2, <1>3, <1>4
  <2> QED BY <2>1
<1> DEFINE G(U) == CHOOSE g : Folds(g, k, s, xs, U)
           y(U) == IF U = {} THEN s
                   ELSE FoldStep(k, G(U \ {Max(U)})[U \ {Max(U)}], xs[Max(U)])
           g == [U \in SUBSET T |-> y(U)]
<1>5. ASSUME NEW U \in SUBSET T, U # T
      PROVE  G(U)[U] = g[U]
  <2>1. Folds(G(U), k, s, xs, U)
    BY <1>4, <1>5
  <2>2. CASE U = {}
    BY <2>1, <2>2 DEF Folds
  <2>3. CASE U # {}
    <3> DEFINE x == Max(U)
               rest == U \ {x}
    <3>1. U \in SUBSET (1..n) /\ x \in U
      BY <1>3, <2>3, LastIsOne
    <3>2. rest \in SUBSET T /\ rest # T /\ rest \in SUBSET U
      BY <3>1
    <3>3. Folds(G(rest), k, s, xs, rest)
      BY <1>4, <3>2
    <3>4. G(U)[U] = FoldStep(k, G(U)[rest], xs[x])
      BY <2>1, <2>3 DEF Folds
    <3>5. G(U)[rest] = G(rest)[rest]
      <4> HIDE DEF G, x, rest, y, g, without
      <4>1. U \in SUBSET (1..n) /\ rest \in SUBSET U
        BY <3>1, <3>2
      <4>2. ASSUME NEW a, NEW b, Folds(a, k, s, xs, U), Folds(b, k, s, xs, rest)
            PROVE  a[rest] = b[rest]
        <5>1. Nested(rest, U, n)
          BY <4>1 DEF Nested
        <5> QED BY <5>1, <4>2, FoldsAgree, SMT
      <4> QED BY <2>1, <3>3, <4>2, Zenon
    <3>6. g[U] = FoldStep(k, G(rest)[rest], xs[x])
      BY <2>3
    <3> QED BY <3>4, <3>5, <3>6
  <2> QED BY <2>2, <2>3
<1>6. ASSUME NEW U \in SUBSET T
      PROVE  g[U] = IF U = {} THEN s
                    ELSE FoldStep(k, g[U \ {Max(U)}], xs[Max(U)])
  <2>1. CASE U = {}
    BY <2>1
  <2>2. CASE U # {}
    <3> DEFINE x == Max(U)
               rest == U \ {x}
    <3>1. U \in SUBSET (1..n) /\ x \in U
      BY <1>3, <2>2, LastIsOne
    <3>2. rest \in SUBSET T /\ rest # T
      BY <3>1
    <3>3. G(rest)[rest] = g[rest]
      <4> HIDE DEF G, g, rest
      <4> QED BY <1>5, <3>2
    <3>4. g[U] = FoldStep(k, G(rest)[rest], xs[x])
      BY <2>2
    <3> HIDE DEF G, g, rest
    <3> QED BY <2>2, <3>3, <3>4 DEF rest
  <2> QED BY <2>1, <2>2
<1>7. g = [U \in SUBSET T |-> g[U]]
  <2> HIDE DEF y
  <2> QED OBVIOUS
<1> HIDE DEF g
<1>8. Folds(g, k, s, xs, T)
  BY <1>6, <1>7, Zenon DEF Folds
<1> QED BY <1>8

(* Any of these functions gives the fold.                                  *)
LEMMA FoldValue ==
    ASSUME NEW n \in Nat, NEW k, NEW s, NEW xs, DOMAIN xs = 1..n,
           NEW g, Folds(g, k, s, xs, 1..n)
    PROVE  Fold(k, s, xs) = g[1..n]
<1> DEFINE h == CHOOSE h : Folds(h, k, s, xs, 1..n)
<1>1. Folds(h, k, s, xs, 1..n)
  <2>1. \E f : Folds(f, k, s, xs, 1..n)
    OBVIOUS
  <2> QED BY <2>1
<1>2. Fold(k, s, xs) = h[1..n]
  BY DEF Fold
<1> HIDE DEF h
<1>3. g[1..n] = h[1..n]
  <2>1. Nested(1..n, 1..n, n)
    BY DEF Nested
  <2> QED BY <1>1, <2>1, FoldsAgree, SMT
<1> QED BY <1>2, <1>3

(* What holds at 0 and passes from one number to the next holds up to n.   *)
LEMMA UpTo ==
    ASSUME NEW n \in Nat, NEW T, 0 \in T, \A p \in 0..n : p < n /\ p \in T => p + 1 \in T
    PROVE  \A p \in 0..n : p \in T
<1> DEFINE out == {p \in 0..n : p \notin T}
<1> SUFFICES ASSUME out # {} PROVE FALSE
  OBVIOUS
<1>1. PICK p \in out : \A q \in out : <<q, p>> \notin OpToRel(<, Nat)
  <2>1. out \subseteq Nat
    OBVIOUS
  <2> HIDE DEF out
  <2> QED BY <2>1, WFMin, NatLessThanWellFounded
<1>2. p \in 0..n /\ p # 0 /\ p - 1 \in 0..n /\ p - 1 < n /\ (p - 1) + 1 = p
  OBVIOUS
<1>3. p - 1 \notin out
  <2>1. <<p - 1, p>> \in OpToRel(<, Nat)
    BY <1>2 DEF OpToRel
  <2> QED BY <1>1, <2>1
<1> QED BY <1>2, <1>3

(* The last position of a prefix.                                          *)
LEMMA LastOfPrefix ==
    ASSUME NEW n \in Nat
    PROVE  /\ Max(1..(n + 1)) = n + 1
           /\ (1..(n + 1)) \ {n + 1} = 1..n
           /\ 1..(n + 1) # {}
<1> DEFINE x == Max(1..(n + 1))
<1>1. \E y \in 1..(n + 1) : \A z \in 1..(n + 1) : y >= z
  OBVIOUS
<1>2. x \in 1..(n + 1) /\ \A z \in 1..(n + 1) : x >= z
  BY <1>1 DEF Max
<1> HIDE DEF x
<1>3. x = n + 1
  BY <1>2
<1> QED BY <1>3 DEF x

(* The states a fold passes through.                                       *)
Passes(t, k, s, xs, n) ==
    /\ t[0] = s
    /\ \A p \in 0..n : p < n => t[p + 1] = FoldStep(k, t[p], xs[p + 1])
    /\ t[n] = Fold(k, s, xs)

(* Every fold passes through some.                                         *)
LEMMA FoldPasses ==
    ASSUME NEW n \in Nat, NEW k, NEW s, NEW xs, DOMAIN xs = 1..n
    PROVE  \E t : Passes(t, k, s, xs, n)
<1>1. PICK g : Folds(g, k, s, xs, 1..n)
  BY FoldsExist
<1> DEFINE t == [p \in 0..n |-> g[1..p]]
<1>2. t[n] = Fold(k, s, xs)
  BY <1>1, FoldValue
<1>3. t[0] = s
  <2>1. 1..0 = {} /\ {} \in SUBSET (1..n)
    OBVIOUS
  <2>2. g[{}] = s
    BY <1>1, <2>1 DEF Folds
  <2> QED BY <2>1, <2>2
<1>4. ASSUME NEW p \in 0..n, p < n PROVE t[p + 1] = FoldStep(k, t[p], xs[p + 1])
  <2>1. p \in Nat /\ p + 1 \in 0..n /\ 1..(p + 1) \in SUBSET (1..n)
    BY <1>4
  <2>2. Max(1..(p + 1)) = p + 1 /\ (1..(p + 1)) \ {p + 1} = 1..p /\ 1..(p + 1) # {}
    BY <2>1, LastOfPrefix
  <2>3. g[1..(p + 1)] = FoldStep(k, g[(1..(p + 1)) \ {Max(1..(p + 1))}],
                                 xs[Max(1..(p + 1))])
    BY <1>1, <2>1, <2>2 DEF Folds
  <2> QED BY <2>1, <2>2, <2>3
<1> HIDE DEF t
<1> QED BY <1>2, <1>3, <1>4 DEF Passes

(* The fold of nothing.                                                    *)
LEMMA FoldNone == ASSUME NEW k, NEW s, NEW xs, DOMAIN xs = 1..0 PROVE Fold(k, s, xs) = s
<1>1. PICK t : Passes(t, k, s, xs, 0)
  BY FoldPasses
<1> QED BY <1>1 DEF Passes

(* One more is one more step.                                              *)
LEMMA FoldLast ==
    ASSUME NEW n \in Nat, NEW k, NEW s, NEW xs, DOMAIN xs = 1..(n + 1),
           NEW ys, DOMAIN ys = 1..n, \A p \in 1..n : ys[p] = xs[p]
    PROVE  Fold(k, s, xs) = FoldStep(k, Fold(k, s, ys), xs[n + 1])
<1>1. PICK t : Passes(t, k, s, xs, n + 1)
  <2>1. n + 1 \in Nat
    OBVIOUS
  <2> QED BY <2>1, FoldPasses
<1>2. PICK u : Passes(u, k, s, ys, n)
  BY FoldPasses
<1> DEFINE T == {p \in 0..n : t[p] = u[p]}
<1>3. \A p \in 0..n : p \in T
  <2>1. 0 \in T
    BY <1>1, <1>2 DEF Passes
  <2>2. ASSUME NEW p \in 0..n, p < n, p \in T PROVE p + 1 \in T
    <3>1. p \in 0..(n + 1) /\ p < n + 1 /\ p + 1 \in 1..n /\ p + 1 \in 0..n
      BY <2>2
    <3>2. t[p + 1] = FoldStep(k, t[p], xs[p + 1]) /\ u[p + 1] = FoldStep(k, u[p], ys[p + 1])
      BY <1>1, <1>2, <2>2, <3>1 DEF Passes
    <3>3. t[p] = u[p] /\ xs[p + 1] = ys[p + 1]
      BY <2>2, <3>1
    <3> QED BY <3>1, <3>2, <3>3
  <2> HIDE DEF T
  <2> QED BY <2>1, <2>2, UpTo
<1>4. t[n + 1] = FoldStep(k, t[n], xs[n + 1]) /\ t[n + 1] = Fold(k, s, xs)
  <2>1. n \in 0..(n + 1) /\ n < n + 1
    OBVIOUS
  <2> QED BY <1>1, <2>1 DEF Passes
<1>5. t[n] = u[n] /\ u[n] = Fold(k, s, ys)
  <2>1. n \in 0..n
    OBVIOUS
  <2> QED BY <1>2, <1>3, <2>1 DEF Passes
<1> QED BY <1>4, <1>5

(* The fold of a sequence and one more.                                    *)
LEMMA FoldAppend ==
    ASSUME NEW k, NEW s, NEW xs, IsSeq(xs), NEW x
    PROVE  Fold(k, s, Append(xs, x)) = FoldStep(k, Fold(k, s, xs), x)
<1> DEFINE n == Len(xs)
           ys == Append(xs, x)
<1>1. /\ n \in Nat /\ DOMAIN xs = 1..n /\ DOMAIN ys = 1..(n + 1)
      /\ ys[n + 1] = x /\ \A p \in 1..n : xs[p] = ys[p]
  BY DEF IsSeq
<1> HIDE DEF n, ys
<1>2. Fold(k, s, ys) = FoldStep(k, Fold(k, s, xs), ys[n + 1])
  BY <1>1, FoldLast
<1> QED BY <1>1, <1>2 DEF ys

-----------------------------------------------------------------------------
(* The folds of the modules are these.                                     *)
LEMMA MergeFold ==
    ASSUME NEW n \in Nat, NEW s, NEW xs, DOMAIN xs = 1..n
    PROVE  A!FoldLeft(A!Merge, s, xs) = Fold("merge", s, xs)
<1> DEFINE P(g) == g = [T \in SUBSET (DOMAIN xs) |->
                          IF T = {} THEN s ELSE A!Merge(g[T \ {A!Max(T)}], xs[A!Max(T)])]
<1>1. A!FoldLeft(A!Merge, s, xs) = (CHOOSE g : P(g))[DOMAIN xs]
  BY DEF A!FoldLeft, A!MapThenFoldSet
<1>2. ASSUME NEW g PROVE P(g) <=> Folds(g, "merge", s, xs, 1..n)
  <2> DEFINE one(T) == IF T = {} THEN s ELSE A!Merge(g[T \ {A!Max(T)}], xs[A!Max(T)])
             two(T) == IF T = {} THEN s ELSE FoldStep("merge", g[T \ {Max(T)}], xs[Max(T)])
  <2>1. \A T : one(T) = two(T)
    BY DEF FoldStep, A!Max, Max
  <2>2. (g = [T \in SUBSET (1..n) |-> one(T)]) <=> (g = [T \in SUBSET (1..n) |-> two(T)])
    <3> HIDE DEF one, two
    <3> QED BY <2>1
  <2> QED BY <2>2 DEF Folds
<1>3. P(CHOOSE g : P(g))
  <2>1. \E g : P(g)
    BY <1>2, FoldsExist
  <2> HIDE DEF P
  <2> QED BY <2>1
<1>4. Folds(CHOOSE g : P(g), "merge", s, xs, 1..n)
  BY <1>2, <1>3
<1> HIDE DEF P
<1> QED BY <1>1, <1>4, FoldValue

(* The calls of an event, as the aggregator takes them.                    *)
LEMMA ToolFold ==
    ASSUME NEW n \in Nat, NEW s, NEW xs, DOMAIN xs = 1..n
    PROVE  A!FoldLeft(A!AppendTool, s, xs) = Fold("tool", s, xs)
<1> DEFINE P(g) == g = [T \in SUBSET (DOMAIN xs) |->
                          IF T = {} THEN s ELSE A!AppendTool(g[T \ {A!Max(T)}], xs[A!Max(T)])]
<1>1. A!FoldLeft(A!AppendTool, s, xs) = (CHOOSE g : P(g))[DOMAIN xs]
  BY DEF A!FoldLeft, A!MapThenFoldSet
<1>2. ASSUME NEW g PROVE P(g) <=> Folds(g, "tool", s, xs, 1..n)
  <2> DEFINE one(T) == IF T = {} THEN s ELSE A!AppendTool(g[T \ {A!Max(T)}], xs[A!Max(T)])
             two(T) == IF T = {} THEN s ELSE FoldStep("tool", g[T \ {Max(T)}], xs[Max(T)])
  <2>1. \A T : one(T) = two(T)
    BY DEF FoldStep, A!Max, Max
  <2>2. (g = [T \in SUBSET (1..n) |-> one(T)]) <=> (g = [T \in SUBSET (1..n) |-> two(T)])
    <3> HIDE DEF one, two
    <3> QED BY <2>1
  <2> QED BY <2>2 DEF Folds
<1>3. P(CHOOSE g : P(g))
  <2>1. \E g : P(g)
    BY <1>2, FoldsExist
  <2> HIDE DEF P
  <2> QED BY <2>1
<1>4. Folds(CHOOSE g : P(g), "tool", s, xs, 1..n)
  BY <1>2, <1>3
<1> HIDE DEF P
<1> QED BY <1>1, <1>4, FoldValue

(* The calls of a group, as the encoder sends them.                        *)
LEMMA EmitFold ==
    ASSUME NEW n \in Nat, NEW s, NEW xs, DOMAIN xs = 1..n
    PROVE  A!FoldLeft(A!EmitTool, s, xs) = Fold("emit", s, xs)
<1> DEFINE P(g) == g = [T \in SUBSET (DOMAIN xs) |->
                          IF T = {} THEN s ELSE A!EmitTool(g[T \ {A!Max(T)}], xs[A!Max(T)])]
<1>1. A!FoldLeft(A!EmitTool, s, xs) = (CHOOSE g : P(g))[DOMAIN xs]
  BY DEF A!FoldLeft, A!MapThenFoldSet
<1>2. ASSUME NEW g PROVE P(g) <=> Folds(g, "emit", s, xs, 1..n)
  <2> DEFINE one(T) == IF T = {} THEN s ELSE A!EmitTool(g[T \ {A!Max(T)}], xs[A!Max(T)])
             two(T) == IF T = {} THEN s ELSE FoldStep("emit", g[T \ {Max(T)}], xs[Max(T)])
  <2>1. \A T : one(T) = two(T)
    BY DEF FoldStep, A!Max, Max
  <2>2. (g = [T \in SUBSET (1..n) |-> one(T)]) <=> (g = [T \in SUBSET (1..n) |-> two(T)])
    <3> HIDE DEF one, two
    <3> QED BY <2>1
  <2> QED BY <2>2 DEF Folds
<1>3. P(CHOOSE g : P(g))
  <2>1. \E g : P(g)
    BY <1>2, FoldsExist
  <2> HIDE DEF P
  <2> QED BY <2>1
<1>4. Folds(CHOOSE g : P(g), "emit", s, xs, 1..n)
  BY <1>2, <1>3
<1> HIDE DEF P
<1> QED BY <1>1, <1>4, FoldValue

(* The events of an answer, as they are collected.                         *)
LEMMA EventFold ==
    ASSUME NEW n \in Nat, NEW s, NEW xs, DOMAIN xs = 1..n
    PROVE  FoldLeft(A!Aggregate, s, xs) = Fold("event", s, xs)
<1> DEFINE P(g) == g = [T \in SUBSET (DOMAIN xs) |->
                          IF T = {} THEN s ELSE A!Aggregate(g[T \ {Max(T)}], xs[Max(T)])]
<1>1. FoldLeft(A!Aggregate, s, xs) = (CHOOSE g : P(g))[DOMAIN xs]
  BY DEF FoldLeft, MapThenFoldSet
<1>2. ASSUME NEW g PROVE P(g) <=> Folds(g, "event", s, xs, 1..n)
  <2> DEFINE one(T) == IF T = {} THEN s ELSE A!Aggregate(g[T \ {Max(T)}], xs[Max(T)])
             two(T) == IF T = {} THEN s ELSE FoldStep("event", g[T \ {Max(T)}], xs[Max(T)])
  <2>1. \A T : one(T) = two(T)
    BY DEF FoldStep
  <2>2. (g = [T \in SUBSET (1..n) |-> one(T)]) <=> (g = [T \in SUBSET (1..n) |-> two(T)])
    <3> HIDE DEF one, two
    <3> QED BY <2>1
  <2> QED BY <2>2 DEF Folds
<1>3. P(CHOOSE g : P(g))
  <2>1. \E g : P(g)
    BY <1>2, FoldsExist
  <2> HIDE DEF P
  <2> QED BY <2>1
<1>4. Folds(CHOOSE g : P(g), "event", s, xs, 1..n)
  BY <1>2, <1>3
<1> HIDE DEF P
<1> QED BY <1>1, <1>4, FoldValue

(* The calls of an event, as OpenAI chunks number them.                    *)
LEMMA IndexFold ==
    ASSUME NEW n \in Nat, NEW s, NEW xs, DOMAIN xs = 1..n
    PROVE  O!FoldLeft(O!IndexCall, s, xs) = Fold("index", s, xs)
<1> DEFINE P(g) == g = [T \in SUBSET (DOMAIN xs) |->
                          IF T = {} THEN s ELSE O!IndexCall(g[T \ {O!Max(T)}], xs[O!Max(T)])]
<1>1. O!FoldLeft(O!IndexCall, s, xs) = (CHOOSE g : P(g))[DOMAIN xs]
  BY DEF O!FoldLeft, O!MapThenFoldSet
<1>2. ASSUME NEW g PROVE P(g) <=> Folds(g, "index", s, xs, 1..n)
  <2> DEFINE one(T) == IF T = {} THEN s ELSE O!IndexCall(g[T \ {O!Max(T)}], xs[O!Max(T)])
             two(T) == IF T = {} THEN s ELSE FoldStep("index", g[T \ {Max(T)}], xs[Max(T)])
  <2>1. \A T : one(T) = two(T)
    BY DEF FoldStep, O!Max, Max
  <2>2. (g = [T \in SUBSET (1..n) |-> one(T)]) <=> (g = [T \in SUBSET (1..n) |-> two(T)])
    <3> HIDE DEF one, two
    <3> QED BY <2>1
  <2> QED BY <2>2 DEF Folds
<1>3. P(CHOOSE g : P(g))
  <2>1. \E g : P(g)
    BY <1>2, FoldsExist
  <2> HIDE DEF P
  <2> QED BY <2>1
<1>4. Folds(CHOOSE g : P(g), "index", s, xs, 1..n)
  BY <1>2, <1>3
<1> HIDE DEF P
<1> QED BY <1>1, <1>4, FoldValue

(* The calls of an event, as the OpenAI aggregator takes them.             *)
LEMMA CallFold ==
    ASSUME NEW n \in Nat, NEW s, NEW xs, DOMAIN xs = 1..n
    PROVE  O!FoldLeft(O!AddCall, s, xs) = Fold("call", s, xs)
<1> DEFINE P(g) == g = [T \in SUBSET (DOMAIN xs) |->
                          IF T = {} THEN s ELSE O!AddCall(g[T \ {O!Max(T)}], xs[O!Max(T)])]
<1>1. O!FoldLeft(O!AddCall, s, xs) = (CHOOSE g : P(g))[DOMAIN xs]
  BY DEF O!FoldLeft, O!MapThenFoldSet
<1>2. ASSUME NEW g PROVE P(g) <=> Folds(g, "call", s, xs, 1..n)
  <2> DEFINE one(T) == IF T = {} THEN s ELSE O!AddCall(g[T \ {O!Max(T)}], xs[O!Max(T)])
             two(T) == IF T = {} THEN s ELSE FoldStep("call", g[T \ {Max(T)}], xs[Max(T)])
  <2>1. \A T : one(T) = two(T)
    BY DEF FoldStep, O!Max, Max
  <2>2. (g = [T \in SUBSET (1..n) |-> one(T)]) <=> (g = [T \in SUBSET (1..n) |-> two(T)])
    <3> HIDE DEF one, two
    <3> QED BY <2>1
  <2> QED BY <2>2 DEF Folds
<1>3. P(CHOOSE g : P(g))
  <2>1. \E g : P(g)
    BY <1>2, FoldsExist
  <2> HIDE DEF P
  <2> QED BY <2>1
<1>4. Folds(CHOOSE g : P(g), "call", s, xs, 1..n)
  BY <1>2, <1>3
<1> HIDE DEF P
<1> QED BY <1>1, <1>4, FoldValue

(* The events of an answer, as the OpenAI aggregator takes them.           *)
LEMMA AnswerFold ==
    ASSUME NEW n \in Nat, NEW s, NEW xs, DOMAIN xs = 1..n
    PROVE  FoldLeft(O!Add, s, xs) = Fold("answer", s, xs)
<1> DEFINE P(g) == g = [T \in SUBSET (DOMAIN xs) |->
                          IF T = {} THEN s ELSE O!Add(g[T \ {Max(T)}], xs[Max(T)])]
<1>1. FoldLeft(O!Add, s, xs) = (CHOOSE g : P(g))[DOMAIN xs]
  BY DEF FoldLeft, MapThenFoldSet
<1>2. ASSUME NEW g PROVE P(g) <=> Folds(g, "answer", s, xs, 1..n)
  <2> DEFINE one(T) == IF T = {} THEN s ELSE O!Add(g[T \ {Max(T)}], xs[Max(T)])
             two(T) == IF T = {} THEN s ELSE FoldStep("answer", g[T \ {Max(T)}], xs[Max(T)])
  <2>1. \A T : one(T) = two(T)
    BY DEF FoldStep
  <2>2. (g = [T \in SUBSET (1..n) |-> one(T)]) <=> (g = [T \in SUBSET (1..n) |-> two(T)])
    <3> HIDE DEF one, two
    <3> QED BY <2>1
  <2> QED BY <2>2 DEF Folds
<1>3. P(CHOOSE g : P(g))
  <2>1. \E g : P(g)
    BY <1>2, FoldsExist
  <2> HIDE DEF P
  <2> QED BY <2>1
<1>4. Folds(CHOOSE g : P(g), "answer", s, xs, 1..n)
  BY <1>2, <1>3
<1> HIDE DEF P
<1> QED BY <1>1, <1>4, FoldValue

(* The chunks, as a client of Anthropic assembles them.                    *)
LEMMA AssembleFold ==
    ASSUME NEW n \in Nat, NEW s, NEW xs, DOMAIN xs = 1..n
    PROVE  FoldLeft(Assemble, s, xs) = Fold("assemble", s, xs)
<1> DEFINE P(g) == g = [T \in SUBSET (DOMAIN xs) |->
                          IF T = {} THEN s ELSE Assemble(g[T \ {Max(T)}], xs[Max(T)])]
<1>1. FoldLeft(Assemble, s, xs) = (CHOOSE g : P(g))[DOMAIN xs]
  BY DEF FoldLeft, MapThenFoldSet
<1>2. ASSUME NEW g PROVE P(g) <=> Folds(g, "assemble", s, xs, 1..n)
  <2>1. \A t, x : FoldStep("assemble", t, x) = Assemble(t, x)
    BY DEF FoldStep
  <2> QED BY <2>1, Zenon DEF Folds
<1>3. P(CHOOSE g : P(g))
  <2>1. \E g : P(g)
    BY <1>2, FoldsExist
  <2> HIDE DEF P
  <2> QED BY <2>1
<1>4. Folds(CHOOSE g : P(g), "assemble", s, xs, 1..n)
  BY <1>2, <1>3
<1> HIDE DEF P
<1> QED BY <1>1, <1>4, FoldValue

(* The pieces of calls in a chunk, as a client of OpenAI adds them.        *)
LEMMA PieceFold ==
    ASSUME NEW n \in Nat, NEW s, NEW xs, DOMAIN xs = 1..n
    PROVE  FoldLeft(AddPiece, s, xs) = Fold("piece", s, xs)
<1> DEFINE P(g) == g = [T \in SUBSET (DOMAIN xs) |->
                          IF T = {} THEN s ELSE AddPiece(g[T \ {Max(T)}], xs[Max(T)])]
<1>1. FoldLeft(AddPiece, s, xs) = (CHOOSE g : P(g))[DOMAIN xs]
  BY DEF FoldLeft, MapThenFoldSet
<1>2. ASSUME NEW g PROVE P(g) <=> Folds(g, "piece", s, xs, 1..n)
  <2>1. \A t, x : FoldStep("piece", t, x) = AddPiece(t, x)
    BY DEF FoldStep
  <2> QED BY <2>1, Zenon DEF Folds
<1>3. P(CHOOSE g : P(g))
  <2>1. \E g : P(g)
    BY <1>2, FoldsExist
  <2> HIDE DEF P
  <2> QED BY <2>1
<1>4. Folds(CHOOSE g : P(g), "piece", s, xs, 1..n)
  BY <1>2, <1>3
<1> HIDE DEF P
<1> QED BY <1>1, <1>4, FoldValue

(* The chunks, as a client of OpenAI hears them.                           *)
LEMMA HearFold ==
    ASSUME NEW n \in Nat, NEW s, NEW xs, DOMAIN xs = 1..n
    PROVE  FoldLeft(Hear, s, xs) = Fold("hear", s, xs)
<1> DEFINE P(g) == g = [T \in SUBSET (DOMAIN xs) |->
                          IF T = {} THEN s ELSE Hear(g[T \ {Max(T)}], xs[Max(T)])]
<1>1. FoldLeft(Hear, s, xs) = (CHOOSE g : P(g))[DOMAIN xs]
  BY DEF FoldLeft, MapThenFoldSet
<1>2. ASSUME NEW g PROVE P(g) <=> Folds(g, "hear", s, xs, 1..n)
  <2>1. \A t, x : FoldStep("hear", t, x) = Hear(t, x)
    BY DEF FoldStep
  <2> QED BY <2>1, Zenon DEF Folds
<1>3. P(CHOOSE g : P(g))
  <2>1. \E g : P(g)
    BY <1>2, FoldsExist
  <2> HIDE DEF P
  <2> QED BY <2>1
<1>4. Folds(CHOOSE g : P(g), "hear", s, xs, 1..n)
  BY <1>2, <1>3
<1> HIDE DEF P
<1> QED BY <1>1, <1>4, FoldValue

-----------------------------------------------------------------------------
(* The encoder of Anthropic chunks.                                        *)
Enc(s) ==
    /\ s \in [bad : {s.bad}, finish : {s.finish}, usage : {s.usage},
              indexes : {s.indexes}, tools : {s.tools}, pending : {s.pending},
              out : {s.out}, started : {s.started}, finished : {s.finished},
              next : {s.next}, scalar : {s.scalar}]
    /\ Plain(s.out) /\ IsFiniteSet(s.pending)

(* Changing fields leaves an encoder.                                      *)
LEMMA EncWith ==
    ASSUME NEW s, Enc(s), NEW out, Plain(out), NEW pending, IsFiniteSet(pending),
           NEW bad, NEW finish, NEW usage, NEW indexes, NEW tools, NEW started,
           NEW finished, NEW next, NEW scalar,
           NEW t, t = [bad |-> bad, finish |-> finish, usage |-> usage,
                       indexes |-> indexes, tools |-> tools, pending |-> pending,
                       out |-> out, started |-> started, finished |-> finished,
                       next |-> next, scalar |-> scalar]
    PROVE  Enc(t)
BY DEF Enc

(* A fresh encoder is one.                                                 *)
LEMMA EncoderFresh == Enc(A!Encoder)
<1>1. Plain(<< >>) /\ IsFiniteSet({})
  BY SeqNone, FS_EmptySet DEF Plain
<1> QED BY <1>1 DEF A!Encoder, Enc

(* A violation, and what an event says of the whole message.               *)
LEMMA EncViolation == ASSUME NEW s, Enc(s) PROVE Enc(A!Violation(s)) /\ A!Violation(s).bad
BY DEF Enc, A!Violation

(* What an event says of the message as a whole.                           *)
LEMMA EncCapture == ASSUME NEW s, Enc(s), NEW e PROVE Enc(A!Capture(s, e))
BY EncViolation DEF Enc, A!Capture

(* The beginning of the message.                                           *)
LEMMA EncStarted == ASSUME NEW s, Enc(s) PROVE Enc(A!EnsureStarted(s))
<1> DEFINE c == [type |-> "message_start"]
<1>1. Plain(Append(s.out, c))
  BY SeqAppend DEF Enc, Plain
<1> HIDE DEF c
<1>2. CASE ~s.started
  BY <1>1, <1>2 DEF Enc, A!EnsureStarted, c
<1>3. CASE s.started
  BY <1>3 DEF A!EnsureStarted
<1> QED BY <1>2, <1>3

(* The end of a block of thinking or text.                                 *)
LEMMA EncScalarClosed == ASSUME NEW s, Enc(s) PROVE Enc(A!CloseScalar(s))
<1> DEFINE sign == IF s.scalar.type = "thinking"
                   THEN <<A!Signature(s.scalar.index, s.scalar.value)>> ELSE << >>
           stop == <<A!Stop(s.scalar.index)>>
<1>1. Plain(sign) /\ Plain(stop)
  <2>1. \A i, v : A!Signature(i, v).type # "error" /\ A!Stop(i).type # "error"
    BY DEF A!Signature, A!Stop
  <2> QED BY <2>1, SeqSingle, SeqNone DEF Plain
<1> HIDE DEF sign, stop
<1>2. Plain((s.out \o sign) \o stop)
  BY <1>1, SeqConcat DEF Plain, Enc
<1>3. s.scalar.type # None =>
        A!CloseScalar(s) = [s EXCEPT !.scalar = A!NoScalar, !.out = (s.out \o sign) \o stop]
  BY DEF A!CloseScalar, sign, stop
<1>4. CASE s.scalar.type # None
  BY <1>2, <1>3, <1>4 DEF Enc
<1>5. CASE s.scalar.type = None
  BY <1>5 DEF A!CloseScalar
<1> QED BY <1>4, <1>5

(* The sizes of the encoder's sets are sizes.                              *)
LEMMA SameCardinality == ASSUME NEW S PROVE A!Cardinality(S) = Cardinality(S)
BY Zenon DEF A!Cardinality, Cardinality, A!IsFiniteSet, IsFiniteSet

(* The chunks of one tool.                                                 *)
LEMMA EncEmitted == ASSUME NEW s, Enc(s), NEW i PROVE Enc(A!EmitTool(s, i))
<1> DEFINE a == A!Start(s.next, A!ToolBlock(s.tools[i], << >>))
           b == A!Delta(s.next, s.tools[i].args)
           c == A!Stop(s.next)
           out == Append(Append(Append(s.out, a), b), c)
<1>1. a.type # "error" /\ b.type # "error" /\ c.type # "error"
  BY DEF A!Start, A!Delta, A!Stop
<1>2. A!EmitTool(s, i) = [s EXCEPT !.next = @ + 1, !.out = s.out \o <<a, b, c>>]
  BY DEF A!EmitTool
<1> HIDE DEF a, b, c
<1>3. s.out \o <<a, b, c>> = out
  BY SeqFew DEF Enc, Plain
<1>4. Plain(out)
  BY <1>1, SeqAppend DEF Plain, Enc
<1> HIDE DEF out
<1> QED BY <1>2, <1>3, <1>4 DEF Enc

(* What a fold keeps when each of its steps does.                          *)
LEMMA EncFolded ==
    ASSUME NEW k, \A t, x : Enc(t) => Enc(FoldStep(k, t, x)),
           NEW s, Enc(s), NEW n \in Nat, NEW xs, DOMAIN xs = 1..n
    PROVE  Enc(Fold(k, s, xs))
<1>1. PICK t : Passes(t, k, s, xs, n)
  BY FoldPasses
<1> DEFINE T == {p \in 0..n : Enc(t[p])}
<1>2. 0 \in T
  BY <1>1 DEF Passes
<1>3. ASSUME NEW p \in 0..n, p < n, p \in T PROVE p + 1 \in T
  <2>1. t[p + 1] = FoldStep(k, t[p], xs[p + 1]) /\ p + 1 \in 0..n
    BY <1>1, <1>3 DEF Passes
  <2> QED BY <1>3, <2>1
<1> HIDE DEF T
<1>4. n \in T
  <2>1. n \in 0..n
    OBVIOUS
  <2> QED BY <1>2, <1>3, <2>1, UpTo
<1> QED BY <1>1, <1>4 DEF T, Passes

(* The indexes of a finite set, in order.                                  *)
LEMMA OrderedOnce ==
    ASSUME NEW S, IsFiniteSet(S)
    PROVE  /\ Cardinality(S) \in Nat
           /\ DOMAIN A!ByIndex(S) = 1..Cardinality(S)
BY FS_CardinalityType, SameCardinality DEF A!ByIndex

(* The blocks of a group of tools.                                         *)
LEMMA EncFlushed == ASSUME NEW s, Enc(s) PROVE Enc(A!FlushGroup(s))
<1> DEFINE c == A!CloseGroup(s)
<1>1. Enc(c)
  BY EncViolation, FS_EmptySet DEF A!CloseGroup, Enc, A!Violation
<1> HIDE DEF c
<1>2. Enc(A!FoldLeft(A!EmitTool, c, A!Group(s)))
  <2>1. Cardinality(s.pending) \in Nat /\ DOMAIN A!Group(s) = 1..Cardinality(s.pending)
    BY OrderedOnce DEF Enc, A!Group
  <2>2. \A t, x : Enc(t) => Enc(FoldStep("emit", t, x))
    BY EncEmitted DEF FoldStep
  <2>3. A!FoldLeft(A!EmitTool, c, A!Group(s)) = Fold("emit", c, A!Group(s))
    BY <2>1, EmitFold
  <2> QED BY <1>1, <2>1, <2>2, <2>3, EncFolded
<1>3. A!FlushGroup(s) \in {c, A!FoldLeft(A!EmitTool, c, A!Group(s))}
  BY DEF A!FlushGroup, c
<1> QED BY <1>1, <1>2, <1>3

(* A piece of thinking or text, in the block it continues or a new one.    *)
LEMMA EncScalarEmitted == ASSUME NEW s, Enc(s), NEW part PROVE Enc(A!EmitScalar(s, part))
<1> DEFINE f == A!FlushGroup(s)
           c == A!CloseScalar(f)
           start == A!Start(c.next, [type |-> part.type, value |-> << >>])
           opened == [c EXCEPT !.next = @ + 1,
                        !.scalar = [type |-> part.type, index |-> c.next, value |-> << >>],
                        !.out = Append(@, start)]
           b == IF A!Continued(f.scalar, part.type) THEN f ELSE opened
           delta == A!Delta(b.scalar.index, part.value)
<1>1. Enc(f) /\ Enc(c)
  BY EncFlushed, EncScalarClosed
<1>2. \A i, v : A!Start(i, v).type # "error" /\ A!Delta(i, v).type # "error"
  BY DEF A!Start, A!Delta
<1>3. Enc(opened)
  <2>1. Plain(Append(c.out, start))
    BY <1>1, <1>2, SeqAppend DEF Plain, Enc
  <2> HIDE DEF c, start
  <2> QED BY <1>1, <2>1 DEF Enc
<1>4. Enc(b)
  BY <1>1, <1>3
<1>5. A!EmitScalar(s, part) = IF part.value = << >> THEN s
          ELSE IF f.bad THEN f
          ELSE [b EXCEPT !.scalar.value = @ \o part.value, !.out = Append(@, delta)]
  BY DEF A!EmitScalar
<1>6. Plain(Append(b.out, delta))
  <2>1. Plain(b.out) /\ delta.type # "error"
    BY <1>2, <1>4 DEF Enc
  <2> HIDE DEF b, delta
  <2> QED BY <2>1, SeqAppend DEF Plain
<1> HIDE DEF b, f, c, delta
<1>7. \A out, scalar : Plain(out) => Enc([b EXCEPT !.scalar = scalar, !.out = out])
  BY <1>4 DEF Enc
<1>8. \A out, v : Plain(out) => Enc([b EXCEPT !.scalar.value = v, !.out = out])
  BY <1>7
<1> QED BY <1>1, <1>5, <1>6, <1>8

(* A piece of a tool call.                                                 *)
LEMMA EncMerged == ASSUME NEW s, Enc(s), NEW call PROVE Enc(A!Merge(s, call))
<1> DEFINE i == A!Resolve(s.indexes, call).current
           With(x, t) == [s EXCEPT !.indexes = x, !.pending = @ \union {i}, !.tools = t]
<1>1. IsFiniteSet(s.pending \union {i})
  BY FS_AddElement DEF Enc
<1>2. ASSUME NEW x, NEW t PROVE Enc(With(x, t))
  <2> HIDE DEF i
  <2> QED BY <1>1 DEF Enc
<1>3. A!Merge(s, call) = A!Violation(s) \/ \E x, t : A!Merge(s, call) = With(x, t)
  BY DEF A!Merge
<1>4. Enc(A!Violation(s))
  BY EncViolation
<1> HIDE DEF With
<1> QED BY <1>2, <1>3, <1>4

(* An event, encoded, leaves an encoder.                                   *)
LEMMA EncEncoded ==
    ASSUME NEW s, Enc(s), NEW e, IsSeq(e.tools)
    PROVE  Enc(A!Encode(s, e))
<1> DEFINE silent == [s EXCEPT !.out = << >>]
           c == A!Capture(silent, e)
           t == A!EmitScalar(A!EmitScalar(A!EnsureStarted(c), A!Thinking(e)), A!Text(e))
<1>1. Enc(silent)
  BY SeqNone DEF Enc, Plain
<1>2. Enc(c)
  BY <1>1, EncCapture
<1>3. Enc(t)
  <2> HIDE DEF c
  <2>1. Enc(A!EnsureStarted(c))
    BY <1>2, EncStarted
  <2> QED BY <2>1, EncScalarEmitted
<1>4. Enc(A!FoldLeft(A!Merge, A!CloseScalar(t), e.tools))
  <2> HIDE DEF t
  <2>1. Enc(A!CloseScalar(t))
    BY <1>3, EncScalarClosed
  <2>2. Len(e.tools) \in Nat /\ DOMAIN e.tools = 1..Len(e.tools)
    BY DEF IsSeq
  <2>3. \A u, x : Enc(u) => Enc(FoldStep("merge", u, x))
    BY EncMerged DEF FoldStep
  <2> QED BY <2>1, <2>2, <2>3, EncFolded, MergeFold
<1>5. Enc(A!Violation(s))
  BY EncViolation
<1>6. A!Encode(s, e) \in {silent, A!Violation(s), c, t,
                          A!FoldLeft(A!Merge, A!CloseScalar(t), e.tools)}
  BY Zenon DEF A!Encode
<1> HIDE DEF silent, c, t
<1> QED BY <1>1, <1>2, <1>3, <1>4, <1>5, <1>6

(* A stream that is finalised ends as Anthropic's do.                      *)
LEMMA EncFinalized ==
    ASSUME NEW s, Enc(s)
    PROVE  /\ Enc(A!FinalizeEncode(s))
           /\ ~A!FinalizeEncode(s).bad =>
                LET out == A!FinalizeEncode(s).out
                IN out # << >> /\ EndsWell(out[Len(out)])
<1> DEFINE f == A!FlushGroup(A!CloseScalar(A!EnsureStarted([s EXCEPT !.out = << >>])))
           finale == <<[type |-> "message_delta", stop |-> f.finish],
                       [type |-> "message_stop"]>>
           whole == [f EXCEPT !.finished = TRUE, !.out = f.out \o finale]
<1>1. Enc(f)
  <2>1. Enc([s EXCEPT !.out = << >>])
    BY SeqNone DEF Enc, Plain
  <2>2. Enc(A!EnsureStarted([s EXCEPT !.out = << >>]))
    BY <2>1, EncStarted
  <2>3. Enc(A!CloseScalar(A!EnsureStarted([s EXCEPT !.out = << >>])))
    BY <2>2, EncScalarClosed
  <2> QED BY <2>3, EncFlushed
<1>2. A!FinalizeEncode(s) = IF s.finished \/ ~A!Complete(s) THEN A!Violation(s)
                            ELSE IF f.bad THEN f ELSE whole
  BY Zenon DEF A!FinalizeEncode
<1> HIDE DEF f
<1>3. Plain(finale) /\ finale # << >> /\ finale[Len(finale)].type = "message_stop"
  <2> DEFINE a == [type |-> "message_delta", stop |-> f.finish]
             b == [type |-> "message_stop"]
  <2>1. a.type # "error" /\ b.type = "message_stop"
    OBVIOUS
  <2> HIDE DEF a, b
  <2>2. <<a, b>> \in Seq({a, b}) /\ Len(<<a, b>>) = 2 /\ DOMAIN <<a, b>> = 1..2
        /\ <<a, b>>[1] = a /\ <<a, b>>[2] = b /\ <<a, b>> # << >>
    OBVIOUS
  <2>3. IsSeq(<<a, b>>)
    BY <2>2, SeqOverRange, Zenon
  <2>4. \A p \in 1..2 : <<a, b>>[p].type # "error"
    <3>1. \A p \in 1..2 : p = 1 \/ p = 2
      OBVIOUS
    <3> QED BY <2>1, <2>2, <3>1
  <2>5. ~HasError(<<a, b>>)
    BY <2>2, <2>4 DEF HasError
  <2>6. Plain(<<a, b>>) /\ <<a, b>> # << >> /\ <<a, b>>[Len(<<a, b>>)].type = "message_stop"
    BY <2>1, <2>2, <2>3, <2>5 DEF Plain
  <2> QED BY <2>6 DEF a, b
<1> HIDE DEF finale
<1>4. Plain(f.out \o finale) /\ (f.out \o finale) # << >>
      /\ (f.out \o finale)[Len(f.out \o finale)].type = "message_stop"
  BY <1>1, <1>3, SeqConcat DEF Enc, Plain
<1>5. Enc(whole) /\ whole.out = f.out \o finale
  BY <1>1, <1>4 DEF Enc
<1>6. Enc(A!Violation(s)) /\ A!Violation(s).bad
  BY EncViolation
<1> HIDE DEF whole
<1> QED BY <1>1, <1>2, <1>4, <1>5, <1>6 DEF EndsWell
-----------------------------------------------------------------------------
(* The state of an OpenAI stream.                                          *)
Passer(s) ==
    /\ s \in [bad : {s.bad}, sawFinish : {s.sawFinish}, indexes : {s.indexes},
              roleSent : {s.roleSent}, out : {s.out}]
    /\ Plain(s.out)

(* A fresh stream is one.                                                  *)
LEMMA PasserFresh == Passer(O!StreamState)
BY SeqNone DEF O!StreamState, Passer, Plain

(* An event is passed on without an error of its own.                      *)
LEMMA PasserPasses ==
    ASSUME NEW s, Passer(s), NEW e
    PROVE  Passer(O!PassOn(s, e))
<1> DEFINE r == O!Indexed(s.indexes, e.tools)
           t == [s EXCEPT !.sawFinish = @ \/ e.finish # None, !.indexes = r.indexes]
           delta == [think |-> e.think, text |-> e.text, tools |-> r.calls]
           role == IF ~t.roleSent /\ (e.role \/ O!HasOutput(e))
                   THEN <<O!Chunk(TRUE, O!NoDelta, None, FALSE)>> ELSE << >>
           rest == IF ~O!HasOutput(e) /\ e.finish = None /\ ~e.usage THEN << >>
                   ELSE <<O!Chunk(FALSE, delta, e.finish, e.usage)>>
<1>1. \A a, b, c, d : O!Chunk(a, b, c, d).type # "error"
  BY DEF O!Chunk
<1>2. Plain(role) /\ Plain(rest)
  <2>1. \A a, b, c, d : Plain(<<O!Chunk(a, b, c, d)>>)
    BY <1>1, SeqSingle DEF Plain
  <2>2. Plain(<< >>)
    BY SeqNone DEF Plain
  <2> QED BY <2>1, <2>2
<1>3. \E sent : O!Normalize(t, e, r.calls) = [t EXCEPT !.roleSent = sent, !.out = role \o rest]
  <2> HIDE DEF t, r
  <2> QED BY Zenon DEF O!Normalize
<1>4. \E saw, i : t = [s EXCEPT !.sawFinish = saw, !.indexes = i]
  <2> HIDE DEF r
  <2> QED BY Zenon
<1>5. Plain(role \o rest)
  <2> HIDE DEF role, rest
  <2> QED BY <1>2, SeqConcat DEF Plain
<1>6. O!PassOn(s, e) = IF e.kind = "note" THEN [s EXCEPT !.out = <<[type |-> "note"]>>]
                       ELSE O!Normalize(t, e, r.calls)
  BY Zenon DEF O!PassOn
<1> HIDE DEF r, t, role, rest
<1>7. Passer(t)
  BY <1>4 DEF Passer
<1>8. Passer(O!Normalize(t, e, r.calls))
  BY <1>3, <1>5, <1>7 DEF Passer
<1>9. Passer([s EXCEPT !.out = <<[type |-> "note"]>>])
  <2>1. Plain(<<[type |-> "note"]>>)
    BY SeqSingle DEF Plain
  <2> QED BY <2>1 DEF Passer
<1> QED BY <1>6, <1>8, <1>9

(* A stream that is finalised ends as OpenAI's do.                         *)
LEMMA PasserFinalized ==
    ASSUME NEW s, Passer(s), NEW done
    PROVE  /\ Passer(O!FinalizeStream(s, done))
           /\ ~O!FinalizeStream(s, done).bad =>
                LET out == O!FinalizeStream(s, done).out
                IN out # << >> /\ EndsWell(out[Len(out)])
<1> DEFINE c == [type |-> "done"]
<1>1. c.type = "done"
  OBVIOUS
<1>2. O!FinalizeStream(s, done) = IF done \/ s.sawFinish THEN [s EXCEPT !.out = <<c>>]
                                  ELSE [s EXCEPT !.bad = TRUE]
  BY DEF O!FinalizeStream
<1> HIDE DEF c
<1>3. Plain(<<c>>) /\ <<c>> # << >> /\ <<c>>[Len(<<c>>)] = c
  BY <1>1, SeqSingle DEF Plain
<1>4. Passer([s EXCEPT !.out = <<c>>]) /\ [s EXCEPT !.out = <<c>>].out = <<c>>
  BY <1>3 DEF Passer
<1>5. Passer([s EXCEPT !.bad = TRUE]) /\ [s EXCEPT !.bad = TRUE].bad
  BY DEF Passer
<1> QED BY <1>1, <1>2, <1>3, <1>4, <1>5 DEF EndsWell
-----------------------------------------------------------------------------
(* What work holds while a stream is read, and what is passed on of it.    *)
Adapter(s) == IF Anthropic THEN Enc(s) ELSE Passer(s)

(* An attempt starts with an adapter of the request's protocol.            *)
LEMMA AdapterFresh == ASSUME req.stream PROVE Adapter(Fresh)
BY EncoderFresh, PasserFresh DEF Adapter, Fresh

(* An event leaves it one.                                                 *)
LEMMA AdapterHandles ==
    ASSUME req.stream, NEW s, Adapter(s), NEW e \in Events
    PROVE  Adapter(Handle(s, e))
BY EncEncoded, PasserPasses, EventsAssumption DEF Adapter, Handle

(* The end of the stream leaves it one, and its last chunk ends the        *)
(* stream.                                                                 *)
LEMMA AdapterFinalizes ==
    ASSUME req.stream, NEW s, Adapter(s), NEW done
    PROVE  /\ Adapter(Finalize(s, done))
           /\ ~Finalize(s, done).bad =>
                LET out == Finalize(s, done).out
                IN out # << >> /\ EndsWell(out[Len(out)])
<1>1. CASE Anthropic
  BY <1>1, EncFinalized DEF Adapter, Finalize
<1>2. CASE ~Anthropic
  BY <1>2, PasserFinalized DEF Adapter, Finalize
<1> QED BY <1>1, <1>2

(* What it passes on are chunks, and no errors.                            *)
LEMMA AdapterPassesOn ==
    ASSUME req.stream, NEW s, Adapter(s)
    PROVE  Chunks(s) = s.out /\ Plain(s.out)
BY DEF Adapter, Enc, Passer, Chunks
-----------------------------------------------------------------------------

(* The response is told to the server by the response's own task: nothing  *)
(* before it starts, its end when the task is done.                        *)
Untold == resp.status = None /\ resp.wire = << >> /\ ~resp.completed

Sending ==
    /\ task.body # "none" => task.first = "ready" /\ main.at \in {"stream", "cleanup"}
    /\ main.at \in {"body", "plain", "first", "stream", "cleanup"}
         /\ task.body \in {"none", "start"} => Untold
    /\ task.body \in {"send", "pull", "final", "done"} => resp.status = 200
    /\ main.at \in {"stream", "cleanup"} => (resp.completed <=> task.body = "done")
    /\ main.raised = "upstream" => main.at \in {"cleanup", "closing"} \union Late
    /\ main.raised = "upstream" /\ main.at = "cleanup" => task.first = "failed"
    /\ main.raised = "upstream" /\ main.at = "closing" => ~resp.completed
    /\ main.at = "answer" => ~resp.completed

(* Who is said to have left has left, or was cancelled; and a response     *)
(* that is not complete has a reason.                                      *)
Departure ==
    /\ stats.gone => ~client.here
    /\ seen => ~client.here \/ client.cancelled # None
    /\ main.raised = "gone" => ~client.here
    /\ main.raised = "cancelled" => client.cancelled # None
    /\ task.watch = "seen" => ~client.here \/ resp.completed
    /\ task.body = "oserror" => ~client.here
    /\ main.at \in {"cleanup", "closing", "finish"} =>
         stats.gone \/ seen \/ main.raised \in Reasons \/ resp.completed
    /\ main.raised = "upstream" /\ main.at = "finish" => resp.completed

(* What the generator works with is the adapter's, and so is what waits to *)
(* be taken; only a generator that reads, or has read all, has any of it.  *)
Working ==
    /\ req.stream /\ gen.at = "stream" => Adapter(work)
    /\ req.stream => Plain(gen.queue)
    /\ gen.at \notin {"stream", "last"} => gen.queue = << >>

(* The chunk held, the chunks behind it and the chunks sent.               *)
Holds == task.body = "send" \/ (task.first = "ready" /\ task.body \in {"none", "start"})

Ending ==
    IF gen.queue # << >> THEN EndsWell(gen.queue[Len(gen.queue)])
    ELSE IF Holds THEN EndsWell(task.held) ELSE Whole(resp.wire)

Undisturbed ==
    /\ ~HasError(resp.wire)
    /\ Holds => task.held.type # "error"
    /\ gen.at = "closed" => task.body \in {"final", "done", "oserror"}
    /\ gen.at = "last" /\ task.body \in {"none", "start", "send", "pull"} => Ending
    /\ task.body \in {"final", "done"} => Whole(resp.wire)

Disturbed ==
    /\ task.body \notin {"none", "start"}
    /\ task.body \in {"send", "pull"} => gen.at = "closed"
    /\ task.body = "send" => task.held = ErrorChunk
    /\ task.body \in {"pull", "final", "done"} => HasError(resp.wire)

Flow ==
    /\ IsSeq(resp.wire)
    /\ task.first \in {"pull", "ready", "failed"} => req.stream
    /\ main.at \in {"first", "stream"} => req.stream
    /\ main.at = "plain" => ~req.stream
    /\ main.at \in {"body", "plain"} \/ task.first = "pull" => ~stats.error
    /\ task.first = "pull" /\ ~stats.error => Undisturbed
    /\ task.first = "ready" => IF stats.error THEN Disturbed ELSE Undisturbed

(* What is told of the response agrees with what the statistics know.      *)
Told ==
    /\ main.at \in {"body", "first", "stream", "cleanup", "closing", "plain"} =>
         reply.status = None
    /\ main.at \in {"closing", "finish"} /\ resp.completed /\ reply.status = None =>
         /\ resp.status = 200
         /\ IF stats.error THEN HasError(resp.wire)
            ELSE Whole(resp.wire) /\ ~HasError(resp.wire)
    /\ main.at \in {"answer", "finish"} /\ reply.status = 200 => ~stats.error
    /\ main.at = "finish" /\ reply.status # None /\ resp.completed =>
         resp.status = reply.status

(* Nothing is in order.                                                    *)
LEMMA PlainNone == Plain(<< >>)
BY SeqNone DEF Plain

(* The chunks of a queue: the first is no error, and the last comes last.  *)
LEMMA PlainRest ==
    ASSUME NEW w, Plain(w), w # << >>
    PROVE  /\ Plain(Tail(w)) /\ Head(w).type # "error"
           /\ IF Tail(w) = << >> THEN Head(w) = w[Len(w)]
              ELSE Tail(w)[Len(Tail(w))] = w[Len(w)]
BY SeqRest DEF Plain

(* Every step keeps what the tasks have told the server.                   *)
LEMMA SendingStep ==
    ASSUME Shapes, Control, Sending, [Next]_vars
    PROVE  Sending'
<1> USE NoneIsNothing DEF Shapes, MainOk, TaskOk, RespOk, Control, Sending, Untold,
        Sleeping, NoTasks, MainAts, Reasons, Statuses, Bodies, Firsts, Late
<1>1. ASSUME NEW error \in {"connect", "sent"}, NoAnswer(error) PROVE Sending'
  BY <1>1 DEF NoAnswer, Runs, Demand, MayRetry
<1>2. CASE UpstreamRefuses
  BY <1>2 DEF UpstreamRefuses, Runs, Demand
<1>3. CASE UpstreamAccepts
  BY <1>3 DEF UpstreamAccepts, Runs, Demand, NotRead
<1>4. ASSUME NEW e \in Events, Reads(e) PROVE Sending'
  BY <1>4 DEF Reads, Runs, Demand, Yields, Fails
<1>5. ASSUME NEW done \in BOOLEAN, StreamEnds(done) PROVE Sending'
  BY <1>5 DEF StreamEnds, Runs, Demand, Yields, Fails
<1>6. CASE ReadFails
  BY <1>6 DEF ReadFails, Runs, Demand, Fails
<1>7. CASE BodyLost
  BY <1>7 DEF BodyLost, Raises
<1>8. ASSUME NEW status \in {400, 401, 500}, Refuses(status) PROVE Sending'
  BY <1>8 DEF Refuses, Goes, Observed
<1>9. CASE Execute
  <2>1. /\ main.at = "body" /\ main'.at \in {"first", "plain"}
        /\ main'.raised = main.raised /\ task'.body = task.body
        /\ UNCHANGED resp
    BY <1>9 DEF Execute, Goes
  <2>2. task.body = "none" /\ Untold /\ main.raised # "upstream"
    BY <2>1
  <2>3. Control /\ Sending
    OBVIOUS
  <2> QED BY ONLY <2>1, <2>2, <2>3 DEF Sending, Untold, Sleeping, Late
<1>10. CASE WaitBeforeRetry
  BY <1>10 DEF WaitBeforeRetry, Runs, Demand
<1>11. CASE FirstChunk
  BY <1>11 DEF FirstChunk
<1>12. CASE FirstFails
  BY <1>12 DEF FirstFails, Observed, Closed
<1>13. CASE NextChunk
  BY <1>13 DEF NextChunk
<1>14. CASE BodyFails
  BY <1>14 DEF BodyFails, Observed, Closed
<1>15. CASE BodyEnds
  BY <1>15 DEF BodyEnds, Closed
<1>16. CASE SendStart
  BY <1>16 DEF SendStart
<1>17. CASE SendChunk
  BY <1>17 DEF SendChunk
<1>18. CASE SendFinal
  BY <1>18 DEF SendFinal
<1>19. CASE SendFails
  BY <1>19 DEF SendFails
<1>20. CASE WatchSees
  BY <1>20 DEF WatchSees
<1>21. CASE AwaitFirst
  BY <1>21 DEF AwaitFirst, Raises, Goes, Departed
<1>22. CASE AwaitStream
  BY <1>22 DEF AwaitStream, StreamOver, StreamDone, StreamGone, Raises, Departed
<1>23. CASE Cleanup
  BY <1>23 DEF Cleanup, Cancelled, Closed, Goes
<1>24. CASE Close
  BY <1>24 DEF Close, CloseCallback, Closed, Goes
<1>25. CASE PlainAnswer
  BY <1>25 DEF PlainAnswer, Closed, Goes
<1>26. CASE PlainFails
  BY <1>26 DEF PlainFails, Goes, Observed
<1>27. CASE SendAnswer
  BY <1>27 DEF SendAnswer, Goes
<1>28. CASE AnswerFails
  BY <1>28 DEF AnswerFails, Raises
<1>29. CASE CompleteResponse
  BY <1>29 DEF CompleteResponse, Goes, OutcomeOf, LeftBehind
<1>30. ASSUME NEW ok \in BOOLEAN, Record(ok) PROVE Sending'
  BY <1>30 DEF Record
<1>31. CASE CompletionReturns
  BY <1>31 DEF CompletionReturns, Goes
<1>32. CASE ClientLeaves
  BY <1>32 DEF ClientLeaves
<1>33. CASE ServerCancels
  <2>1. /\ main.at \in {"first", "stream"} =>
             main'.at = "cleanup" /\ main'.raised = "cancelled" /\ UNCHANGED task
        /\ main.at \in {"cleanup", "plain", "body", "answer", "closing"} =>
             main'.at = "finish" /\ main'.raised = "cancelled"
        /\ main.at = "completing" => main'.at = "ended"
        /\ main.at \in {"first", "stream", "cleanup", "plain", "body", "answer",
                        "closing", "completing"}
        /\ UNCHANGED resp
    BY <1>33, CancelEffect
  <2>2. main.at \notin {"first", "stream"} => task'.body = "none"
    BY <1>33, CancelEffect DEF Cancelled
  <2>3. Sending
    OBVIOUS
  <2> QED BY ONLY <2>1, <2>2, <2>3 DEF Sending, Untold, Sleeping, Late
<1>34. CASE UNCHANGED vars
  BY <1>34 DEF vars
<1> QED
  BY ONLY [Next]_vars, <1>1, <1>2, <1>3, <1>4, <1>5, <1>6, <1>7, <1>8, <1>9, <1>10,
     <1>11, <1>12, <1>13, <1>14, <1>15, <1>16, <1>17, <1>18, <1>19, <1>20, <1>21,
     <1>22, <1>23, <1>24, <1>25, <1>26, <1>27, <1>28, <1>29, <1>30, <1>31, <1>32,
     <1>33, <1>34 DEF Next, Upstream, Request, CompletionsRefuses, MessagesRefuses

(* Every step keeps who is said to have left.                              *)
LEMMA DepartureStep ==
    ASSUME Shapes, Control, Sending, Departure, [Next]_vars
    PROVE  Departure'
<1> USE NoneIsNothing DEF Shapes, MainOk, TaskOk, RespOk, ClientOk, StatsOk, SeenOk,
        Control, Sending, Untold, Departure, Sleeping, NoTasks, MainAts, Reasons,
        Bodies, Firsts, Watches
<1>1. ASSUME NEW error \in {"connect", "sent"}, NoAnswer(error) PROVE Departure'
  BY <1>1 DEF NoAnswer, Runs, Demand, MayRetry
<1>2. CASE UpstreamRefuses
  BY <1>2 DEF UpstreamRefuses, Runs, Demand
<1>3. CASE UpstreamAccepts
  BY <1>3 DEF UpstreamAccepts, Runs, Demand, NotRead
<1>4. ASSUME NEW e \in Events, Reads(e) PROVE Departure'
  BY <1>4 DEF Reads, Runs, Demand, Yields, Fails
<1>5. ASSUME NEW done \in BOOLEAN, StreamEnds(done) PROVE Departure'
  BY <1>5 DEF StreamEnds, Runs, Demand, Yields, Fails
<1>6. CASE ReadFails
  BY <1>6 DEF ReadFails, Runs, Demand, Fails
<1>7. CASE BodyLost
  BY <1>7 DEF BodyLost, Raises
<1>8. ASSUME NEW status \in {400, 401, 500}, Refuses(status) PROVE Departure'
  BY <1>8 DEF Refuses, Goes, Observed
<1>9. CASE Execute
  BY <1>9 DEF Execute, Goes
<1>10. CASE WaitBeforeRetry
  BY <1>10 DEF WaitBeforeRetry, Runs, Demand
<1>11. CASE FirstChunk
  BY <1>11 DEF FirstChunk
<1>12. CASE FirstFails
  BY <1>12 DEF FirstFails, Observed, Closed
<1>13. CASE NextChunk
  BY <1>13 DEF NextChunk
<1>14. CASE BodyFails
  BY <1>14 DEF BodyFails, Observed, Closed
<1>15. CASE BodyEnds
  BY <1>15 DEF BodyEnds, Closed
<1>16. CASE SendStart
  BY <1>16 DEF SendStart
<1>17. CASE SendChunk
  BY <1>17 DEF SendChunk
<1>18. CASE SendFinal
  BY <1>18 DEF SendFinal
<1>19. CASE SendFails
  BY <1>19 DEF SendFails
<1>20. CASE WatchSees
  BY <1>20 DEF WatchSees
<1>21. CASE AwaitFirst
  BY <1>21 DEF AwaitFirst, Raises, Goes, Departed
<1>22. CASE AwaitStream
  BY <1>22 DEF AwaitStream, StreamOver, StreamDone, StreamGone, Raises, Departed
<1>23. CASE Cleanup
  BY <1>23 DEF Cleanup, Cancelled, Closed, Goes
<1>24. CASE Close
  BY <1>24 DEF Close, CloseCallback, Closed, Goes
<1>25. CASE PlainAnswer
  BY <1>25 DEF PlainAnswer, Closed, Goes
<1>26. CASE PlainFails
  BY <1>26 DEF PlainFails, Goes, Observed
<1>27. CASE SendAnswer
  BY <1>27 DEF SendAnswer, Goes
<1>28. CASE AnswerFails
  BY <1>28 DEF AnswerFails, Raises
<1>29. CASE CompleteResponse
  BY <1>29 DEF CompleteResponse, Goes, OutcomeOf, LeftBehind
<1>30. ASSUME NEW ok \in BOOLEAN, Record(ok) PROVE Departure'
  BY <1>30 DEF Record
<1>31. CASE CompletionReturns
  BY <1>31 DEF CompletionReturns, Goes
<1>32. CASE ClientLeaves
  BY <1>32 DEF ClientLeaves
<1>33. CASE ServerCancels
  <2>1. /\ main.at \in {"first", "stream"} =>
             main'.at = "cleanup" /\ main'.raised = "cancelled"
        /\ main.at \in {"cleanup", "plain", "body", "answer", "closing"} =>
             main'.at = "finish" /\ main'.raised = "cancelled"
        /\ main.at = "completing" => main'.at = "ended" /\ main'.raised = main.raised
        /\ main.at \in {"first", "stream", "cleanup", "plain", "body", "answer",
                        "closing", "completing"}
        /\ client'.here = client.here /\ client'.cancelled = main.at
        /\ UNCHANGED <<resp, stats, seen>>
    BY <1>33, CancelEffect
  <2>2. UNCHANGED task \/ (task'.watch = "none" /\ task'.body = "none")
    BY <1>33, CancelEffect DEF Cancelled
  <2>3. Departure /\ None \notin MainAts
    OBVIOUS
  <2>4. client'.cancelled # None
    BY <2>1, <2>3 DEF MainAts
  <2> QED BY ONLY <2>1, <2>2, <2>3, <2>4 DEF Departure, Reasons
<1>34. CASE UNCHANGED vars
  BY <1>34 DEF vars
<1> QED
  BY ONLY [Next]_vars, <1>1, <1>2, <1>3, <1>4, <1>5, <1>6, <1>7, <1>8, <1>9, <1>10,
     <1>11, <1>12, <1>13, <1>14, <1>15, <1>16, <1>17, <1>18, <1>19, <1>20, <1>21,
     <1>22, <1>23, <1>24, <1>25, <1>26, <1>27, <1>28, <1>29, <1>30, <1>31, <1>32,
     <1>33, <1>34 DEF Next, Upstream, Request, CompletionsRefuses, MessagesRefuses

(* Every step keeps the adapter's state and the queue in order.            *)
LEMMA WorkingStep ==
    ASSUME Shapes, Control, Working, [Next]_vars
    PROVE  Working'
<1> USE NoneIsNothing, PlainNone DEF Control, Shapes, ReqOk, GenOk, Working, GenAts,
        Adapter, Anthropic
<1>1. ASSUME NEW error \in {"connect", "sent"}, NoAnswer(error) PROVE Working'
  BY <1>1 DEF NoAnswer, Runs, Demand, MayRetry
<1>2. CASE UpstreamRefuses
  BY <1>2 DEF UpstreamRefuses, Runs, Demand
<1>3. CASE UpstreamAccepts
  <2>1. /\ work' = Fresh /\ req' = req /\ gen'.at = "stream" /\ gen'.queue = gen.queue
    BY <1>3 DEF UpstreamAccepts
  <2>2. req.stream => Adapter(Fresh)
    BY AdapterFresh
  <2>3. Working
    OBVIOUS
  <2> HIDE DEF Fresh
  <2> QED BY ONLY <2>1, <2>2, <2>3 DEF Working, Adapter, Anthropic
<1>4. ASSUME NEW e \in Events, Reads(e) PROVE Working'
  <2>1. /\ gen.at = "stream" /\ gen.queue = << >> /\ req' = req
        /\ \/ gen'.at = "failed" /\ gen'.queue = << >>
           \/ /\ work' = Handle(work, e) /\ gen'.at = "stream"
              /\ gen'.queue = Chunks(work')
    BY <1>4, ReadsEffect
  <2>2. Working /\ (req.stream => Adapter(work))
    BY <2>1
  <2>3. req.stream => Adapter(Handle(work, e))
    BY <2>2, AdapterHandles
  <2> HIDE DEF Adapter, Handle
  <2>4. req.stream => /\ Plain(Handle(work, e).out)
                      /\ Chunks(Handle(work, e)) = Handle(work, e).out
    BY <2>3, AdapterPassesOn
  <2>5. req.stream /\ work' = Handle(work, e) => Plain(work'.out)
    BY <2>4
  <2>6. gen'.at # "failed" => (req.stream => gen'.queue = work'.out)
    BY <2>1 DEF Chunks
  <2>7. Plain(<< >>)
    BY SeqNone DEF Plain
  <2>8. req.stream /\ work' = Handle(work, e) => Adapter(work')
    BY <2>3
  <2>9. req'.stream /\ gen'.at = "stream" => Adapter(work)'
    BY ONLY <2>1, <2>8 DEF Adapter, Anthropic
  <2>10. req'.stream => Plain(gen'.queue)
    BY ONLY <2>1, <2>5, <2>6, <2>7
  <2> QED BY ONLY <2>1, <2>9, <2>10 DEF Working
<1>5. ASSUME NEW done \in BOOLEAN, StreamEnds(done) PROVE Working'
  <2>1. /\ gen.at = "stream" /\ gen.queue = << >> /\ req' = req
        /\ \/ gen'.at = "failed" /\ gen'.queue = << >>
           \/ /\ work' = Finalize(work, done) /\ gen'.at = "last"
              /\ gen'.queue = Chunks(work')
    BY <1>5, EndsEffect
  <2>2. Working /\ (req.stream => Adapter(work))
    BY <2>1
  <2>3. req.stream => Adapter(Finalize(work, done))
    BY <2>2, AdapterFinalizes
  <2> HIDE DEF Adapter, Finalize
  <2>4. req.stream => Plain(Finalize(work, done).out)
    BY <2>3, AdapterPassesOn
  <2>5. gen'.at # "failed" => (req.stream => gen'.queue = Finalize(work, done).out)
    BY <2>1 DEF Chunks
  <2>6. Plain(<< >>)
    BY SeqNone DEF Plain
  <2>7. req'.stream => Plain(gen'.queue)
    BY ONLY <2>1, <2>4, <2>5, <2>6
  <2> QED BY ONLY <2>1, <2>7 DEF Working
<1>6. CASE ReadFails
  BY <1>6 DEF ReadFails, Runs, Demand, Fails
<1>7. CASE BodyLost
  BY <1>7 DEF BodyLost, Raises
<1>8. ASSUME NEW status \in {400, 401, 500}, Refuses(status) PROVE Working'
  BY <1>8 DEF Refuses, Goes, Observed
<1>9. CASE Execute
  BY <1>9 DEF Execute, Goes
<1>10. CASE WaitBeforeRetry
  BY <1>10 DEF WaitBeforeRetry, Runs, Demand
<1>11. CASE FirstChunk
  <2>1. /\ gen.queue # << >> /\ gen'.queue = Tail(gen.queue) /\ gen'.at = gen.at
        /\ UNCHANGED <<req, work>>
    BY <1>11 DEF FirstChunk
  <2>2. Working
    OBVIOUS
  <2> QED BY ONLY <2>1, <2>2, PlainRest DEF Working, Adapter, Anthropic
<1>12. CASE FirstFails
  BY <1>12 DEF FirstFails, Observed, Closed
<1>13. CASE NextChunk
  <2>1. /\ gen.queue # << >> /\ gen'.queue = Tail(gen.queue) /\ gen'.at = gen.at
        /\ UNCHANGED <<req, work>>
    BY <1>13 DEF NextChunk
  <2>2. Working
    OBVIOUS
  <2> QED BY ONLY <2>1, <2>2, PlainRest DEF Working, Adapter, Anthropic
<1>14. CASE BodyFails
  BY <1>14 DEF BodyFails, Observed, Closed
<1>15. CASE BodyEnds
  BY <1>15 DEF BodyEnds, Closed
<1>16. CASE SendStart
  BY <1>16 DEF SendStart
<1>17. CASE SendChunk
  BY <1>17 DEF SendChunk
<1>18. CASE SendFinal
  BY <1>18 DEF SendFinal
<1>19. CASE SendFails
  BY <1>19 DEF SendFails
<1>20. CASE WatchSees
  BY <1>20 DEF WatchSees
<1>21. CASE AwaitFirst
  BY <1>21 DEF AwaitFirst, Raises, Goes, Departed
<1>22. CASE AwaitStream
  BY <1>22 DEF AwaitStream, StreamOver, StreamDone, StreamGone, Raises, Departed
<1>23. CASE Cleanup
  <2>1. UNCHANGED <<gen, net>> \/ Closed
    BY <1>23 DEF Cleanup, Cancelled
  <2>2. Closed => gen'.at = "closed" /\ gen'.queue = << >>
    BY Releases
  <2>3. UNCHANGED <<req, work>>
    BY <1>23 DEF Cleanup
  <2> QED BY <2>1, <2>2, <2>3
<1>24. CASE Close
  BY <1>24 DEF Close, CloseCallback, Closed, Goes
<1>25. CASE PlainAnswer
  BY <1>25 DEF PlainAnswer, Closed, Goes
<1>26. CASE PlainFails
  BY <1>26 DEF PlainFails, Goes, Observed
<1>27. CASE SendAnswer
  BY <1>27 DEF SendAnswer, Goes
<1>28. CASE AnswerFails
  BY <1>28 DEF AnswerFails, Raises
<1>29. CASE CompleteResponse
  BY <1>29 DEF CompleteResponse, Goes, OutcomeOf, LeftBehind
<1>30. ASSUME NEW ok \in BOOLEAN, Record(ok) PROVE Working'
  BY <1>30 DEF Record
<1>31. CASE CompletionReturns
  BY <1>31 DEF CompletionReturns, Goes
<1>32. CASE ClientLeaves
  BY <1>32 DEF ClientLeaves
<1>33. CASE ServerCancels
  <2>1. UNCHANGED <<gen, net>> \/ Closed
    BY <1>33, CancelEffect DEF Cancelled
  <2>2. Closed => gen'.at = "closed" /\ gen'.queue = << >>
    BY Releases
  <2>3. UNCHANGED <<req, work>>
    BY <1>33, CancelEffect
  <2> QED BY <2>1, <2>2, <2>3
<1>34. CASE UNCHANGED vars
  BY <1>34 DEF vars
<1> QED
  BY ONLY [Next]_vars, <1>1, <1>2, <1>3, <1>4, <1>5, <1>6, <1>7, <1>8, <1>9, <1>10,
     <1>11, <1>12, <1>13, <1>14, <1>15, <1>16, <1>17, <1>18, <1>19, <1>20, <1>21,
     <1>22, <1>23, <1>24, <1>25, <1>26, <1>27, <1>28, <1>29, <1>30, <1>31, <1>32,
     <1>33, <1>34 DEF Next, Upstream, Request, CompletionsRefuses, MessagesRefuses

(* Every step keeps the chunks in order: no error before one is observed,  *)
(* one after, and the last chunk at the end.                               *)
LEMMA FlowStep ==
    ASSUME Shapes, Control, Sending, Working, Flow, [Next]_vars
    PROVE  Flow'
<1> USE NoneIsNothing DEF Shapes, MainOk, GenOk, TaskOk, RespOk, StatsOk, Control,
        Sending, Working, Flow, Undisturbed, Disturbed, Ending, Holds, Sleeping,
        NoTasks, MainAts, Bodies, Firsts, GenAts
<1>1. ASSUME NEW error \in {"connect", "sent"}, NoAnswer(error) PROVE Flow'
  BY <1>1 DEF NoAnswer, Runs, Demand, MayRetry
<1>2. CASE UpstreamRefuses
  BY <1>2 DEF UpstreamRefuses, Runs, Demand
<1>3. CASE UpstreamAccepts
  BY <1>3 DEF UpstreamAccepts, Runs, Demand, NotRead
<1>4. ASSUME NEW e \in Events, Reads(e) PROVE Flow'
  <2>1. /\ gen.at = "stream" /\ gen'.at \in {"stream", "failed"}
        /\ stats'.error = stats.error
        /\ UNCHANGED <<req, main, task, resp>>
    <3>1. GenOk /\ NetOk /\ StatsOk
      OBVIOUS
    <3>2. /\ gen.at = "stream" /\ gen'.at \in {"stream", "failed"}
          /\ stats' = [stats EXCEPT !.usage = @ \/ e.usage]
          /\ UNCHANGED <<req, main, task, resp>>
      BY ONLY <1>4, <3>1, ReadsEffect
    <3>3. stats'.error = stats.error
      BY ONLY <3>1, <3>2 DEF StatsOk
    <3> QED BY ONLY <3>2, <3>3
  <2>2. Flow
    OBVIOUS
  <2> QED BY ONLY <2>1, <2>2 DEF Flow, Undisturbed, Disturbed, Holds
<1>5. ASSUME NEW done \in BOOLEAN, StreamEnds(done) PROVE Flow'
  <2>1. /\ gen.at = "stream"
        /\ UNCHANGED <<req, main, task, resp, stats>>
        /\ \/ gen'.at = "failed"
           \/ /\ ~Finalize(work, done).bad /\ gen'.at = "last"
              /\ gen'.queue = Chunks(Finalize(work, done))
    <3>1. GenOk /\ NetOk
      OBVIOUS
    <3> HIDE DEF Finalize, Chunks
    <3> QED BY ONLY <1>5, <3>1, EndsEffect
  <2>2. Working /\ Flow
    OBVIOUS
  <2>3. req.stream => Adapter(work)
    BY <2>1, <2>2
  <2> HIDE DEF Finalize
  <2>4. req.stream /\ gen'.at = "last" =>
          gen'.queue # << >> /\ EndsWell(gen'.queue[Len(gen'.queue)])
    BY ONLY <2>1, <2>3, AdapterFinalizes DEF Chunks
  <2> QED BY ONLY <2>1, <2>2, <2>4 DEF Flow, Undisturbed, Disturbed, Ending, Holds
<1>6. CASE ReadFails
  BY <1>6 DEF ReadFails, Runs, Demand, Fails
<1>7. CASE BodyLost
  BY <1>7 DEF BodyLost, Raises
<1>8. ASSUME NEW status \in {400, 401, 500}, Refuses(status) PROVE Flow'
  BY <1>8 DEF Refuses, Goes, Observed
<1>9. CASE Execute
  <2>1. /\ task = NoTasks /\ gen'.at = "connect"
        /\ main'.at = (IF req.stream THEN "first" ELSE "plain")
        /\ task'.first = (IF req.stream THEN "pull" ELSE "none") /\ task'.body = "none"
        /\ stats'.error = stats.error /\ resp.wire = << >> /\ ~stats.error
        /\ UNCHANGED <<req, resp>>
    <3>1. /\ main.at = "body" /\ gen' = [gen EXCEPT !.at = "connect"]
          /\ main' = [main EXCEPT !.at = IF req.stream THEN "first" ELSE "plain"]
          /\ task' = IF req.stream
                     THEN [task EXCEPT !.first = "pull", !.watch = "listening"] ELSE task
          /\ stats' = [stats EXCEPT !.credential = TRUE]
          /\ UNCHANGED <<req, resp>>
      BY <1>9 DEF Execute, Goes
    <3>2. /\ MainOk /\ GenOk /\ TaskOk /\ StatsOk /\ task = NoTasks
          /\ Untold /\ ~stats.error
      BY <3>1
    <3> QED BY ONLY <3>1, <3>2 DEF MainOk, GenOk, TaskOk, StatsOk, NoTasks, Untold
  <2>2. ~HasError(<< >>) /\ IsSeq(<< >>)
    BY SeqNone
  <2> QED BY ONLY <2>1, <2>2 DEF Flow, Undisturbed, Holds
<1>10. CASE WaitBeforeRetry
  BY <1>10 DEF WaitBeforeRetry, Runs, Demand
<1>11. CASE FirstChunk
  <2>1. /\ task.first = "pull" /\ gen.queue # << >>
        /\ task'.first = "ready" /\ task'.body = task.body
        /\ task'.held = Head(gen.queue) /\ gen'.queue = Tail(gen.queue) /\ gen'.at = gen.at
        /\ UNCHANGED <<req, main, resp, stats>>
    BY <1>11 DEF FirstChunk
  <2>2. Flow /\ Sending /\ Working
    OBVIOUS
  <2>3. gen.at \in {"stream", "last"} /\ req.stream
    BY <2>1
  <2>4. Plain(gen.queue)
    BY <2>1, <2>3
  <2>5. ~stats.error /\ Undisturbed /\ task.first \in {"pull", "ready"}
    BY ONLY <2>1, <2>2, <2>3 DEF Flow, Sending, Disturbed
  <2>6. /\ Head(gen.queue).type # "error"
        /\ IF Tail(gen.queue) = << >> THEN Head(gen.queue) = gen.queue[Len(gen.queue)]
           ELSE Tail(gen.queue)[Len(Tail(gen.queue))] = gen.queue[Len(gen.queue)]
    BY ONLY <2>1, <2>4, PlainRest
  <2>7. task.first = "pull" => task.body = "none"
    BY ONLY <2>2 DEF Sending
  <2>8. Undisturbed'
    BY ONLY <2>1, <2>3, <2>5, <2>6, <2>7 DEF Undisturbed, Ending, Holds
  <2> QED BY ONLY <2>1, <2>2, <2>3, <2>5, <2>8 DEF Flow
<1>12. CASE FirstFails
  BY <1>12 DEF FirstFails, Observed, Closed
<1>13. CASE NextChunk
  <2>1. /\ task.body = "pull" /\ gen.queue # << >>
        /\ task'.body = "send" /\ task'.first = task.first
        /\ task'.held = Head(gen.queue) /\ gen'.queue = Tail(gen.queue) /\ gen'.at = gen.at
        /\ UNCHANGED <<req, main, resp, stats>>
    BY <1>13 DEF NextChunk
  <2>2. Flow /\ Sending /\ Working
    OBVIOUS
  <2>3. gen.at \in {"stream", "last"} /\ req.stream
    BY <2>1
  <2>4. Plain(gen.queue)
    BY <2>1, <2>3
  <2>5. ~stats.error /\ Undisturbed /\ task.first \in {"pull", "ready"}
    BY ONLY <2>1, <2>2, <2>3 DEF Flow, Sending, Disturbed
  <2>6. /\ Head(gen.queue).type # "error"
        /\ IF Tail(gen.queue) = << >> THEN Head(gen.queue) = gen.queue[Len(gen.queue)]
           ELSE Tail(gen.queue)[Len(Tail(gen.queue))] = gen.queue[Len(gen.queue)]
    BY ONLY <2>1, <2>4, PlainRest
  <2>7. task.first = "pull" => task.body = "none"
    BY ONLY <2>2 DEF Sending
  <2>8. Undisturbed'
    BY ONLY <2>1, <2>3, <2>5, <2>6, <2>7 DEF Undisturbed, Ending, Holds
  <2> QED BY ONLY <2>1, <2>2, <2>3, <2>5, <2>8 DEF Flow
<1>14. CASE BodyFails
  BY <1>14 DEF BodyFails, Observed, Closed
<1>15. CASE BodyEnds
  BY <1>15 DEF BodyEnds, Closed
<1>16. CASE SendStart
  BY <1>16 DEF SendStart
<1>17. CASE SendChunk
  <2>1. /\ task.body = "send" /\ task'.body = "pull" /\ task'.first = task.first
        /\ resp'.wire = Append(resp.wire, task.held)
        /\ UNCHANGED <<req, main, gen, stats>>
    BY <1>17 DEF SendChunk
  <2>2. Flow /\ Sending
    OBVIOUS
  <2>3. task.first = "ready"
    BY ONLY <2>1, <2>2 DEF Sending
  <2>4. IsSeq(resp.wire)
    BY ONLY <2>2 DEF Flow
  <2>5. /\ IsSeq(resp'.wire) /\ resp'.wire # << >>
        /\ HasError(resp'.wire) <=> HasError(resp.wire) \/ task.held.type = "error"
        /\ resp'.wire[Len(resp'.wire)] = task.held
    BY ONLY <2>1, <2>4, SeqAppend
  <2>6. ErrorChunk.type = "error"
    BY DEF ErrorChunk
  <2>7. EndsWell(task.held) => Whole(resp'.wire)
    BY ONLY <2>5 DEF EndsWell, Whole, LastType, Last
  <2>8. IF stats.error THEN Disturbed' ELSE Undisturbed'
    BY ONLY <2>1, <2>2, <2>3, <2>5, <2>6, <2>7 DEF Flow, Disturbed, Undisturbed,
       Ending, Holds
  <2> QED BY ONLY <2>1, <2>2, <2>3, <2>5, <2>8 DEF Flow
<1>18. CASE SendFinal
  BY <1>18 DEF SendFinal
<1>19. CASE SendFails
  BY <1>19 DEF SendFails
<1>20. CASE WatchSees
  BY <1>20 DEF WatchSees
<1>21. CASE AwaitFirst
  BY <1>21 DEF AwaitFirst, Raises, Goes, Departed
<1>22. CASE AwaitStream
  BY <1>22 DEF AwaitStream, StreamOver, StreamDone, StreamGone, Raises, Departed
<1>23. CASE Cleanup
  BY <1>23 DEF Cleanup, Cancelled, Closed, Goes
<1>24. CASE Close
  BY <1>24 DEF Close, CloseCallback, Closed, Goes
<1>25. CASE PlainAnswer
  BY <1>25 DEF PlainAnswer, Closed, Goes
<1>26. CASE PlainFails
  BY <1>26 DEF PlainFails, Goes, Observed
<1>27. CASE SendAnswer
  <2>1. IsSeq(<<reply.body>>)
    BY SeqSingle
  <2> QED BY <2>1, <1>27 DEF SendAnswer, Goes
<1>28. CASE AnswerFails
  BY <1>28 DEF AnswerFails, Raises
<1>29. CASE CompleteResponse
  BY <1>29 DEF CompleteResponse, Goes, OutcomeOf, LeftBehind
<1>30. ASSUME NEW ok \in BOOLEAN, Record(ok) PROVE Flow'
  BY <1>30 DEF Record
<1>31. CASE CompletionReturns
  BY <1>31 DEF CompletionReturns, Goes
<1>32. CASE ClientLeaves
  BY <1>32 DEF ClientLeaves
<1>33. CASE ServerCancels
  <2>1. /\ main.at \in {"first", "stream"} => main'.at = "cleanup" /\ UNCHANGED <<task, gen>>
        /\ main.at \in {"cleanup", "plain", "body", "answer", "closing"} => main'.at = "finish"
        /\ main.at = "completing" => main'.at = "ended"
        /\ main.at \in {"first", "stream", "cleanup", "plain", "body", "answer",
                        "closing", "completing"}
        /\ UNCHANGED <<req, resp, stats>>
    BY <1>33, CancelEffect
  <2>2. main.at \notin {"first", "stream"} => task'.first = "none"
    BY <1>33, CancelEffect DEF Cancelled
  <2>3. Flow
    OBVIOUS
  <2> QED BY ONLY <2>1, <2>2, <2>3 DEF Flow, Undisturbed, Disturbed, Ending, Holds
<1>34. CASE UNCHANGED vars
  BY <1>34 DEF vars
<1> HIDE DEF Flow, Shapes, Control, Sending, Working, Undisturbed, Disturbed
<1> QED
  BY ONLY [Next]_vars, <1>1, <1>2, <1>3, <1>4, <1>5, <1>6, <1>7, <1>8, <1>9, <1>10,
     <1>11, <1>12, <1>13, <1>14, <1>15, <1>16, <1>17, <1>18, <1>19, <1>20, <1>21,
     <1>22, <1>23, <1>24, <1>25, <1>26, <1>27, <1>28, <1>29, <1>30, <1>31, <1>32,
     <1>33, <1>34 DEF Next, Upstream, Request, CompletionsRefuses, MessagesRefuses

(* Every step keeps the agreement of what was told and what is known.      *)
LEMMA ToldStep ==
    ASSUME Shapes, Control, Sending, Departure, Flow, Told, [Next]_vars
    PROVE  Told'
<1> USE NoneIsNothing DEF Shapes, MainOk, TaskOk, RespOk, ReplyOk, StatsOk, Control,
        Sending, Flow, Undisturbed, Disturbed, Told, Untold, Sleeping, NoTasks,
        MainAts, Reasons, Bodies, Firsts, Statuses
<1>1. ASSUME NEW error \in {"connect", "sent"}, NoAnswer(error) PROVE Told'
  BY <1>1 DEF NoAnswer, Runs, Demand, MayRetry
<1>2. CASE UpstreamRefuses
  BY <1>2 DEF UpstreamRefuses, Runs, Demand
<1>3. CASE UpstreamAccepts
  BY <1>3 DEF UpstreamAccepts, Runs, Demand, NotRead
<1>4. ASSUME NEW e \in Events, Reads(e) PROVE Told'
  BY <1>4 DEF Reads, Runs, Demand, Yields, Fails
<1>5. ASSUME NEW done \in BOOLEAN, StreamEnds(done) PROVE Told'
  BY <1>5 DEF StreamEnds, Runs, Demand, Yields, Fails
<1>6. CASE ReadFails
  BY <1>6 DEF ReadFails, Runs, Demand, Fails
<1>7. CASE BodyLost
  BY <1>7 DEF BodyLost, Raises
<1>8. ASSUME NEW status \in {400, 401, 500}, Refuses(status) PROVE Told'
  BY <1>8 DEF Refuses, Goes, Observed
<1>9. CASE Execute
  BY <1>9 DEF Execute, Goes
<1>10. CASE WaitBeforeRetry
  BY <1>10 DEF WaitBeforeRetry, Runs, Demand
<1>11. CASE FirstChunk
  BY <1>11 DEF FirstChunk
<1>12. CASE FirstFails
  BY <1>12 DEF FirstFails, Observed, Closed
<1>13. CASE NextChunk
  BY <1>13 DEF NextChunk
<1>14. CASE BodyFails
  BY <1>14 DEF BodyFails, Observed, Closed
<1>15. CASE BodyEnds
  BY <1>15 DEF BodyEnds, Closed
<1>16. CASE SendStart
  BY <1>16 DEF SendStart
<1>17. CASE SendChunk
  BY <1>17 DEF SendChunk
<1>18. CASE SendFinal
  BY <1>18 DEF SendFinal
<1>19. CASE SendFails
  BY <1>19 DEF SendFails
<1>20. CASE WatchSees
  BY <1>20 DEF WatchSees
<1>21. CASE AwaitFirst
  BY <1>21 DEF AwaitFirst, Raises, Goes, Departed
<1>22. CASE AwaitStream
  BY <1>22 DEF AwaitStream, StreamOver, StreamDone, StreamGone, Raises, Departed
<1>23. CASE Cleanup
  BY <1>23 DEF Cleanup, Cancelled, Closed, Goes
<1>24. CASE Close
  BY <1>24 DEF Close, CloseCallback, Closed, Goes
<1>25. CASE PlainAnswer
  BY <1>25 DEF PlainAnswer, Closed, Goes
<1>26. CASE PlainFails
  BY <1>26 DEF PlainFails, Goes, Observed
<1>27. CASE SendAnswer
  BY <1>27 DEF SendAnswer, Goes
<1>28. CASE AnswerFails
  BY <1>28 DEF AnswerFails, Raises
<1>29. CASE CompleteResponse
  BY <1>29 DEF CompleteResponse, Goes, OutcomeOf, LeftBehind
<1>30. ASSUME NEW ok \in BOOLEAN, Record(ok) PROVE Told'
  BY <1>30 DEF Record
<1>31. CASE CompletionReturns
  BY <1>31 DEF CompletionReturns, Goes
<1>32. CASE ClientLeaves
  BY <1>32 DEF ClientLeaves
<1>33. CASE ServerCancels
  <2>1. /\ main.at \in {"first", "stream"} => main'.at = "cleanup"
        /\ main.at \in {"cleanup", "plain", "body", "answer", "closing"} => main'.at = "finish"
        /\ main.at = "completing" => main'.at = "ended"
        /\ main.at \in {"first", "stream", "cleanup", "plain", "body", "answer",
                        "closing", "completing"}
        /\ UNCHANGED <<resp, reply, stats>>
    BY <1>33, CancelEffect
  <2>2. main.at = "cleanup" /\ resp.completed =>
          /\ resp.status = 200
          /\ IF stats.error THEN HasError(resp.wire)
             ELSE Whole(resp.wire) /\ ~HasError(resp.wire)
    OBVIOUS
  <2>3. main.at \in {"body", "plain", "answer"} => ~resp.completed
    OBVIOUS
  <2>4. Told /\ 200 # None
    BY DEF Statuses
  <2> QED BY ONLY <2>1, <2>2, <2>3, <2>4 DEF Told
<1>34. CASE UNCHANGED vars
  BY <1>34 DEF vars
<1> QED
  BY ONLY [Next]_vars, <1>1, <1>2, <1>3, <1>4, <1>5, <1>6, <1>7, <1>8, <1>9, <1>10,
     <1>11, <1>12, <1>13, <1>14, <1>15, <1>16, <1>17, <1>18, <1>19, <1>20, <1>21,
     <1>22, <1>23, <1>24, <1>25, <1>26, <1>27, <1>28, <1>29, <1>30, <1>31, <1>32,
     <1>33, <1>34 DEF Next, Upstream, Request, CompletionsRefuses, MessagesRefuses

(* Every step keeps the outcome true of the response.                      *)
LEMMA OutcomeStep ==
    ASSUME Shapes, Control, Counting, Departure, Told, OutcomeTells, [Next]_vars
    PROVE  OutcomeTells'
<1> USE NoneIsNothing DEF Shapes, MainOk, TaskOk, RespOk, ReplyOk, ClientOk, StatsOk,
        Control, Counting, Departure, Told, OutcomeTells, Sleeping, NoTasks, MainAts,
        Reasons, Bodies, Firsts, Statuses, Outcomes, Threads
<1>1. ASSUME NEW error \in {"connect", "sent"}, NoAnswer(error) PROVE OutcomeTells'
  BY <1>1 DEF NoAnswer, Runs, Demand, MayRetry
<1>2. CASE UpstreamRefuses
  BY <1>2 DEF UpstreamRefuses, Runs, Demand
<1>3. CASE UpstreamAccepts
  BY <1>3 DEF UpstreamAccepts, Runs, Demand, NotRead
<1>4. ASSUME NEW e \in Events, Reads(e) PROVE OutcomeTells'
  BY <1>4 DEF Reads, Runs, Demand, Yields, Fails
<1>5. ASSUME NEW done \in BOOLEAN, StreamEnds(done) PROVE OutcomeTells'
  BY <1>5 DEF StreamEnds, Runs, Demand, Yields, Fails
<1>6. CASE ReadFails
  BY <1>6 DEF ReadFails, Runs, Demand, Fails
<1>7. CASE BodyLost
  BY <1>7 DEF BodyLost, Raises
<1>8. ASSUME NEW status \in {400, 401, 500}, Refuses(status) PROVE OutcomeTells'
  BY <1>8 DEF Refuses, Goes, Observed
<1>9. CASE Execute
  BY <1>9 DEF Execute, Goes
<1>10. CASE WaitBeforeRetry
  BY <1>10 DEF WaitBeforeRetry, Runs, Demand
<1>11. CASE FirstChunk
  BY <1>11 DEF FirstChunk
<1>12. CASE FirstFails
  BY <1>12 DEF FirstFails, Observed, Closed
<1>13. CASE NextChunk
  BY <1>13 DEF NextChunk
<1>14. CASE BodyFails
  BY <1>14 DEF BodyFails, Observed, Closed
<1>15. CASE BodyEnds
  BY <1>15 DEF BodyEnds, Closed
<1>16. CASE SendStart
  BY <1>16 DEF SendStart
<1>17. CASE SendChunk
  BY <1>17 DEF SendChunk
<1>18. CASE SendFinal
  BY <1>18 DEF SendFinal
<1>19. CASE SendFails
  BY <1>19 DEF SendFails
<1>20. CASE WatchSees
  BY <1>20 DEF WatchSees
<1>21. CASE AwaitFirst
  BY <1>21 DEF AwaitFirst, Raises, Goes, Departed
<1>22. CASE AwaitStream
  BY <1>22 DEF AwaitStream, StreamOver, StreamDone, StreamGone, Raises, Departed
<1>23. CASE Cleanup
  BY <1>23 DEF Cleanup, Cancelled, Closed, Goes
<1>24. CASE Close
  BY <1>24 DEF Close, CloseCallback, Closed, Goes
<1>25. CASE PlainAnswer
  BY <1>25 DEF PlainAnswer, Closed, Goes
<1>26. CASE PlainFails
  BY <1>26 DEF PlainFails, Goes, Observed
<1>27. CASE SendAnswer
  BY <1>27 DEF SendAnswer, Goes
<1>28. CASE AnswerFails
  BY <1>28 DEF AnswerFails, Raises
<1>29. CASE CompleteResponse
  <2>1. /\ main.at = "finish" /\ stats'.outcome = OutcomeOf(LeftBehind)
        /\ UNCHANGED <<resp, reply, client>>
    BY <1>29 DEF CompleteResponse
  <2>2. /\ RespOk /\ ReplyOk /\ ClientOk /\ MainOk /\ SeenOk /\ StatsOk
        /\ Departure /\ Told
    OBVIOUS
  <2>3. LeftBehind => ~client.here \/ client.cancelled # None
    BY ONLY <2>2 DEF LeftBehind, Departure
  <2>4. ~stats.gone /\ ~LeftBehind => resp.completed
    BY ONLY <2>1, <2>2, NoneIsNothing DEF LeftBehind, Departure, Reasons, MainOk
  <2>5. stats.gone => ~client.here
    BY ONLY <2>2 DEF Departure
  <2> DEFINE bad == stats.error \/ (resp.status # None /\ resp.status >= 400)
  <2>6. /\ stats'.outcome = "cancelled" => stats.gone \/ LeftBehind
        /\ stats'.outcome = "failure" => ~stats.gone /\ ~LeftBehind /\ bad
        /\ stats'.outcome = "success" => ~stats.gone /\ ~LeftBehind /\ ~bad
    BY ONLY <2>1 DEF OutcomeOf
  <2>7. resp.completed /\ reply.status # None =>
          /\ bad => resp.status >= 400
          /\ ~bad => resp.status = 200
    <3>1. resp.completed /\ reply.status # None =>
            resp.status = reply.status /\ (reply.status = 200 => ~stats.error)
      BY ONLY <2>1, <2>2 DEF Told
    <3>2. reply.status # None => reply.status \in {200, 400, 401, 500, 502}
      BY ONLY <2>2 DEF ReplyOk, Answers, Statuses
    <3> QED BY ONLY <3>1, <3>2
  <2>8. resp.completed /\ reply.status = None =>
          /\ resp.status = 200
          /\ IF bad THEN HasError(resp.wire) ELSE Whole(resp.wire) /\ ~HasError(resp.wire)
    BY ONLY <2>1, <2>2 DEF Told
  <2> HIDE DEF bad
  <2> QED BY ONLY <2>1, <2>3, <2>4, <2>5, <2>6, <2>7, <2>8 DEF OutcomeTells
<1>30. ASSUME NEW ok \in BOOLEAN, Record(ok) PROVE OutcomeTells'
  BY <1>30 DEF Record
<1>31. CASE CompletionReturns
  BY <1>31 DEF CompletionReturns, Goes
<1>32. CASE ClientLeaves
  BY <1>32 DEF ClientLeaves
<1>33. CASE ServerCancels
  BY <1>33 DEF ServerCancels, Raises, Goes, Cancelled, Closed
<1>34. CASE UNCHANGED vars
  BY <1>34 DEF vars
<1> HIDE DEF Shapes, Control, Counting, Departure, Told, OutcomeTells
<1> QED
  BY ONLY [Next]_vars, <1>1, <1>2, <1>3, <1>4, <1>5, <1>6, <1>7, <1>8, <1>9, <1>10,
     <1>11, <1>12, <1>13, <1>14, <1>15, <1>16, <1>17, <1>18, <1>19, <1>20, <1>21,
     <1>22, <1>23, <1>24, <1>25, <1>26, <1>27, <1>28, <1>29, <1>30, <1>31, <1>32,
     <1>33, <1>34 DEF Next, Upstream, Request, CompletionsRefuses, MessagesRefuses

-----------------------------------------------------------------------------
(* The inductive invariant.                                                *)
StreamInv ==
    /\ Shapes
    /\ Control
    /\ Counting
    /\ Sending
    /\ Departure
    /\ Working
    /\ Flow
    /\ Told
    /\ OutcomeTells

(* The whole of it holds at first.                                         *)
LEMMA StreamInit == ASSUME Init PROVE StreamInv
<1> USE NoneIsNothing, RetriesAssumption DEF Init
<1>1. Shapes
  <2>1. ReqOk
    BY DEF ReqOk
  <2>2. MainOk
    BY DEF MainOk, MainAts
  <2>3. GenOk
    BY DEF GenOk, GenAts
  <2>4. NetOk
    BY DEF NetOk
  <2>5. ReadOk
    BY DEF ReadOk, NotRead
  <2>6. TaskOk
    BY DEF TaskOk, NoTasks, Firsts, Bodies, Watches
  <2>7. RespOk
    BY DEF RespOk, Answers
  <2>8. ReplyOk
    BY DEF ReplyOk, NoReply, Answers
  <2>9. ClientOk
    BY DEF ClientOk
  <2>10. StatsOk
    BY DEF StatsOk, Threads
  <2>11. SeenOk
    BY DEF SeenOk
  <2> QED BY <2>1, <2>2, <2>3, <2>4, <2>5, <2>6, <2>7, <2>8, <2>9, <2>10, <2>11 DEF
     Shapes
<1>2. Control
  BY DEF Control, Sleeping, Early, Late
<1>3. Counting
  BY DEF Counting
<1>4. Sending
  BY DEF Sending, Untold, NoTasks, Reasons
<1>5. Departure
  BY DEF Departure, NoTasks, Reasons
<1>6. Plain(<< >>) /\ IsSeq(<< >>)
  BY PlainNone DEF Plain
<1>7. Working
  BY <1>6 DEF Working
<1>8. Flow
  BY <1>6 DEF Flow, NoTasks
<1>9. Told
  BY DEF Told, NoReply
<1>10. OutcomeTells
  BY DEF OutcomeTells, Outcomes
<1> QED BY <1>1, <1>2, <1>3, <1>4, <1>5, <1>7, <1>8, <1>9, <1>10 DEF StreamInv

(* Every step of the request keeps it.                                     *)
LEMMA StreamStep == ASSUME StreamInv, [Next]_vars PROVE StreamInv'
BY ShapesStep, ControlStep, CountingStep, SendingStep, DepartureStep, WorkingStep,
   FlowStep, ToldStep, OutcomeStep DEF StreamInv

(* The invariant of every behaviour.                                       *)
LEMMA StreamAlways == Spec => []StreamInv
BY StreamInit, StreamStep, PTL DEF Spec

(* Every variable has its type throughout a request, whatever upstream     *)
(* sends and however often the generator retries.                          *)
THEOREM StreamTypes == Spec => []TypeOK
<1>1. StreamInv => TypeOK
  BY ShapesType DEF StreamInv
<1> QED BY <1>1, StreamAlways, PTL

(* Upstream never does the work of one request twice, however the retries  *)
(* of SSEConnectionManager fall; and when the application returns, the     *)
(* connection and the tasks of the request are gone, except where the      *)
(* server cancels the clean-up itself.                                     *)
THEOREM ReleasesUpstream == Spec => []Released
<1>1. StreamInv => Released
  BY DEF StreamInv, Control, Released, Late, Sleeping
<1> QED BY <1>1, StreamAlways, PTL

(* The line in the statistics is what happened: a success was sent whole   *)
(* and without an error, a failure ended in one, who is said to have left  *)
(* has left or was cancelled; every request leaves one trace, and charges  *)
(* its credential once if upstream told a usage.                           *)
THEOREM TellsTheResponse == Spec => []AccountsTell
<1>1. StreamInv => OutcomeTells
  BY DEF StreamInv
<1>2. Shapes /\ Counting => CountedOnce
  <2> SUFFICES ASSUME Shapes, Counting, main.at = "ended", stats.thread # "running"
               PROVE  /\ client.cancelled # "completing" =>
                           stats.dropped = IF stats.thread = "raised" THEN 1 ELSE 0
                      /\ stats.charges = IF stats.usage THEN 1 ELSE 0
    BY DEF CountedOnce
  <2>1. stats.thread \in {"recorded", "raised"}
    BY DEF Counting, Shapes, StatsOk, Threads
  <2> QED BY <2>1 DEF Counting
<1>3. StreamInv => AccountsTell
  BY <1>1, <1>2 DEF StreamInv, AccountsTell
<1> QED BY <1>3, StreamAlways, PTL

-----------------------------------------------------------------------------
(* The stream and the message of the same events.                          *)
(* A finite set of indexes has a greatest one.                             *)
LEMMA GreatestIndex ==
    ASSUME NEW U, IsFiniteSet(U), U \subseteq Int, U # {}
    PROVE  \E m \in U : \A j \in U : j <= m
<1> DEFINE ups == {V \in SUBSET U : V # {} /\ \A x \in V : \A y \in U : x < y => y \in V}
<1>1. ups # {} /\ \A V \in ups : IsFiniteSet(V)
  <2>1. U \in ups
    OBVIOUS
  <2> QED BY <2>1, FS_Subset
<1>2. PICK V \in ups : \A W \in ups : W \subseteq V => W = V
  <2> HIDE DEF ups
  <2> QED BY <1>1, SmallestSet
<1>3. PICK m \in V : m \in U
  OBVIOUS
<1> DEFINE W == {x \in V : m < x}
<1>4. W \subseteq V /\ m \notin W
  BY <1>3
<1>5. W = {}
  <2> SUFFICES ASSUME W # {} PROVE FALSE
    OBVIOUS
  <2>1. \A x \in W : \A y \in U : x < y => y \in W
    <3> SUFFICES ASSUME NEW x \in W, NEW y \in U, x < y PROVE y \in W
      OBVIOUS
    <3>1. y \in V
      OBVIOUS
    <3>2. m < y
      OBVIOUS
    <3> QED BY <3>1, <3>2
  <2>2. W \in ups
    BY <2>1
  <2> QED BY <1>2, <1>3, <1>4, <2>2
<1>6. ASSUME NEW j \in U PROVE j <= m
  <2>1. m < j => j \in V
    BY <1>3
  <2>2. ~(m < j)
    BY <1>5, <2>1
  <2> QED BY <1>3, <2>2
<1> QED BY <1>3, <1>6

(* The indexes in order are indexes of the set.                            *)
LEMMA OrderedIn ==
    ASSUME NEW S, IsFiniteSet(S), S \subseteq Int, NEW k \in 1..Cardinality(S)
    PROVE  A!ByIndex(S)[k] \in S
<1> DEFINE downs == {U \in SUBSET S : Cardinality(U) >= k /\ \A i \in U : \A j \in S : j < i => j \in U}
<1>1. Cardinality(S) \in Nat /\ k \in Nat /\ k <= Cardinality(S) /\ k >= 1
  BY FS_CardinalityType
<1>2. downs # {} /\ \A U \in downs : IsFiniteSet(U)
  <2>1. S \in downs
    BY <1>1
  <2> QED BY <2>1, FS_Subset
<1>3. PICK U \in downs : \A R \in downs : R \subseteq U => R = U
  <2> HIDE DEF downs
  <2> QED BY <1>2, SmallestSet
<1>4. IsFiniteSet(U) /\ Cardinality(U) \in Nat /\ U \subseteq S /\ Cardinality(U) >= k
  BY <1>2, FS_CardinalityType
<1>5. U # {}
  BY <1>1, <1>4, FS_EmptySet
<1>6. PICK m \in U : \A j \in U : j <= m
  <2>1. U \subseteq Int
    BY <1>4
  <2> QED BY <1>4, <1>5, <2>1, GreatestIndex
<1> DEFINE R == U \ {m}
<1>7. Cardinality(R) = Cardinality(U) - 1 /\ R # U
  BY <1>4, FS_RemoveElement
<1>8. Cardinality(U) = k
  <2> SUFFICES ASSUME Cardinality(U) # k PROVE FALSE
    OBVIOUS
  <2>1. Cardinality(R) >= k
    BY <1>1, <1>4, <1>7
  <2>2. \A i \in R : \A j \in S : j < i => j \in R
    <3> SUFFICES ASSUME NEW i \in R, NEW j \in S, j < i PROVE j \in R
      OBVIOUS
    <3>1. j \in U /\ i <= m /\ i \in Int /\ j \in Int /\ m \in Int
      BY <1>4, <1>6
    <3> QED BY <3>1
  <2>3. R \in downs
    BY <1>4, <2>1, <2>2
  <2> QED BY <1>3, <1>7, <2>3
<1>9. {j \in S : j < m} = R
  <2>1. ASSUME NEW j \in S PROVE j < m <=> j \in R
    <3>1. j \in Int /\ m \in Int
      BY <1>4
    <3>2. j < m => j \in U
      OBVIOUS
    <3>3. j \in U => j <= m
      BY <1>6
    <3> QED BY <3>1, <3>2, <3>3
  <2>2. R \subseteq S
    BY <1>4
  <2> HIDE DEF R
  <2> QED BY <2>1, <2>2
<1>10. A!Cardinality({j \in S : j < m}) = k - 1
  BY <1>7, <1>8, <1>9, SameCardinality
<1>11. A!ByIndex(S)[k] = CHOOSE i \in S : A!Cardinality({j \in S : j < i}) = k - 1
  BY SameCardinality DEF A!ByIndex
<1>12. m \in S
  BY <1>4
<1> HIDE DEF downs, R
<1> QED BY <1>10, <1>11, <1>12

(* An index that was not used is found.                                    *)
LEMMA IndexGenerated ==
    ASSUME NEW used, IsFiniteSet(used)
    PROVE  A!Generated(used) \in Nat
<1> DEFINE n == Cardinality(used)
           free == {i \in 0..n : i \notin used}
<1>1. n \in Nat /\ A!Cardinality(used) = n
  BY FS_CardinalityType, SameCardinality
<1>2. free # {}
  <2> SUFFICES ASSUME free = {} PROVE FALSE
    OBVIOUS
  <2>1. 0..n \subseteq used
    OBVIOUS
  <2>2. IsFiniteSet(0..n) /\ Cardinality(0..n) = n + 1
    BY <1>1, FS_Interval
  <2>3. Cardinality(0..n) <= n
    BY <2>1, FS_Subset
  <2> HIDE DEF n
  <2> QED BY <1>1, <2>2, <2>3
<1> HIDE DEF n
<1>3. PICK i \in free : \A j \in free : <<j, i>> \notin OpToRel(<, Nat)
  <2>1. free \subseteq Nat
    BY <1>1
  <2> HIDE DEF free
  <2> QED BY <1>2, <2>1, WFMin, NatLessThanWellFounded
<1>4. \A j \in 0..(i - 1) : j \in used
  <2> SUFFICES ASSUME NEW j \in 0..(i - 1), j \notin used PROVE FALSE
    OBVIOUS
  <2>1. j \in Nat /\ i \in Nat /\ j < i /\ j \in free
    BY <1>1
  <2>2. <<j, i>> \in OpToRel(<, Nat)
    BY <2>1 DEF OpToRel
  <2> QED BY <1>3, <2>1, <2>2
<1>5. i \in 0..n /\ i \notin used
  OBVIOUS
<1> HIDE DEF free
<1>6. \E m \in 0..n : m \notin used /\ \A j \in 0..(m - 1) : j \in used
  BY <1>4, <1>5
<1>7. A!Generated(used) \in 0..n
  BY <1>1, <1>6 DEF A!Generated
<1> QED BY <1>1, <1>7

-----------------------------------------------------------------------------
(* What a client has read, and what a chunk more makes of it.              *)
LEMMA LengthOf ==
    ASSUME NEW w, IsSeq(w)
    PROVE  /\ Len(w) \in Nat /\ DOMAIN w = 1..Len(w)
           /\ w # << >> => Len(w) # 0
           /\ w = << >> => Len(w) = 0
<1>1. w \in Seq(Range(w))
  BY DEF IsSeq
<1> QED BY <1>1

(* What is appended comes last.                                            *)
LEMMA OneMore ==
    ASSUME NEW w, IsSeq(w), NEW c
    PROVE  /\ IsSeq(Append(w, c)) /\ Append(w, c) # << >>
           /\ Len(Append(w, c)) = Len(w) + 1
           /\ Append(w, c)[Len(w) + 1] = c
           /\ \A p \in 1..Len(w) : Append(w, c)[p] = w[p]
           /\ Last(Append(w, c)) = c
<1>1. w \in Seq(Range(w) \union {c})
  BY DEF IsSeq
<1>2. IsSeq(Append(w, c)) /\ Append(w, c) # << >>
  BY SeqAppend
<1>3. /\ Len(Append(w, c)) = Len(w) + 1
      /\ Append(w, c)[Len(w) + 1] = c
      /\ \A p \in 1..Len(w) : Append(w, c)[p] = w[p]
  BY <1>1
<1> QED BY <1>2, <1>3 DEF Last

(* The chunks before one that is appended.                                 *)
LEMMA Before ==
    ASSUME NEW w, IsSeq(w), NEW c
    PROVE  /\ \A p \in 1..(Len(w) + 1) : SubSeq(Append(w, c), 1, p - 1) = SubSeq(w, 1, p - 1)
           /\ SubSeq(w, 1, Len(w)) = w
<1>1. w \in Seq(Range(w) \union {c}) /\ Append(w, c) \in Seq(Range(w) \union {c})
  BY DEF IsSeq
<1>2. SubSeq(w, 1, Len(w)) = w
  BY <1>1
<1>3. ASSUME NEW p \in 1..(Len(w) + 1)
      PROVE  SubSeq(Append(w, c), 1, p - 1) = SubSeq(w, 1, p - 1)
  <2>1. p - 1 \in 0..Len(w) /\ Len(Append(w, c)) = Len(w) + 1
    BY <1>1
  <2>2. SubSeq(Append(w, c), 1, p - 1) = [i \in 1..(p - 1) |-> Append(w, c)[i]]
    BY <1>1, <2>1
  <2>3. SubSeq(w, 1, p - 1) = [i \in 1..(p - 1) |-> w[i]]
    BY <1>1, <2>1
  <2>4. \A i \in 1..(p - 1) : Append(w, c)[i] = w[i]
    BY <1>1, <2>1
  <2> QED BY <2>2, <2>3, <2>4
<1> QED BY <1>2, <1>3

(* A chunk that may follow keeps a stream well formed.                     *)
LEMMA FollowsWell ==
    ASSUME NEW w, IsSeq(w), WellFormed(w), ~HasError(w), NEW c, MayFollow(w, c)
    PROVE  WellFormed(Append(w, c))
<1> DEFINE n == Len(w)
           v == Append(w, c)
<1>1. /\ n \in Nat /\ DOMAIN w = 1..n /\ Len(v) = n + 1 /\ DOMAIN v = 1..(n + 1)
      /\ v[n + 1] = c /\ \A p \in 1..n : v[p] = w[p]
  BY LengthOf, OneMore
<1>2. /\ \A p \in 1..(n + 1) : SubSeq(v, 1, p - 1) = SubSeq(w, 1, p - 1)
      /\ SubSeq(w, 1, n) = w
  BY Before
<1> HIDE DEF n, v
<1>3. ASSUME NEW p \in 1..(n + 1)
      PROVE  MayFollow(SubSeq(v, 1, p - 1), v[p]) /\ (v[p].type = "error" => p = Len(v))
  <2>1. CASE p = n + 1
    <3>1. p - 1 = n
      BY <1>1, <2>1
    <3> QED BY <1>1, <1>2, <2>1, <3>1
  <2>2. CASE p # n + 1
    <3>1. p \in 1..n
      BY <1>1, <2>2
    <3>2. MayFollow(SubSeq(w, 1, p - 1), w[p]) /\ w[p].type # "error"
      BY <1>1, <3>1 DEF WellFormed, HasError
    <3> QED BY <1>1, <1>2, <3>1, <3>2
  <2> QED BY <2>1, <2>2
<1>4. WellFormed(v)
  <2>1. DOMAIN v = 1..(n + 1)
    BY <1>1
  <2>2. \A p \in DOMAIN v : MayFollow(SubSeq(v, 1, p - 1), v[p])
    BY <1>3, <2>1, Zenon
  <2>3. \A p \in DOMAIN v : v[p].type = "error" => p = Len(v)
    BY <1>3, <2>1, Zenon
  <2> QED BY <2>2, <2>3, Zenon DEF WellFormed
<1> QED BY <1>4 DEF v

(* What comes first of a well-formed stream is one.                        *)
LEMMA BeginsWell ==
    ASSUME NEW v, IsSeq(v), NEW w, IsSeq(w), WellFormed(v \o w)
    PROVE  WellFormed(v)
<1> DEFINE m == Len(v)
           x == v \o w
           S == Range(v) \union Range(w)
<1>1. v \in Seq(S) /\ w \in Seq(S)
  BY DEF IsSeq
<1> HIDE DEF S
<1>2. /\ x \in Seq(S) /\ m \in Nat /\ Len(w) \in Nat /\ Len(x) = m + Len(w)
      /\ DOMAIN v = 1..m /\ DOMAIN x = 1..(m + Len(w)) /\ \A p \in 1..m : x[p] = v[p]
  BY <1>1
<1>3. ASSUME NEW p \in 1..m PROVE SubSeq(x, 1, p - 1) = SubSeq(v, 1, p - 1)
  <2>1. p - 1 \in 0..m /\ p - 1 \in 0..Len(x) /\ Len(v) = m
    BY <1>2
  <2>2. SubSeq(x, 1, p - 1) = [i \in 1..(p - 1) |-> x[i]]
    BY <1>2, <2>1
  <2>3. SubSeq(v, 1, p - 1) = [i \in 1..(p - 1) |-> v[i]]
    BY <1>1, <2>1
  <2>4. \A i \in 1..(p - 1) : x[i] = v[i]
    BY <1>2
  <2> QED BY <2>2, <2>3, <2>4
<1>4. ASSUME NEW p \in 1..m
      PROVE  MayFollow(SubSeq(v, 1, p - 1), v[p]) /\ (v[p].type = "error" => p = Len(v))
  <2>1. p \in DOMAIN x /\ x[p] = v[p]
    BY <1>2
  <2>2. MayFollow(SubSeq(x, 1, p - 1), x[p]) /\ (x[p].type = "error" => p = Len(x))
    BY <2>1 DEF WellFormed
  <2>3. p = Len(x) => p = Len(v)
    <3>1. p <= m /\ Len(x) >= m /\ p \in Nat /\ Len(x) \in Nat
      BY <1>2
    <3> HIDE DEF x
    <3> QED BY <3>1
  <2> HIDE DEF x, m
  <2> QED BY <1>3, <2>1, <2>2, <2>3
<1> QED BY <1>2, <1>4 DEF WellFormed

(* The blocks a client has put together.                                   *)
LEMMA AssembledMore ==
    ASSUME NEW w, IsSeq(w), NEW c
    PROVE  Assembled(Append(w, c)) = Assemble(Assembled(w), c)
<1>1. IsSeq(Append(w, c))
  BY OneMore
<1>2. Assembled(w) = Fold("assemble", << >>, w)
  BY LengthOf, AssembleFold DEF Assembled
<1>3. Assembled(Append(w, c)) = Fold("assemble", << >>, Append(w, c))
  BY <1>1, LengthOf, AssembleFold DEF Assembled
<1> QED BY <1>2, <1>3, FoldAppend DEF FoldStep

(* Nothing comes of nothing.                                               *)
LEMMA AssembledNone == Assembled(<< >>) = << >>
<1>1. DOMAIN << >> = 1..0
  OBVIOUS
<1> QED BY <1>1, FoldNone, AssembleFold DEF Assembled

-----------------------------------------------------------------------------
(* A stream that is well formed, has no error and makes a sequence of      *)
(* blocks.                                                                 *)
Sound(w) == IsSeq(w) /\ WellFormed(w) /\ ~HasError(w) /\ IsSeq(Assembled(w))

Unfinished == {"content_block_start", "content_block_delta"}

(* A stream before its first chunk.                                        *)
LEMMA SoundNone == Sound(<< >>)
<1>1. DOMAIN << >> = {}
  OBVIOUS
<1> QED BY <1>1, SeqNone, AssembledNone DEF Sound, WellFormed

(* A chunk that may follow and makes a sequence of blocks.                 *)
LEMMA SoundMore ==
    ASSUME NEW w, Sound(w), NEW c, MayFollow(w, c), c.type # "error",
           IsSeq(Assemble(Assembled(w), c))
    PROVE  /\ Sound(Append(w, c)) /\ Append(w, c) # << >>
           /\ LastType(Append(w, c)) = c.type
           /\ Assembled(Append(w, c)) = Assemble(Assembled(w), c)
BY FollowsWell, AssembledMore, OneMore, SeqAppend DEF Sound, LastType

(* A chunk that says nothing of a block.                                   *)
LEMMA AssembleSame ==
    ASSUME NEW c, c.type \notin Unfinished, NEW blocks
    PROVE  Assemble(blocks, c) = blocks
BY DEF Assemble, Unfinished

(* The start of the message.                                               *)
LEMMA MessageStarted ==
    ASSUME NEW c, c.type = "message_start"
    PROVE  LET v == Append(<< >>, c)
           IN Sound(v) /\ v # << >> /\ Assembled(v) = << >> /\ Between(v)
<1>1. MayFollow(<< >>, c)
  BY DEF MayFollow
<1>2. Assemble(Assembled(<< >>), c) = << >>
  BY AssembledNone, AssembleSame DEF Unfinished
<1> QED BY <1>1, <1>2, SoundNone, SoundMore, SeqNone DEF Between

(* The start of a block.                                                   *)
LEMMA BlockStarted ==
    ASSUME NEW w, Sound(w), w # << >>, Between(w), NEW b
    PROVE  LET v == Append(w, A!Start(Len(Assembled(w)), b))
           IN /\ Sound(v) /\ v # << >> /\ LastType(v) = "content_block_start"
              /\ Assembled(v) = Append(Assembled(w), b)
<1> DEFINE c == A!Start(Len(Assembled(w)), b)
<1>1. c.type = "content_block_start" /\ c.index = Len(Assembled(w)) /\ c.block = b
  BY DEF A!Start
<1> HIDE DEF c
<1>2. Len(Assembled(w)) \in Nat
  BY LengthOf DEF Sound
<1>3. MayFollow(w, c)
  BY <1>1, <1>2 DEF MayFollow, IndexOf
<1>4. Assemble(Assembled(w), c) = Append(Assembled(w), b)
  BY <1>1 DEF Assemble
<1>5. IsSeq(Append(Assembled(w), b))
  BY OneMore DEF Sound
<1>6. /\ Sound(Append(w, c)) /\ Append(w, c) # << >>
      /\ LastType(Append(w, c)) = c.type
      /\ Assembled(Append(w, c)) = Assemble(Assembled(w), c)
  BY <1>1, <1>3, <1>4, <1>5, SoundMore
<1> QED BY <1>1, <1>4, <1>6 DEF c

(* A block is replaced.                                                    *)
With(a, n, x) == [a EXCEPT ![n] = x]

(* The others stay as they were.                                           *)
LEMMA SeqReplaced ==
    ASSUME NEW a, IsSeq(a), NEW n \in 1..Len(a), NEW x
    PROVE  /\ IsSeq(With(a, n, x)) /\ Len(With(a, n, x)) = Len(a)
           /\ With(a, n, x)[n] = x
           /\ \A p \in 1..Len(a) : p # n => With(a, n, x)[p] = a[p]
<1> DEFINE S == Range(a) \union {x}
           z == [a EXCEPT ![n] = x]
<1>1. a \in Seq(S) /\ x \in S
  BY DEF IsSeq
<1> HIDE DEF S
<1>2. z \in Seq(S) /\ Len(z) = Len(a) /\ DOMAIN a = 1..Len(a)
  BY <1>1
<1>3. IsSeq(z)
  <2> HIDE DEF z
  <2> QED BY <1>2, SeqOverRange, Zenon
<1>4. z[n] = x /\ \A p \in 1..Len(a) : p # n => z[p] = a[p]
  BY <1>2
<1> QED BY <1>2, <1>3, <1>4 DEF With

(* A piece more of the n-th block, and a block with its value.             *)
Grown(a, n, x) == [a EXCEPT ![n].value = @ \o x]
Filled(b, x) == [b EXCEPT !.value = x]

(* A piece of the block that is open.                                      *)
LEMMA BlockGrown ==
    ASSUME NEW w, Sound(w), w # << >>, LastType(w) \in Unfinished,
           NEW n, n = Len(Assembled(w)), n # 0, NEW x, NEW k, k = n - 1
    PROVE  LET v == Append(w, A!Delta(k, x))
           IN /\ Sound(v) /\ v # << >> /\ LastType(v) = "content_block_delta"
              /\ Assembled(v) = Grown(Assembled(w), n, x)
<1> DEFINE c == A!Delta(k, x)
<1>1. c.type = "content_block_delta" /\ c.index = n - 1 /\ c.value = x
  BY DEF A!Delta
<1> HIDE DEF c
<1>2. n \in Nat /\ n \in 1..Len(Assembled(w)) /\ (n - 1) + 1 = n
  BY LengthOf DEF Sound
<1>3. MayFollow(w, c)
  BY <1>1, <1>2 DEF MayFollow, IndexOf, Ongoing, Unfinished
<1>4. Assemble(Assembled(w), c) = Grown(Assembled(w), n, x)
  BY <1>1, <1>2 DEF Assemble, Grown
<1>5. IsSeq(Grown(Assembled(w), n, x))
  <2>1. Grown(Assembled(w), n, x)
          = With(Assembled(w), n, Filled(Assembled(w)[n], Assembled(w)[n].value \o x))
    BY DEF Grown, With, Filled
  <2> QED BY <1>2, <2>1, SeqReplaced DEF Sound
<1>6. /\ Sound(Append(w, c)) /\ Append(w, c) # << >>
      /\ LastType(Append(w, c)) = c.type
      /\ Assembled(Append(w, c)) = Assemble(Assembled(w), c)
  BY <1>1, <1>3, <1>4, <1>5, SoundMore
<1> QED BY <1>1, <1>4, <1>6 DEF c

(* The signature of a block of thinking.                                   *)
LEMMA BlockSigned ==
    ASSUME NEW w, Sound(w), w # << >>, LastType(w) \in Unfinished,
           NEW n, n = Len(Assembled(w)), n # 0, NEW x, x = Assembled(w)[n].value
    PROVE  LET v == Append(w, A!Signature(n - 1, x))
           IN /\ Sound(v) /\ v # << >> /\ LastType(v) = "signature"
              /\ Assembled(v) = Assembled(w)
<1> DEFINE c == A!Signature(n - 1, x)
<1>1. c.type = "signature" /\ c.index = n - 1 /\ c.value = x
  BY DEF A!Signature
<1> HIDE DEF c
<1>2. MayFollow(w, c)
  BY <1>1 DEF MayFollow, IndexOf, Ongoing, Unfinished, LastBlock, Last
<1>3. Assemble(Assembled(w), c) = Assembled(w)
  BY <1>1, AssembleSame DEF Unfinished
<1>4. /\ Sound(Append(w, c)) /\ Append(w, c) # << >>
      /\ LastType(Append(w, c)) = c.type
      /\ Assembled(Append(w, c)) = Assemble(Assembled(w), c)
  BY <1>1, <1>2, <1>3, SoundMore DEF Sound
<1> QED BY <1>1, <1>3, <1>4 DEF c

(* The end of a block: thinking ends when it is signed.                    *)
LEMMA BlockStopped ==
    ASSUME NEW w, Sound(w), w # << >>, LastType(w) \in Unfinished \union {"signature"},
           NEW n, n = Len(Assembled(w)), n # 0,
           Assembled(w)[n].type = "thinking" <=> LastType(w) = "signature"
    PROVE  LET v == Append(w, A!Stop(n - 1))
           IN /\ Sound(v) /\ v # << >> /\ Between(v)
              /\ Assembled(v) = Assembled(w)
<1> DEFINE c == A!Stop(n - 1)
<1>1. c.type = "content_block_stop" /\ c.index = n - 1
  BY DEF A!Stop
<1> HIDE DEF c
<1>2. MayFollow(w, c)
  BY <1>1 DEF MayFollow, IndexOf, Ongoing, Unfinished, LastBlock, Last
<1>3. Assemble(Assembled(w), c) = Assembled(w)
  BY <1>1, AssembleSame DEF Unfinished
<1>4. /\ Sound(Append(w, c)) /\ Append(w, c) # << >>
      /\ LastType(Append(w, c)) = c.type
      /\ Assembled(Append(w, c)) = Assemble(Assembled(w), c)
  BY <1>1, <1>2, <1>3, SoundMore DEF Sound
<1> QED BY <1>1, <1>3, <1>4 DEF c, Between

(* The end of the message, in two chunks.                                  *)
LEMMA MessageEnded ==
    ASSUME NEW w, Sound(w), w # << >>, Between(w),
           NEW c, c.type = "message_delta", NEW d, d.type = "message_stop"
    PROVE  LET v == Append(Append(w, c), d)
           IN /\ Sound(v) /\ LastType(v) = "message_stop" /\ Assembled(v) = Assembled(w)
              /\ v[Len(v) - 1] = c /\ Len(v) = Len(w) + 2 /\ Len(w) \in Nat
<1> DEFINE u == Append(w, c)
           v == Append(u, d)
<1>1. MayFollow(w, c)
  BY DEF MayFollow
<1>2. Assemble(Assembled(w), c) = Assembled(w)
  BY AssembleSame DEF Unfinished
<1>3. Sound(u) /\ u # << >> /\ LastType(u) = "message_delta" /\ Assembled(u) = Assembled(w)
  BY <1>1, <1>2, SoundMore DEF Sound
<1>4. MayFollow(u, d)
  <2> HIDE DEF u
  <2> QED BY <1>3 DEF MayFollow
<1>5. Assemble(Assembled(u), d) = Assembled(u)
  BY AssembleSame DEF Unfinished
<1>6. Sound(v) /\ LastType(v) = "message_stop" /\ Assembled(v) = Assembled(w)
  <2> HIDE DEF u
  <2> QED BY <1>3, <1>4, <1>5, SoundMore DEF Sound
<1>7. /\ Len(w) \in Nat /\ Len(u) = Len(w) + 1 /\ u[Len(w) + 1] = c
      /\ Len(v) = Len(u) + 1 /\ v[Len(u)] = u[Len(u)]
  <2>1. Len(w) \in Nat /\ Len(u) = Len(w) + 1 /\ u[Len(w) + 1] = c
    BY LengthOf, OneMore DEF Sound
  <2>2. IsSeq(u) /\ Len(u) \in 1..Len(u)
    BY <1>3, <2>1 DEF Sound
  <2> HIDE DEF u
  <2>3. Len(v) = Len(u) + 1 /\ v[Len(u)] = u[Len(u)]
    BY <2>2, OneMore
  <2> QED BY <2>1, <2>3
<1>8. Len(v) - 1 = Len(u) /\ Len(v) = Len(w) + 2 /\ v[Len(u)] = c
  <2> HIDE DEF u, v
  <2> QED BY <1>7
<1> QED BY <1>6, <1>7, <1>8

(* An error may be the last of a stream that has begun and not ended.      *)
LEMMA ErrorEnds ==
    ASSUME NEW w, Sound(w), w # << >>, LastType(w) # "message_stop"
    PROVE  WellFormed(Append(w, ErrorChunk))
<1>1. MayFollow(w, ErrorChunk)
  BY DEF MayFollow, ErrorChunk
<1> QED BY <1>1, FollowsWell DEF Sound

(* A piece more of the last of a sequence of blocks.                       *)
LEMMA LastGrown ==
    ASSUME NEW a, IsSeq(a), NEW b, NEW x, NEW n, n = Len(a) + 1
    PROVE  Grown(Append(a, b), n, x) = Append(a, Filled(b, b.value \o x))
<1> DEFINE d == [b EXCEPT !.value = @ \o x]
           S == Range(a) \union {b, d}
<1>1. a \in Seq(S) /\ b \in S /\ d \in S
  BY DEF IsSeq
<1> HIDE DEF S
<1>2. /\ Append(a, b) \in Seq(S) /\ Append(a, d) \in Seq(S) /\ Len(a) \in Nat
      /\ DOMAIN Append(a, b) = 1..n /\ DOMAIN Append(a, d) = 1..n
      /\ Append(a, b)[n] = b /\ Append(a, d)[n] = d
      /\ \A p \in 1..n : p # n => Append(a, b)[p] = Append(a, d)[p]
  <2> HIDE DEF d
  <2> QED BY <1>1
<1>3. [Append(a, b) EXCEPT ![n].value = @ \o x]
        = [p \in 1..n |-> IF p = n THEN d ELSE Append(a, b)[p]]
  BY <1>2
<1>4. Append(a, d) = [p \in 1..n |-> Append(a, d)[p]]
  <2> DEFINE z == Append(a, d)
  <2>1. z \in Seq(S) /\ DOMAIN z = 1..n
    BY <1>2
  <2> HIDE DEF z
  <2>2. z = [p \in 1..n |-> z[p]]
    BY <2>1
  <2> QED BY <2>2 DEF z
<1>5. [p \in 1..n |-> IF p = n THEN d ELSE Append(a, b)[p]] = [p \in 1..n |-> Append(a, d)[p]]
  <2> HIDE DEF d
  <2> QED BY <1>2
<1>6. Grown(Append(a, b), n, x) = Append(a, d)
  BY <1>3, <1>4, <1>5 DEF Grown
<1>7. Filled(b, b.value \o x) = d
  BY DEF Filled
<1> QED BY <1>6, <1>7

(* The n blocks of w and a block d.                                        *)
Adds(w, v, n, d) ==
    /\ n \in Nat /\ Len(Assembled(v)) = n + 1 /\ Assembled(v)[n + 1] = d
    /\ \A p \in 1..n : Assembled(v)[p] = Assembled(w)[p]

(* A block and all of its value.                                           *)
LEMMA BlockOpened ==
    ASSUME NEW w, Sound(w), w # << >>, Between(w), NEW n, n = Len(Assembled(w)),
           NEW b, b.value = << >>, NEW x, IsSeq(x)
    PROVE  LET v == Append(Append(w, A!Start(n, b)), A!Delta(n, x))
           IN /\ Sound(v) /\ v # << >> /\ LastType(v) = "content_block_delta"
              /\ Adds(w, v, n, Filled(b, x))
<1> DEFINE a == Assembled(w)
           u == Append(w, A!Start(n, b))
           d == Filled(b, x)
           v == Append(u, A!Delta(n, x))
<1>1. IsSeq(a) /\ n \in Nat
  BY LengthOf DEF Sound
<1>2. Sound(u) /\ u # << >> /\ LastType(u) = "content_block_start" /\ Assembled(u) = Append(a, b)
  BY BlockStarted
<1>3. Len(Assembled(u)) = n + 1 /\ n + 1 # 0 /\ (n + 1) - 1 = n
  BY <1>1, <1>2, OneMore
<1>4. /\ Sound(v) /\ v # << >> /\ LastType(v) = "content_block_delta"
      /\ Assembled(v) = Grown(Assembled(u), n + 1, x)
  <2> HIDE DEF u
  <2>1. LastType(u) \in Unfinished
    BY <1>2 DEF Unfinished
  <2>2. PICK k : k = n + 1
    OBVIOUS
  <2>3. k = Len(Assembled(u)) /\ k # 0 /\ n = k - 1
    BY <1>3, <2>2
  <2>4. LET z == Append(u, A!Delta(n, x))
        IN /\ Sound(z) /\ z # << >> /\ LastType(z) = "content_block_delta"
           /\ Assembled(z) = Grown(Assembled(u), k, x)
    BY <1>2, <2>1, <2>3, BlockGrown
  <2> QED BY <2>2, <2>4
<1>5. << >> \o x = x
  BY DEF IsSeq
<1>6. Filled(b, b.value \o x) = d
  BY <1>5
<1>7. Assembled(v) = Append(a, d)
  <2>1. Assembled(v) = Grown(Append(a, b), n + 1, x)
    BY <1>2, <1>4
  <2>a. n = Len(a)
    OBVIOUS
  <2> HIDE DEF a, v
  <2>2. Grown(Append(a, b), n + 1, x) = Append(a, Filled(b, b.value \o x))
    BY <1>1, <2>a, LastGrown
  <2> QED BY <1>6, <2>1, <2>2
<1>8. /\ Len(Append(a, d)) = n + 1 /\ Append(a, d)[n + 1] = d
      /\ \A p \in 1..n : Append(a, d)[p] = a[p]
  <2> HIDE DEF d
  <2> QED BY <1>1, OneMore
<1> HIDE DEF a, v, d
<1>9. /\ Sound(v) /\ v # << >> /\ LastType(v) = "content_block_delta"
      /\ Adds(w, v, n, d)
  BY <1>1, <1>4, <1>7, <1>8 DEF a, Adds
<1> QED BY <1>9 DEF a, v, u, d

(* The three chunks of a tool.                                             *)
LEMMA ToolTold ==
    ASSUME NEW w, Sound(w), w # << >>, Between(w), NEW n, n = Len(Assembled(w)),
           NEW tool, IsSeq(tool.args)
    PROVE  LET v == w \o <<A!Start(n, A!ToolBlock(tool, << >>)), A!Delta(n, tool.args), A!Stop(n)>>
           IN /\ Sound(v) /\ v # << >> /\ Between(v)
              /\ Len(Assembled(v)) = n + 1 /\ n \in Nat
              /\ Assembled(v)[n + 1] = A!ToolBlock(tool, tool.args)
              /\ \A p \in 1..n : Assembled(v)[p] = Assembled(w)[p]
<1> DEFINE b == A!ToolBlock(tool, << >>)
           d == A!ToolBlock(tool, tool.args)
           u == Append(Append(w, A!Start(n, b)), A!Delta(n, tool.args))
           v == Append(u, A!Stop(n))
<1>1. b.value = << >> /\ Filled(b, tool.args) = d /\ d.type # "thinking"
  BY DEF A!ToolBlock, Filled
<1> HIDE DEF b, d
<1>2. /\ Sound(u) /\ u # << >> /\ LastType(u) = "content_block_delta"
      /\ Len(Assembled(u)) = n + 1 /\ n \in Nat
      /\ Assembled(u)[n + 1] = d
      /\ \A p \in 1..n : Assembled(u)[p] = Assembled(w)[p]
  <2> DEFINE args == tool.args
  <2>1. IsSeq(args) /\ Filled(b, args) = d
    BY <1>1
  <2> HIDE DEF args
  <2>2. LET z == Append(Append(w, A!Start(n, b)), A!Delta(n, args))
        IN /\ Sound(z) /\ z # << >> /\ LastType(z) = "content_block_delta"
           /\ Adds(w, z, n, Filled(b, args))
    BY <1>1, <2>1, BlockOpened
  <2> QED BY <2>1, <2>2 DEF args, Adds
<1>3. w \o <<A!Start(n, b), A!Delta(n, tool.args), A!Stop(n)>> = v
  BY SeqFew DEF Sound
<1> HIDE DEF u
<1>4. n + 1 # 0 /\ (n + 1) - 1 = n
  BY <1>2
<1>5. Sound(v) /\ v # << >> /\ Between(v) /\ Assembled(v) = Assembled(u)
  <2>1. LastType(u) \in Unfinished \union {"signature"} /\ LastType(u) # "signature"
    BY <1>2 DEF Unfinished
  <2> QED BY <1>1, <1>2, <1>4, <2>1, BlockStopped
<1> HIDE DEF v
<1>6. /\ Sound(v) /\ v # << >> /\ Between(v)
      /\ Len(Assembled(v)) = n + 1 /\ n \in Nat
      /\ Assembled(v)[n + 1] = d
      /\ \A p \in 1..n : Assembled(v)[p] = Assembled(w)[p]
  BY <1>2, <1>5
<1> QED BY <1>3, <1>6 DEF b, d

-----------------------------------------------------------------------------
(* The encoder E and the aggregator G of the same events.  Both keep the   *)
(* same of them...                                                         *)
Gathers(s) ==
    s \in [bad : {s.bad}, finish : {s.finish}, usage : {s.usage}, indexes : {s.indexes},
           tools : {s.tools}, pending : {s.pending}, blocks : {s.blocks}]

Twin(E, G) ==
    /\ Enc(E) /\ Gathers(G) /\ E.bad = FALSE /\ G.bad = FALSE
    /\ G.finish = E.finish /\ G.usage = E.usage /\ G.indexes = E.indexes
    /\ G.tools = E.tools /\ G.pending = E.pending

(* ...in order: a tool that is not of the group is closed.                 *)
IndexesOk(r) ==
    /\ r \in [byId : [Ids -> Int \union {None}], used : {r.used},
              current : Int \union {None}]
    /\ IsFiniteSet(r.used)

Tool(t) ==
    /\ t \in [id : {t.id}, name : {t.name}, args : {t.args}, closed : BOOLEAN]
    /\ IsSeq(t.args)

Kept(s) ==
    /\ IndexesOk(s.indexes)
    /\ IsFiniteSet(s.pending) /\ s.pending \subseteq DOMAIN s.tools
    /\ DOMAIN s.tools \subseteq Int
    /\ s.tools = [i \in DOMAIN s.tools |-> s.tools[i]]
    /\ \A i \in DOMAIN s.tools : Tool(s.tools[i]) /\ (i \in s.pending \/ s.tools[i].closed)

(* A chunk w after the other, E has numbered the blocks of the stream and  *)
(* knows the one that is open.                                             *)
Open(E, w) ==
    /\ w # << >> /\ LastType(w) \in Unfinished /\ E.next # 0 /\ E.pending = {}
    /\ E.scalar.type \in {"thinking", "text"} /\ IsSeq(E.scalar.value)
    /\ E.scalar = [type |-> E.scalar.type, index |-> E.next - 1, value |-> E.scalar.value]
    /\ Assembled(w)[E.next] = [type |-> E.scalar.type, value |-> E.scalar.value]

Line(E, w) ==
    /\ Sound(w) /\ (E.started <=> w # << >>) /\ E.next = Len(Assembled(w))
    /\ E.scalar.type = None => w = << >> \/ Between(w)
    /\ E.scalar.type # None => Open(E, w)

(* G has the same blocks, and behind them the tools of the group.          *)
Values(blocks, from, to) == {blocks[q].value : q \in (from + 1)..to}

Row(E, G) ==
    /\ IsSeq(G.blocks) /\ Len(G.blocks) = E.next + Cardinality(E.pending)
    /\ \A p \in (E.next + 1)..Len(G.blocks) : A!IsTool(G.blocks[p])
    /\ Values(G.blocks, E.next, Len(G.blocks)) = E.pending

ToolAt(blocks, p) ==
    LET run == A!Run(blocks, p)
    IN A!ByIndex({blocks[q].value : q \in run})[A!Cardinality({q \in run : q <= p})]

Agree(s, a, n) == \A p \in 1..n :
    IF A!IsTool(s.blocks[p])
    THEN /\ ToolAt(s.blocks, p) \in DOMAIN s.tools \ s.pending
         /\ a[p] = LET tool == s.tools[ToolAt(s.blocks, p)] IN A!ToolBlock(tool, tool.args)
    ELSE a[p] = s.blocks[p]

Basic(E, G, w) ==
    Twin(E, G) /\ Kept(E) /\ Line(E, w) /\ Row(E, G) /\ Agree(G, Assembled(w), E.next)

(* A group follows a block that is no tool; and between two events either  *)
(* a block is open or a group, unless nothing has come of them.            *)
Wall(E, G) == E.next # 0 => ~A!IsTool(G.blocks[E.next])
Busy(E) == E.scalar.type = None /\ E.pending = {} => E.next = 0

View(E, G, w) == Basic(E, G, w) /\ Wall(E, G)

(* What a client is told of a block that is final.                         *)
LEMMA AgreeFinal ==
    ASSUME NEW s, NEW a, NEW n, Agree(s, a, n), NEW p \in 1..n
    PROVE  a[p] = A!FinalBlock(s, p)
BY DEF Agree, A!FinalBlock, ToolAt

(* A group of no tools is closed already.                                  *)
LEMMA CloseNone ==
    ASSUME NEW s, Kept(s), s.pending = {}, Enc(s) \/ Gathers(s)
    PROVE  A!CloseGroup(s) = s
<1> DEFINE tools == [i \in DOMAIN s.tools |-> [s.tools[i] EXCEPT !.closed = @ \/ i \in s.pending]]
<1>1. A!GroupParses(s)
  BY DEF A!GroupParses
<1>2. tools = s.tools
  <2>1. ASSUME NEW i \in DOMAIN s.tools
        PROVE  [s.tools[i] EXCEPT !.closed = @ \/ i \in s.pending] = s.tools[i]
    BY DEF Kept, Tool
  <2>2. tools = [i \in DOMAIN s.tools |-> s.tools[i]]
    BY <2>1
  <2> QED BY <2>2 DEF Kept
<1>3. A!CloseGroup(s) = [s EXCEPT !.pending = {}, !.tools = tools]
  BY <1>1 DEF A!CloseGroup
<1> HIDE DEF tools
<1>4. CASE Enc(s)
  BY <1>2, <1>3, <1>4 DEF Enc
<1>5. CASE Gathers(s)
  BY <1>2, <1>3, <1>5 DEF Gathers
<1> QED BY <1>4, <1>5

(* No group of a state that is bad is closed well.                         *)
LEMMA CloseBad ==
    ASSUME NEW s, s.bad, Enc(s)
    PROVE  A!CloseGroup(s).bad /\ A!FlushGroup(s).bad
BY DEF Enc, A!CloseGroup, A!Violation, A!FlushGroup

(* The tools of a group, closed.                                           *)
ClosedTools(s) ==
    [i \in DOMAIN s.tools |-> [s.tools[i] EXCEPT !.closed = @ \/ i \in s.pending]]

(* Tools with the same calls, closed or not.                               *)
SameCalls(s, t) ==
    /\ DOMAIN t.tools = DOMAIN s.tools
    /\ \A i \in DOMAIN s.tools :
         /\ t.tools[i].args = s.tools[i].args
         /\ \A x : A!ToolBlock(t.tools[i], x) = A!ToolBlock(s.tools[i], x)

(* What both keep when a group is closed.                                  *)
LEMMA CloseTwin ==
    ASSUME NEW E, NEW G, Twin(E, G), Kept(E), ~A!CloseGroup(E).bad,
           NEW F, F = A!CloseGroup(E), NEW C, C = A!CloseGroup(G)
    PROVE  /\ Twin(F, C) /\ Kept(F) /\ F.pending = {} /\ C.blocks = G.blocks
           /\ F.out = E.out /\ F.started = E.started /\ F.next = E.next /\ F.scalar = E.scalar
           /\ SameCalls(E, F)
<1>1. A!GroupParses(E)
  BY DEF A!CloseGroup, A!Violation, Twin, Enc
<1>2. A!GroupParses(G)
  BY <1>1 DEF A!GroupParses, Twin
<1>3. ClosedTools(G) = ClosedTools(E)
  BY DEF ClosedTools, Twin
<1>4. F = [E EXCEPT !.pending = {}, !.tools = ClosedTools(E)]
  BY <1>1 DEF A!CloseGroup, ClosedTools
<1>5. C = [G EXCEPT !.pending = {}, !.tools = ClosedTools(E)]
  BY <1>2, <1>3 DEF A!CloseGroup, ClosedTools
<1>6. Enc(F) /\ F.pending = {} /\ F.tools = ClosedTools(E) /\ F.indexes = E.indexes
      /\ F.bad = FALSE /\ F.finish = E.finish /\ F.usage = E.usage
      /\ F.out = E.out /\ F.started = E.started /\ F.next = E.next /\ F.scalar = E.scalar
  BY <1>4, FS_EmptySet DEF Enc, Twin
<1>7. Gathers(C) /\ C.pending = {} /\ C.tools = ClosedTools(E) /\ C.indexes = G.indexes
      /\ C.bad = FALSE /\ C.finish = G.finish /\ C.usage = G.usage /\ C.blocks = G.blocks
  BY <1>5 DEF Gathers, Twin
<1>8. Twin(F, C)
  BY <1>6, <1>7 DEF Twin
<1>9. DOMAIN ClosedTools(E) = DOMAIN E.tools
  BY DEF ClosedTools
<1>10. ASSUME NEW i \in DOMAIN E.tools
       PROVE  LET t == ClosedTools(E)[i]
              IN /\ Tool(t) /\ t.closed /\ t.args = E.tools[i].args
                 /\ \A x : A!ToolBlock(t, x) = A!ToolBlock(E.tools[i], x)
  <2>1. ClosedTools(E)[i] = [E.tools[i] EXCEPT !.closed = @ \/ i \in E.pending]
    BY DEF ClosedTools
  <2>2. Tool(E.tools[i]) /\ (i \in E.pending \/ E.tools[i].closed)
    BY DEF Kept
  <2> DEFINE t == [E.tools[i] EXCEPT !.closed = @ \/ i \in E.pending]
  <2>3. Tool(t) /\ t.closed /\ t.args = E.tools[i].args /\ t.id = E.tools[i].id
        /\ t.name = E.tools[i].name
    BY <2>2 DEF Tool
  <2> HIDE DEF t
  <2>4. \A x : A!ToolBlock(t, x) = A!ToolBlock(E.tools[i], x)
    BY <2>3 DEF A!ToolBlock
  <2> QED BY <2>1, <2>3, <2>4 DEF t
<1>11. Kept(F)
  <2>1. ClosedTools(E) = [i \in DOMAIN ClosedTools(E) |-> ClosedTools(E)[i]]
    BY DEF ClosedTools
  <2>2. IndexesOk(F.indexes) /\ DOMAIN F.tools \subseteq Int
    BY <1>6, <1>9 DEF Kept
  <2> QED BY <1>6, <1>9, <1>10, <2>1, <2>2, FS_EmptySet DEF Kept
<1>12. SameCalls(E, F)
  BY <1>6, <1>9, <1>10 DEF SameCalls
<1> QED BY <1>6, <1>7, <1>8, <1>11, <1>12

(* The blocks behind the first "from" are tools, and the one before is not:  *)
(* they are one run.                                                       *)
Grouped(bs, from, size) ==
    /\ DOMAIN bs = 1..size /\ from <= size
    /\ \A p \in (from + 1)..size : A!IsTool(bs[p])
    /\ from # 0 => ~A!IsTool(bs[from])

(* The tools of the last run stand in the order of their indexes.          *)
LEMMA LastRun ==
    ASSUME NEW size \in Nat, NEW from \in Nat, NEW bs, Grouped(bs, from, size),
           NEW p \in (from + 1)..size
    PROVE  ToolAt(bs, p) = A!ByIndex(Values(bs, from, size))[p - from]
<1>a. /\ DOMAIN bs = 1..size /\ from <= size
      /\ \A r \in (from + 1)..size : A!IsTool(bs[r])
      /\ from # 0 => ~A!IsTool(bs[from])
  BY DEF Grouped
<1>1. ASSUME NEW q \in 1..size, q \in A!Run(bs, p) PROVE q \in (from + 1)..size
  <2>1. \A r \in (p..q) \union (q..p) : A!IsTool(bs[r])
    BY <1>1 DEF A!Run
  <2>2. q <= from => from \in q..p /\ from # 0
    OBVIOUS
  <2> QED BY <1>a, <2>1, <2>2
<1>2. ASSUME NEW q \in (from + 1)..size PROVE q \in A!Run(bs, p)
  <2>1. q \in DOMAIN bs
    BY <1>a
  <2>2. \A r \in (p..q) \union (q..p) : r \in (from + 1)..size
    OBVIOUS
  <2> QED BY <1>a, <2>1, <2>2 DEF A!Run
<1>3. A!Run(bs, p) \subseteq 1..size
  BY <1>a DEF A!Run
<1>4. A!Run(bs, p) = (from + 1)..size
  BY <1>1, <1>2, <1>3
<1>5. {q \in (from + 1)..size : q <= p} = (from + 1)..p
  OBVIOUS
<1>6. A!Cardinality((from + 1)..p) = p - from
  <2>1. from + 1 \in Int /\ p \in Int /\ from + 1 <= p /\ (p - (from + 1)) + 1 = p - from
    OBVIOUS
  <2> QED BY <2>1, FS_Interval, SameCardinality
<1> QED BY <1>4, <1>5, <1>6 DEF ToolAt, Values

(* No run of the first n blocks goes beyond them, in b as in c, which      *)
(* begin alike.                                                            *)
Walled(b, n) == \E m \in Nat : DOMAIN b = 1..m /\ n <= m /\ (n + 1 <= m => ~A!IsTool(b[n + 1]))
Alike(b, c, n) == \A p \in 1..n : c[p] = b[p]

(* A run ends before a block that is no tool, whatever comes behind it.    *)
LEMMA RunKept ==
    ASSUME NEW n \in Nat, NEW b, Walled(b, n), NEW c, Walled(c, n), Alike(b, c, n),
           NEW p \in 1..n
    PROVE  ToolAt(b, p) = ToolAt(c, p)
<1>a. PICK m \in Nat : DOMAIN b = 1..m /\ n <= m /\ (n + 1 <= m => ~A!IsTool(b[n + 1]))
  BY DEF Walled
<1>b. PICK l \in Nat : DOMAIN c = 1..l /\ n <= l /\ (n + 1 <= l => ~A!IsTool(c[n + 1]))
  BY DEF Walled
<1>c. \A q \in 1..n : c[q] = b[q]
  BY DEF Alike
<1>1. ASSUME NEW q \in 1..m, q \in A!Run(b, p) PROVE q \in 1..n /\ q \in A!Run(c, p)
  <2>1. \A r \in (p..q) \union (q..p) : A!IsTool(b[r])
    BY <1>1 DEF A!Run
  <2>2. q > n => n + 1 \in p..q /\ n + 1 <= m
    BY <1>a
  <2>3. q \in 1..n
    BY <1>a, <1>b, <2>1, <2>2
  <2>4. \A r \in (p..q) \union (q..p) : r \in 1..n
    BY <1>a, <1>b, <2>3
  <2>5. q \in DOMAIN c
    BY <1>b, <2>3
  <2> QED BY <1>c, <2>1, <2>3, <2>4, <2>5 DEF A!Run
<1>2. ASSUME NEW q \in 1..l, q \in A!Run(c, p) PROVE q \in 1..n /\ q \in A!Run(b, p)
  <2>1. \A r \in (p..q) \union (q..p) : A!IsTool(c[r])
    BY <1>2 DEF A!Run
  <2>2. q > n => n + 1 \in p..q /\ n + 1 <= l
    BY <1>b
  <2>3. q \in 1..n
    BY <1>a, <1>b, <2>1, <2>2
  <2>4. \A r \in (p..q) \union (q..p) : r \in 1..n
    BY <1>a, <1>b, <2>3
  <2>5. q \in DOMAIN b
    BY <1>a, <2>3
  <2> QED BY <1>c, <2>1, <2>3, <2>4, <2>5 DEF A!Run
<1>3. A!Run(b, p) \subseteq 1..m /\ A!Run(c, p) \subseteq 1..l
  BY <1>a, <1>b DEF A!Run
<1>4. A!Run(b, p) = A!Run(c, p) /\ A!Run(b, p) \subseteq 1..n
  BY <1>1, <1>2, <1>3
<1>5. \A q \in A!Run(b, p) : A!IsTool(b[q])
  <2> SUFFICES ASSUME NEW q \in A!Run(b, p) PROVE A!IsTool(b[q])
    OBVIOUS
  <2>1. q \in 1..n /\ q \in (p..q) \union (q..p)
    BY <1>4
  <2> QED BY <2>1 DEF A!Run
<1>6. {b[q].value : q \in A!Run(b, p)} = {c[q].value : q \in A!Run(c, p)}
  BY <1>c, <1>4, <1>5
<1> QED BY <1>4, <1>6 DEF ToolAt

(* The tools that are closed in s are so in t.                             *)
StayClosed(s, t) == \A i \in DOMAIN s.tools \ s.pending :
    /\ i \in DOMAIN t.tools \ t.pending /\ t.tools[i].args = s.tools[i].args
    /\ \A x : A!ToolBlock(t.tools[i], x) = A!ToolBlock(s.tools[i], x)

(* What agrees goes on to, when blocks come or change behind it.           *)
LEMMA AgreeKept ==
    ASSUME NEW n \in Nat, NEW s, NEW t, Alike(s.blocks, t.blocks, n),
           Walled(s.blocks, n), Walled(t.blocks, n),
           StayClosed(s, t),
           NEW a, Agree(s, a, n), NEW b, Alike(a, b, n)
    PROVE  Agree(t, b, n)
<1> SUFFICES ASSUME NEW p \in 1..n
             PROVE  IF A!IsTool(t.blocks[p])
                    THEN /\ ToolAt(t.blocks, p) \in DOMAIN t.tools \ t.pending
                         /\ b[p] = LET tool == t.tools[ToolAt(t.blocks, p)]
                                   IN A!ToolBlock(tool, tool.args)
                    ELSE b[p] = t.blocks[p]
  BY DEF Agree
<1>1. t.blocks[p] = s.blocks[p] /\ b[p] = a[p]
  BY DEF Alike
<1>2. ToolAt(s.blocks, p) = ToolAt(t.blocks, p)
  BY RunKept
<1>3. CASE A!IsTool(s.blocks[p])
  <2> DEFINE i == ToolAt(s.blocks, p)
  <2>1. i \in DOMAIN s.tools \ s.pending /\ a[p] = A!ToolBlock(s.tools[i], s.tools[i].args)
    BY <1>3 DEF Agree
  <2> HIDE DEF i
  <2>2. /\ i \in DOMAIN t.tools \ t.pending
        /\ A!ToolBlock(t.tools[i], t.tools[i].args) = A!ToolBlock(s.tools[i], s.tools[i].args)
    BY <2>1 DEF StayClosed
  <2>3. ToolAt(t.blocks, p) = i
    BY <1>2 DEF i
  <2> QED BY <1>1, <1>3, <2>1, <2>2, <2>3
<1>4. CASE ~A!IsTool(s.blocks[p])
  BY <1>1, <1>4 DEF Agree
<1> QED BY <1>3, <1>4

-----------------------------------------------------------------------------
(* A group is told in the order of its indexes: t has told the first k     *)
(* tools of S that s still had to tell.                                    *)
Aside(s, t) ==
    /\ t.bad = s.bad /\ t.finish = s.finish /\ t.usage = s.usage /\ t.indexes = s.indexes
    /\ t.tools = s.tools /\ t.pending = s.pending /\ t.started = s.started
    /\ t.finished = s.finished /\ t.scalar = s.scalar

ToldTo(s, t, w, S, k) ==
    /\ Enc(t) /\ Aside(s, t) /\ t.next = s.next + k
    /\ Sound(w \o t.out) /\ w \o t.out # << >> /\ Between(w \o t.out)
    /\ Len(Assembled(w \o t.out)) = t.next
    /\ \A p \in 1..s.next : Assembled(w \o t.out)[p] = Assembled(w \o s.out)[p]
    /\ \A j \in 1..k : Assembled(w \o t.out)[s.next + j] =
         LET tool == s.tools[A!ByIndex(S)[j]] IN A!ToolBlock(tool, tool.args)

(* Concatenation does not depend on where it starts.                       *)
LEMMA Associates ==
    ASSUME NEW front, NEW mid, NEW rest, IsSeq(front), IsSeq(mid), IsSeq(rest)
    PROVE  front \o (mid \o rest) = (front \o mid) \o rest
<1> DEFINE S == Range(front) \union Range(mid) \union Range(rest)
<1>1. front \in Seq(S) /\ mid \in Seq(S) /\ rest \in Seq(S)
  BY DEF IsSeq
<1> HIDE DEF S
<1> QED BY <1>1

(* One tool more.                                                          *)
LEMMA ToldOne ==
    ASSUME NEW s, s.next \in Nat, NEW t, NEW w, IsSeq(w), NEW S, NEW k \in Nat,
           ToldTo(s, t, w, S, k), NEW i, i = A!ByIndex(S)[k + 1], IsSeq(s.tools[i].args)
    PROVE  ToldTo(s, A!EmitTool(t, i), w, S, k + 1)
<1> DEFINE n == t.next
           piece == s.tools[i]
           c == <<A!Start(n, A!ToolBlock(piece, << >>)), A!Delta(n, piece.args), A!Stop(n)>>
           f == A!EmitTool(t, i)
           u == w \o t.out
           v == u \o c
<1>1. Enc(f) /\ Aside(s, f) /\ f.next = n + 1 /\ f.out = t.out \o c
  <2>1. Enc(f)
    BY EncEmitted DEF ToldTo
  <2>2. t.tools = s.tools /\ Enc(t) /\ Aside(s, t)
    BY DEF ToldTo, Aside
  <2>3. f = [t EXCEPT !.next = n + 1, !.out = t.out \o c]
    BY <2>2 DEF A!EmitTool
  <2> HIDE DEF f, c
  <2> QED BY <2>1, <2>2, <2>3 DEF Enc, Aside
<1>2. IsSeq(t.out) /\ IsSeq(c)
  <2>1. IsSeq(t.out)
    BY DEF ToldTo, Enc, Plain
  <2>2. \A x, y, z : IsSeq(<<x, y, z>>)
    <3> TAKE x, y, z
    <3>1. <<x, y, z>> \in Seq({x, y, z})
      OBVIOUS
    <3> QED BY <3>1, SeqOverRange
  <2> QED BY <2>1, <2>2
<1>3. w \o f.out = v
  <2> HIDE DEF f, c
  <2> DEFINE y == t.out
  <2>1. IsSeq(y) /\ IsSeq(c)
    BY <1>2
  <2> HIDE DEF y
  <2>2. w \o (y \o c) = (w \o y) \o c
    BY <2>1, Associates
  <2> QED BY <1>1, <2>2 DEF y
<1>4. /\ Sound(v) /\ v # << >> /\ Between(v)
      /\ Len(Assembled(v)) = n + 1 /\ n \in Nat
      /\ Assembled(v)[n + 1] = A!ToolBlock(piece, piece.args)
      /\ \A p \in 1..n : Assembled(v)[p] = Assembled(u)[p]
  <2>1. Sound(u) /\ u # << >> /\ Between(u) /\ n = Len(Assembled(u)) /\ IsSeq(piece.args)
    BY DEF ToldTo
  <2> HIDE DEF n, piece, u
  <2> QED BY <2>1, ToolTold
<1>5. n = s.next + k
  BY DEF ToldTo
<1>6. ASSUME NEW p \in 1..s.next PROVE Assembled(v)[p] = Assembled(w \o s.out)[p]
  <2>1. p \in 1..n
    BY <1>5
  <2>2. Assembled(u)[p] = Assembled(w \o s.out)[p]
    BY DEF ToldTo
  <2> QED BY <1>4, <2>1, <2>2
<1>7. ASSUME NEW j \in 1..(k + 1)
      PROVE  Assembled(v)[s.next + j] =
               A!ToolBlock(s.tools[A!ByIndex(S)[j]], s.tools[A!ByIndex(S)[j]].args)
  <2>1. CASE j = k + 1
    <3>1. s.next + j = n + 1
      BY <1>5, <2>1
    <3> QED BY <1>4, <2>1, <3>1
  <2>2. CASE j # k + 1
    <3>1. j \in 1..k /\ s.next + j \in 1..n
      BY <1>5, <2>2
    <3>2. Assembled(u)[s.next + j] =
            A!ToolBlock(s.tools[A!ByIndex(S)[j]], s.tools[A!ByIndex(S)[j]].args)
      BY <3>1 DEF ToldTo
    <3> HIDE DEF u, v, n
    <3> QED BY <1>4, <3>1, <3>2
  <2> QED BY <2>1, <2>2
<1>8. f.next = s.next + (k + 1)
  <2>1. f.next = n + 1
    BY <1>1
  <2>2. (s.next + k) + 1 = s.next + (k + 1)
    OBVIOUS
  <2> HIDE DEF f, n
  <2> QED BY <1>5, <2>1, <2>2
<1> HIDE DEF f, v, n, piece, u, c
<1>9. Len(Assembled(v)) = f.next
  BY <1>1, <1>4
<1>10. /\ Enc(f) /\ Aside(s, f)
       /\ Sound(v) /\ v # << >> /\ Between(v)
  BY <1>1, <1>4
<1>11. ToldTo(s, f, w, S, k + 1) <=>
         /\ Enc(f) /\ Aside(s, f) /\ f.next = s.next + (k + 1)
         /\ Sound(w \o f.out) /\ w \o f.out # << >> /\ Between(w \o f.out)
         /\ Len(Assembled(w \o f.out)) = f.next
         /\ \A p \in 1..s.next : Assembled(w \o f.out)[p] = Assembled(w \o s.out)[p]
         /\ \A j \in 1..(k + 1) : Assembled(w \o f.out)[s.next + j] =
              A!ToolBlock(s.tools[A!ByIndex(S)[j]], s.tools[A!ByIndex(S)[j]].args)
  BY DEF ToldTo
<1> QED BY <1>3, <1>6, <1>7, <1>8, <1>9, <1>10, <1>11 DEF f

(* All of the group.                                                       *)
LEMMA GroupTold ==
    ASSUME NEW s, Enc(s), s.next \in Nat, NEW w, IsSeq(w), NEW S, IsFiniteSet(S), S \subseteq Int,
           \A i \in S : IsSeq(s.tools[i].args), Sound(w \o s.out), w \o s.out # << >>,
           Between(w \o s.out), s.next = Len(Assembled(w \o s.out)),
           NEW m, m = Cardinality(S)
    PROVE  ToldTo(s, Fold("emit", s, A!ByIndex(S)), w, S, m)
<1> DEFINE xs == A!ByIndex(S)
<1>1. m \in Nat /\ DOMAIN xs = 1..m
  BY OrderedOnce
<1>2. \A k \in 1..m : xs[k] \in S
  BY OrderedIn
<1> HIDE DEF xs
<1>3. PICK t : Passes(t, "emit", s, xs, m)
  BY <1>1, FoldPasses
<1> DEFINE ups == {k \in 0..m : ToldTo(s, t[k], w, S, k)}
<1>4. 0 \in ups
  <2>1. t[0] = s
    BY <1>3 DEF Passes
  <2>2. ToldTo(s, s, w, S, 0)
    BY DEF ToldTo, Aside
  <2> QED BY <1>1, <2>1, <2>2
<1>5. ASSUME NEW k \in 0..m, k < m /\ k \in ups PROVE k + 1 \in ups
  <2> DEFINE i == xs[k + 1]
  <2>1. k + 1 \in 1..m /\ k + 1 \in 0..m /\ k \in Nat
    BY <1>1, <1>5
  <2>2. IsSeq(s.tools[i].args)
    BY <1>2, <2>1
  <2>3. t[k + 1] = A!EmitTool(t[k], i)
    BY <1>3, <1>5 DEF Passes, FoldStep
  <2>4. i = A!ByIndex(S)[k + 1]
    BY DEF xs
  <2> HIDE DEF i
  <2>5. ToldTo(s, A!EmitTool(t[k], i), w, S, k + 1)
    BY <1>5, <2>1, <2>2, <2>4, ToldOne
  <2> QED BY <2>1, <2>3, <2>5
<1> HIDE DEF ups
<1>6. \A k \in 0..m : k \in ups
  BY <1>1, <1>4, <1>5, UpTo
<1>7. ToldTo(s, t[m], w, S, m)
  BY <1>1, <1>6 DEF ups
<1> QED BY <1>3, <1>7 DEF Passes, xs

(* F has told a group where C has closed it, and no block is open.         *)
Flushed(E, G, w, F, C) ==
    /\ Basic(F, C, w \o F.out) /\ w \o F.out # << >>
    /\ F.scalar = E.scalar /\ F.pending = {} /\ F.next = Len(C.blocks)
    /\ E.pending = {} => F = E /\ C = G
    /\ E.pending # {} => F.next # 0 /\ A!IsTool(C.blocks[F.next])

(* A group is closed by both: E tells its tools where G has them.          *)
LEMMA FlushTold ==
    ASSUME NEW E, NEW G, NEW w, IsSeq(w), View(E, G, w \o E.out), E.scalar.type = None,
           w \o E.out # << >>,
           NEW F, F = A!FlushGroup(E), ~F.bad, NEW C, C = A!CloseGroup(G)
    PROVE  Flushed(E, G, w, F, C)
<1> SUFFICES /\ Basic(F, C, w \o F.out) /\ w \o F.out # << >>
             /\ F.scalar = E.scalar /\ F.pending = {} /\ F.next = Len(C.blocks)
             /\ E.pending = {} => F = E /\ C = G
             /\ E.pending # {} => F.next # 0 /\ A!IsTool(C.blocks[F.next])
  BY DEF Flushed
<1>k. PICK K : K = A!CloseGroup(E)
  OBVIOUS
<1>n. PICK n : n = E.next
  OBVIOUS
<1> DEFINE S == E.pending
           m == Cardinality(S)
           u == w \o E.out
           v == w \o F.out
<1>1. /\ Twin(E, G) /\ Kept(E) /\ Line(E, u) /\ Row(E, G) /\ Agree(G, Assembled(u), n)
      /\ Wall(E, G)
  BY <1>n DEF View, Basic
<1>2. /\ IsFiniteSet(S) /\ S \subseteq DOMAIN E.tools /\ S \subseteq Int
      /\ m \in Nat /\ DOMAIN A!ByIndex(S) = 1..m
  BY <1>1, OrderedOnce, FS_CardinalityType DEF Kept
<1>3. Enc(E) /\ Enc(K)
  <2>1. Enc(E)
    BY <1>1 DEF Twin
  <2>2. K.pending = S \/ K.pending = {}
    BY <1>k, <2>1 DEF Enc, A!CloseGroup, A!Violation
  <2>3. IsFiniteSet(K.pending)
    BY <1>2, <2>2, FS_EmptySet
  <2> QED BY <1>k, <2>1, <2>3 DEF Enc, A!CloseGroup, A!Violation
<1>4. ~K.bad /\ F = Fold("emit", K, A!ByIndex(S))
  <2>1. F = IF K.bad THEN K ELSE A!FoldLeft(A!EmitTool, K, A!ByIndex(S))
    BY <1>k DEF A!FlushGroup, A!Group
  <2>2. A!FoldLeft(A!EmitTool, K, A!ByIndex(S)) = Fold("emit", K, A!ByIndex(S))
    BY <1>2, EmitFold
  <2> HIDE DEF S
  <2> QED BY <2>1, <2>2
<1>5. n \in Nat /\ n = Len(Assembled(u)) /\ Sound(u) /\ Between(u)
  <2>1. n = Len(Assembled(u)) /\ Sound(u) /\ Between(u)
    BY <1>1, <1>n DEF Line
  <2> QED BY <2>1, LengthOf DEF Sound
<1>6. Cardinality({}) = 0
  BY FS_EmptySet
<1>7. CASE S = {}
  <2>1. K = E
    BY <1>k, <1>1, <1>3, <1>7, CloseNone
  <2>2. C = G
    <3>1. Kept(G) /\ G.pending = {} /\ Gathers(G)
      BY <1>1, <1>7 DEF Twin, Kept
    <3> QED BY <3>1, CloseNone
  <2>3. F = E
    <3>1. m = 0
      BY <1>6, <1>7
    <3>2. DOMAIN A!ByIndex(S) = 1..0
      BY <1>2, <3>1
    <3> HIDE DEF S
    <3> QED BY <1>4, <2>1, <3>2, FoldNone
  <2>4. n = Len(G.blocks)
    BY <1>n, <1>1, <1>5, <1>6, <1>7 DEF Row
  <2>5. F.pending = {}
    BY <1>7, <2>3
  <2> QED BY <1>n, <1>1, <1>7, <2>2, <2>3, <2>4, <2>5 DEF Basic
<1>8. CASE S # {}
  <2>1. /\ Twin(K, C) /\ Kept(K) /\ K.pending = {} /\ C.blocks = G.blocks
        /\ K.out = E.out /\ K.started = E.started /\ K.next = n /\ K.scalar = E.scalar
        /\ SameCalls(E, K)
    <3>2. ~A!CloseGroup(E).bad
      BY <1>k, <1>4
    <3>3. /\ Twin(K, C) /\ Kept(K) /\ K.pending = {} /\ C.blocks = G.blocks
          /\ K.out = E.out /\ K.started = E.started /\ K.next = E.next /\ K.scalar = E.scalar
          /\ SameCalls(E, K)
      <4>1. Twin(E, G) /\ Kept(E)
        BY <1>1
      <4> QED BY <1>k, <3>2, <4>1, CloseTwin
    <3> QED BY <1>n, <3>3
  <2>2. ToldTo(K, F, w, S, m)
    <3>1. \A i \in S : IsSeq(K.tools[i].args)
      BY <1>1, <1>2, <2>1 DEF Kept, Tool, SameCalls
    <3>2. Sound(w \o K.out) /\ w \o K.out # << >> /\ Between(w \o K.out)
          /\ K.next = Len(Assembled(w \o K.out)) /\ K.next \in Nat
      BY <1>5, <2>1
    <3>3. ToldTo(K, Fold("emit", K, A!ByIndex(S)), w, S, m)
      <4> HIDE DEF S
      <4> QED BY <1>2, <1>3, <3>1, <3>2, GroupTold
    <3> QED BY <1>4, <3>3
  <2> HIDE DEF v
  <2>3. /\ Enc(F) /\ Aside(K, F) /\ F.next = n + m
        /\ Sound(v) /\ v # << >> /\ Between(v) /\ Len(Assembled(v)) = F.next
        /\ \A p \in 1..n : Assembled(v)[p] = Assembled(u)[p]
        /\ \A j \in 1..m : Assembled(v)[n + j] =
             A!ToolBlock(K.tools[A!ByIndex(S)[j]], K.tools[A!ByIndex(S)[j]].args)
    BY <1>n, <2>1, <2>2 DEF ToldTo, v
  <2>4. Twin(F, C) /\ F.tools = K.tools /\ C.tools = K.tools /\ F.pending = {} /\ C.pending = {}
    BY <2>1, <2>3 DEF Twin, Aside
  <2>5. Kept(F)
    BY <2>1, <2>3 DEF Kept, Aside
  <2>6. Line(F, v)
    <3>1. F.started /\ F.scalar.type = None
      BY <1>1, <2>1, <2>3 DEF Line, Aside
    <3> QED BY <2>3, <3>1 DEF Line
  <2>7. DOMAIN G.blocks = 1..(n + m) /\ Len(C.blocks) = n + m /\ F.next = n + m /\ IsSeq(C.blocks)
    <3>1. IsSeq(G.blocks) /\ Len(G.blocks) = n + m
      BY <1>n, <1>1 DEF Row
    <3> QED BY <2>1, <2>3, <3>1, LengthOf
  <2>8. Row(F, C)
    <3>1. F.next + Cardinality(F.pending) = Len(C.blocks)
      BY <1>2, <1>5, <1>6, <2>4, <2>7
    <3>2. (F.next + 1)..Len(C.blocks) = {}
      BY <1>2, <1>5, <2>7
    <3> QED BY <2>4, <2>7, <3>1, <3>2 DEF Row, Values
  <2>9. m # 0
    BY <1>2, <1>8, FS_EmptySet
  <2>10. \A p \in (n + 1)..(n + m) : A!IsTool(G.blocks[p])
    BY <1>n, <1>1, <2>7, <2>1 DEF Row
  <2>11. Agree(C, Assembled(v), n + m)
    <3> DEFINE a == Assembled(v)
    <3> SUFFICES ASSUME NEW p \in 1..(n + m)
                 PROVE  IF A!IsTool(C.blocks[p])
                        THEN /\ ToolAt(C.blocks, p) \in DOMAIN C.tools \ C.pending
                             /\ a[p] = A!ToolBlock(C.tools[ToolAt(C.blocks, p)],
                                                   C.tools[ToolAt(C.blocks, p)].args)
                        ELSE a[p] = C.blocks[p]
      BY DEF Agree
    <3> DEFINE i == ToolAt(G.blocks, p)
    <3>1. CASE p \in 1..n
      <4>1. a[p] = Assembled(u)[p] /\ G.tools = E.tools
        BY <1>1, <2>3, <3>1 DEF Twin
      <4>2. CASE A!IsTool(G.blocks[p])
        <5>1. i \in DOMAIN E.tools /\ a[p] = A!ToolBlock(E.tools[i], E.tools[i].args)
          BY <1>1, <3>1, <4>1, <4>2 DEF Agree
        <5>2. A!ToolBlock(K.tools[i], K.tools[i].args) = A!ToolBlock(E.tools[i], E.tools[i].args)
          BY <2>1, <5>1 DEF SameCalls
        <5> QED BY <2>1, <2>4, <4>2, <5>1, <5>2 DEF SameCalls
      <4>3. CASE ~A!IsTool(G.blocks[p])
        BY <1>1, <2>1, <3>1, <4>1, <4>3 DEF Agree
      <4> QED BY <4>2, <4>3
    <3>2. CASE p \notin 1..n
      <4>1. p \in (n + 1)..(n + m) /\ p - n \in 1..m /\ n + (p - n) = p
        BY <1>2, <1>5, <3>2
      <4>2. Values(G.blocks, n, n + m) = S
        BY <1>n, <1>1, <2>1, <2>7 DEF Row
      <4>3. i = A!ByIndex(S)[p - n]
        <5> DEFINE b == G.blocks
                   l == n + m
        <5>1. l \in Nat /\ p \in (n + 1)..l
          BY <1>2, <1>5, <2>7, <4>1
        <5>2. Grouped(b, n, l)
          BY <1>2, <1>5, <2>7, <1>n, <1>1, <2>10 DEF Wall, Grouped
        <5> HIDE DEF b, l
        <5>3. ToolAt(b, p) = A!ByIndex(Values(b, n, l))[p - n]
          BY <1>5, <5>1, <5>2, LastRun
        <5> QED BY <4>2, <5>3 DEF b, l
      <4>4. i \in S
        <5> HIDE DEF S
        <5> QED BY <1>2, <4>1, <4>3, OrderedIn
      <4>5. a[p] = A!ToolBlock(K.tools[i], K.tools[i].args)
        <5> HIDE DEF i, a, m, S
        <5>1. a[n + (p - n)] = A!ToolBlock(K.tools[A!ByIndex(S)[p - n]], K.tools[A!ByIndex(S)[p - n]].args)
          BY <2>3, <4>1 DEF a
        <5> QED BY <4>1, <4>3, <5>1
      <4>6. A!IsTool(C.blocks[p])
        BY <2>1, <2>10, <4>1
      <4> QED BY <1>2, <2>1, <2>4, <4>4, <4>5, <4>6 DEF SameCalls
    <3> QED BY <3>1, <3>2
  <2>12. Basic(F, C, v)
    BY <2>4, <2>5, <2>6, <2>7, <2>8, <2>11 DEF Basic
  <2>13. F.next # 0 /\ A!IsTool(C.blocks[F.next])
    <3>1. F.next = n + m /\ n + m # 0 /\ n + m \in (n + 1)..(n + m)
      BY <1>2, <1>5, <2>7, <2>9
    <3>2. A!IsTool(G.blocks[n + m])
      BY <2>10, <3>1
    <3> QED BY <2>1, <3>1, <3>2
  <2>14. F.scalar = E.scalar
    BY <2>1, <2>3 DEF Aside
  <2> QED BY <1>8, <2>3, <2>4, <2>7, <2>12, <2>13, <2>14 DEF v
<1> QED BY <1>7, <1>8

-----------------------------------------------------------------------------
(* What one call of the encoder returns, after what it returned before.    *)
LEMMA OutMore ==
    ASSUME NEW front, IsSeq(front), NEW mid, IsSeq(mid)
    PROVE  /\ \A c : front \o Append(mid, c) = Append(front \o mid, c)
           /\ \A c : front \o (mid \o <<c>>) = Append(front \o mid, c)
           /\ mid \o << >> = mid
<1>1. ASSUME NEW c
      PROVE  front \o Append(mid, c) = Append(front \o mid, c)
  <2> DEFINE S == Range(front) \union Range(mid) \union {c}
  <2>1. front \in Seq(S) /\ mid \in Seq(S) /\ c \in S
    BY DEF IsSeq
  <2> HIDE DEF S
  <2> QED BY <2>1
<1>2. \A c : mid \o <<c>> = Append(mid, c)
  BY SeqFew
<1>3. mid \o << >> = mid
  BY SeqFew
<1> QED BY <1>1, <1>2, <1>3

(* Both keep the same as long as an encoder does.                          *)
Keeps(E, F) ==
    /\ F.bad = E.bad /\ F.finish = E.finish /\ F.usage = E.usage /\ F.indexes = E.indexes
    /\ F.tools = E.tools /\ F.pending = E.pending

(* Then they still keep the same.                                          *)
LEMMA KeepsTwin ==
    ASSUME NEW E, NEW G, Twin(E, G), Kept(E), NEW F, Enc(F), Keeps(E, F)
    PROVE  Twin(F, G) /\ Kept(F)
BY DEF Twin, Kept, Keeps

(* The blocks do not change when the stream tells of none.                 *)
LEMMA SameRow ==
    ASSUME NEW E, NEW G, NEW u, View(E, G, u), NEW F, Enc(F), Keeps(E, F), F.next = E.next,
           NEW v, Line(F, v), Assembled(v) = Assembled(u)
    PROVE  View(F, G, v)
<1>1. Twin(F, G) /\ Kept(F)
  BY KeepsTwin DEF View, Basic
<1>2. Row(F, G) /\ Wall(F, G)
  BY DEF View, Basic, Row, Wall, Keeps
<1>3. Agree(G, Assembled(v), F.next)
  BY DEF View, Basic
<1> QED BY <1>1, <1>2, <1>3 DEF View, Basic

(* E goes on as F, with something told and nothing else of it changed.     *)
Begun(E, F, G, w) ==
    /\ View(F, G, w \o F.out) /\ w \o F.out # << >>
    /\ F.scalar = E.scalar /\ F.pending = E.pending /\ F.next = E.next /\ F.bad = FALSE

(* The message is started.                                                 *)
LEMMA StartTold ==
    ASSUME NEW E, NEW F, NEW G, NEW w, IsSeq(w), View(E, G, w \o E.out), F = A!EnsureStarted(E)
    PROVE  Begun(E, F, G, w)
<1> SUFFICES /\ View(F, G, w \o F.out) /\ w \o F.out # << >>
             /\ F.scalar = E.scalar /\ F.pending = E.pending /\ F.next = E.next
             /\ F.bad = FALSE
  BY DEF Begun
<1>1. Twin(E, G) /\ Line(E, w \o E.out) /\ Enc(E) /\ IsSeq(E.out) /\ E.bad = FALSE
  BY DEF View, Basic, Twin, Enc, Plain
<1>2. CASE E.started
  <2>1. F = E
    BY <1>2 DEF A!EnsureStarted
  <2> QED BY <1>1, <1>2, <2>1 DEF Line
<1>3. CASE ~E.started
  <2> DEFINE c == [type |-> "message_start"]
             v == Append(<< >>, c)
  <2>1. c.type = "message_start"
    OBVIOUS
  <2> HIDE DEF c
  <2>2. w \o E.out = << >> /\ E.scalar.type = None
    BY <1>1, <1>3 DEF Line, Open
  <2>3. w \o F.out = v
    <3>1. F.out = Append(E.out, c)
      BY <1>1, <1>3 DEF A!EnsureStarted, Enc, c
    <3>2. PICK y : y = E.out
      OBVIOUS
    <3>3. w \o Append(y, c) = Append(w \o y, c)
      BY <1>1, <3>2, OutMore
    <3> QED BY <2>2, <3>1, <3>2, <3>3
  <2>4. Sound(v) /\ v # << >> /\ Assembled(v) = << >> /\ Between(v)
    BY <2>1, MessageStarted
  <2>5. Enc(F) /\ Keeps(E, F) /\ F.next = E.next /\ F.started /\ F.scalar = E.scalar
    <3>1. Enc(F)
      BY <1>1, EncStarted
    <3> QED BY <1>1, <1>3, <3>1 DEF Enc, Keeps, A!EnsureStarted
  <2> HIDE DEF v
  <2>6. Assembled(w \o E.out) = << >>
    BY <2>2, AssembledNone
  <2>7. Line(F, v)
    BY <1>1, <2>2, <2>4, <2>5, <2>6 DEF Line
  <2>8. View(F, G, v)
    BY <2>4, <2>5, <2>6, <2>7, SameRow
  <2> QED BY <1>1, <2>3, <2>4, <2>5, <2>8 DEF Keeps
<1> QED BY <1>2, <1>3

(* E goes on as F, with no block open.                                     *)
Shut(E, F, G, w) ==
    /\ View(F, G, w \o F.out) /\ w \o F.out # << >> /\ Between(w \o F.out)
    /\ F.scalar.type = None /\ F.pending = E.pending /\ F.next = E.next /\ F.bad = FALSE

(* The block that is open is ended.                                        *)
LEMMA ScalarShut ==
    ASSUME NEW E, NEW F, NEW G, NEW w, IsSeq(w), View(E, G, w \o E.out), w \o E.out # << >>,
           F = A!CloseScalar(E)
    PROVE  Shut(E, F, G, w)
<1> SUFFICES /\ View(F, G, w \o F.out) /\ w \o F.out # << >> /\ Between(w \o F.out)
             /\ F.scalar.type = None /\ F.pending = E.pending /\ F.next = E.next
             /\ F.bad = FALSE
  BY DEF Shut
<1>1. Twin(E, G) /\ Line(E, w \o E.out) /\ Enc(E) /\ IsSeq(E.out) /\ E.bad = FALSE
  BY DEF View, Basic, Twin, Enc, Plain
<1>2. CASE E.scalar.type = None
  <2>1. F = E
    BY <1>2 DEF A!CloseScalar
  <2> QED BY <1>1, <1>2, <2>1 DEF Line
<1>3. CASE E.scalar.type # None
  <2>1. PICK y : y = E.out
    OBVIOUS
  <2>2. PICK n : n = E.next
    OBVIOUS
  <2>3. PICK u : u = w \o y
    OBVIOUS
  <2>4. PICK x : x = E.scalar.value
    OBVIOUS
  <2>5. /\ Sound(u) /\ u # << >> /\ LastType(u) \in Unfinished /\ n = Len(Assembled(u)) /\ n # 0
        /\ E.scalar = [type |-> E.scalar.type, index |-> n - 1, value |-> x]
        /\ Assembled(u)[n] = [type |-> E.scalar.type, value |-> x]
        /\ E.scalar.type \in {"thinking", "text"}
        /\ E.started /\ IsSeq(y)
    BY <1>1, <1>3, <2>1, <2>2, <2>3, <2>4 DEF Line, Open
  <2>6. E.scalar.index = n - 1 /\ E.scalar.value = x
    BY <2>5
  <2>7. /\ Enc(F) /\ Keeps(E, F) /\ F.next = n /\ F.started = E.started /\ F.scalar = A!NoScalar
        /\ F.out = (y \o (IF E.scalar.type = "thinking" THEN <<A!Signature(n - 1, x)>> ELSE << >>))
                     \o <<A!Stop(n - 1)>>
    <3>1. Enc(F)
      BY <1>1, EncScalarClosed
    <3> QED BY <1>1, <1>3, <2>1, <2>2, <2>6, <3>1 DEF Enc, Keeps, A!CloseScalar
  <2>10. F.scalar.type = None /\ F.pending = E.pending /\ F.next = E.next /\ F.bad = FALSE
    BY <1>1, <2>2, <2>7 DEF Keeps, A!NoScalar
  <2>8. CASE E.scalar.type = "thinking"
    <3>1. PICK z : z = Append(y, A!Signature(n - 1, x))
      OBVIOUS
    <3>2. PICK s : s = Append(u, A!Signature(n - 1, x))
      OBVIOUS
    <3>3. PICK v : v = Append(s, A!Stop(n - 1))
      OBVIOUS
    <3>4. IsSeq(z) /\ w \o z = s
      BY <2>3, <2>5, <3>1, <3>2, OutMore, SeqAppend
    <3>5. F.out = z \o <<A!Stop(n - 1)>>
      <4>1. y \o <<A!Signature(n - 1, x)>> = z
        BY <2>5, <3>1, SeqFew
      <4> QED BY <2>7, <2>8, <4>1
    <3>6. w \o F.out = v
      <4>1. ASSUME NEW c PROVE w \o (z \o <<c>>) = Append(w \o z, c)
        <5>1. IsSeq(z)
          BY <3>4
        <5>2. z \o <<c>> = Append(z, c)
          BY <5>1, SeqFew
        <5>3. w \o Append(z, c) = Append(w \o z, c)
          BY <5>1, OutMore
        <5> QED BY <5>2, <5>3
      <4> QED BY <3>3, <3>4, <3>5, <4>1
    <3>7. Assembled(u)[n].value = x /\ Assembled(u)[n].type = "thinking"
      BY <2>5, <2>8
    <3>8. Sound(s) /\ s # << >> /\ LastType(s) = "signature" /\ Assembled(s) = Assembled(u)
      BY <2>5, <3>2, <3>7, BlockSigned
    <3>9. Sound(v) /\ v # << >> /\ Between(v) /\ Assembled(v) = Assembled(s)
      BY <2>5, <3>3, <3>7, <3>8, BlockStopped
    <3>10. Line(F, v)
      BY <2>5, <2>7, <3>8, <3>9 DEF Line, A!NoScalar
    <3>11. View(F, G, v)
      BY <2>1, <2>2, <2>3, <2>7, <3>8, <3>9, <3>10, SameRow
    <3> QED BY <2>10, <3>6, <3>9, <3>11
  <2>9. CASE E.scalar.type # "thinking"
    <3>3. PICK v : v = Append(u, A!Stop(n - 1))
      OBVIOUS
    <3>5. F.out = y \o <<A!Stop(n - 1)>>
      <4>1. y \o << >> = y
        BY <2>5, SeqFew
      <4> QED BY <2>7, <2>9, <4>1
    <3>6. w \o F.out = v
      BY <2>3, <2>5, <3>3, <3>5, OutMore
    <3>7. Assembled(u)[n].type # "thinking" /\ LastType(u) # "signature"
      BY <2>5, <2>9 DEF Unfinished
    <3>9. Sound(v) /\ v # << >> /\ Between(v) /\ Assembled(v) = Assembled(u)
      BY <2>5, <3>3, <3>7, BlockStopped
    <3>10. Line(F, v)
      BY <2>5, <2>7, <3>9 DEF Line, A!NoScalar
    <3>11. View(F, G, v)
      BY <2>1, <2>2, <2>3, <2>7, <3>9, <3>10, SameRow
    <3> QED BY <2>10, <3>6, <3>9, <3>11
  <2> QED BY <2>8, <2>9
<1> QED BY <1>2, <1>3

(* Both go on with what they keep.                                         *)
LEMMA BothKeep ==
    ASSUME NEW E, NEW G, Twin(E, G), Kept(E), NEW F, Enc(F), Keeps(E, F),
           NEW D, Gathers(D), Keeps(G, D)
    PROVE  Twin(F, D) /\ Kept(F)
BY DEF Twin, Kept, Keeps

(* Nothing is told of a group of no tools.                                 *)
LEMMA FlushNone ==
    ASSUME NEW E, Enc(E), Kept(E), E.bad = FALSE, E.pending = {}
    PROVE  A!FlushGroup(E) = E
<1>1. A!CloseGroup(E) = E
  BY CloseNone
<1>2. DOMAIN A!ByIndex({}) = 1..0
  BY OrderedOnce, FS_EmptySet
<1>3. A!FoldLeft(A!EmitTool, E, A!ByIndex({})) = Fold("emit", E, A!ByIndex({}))
  BY <1>2, EmitFold
<1>4. Fold("emit", E, A!ByIndex({})) = E
  BY <1>2, FoldNone
<1> QED BY <1>1, <1>3, <1>4 DEF A!FlushGroup, A!Group

(* F goes on from E with what it numbers and what it tells.                *)
Moves(E, F, next, scalar, out) ==
    /\ Keeps(E, F) /\ F.started = E.started /\ F.next = next
    /\ F.scalar = scalar /\ F.out = out

(* A block is open.                                                        *)
Speaks(F, D, w) == View(F, D, w \o F.out) /\ w \o F.out # << >> /\ F.scalar.type # None

(* A new block, opened with a piece x.                                     *)
LEMMA Opened ==
    ASSUME NEW E, NEW F, NEW G, NEW D, NEW w, NEW ty, NEW x, NEW n, NEW m, NEW b, NEW c,
           NEW sc, NEW out, IsSeq(w), IsSeq(x), ty \in {"thinking", "text"},
           Basic(E, G, w \o E.out), w \o E.out # << >>, E.scalar.type = None, E.pending = {},
           n = E.next, m = n + 1,
           b = [type |-> ty, value |-> << >>], c = [type |-> ty, value |-> x],
           sc = [type |-> ty, index |-> n, value |-> x],
           out = Append(Append(E.out, A!Start(n, b)), A!Delta(n, x)),
           Enc(F), Moves(E, F, m, sc, out), Gathers(D), Keeps(G, D),
           D.blocks = Append(G.blocks, c)
    PROVE  Speaks(F, D, w)
<1> SUFFICES View(F, D, w \o F.out) /\ w \o F.out # << >> /\ F.scalar.type # None
  BY DEF Speaks
<1>a. /\ Keeps(E, F) /\ F.started = E.started /\ F.next = n + 1
      /\ F.scalar = [type |-> ty, index |-> n, value |-> x]
      /\ F.out = Append(Append(E.out, A!Start(n, b)), A!Delta(n, x))
  BY DEF Moves
<1> USE <1>a
<1>1. PICK y : y = E.out
  OBVIOUS
<1>2. PICK u : u = w \o y
  OBVIOUS
<1>3. PICK v : v = Append(Append(u, A!Start(n, b)), A!Delta(n, x))
  OBVIOUS
<1>4. /\ Twin(E, G) /\ Kept(E) /\ Line(E, u) /\ Row(E, G) /\ Agree(G, Assembled(u), n)
      /\ IsSeq(y)
  BY <1>1, <1>2 DEF Basic, Twin, Enc, Plain
<1>5. Sound(u) /\ u # << >> /\ Between(u) /\ n = Len(Assembled(u))
  BY <1>1, <1>2, <1>4 DEF Line
<1>6. w \o F.out = v
  <2>1. PICK s : s = A!Start(n, b)
    OBVIOUS
  <2>2. PICK d : d = A!Delta(n, x)
    OBVIOUS
  <2>3. PICK z : z = Append(y, s)
    OBVIOUS
  <2>4. IsSeq(z)
    BY <1>4, <2>3, SeqAppend
  <2>5. w \o z = Append(u, s)
    BY <1>2, <1>4, <2>3, OutMore
  <2>6. w \o Append(z, d) = Append(w \o z, d)
    BY <2>4, OutMore
  <2> QED BY <1>1, <1>3, <2>1, <2>2, <2>3, <2>5, <2>6
<1>7. b.value = << >> /\ Filled(b, x) = c
  BY DEF Filled
<1>8. /\ Sound(v) /\ v # << >> /\ LastType(v) = "content_block_delta"
      /\ Len(Assembled(v)) = n + 1 /\ n \in Nat
      /\ Assembled(v)[n + 1] = c
      /\ \A p \in 1..n : Assembled(v)[p] = Assembled(u)[p]
  <2>1. /\ Sound(v) /\ v # << >> /\ LastType(v) = "content_block_delta"
        /\ Adds(u, v, n, Filled(b, x))
    BY <1>3, <1>5, <1>7, BlockOpened
  <2> QED BY <1>7, <2>1 DEF Adds
<1>9. Twin(F, D) /\ Kept(F)
  BY <1>4, BothKeep
<1>10. ty # None /\ F.pending = {} /\ G.pending = {}
  BY <1>4, NoneIsNothing DEF Marks, Keeps, Twin
<1>11. Line(F, v)
  <2>1. F.started
    BY <1>1, <1>2, <1>4, <1>5 DEF Line
  <2>2. F.scalar.type = ty /\ F.scalar.value = x /\ (n + 1) - 1 = n /\ n + 1 # 0
    BY <1>8
  <2>3. Open(F, v)
    BY <1>8, <1>10, <2>2 DEF Open, Unfinished
  <2> QED BY <1>8, <1>10, <2>1, <2>2, <2>3 DEF Line
<1>12. /\ IsSeq(G.blocks) /\ Len(G.blocks) = n /\ DOMAIN G.blocks = 1..n
       /\ IsSeq(D.blocks) /\ Len(D.blocks) = n + 1 /\ DOMAIN D.blocks = 1..(n + 1)
       /\ D.blocks[n + 1] = c /\ \A p \in 1..n : D.blocks[p] = G.blocks[p]
  <2>1. PICK bs : bs = G.blocks
    OBVIOUS
  <2>2. IsSeq(bs) /\ Len(bs) = n
    BY <1>4, <1>8, <2>1, FS_EmptySet DEF Row
  <2>3. DOMAIN bs = 1..n
    BY <2>2, LengthOf
  <2>4. PICK cs : cs = Append(bs, c)
    OBVIOUS
  <2>5. IsSeq(cs) /\ Len(cs) = n + 1 /\ cs[n + 1] = c /\ \A p \in 1..n : cs[p] = bs[p]
    <3>1. IsSeq(cs) /\ Len(cs) = n + 1 /\ cs[n + 1] = c
      BY <2>2, <2>4, OneMore
    <3>2. \A p \in 1..n : cs[p] = bs[p]
      BY <2>2, <2>4, OneMore
    <3> QED BY <3>1, <3>2
  <2>6. DOMAIN cs = 1..(n + 1)
    BY <2>5, LengthOf
  <2> QED BY <2>1, <2>2, <2>3, <2>4, <2>5, <2>6
<1>13. ~A!IsTool(c)
  BY DEF A!IsTool
<1>14. Row(F, D)
  <2>1. (n + 1) + Cardinality({}) = n + 1 /\ ((n + 1) + 1)..(n + 1) = {}
    BY <1>8, FS_EmptySet
  <2> QED BY <1>10, <1>12, <2>1 DEF Row, Values
<1>15. Wall(F, D)
  BY <1>12, <1>13 DEF Wall
<1>16. Agree(D, Assembled(v), n + 1)
  <2>1. Agree(D, Assembled(v), n)
    <3>1. Walled(G.blocks, n)
      BY <1>8, <1>12 DEF Walled
    <3>2. Walled(D.blocks, n)
      BY <1>8, <1>12, <1>13 DEF Walled
    <3>3. Alike(G.blocks, D.blocks, n)
      BY <1>12 DEF Alike
    <3>5. Alike(Assembled(u), Assembled(v), n) /\ n \in Nat
      BY <1>8 DEF Alike
    <3>4. StayClosed(G, D)
      BY DEF Keeps, StayClosed
    <3> QED BY <1>4, <3>1, <3>2, <3>3, <3>4, <3>5, AgreeKept
  <2> SUFFICES ASSUME NEW p \in 1..(n + 1)
               PROVE  IF A!IsTool(D.blocks[p])
                      THEN /\ ToolAt(D.blocks, p) \in DOMAIN D.tools \ D.pending
                           /\ Assembled(v)[p] = A!ToolBlock(D.tools[ToolAt(D.blocks, p)],
                                                 D.tools[ToolAt(D.blocks, p)].args)
                      ELSE Assembled(v)[p] = D.blocks[p]
    BY DEF Agree
  <2>2. CASE p \in 1..n
    BY <2>1, <2>2 DEF Agree
  <2>3. CASE p \notin 1..n
    <3>1. p = n + 1
      BY <1>8, <2>3
    <3> QED BY <1>8, <1>12, <1>13, <3>1
  <2> QED BY <2>2, <2>3
<1>17. View(F, D, v)
  BY <1>9, <1>11, <1>14, <1>15, <1>16 DEF View, Basic
<1>18. F.scalar.type = ty
  OBVIOUS
<1> QED BY <1>6, <1>8, <1>10, <1>17, <1>18

(* The chunk after w is a piece x of the n-th block, which is open.        *)
Pieced(w, v, n, x) ==
    /\ Sound(v) /\ v # << >> /\ LastType(v) = "content_block_delta"
    /\ Assembled(v) = Grown(Assembled(w), n, x)

(* A delta is such a piece.                                                *)
LEMMA MoreOfBlock ==
    ASSUME NEW w, Sound(w), w # << >>, LastType(w) \in Unfinished,
           NEW n, n = Len(Assembled(w)), n # 0, NEW x, NEW k, k = n - 1,
           NEW v, v = Append(w, A!Delta(k, x))
    PROVE  Pieced(w, v, n, x)
  BY BlockGrown DEF Pieced

(* The n-th of the blocks a has a piece x more, the others are as before.  *)
OneGrown(a, n, x) ==
    /\ IsSeq(Grown(a, n, x)) /\ Len(Grown(a, n, x)) = Len(a)
    /\ Grown(a, n, x)[n] = Filled(a[n], a[n].value \o x)
    /\ \A p \in 1..Len(a) : p # n => Grown(a, n, x)[p] = a[p]

(* A piece more of one block.                                              *)
LEMMA GrownOne ==
    ASSUME NEW a, NEW n, NEW x, IsSeq(a), n \in 1..Len(a)
    PROVE  OneGrown(a, n, x)
<1> DEFINE d == Filled(a[n], a[n].value \o x)
<1>1. Grown(a, n, x) = With(a, n, d)
  BY DEF Grown, Filled, With
<1> HIDE DEF d
<1>2. /\ IsSeq(Grown(a, n, x)) /\ Len(Grown(a, n, x)) = Len(a)
      /\ Grown(a, n, x)[n] = d
      /\ \A p \in 1..Len(a) : p # n => Grown(a, n, x)[p] = a[p]
  BY <1>1, SeqReplaced
<1> QED BY <1>2 DEF d, OneGrown

(* A piece more of the block that is open.                                 *)
LEMMA Continued ==
    ASSUME NEW E, NEW G, NEW w, IsSeq(w), View(E, G, w \o E.out), E.scalar.type # None,
           NEW x, IsSeq(x), NEW n, n = E.next,
           NEW l, l = n - 1, NEW q, q = E.scalar.value,
           NEW sc, sc = [type |-> E.scalar.type, index |-> l, value |-> q \o x],
           NEW out, out = Append(E.out, A!Delta(l, x)), NEW F, Enc(F), Moves(E, F, n, sc, out),
           NEW D, Gathers(D), Keeps(G, D), D.blocks = Grown(G.blocks, n, x)
    PROVE  Speaks(F, D, w)
<1> SUFFICES View(F, D, w \o F.out) /\ w \o F.out # << >> /\ F.scalar.type # None
  BY DEF Speaks
<1>a. /\ Keeps(E, F) /\ F.started = E.started /\ F.next = n
      /\ F.scalar = [type |-> E.scalar.type, index |-> n - 1, value |-> E.scalar.value \o x]
      /\ F.out = Append(E.out, A!Delta(n - 1, x))
  BY DEF Moves
<1> USE <1>a
<1>1. PICK y : y = E.out
  OBVIOUS
<1>2. PICK u : u = w \o y
  OBVIOUS
<1>3. PICK v : v = Append(u, A!Delta(n - 1, x))
  OBVIOUS
<1>4. /\ Twin(E, G) /\ Kept(E) /\ Line(E, u) /\ Row(E, G) /\ Agree(G, Assembled(u), n)
      /\ Wall(E, G) /\ IsSeq(y)
  BY <1>1, <1>2 DEF View, Basic, Twin, Enc, Plain
<1>5. PICK z : z = E.scalar.value
  OBVIOUS
<1>6. PICK ty : ty = E.scalar.type
  OBVIOUS
<1>7. /\ Sound(u) /\ u # << >> /\ LastType(u) \in Unfinished /\ n = Len(Assembled(u)) /\ n # 0
      /\ Assembled(u)[n] = [type |-> ty, value |-> z]
      /\ ty \in {"thinking", "text"} /\ IsSeq(z) /\ E.pending = {} /\ E.started
  BY <1>4, <1>5, <1>6 DEF Line, Open
<1>8. w \o F.out = v
  <2>1. PICK d : d = A!Delta(n - 1, x)
    OBVIOUS
  <2>2. w \o Append(y, d) = Append(w \o y, d)
    BY <1>4, OutMore
  <2> QED BY <1>1, <1>2, <1>3, <2>1, <2>2
<1>9. PICK c : c = [type |-> ty, value |-> z \o x]
  OBVIOUS
<1>10. PICK b : b = [type |-> ty, value |-> z]
  OBVIOUS
<1>11. Filled(b, b.value \o x) = c /\ ~A!IsTool(c) /\ ~A!IsTool(b) /\ IsSeq(z \o x)
  <2>1. IsSeq(z \o x)
    BY <1>7, SeqConcat
  <2>2. b.value = z /\ b.type = ty /\ c.type = ty
    BY <1>9, <1>10
  <2>3. Filled(b, z \o x) = c
    <3>1. PICK g : g = z \o x
      OBVIOUS
    <3>2. c = [type |-> ty, value |-> g]
      BY <1>9, <3>1
    <3>3. Filled(b, g) = c
      BY <1>10, <3>2 DEF Filled
    <3> QED BY <3>1, <3>3
  <2>4. ~A!IsTool(c) /\ ~A!IsTool(b)
    BY <1>7, <2>2 DEF A!IsTool
  <2> QED BY <2>1, <2>2, <2>3, <2>4
<1>12. n \in Nat /\ n \in 1..n
  BY <1>7, LengthOf DEF Sound
<1>13. /\ Sound(v) /\ v # << >> /\ LastType(v) = "content_block_delta"
       /\ Assembled(v) = Grown(Assembled(u), n, x)
  <2>1. PICK m : m = n
    OBVIOUS
  <2>2. /\ Sound(u) /\ u # << >> /\ LastType(u) \in Unfinished
        /\ m = Len(Assembled(u)) /\ m # 0
    BY <1>7, <2>1
  <2>3. PICK k : k = m - 1
    OBVIOUS
  <2>4. v = Append(u, A!Delta(k, x))
    BY <1>3, <2>1, <2>3
  <2>5. /\ Sound(v) /\ v # << >> /\ LastType(v) = "content_block_delta"
        /\ Assembled(v) = Grown(Assembled(u), m, x)
    <3>1. Pieced(u, v, m, x)
      BY <2>2, <2>3, <2>4, MoreOfBlock
    <3> QED BY <3>1 DEF Pieced
  <2> QED BY <2>1, <2>5
<1>14. /\ Len(Assembled(v)) = n /\ Assembled(v)[n] = c
       /\ \A p \in 1..n : p # n => Assembled(v)[p] = Assembled(u)[p]
  <2>1. PICK a : a = Assembled(u)
    OBVIOUS
  <2>2. IsSeq(a) /\ n \in 1..Len(a) /\ Len(a) = n /\ a[n] = b
    BY <1>7, <1>10, <1>12, <2>1 DEF Sound
  <2>3. /\ Len(Grown(a, n, x)) = Len(a)
        /\ Grown(a, n, x)[n] = Filled(a[n], a[n].value \o x)
        /\ \A p \in 1..Len(a) : p # n => Grown(a, n, x)[p] = a[p]
    <3>1. OneGrown(a, n, x)
      BY <2>2, GrownOne
    <3> QED BY <3>1 DEF OneGrown
  <2> QED BY <1>11, <1>13, <2>1, <2>2, <2>3
<1>15. Twin(F, D) /\ Kept(F)
  BY <1>4, BothKeep
<1>16. ty # None /\ F.pending = {} /\ G.pending = {}
  BY <1>4, <1>7, NoneIsNothing DEF Marks, Keeps, Twin
<1>17. F.scalar = [type |-> ty, index |-> n - 1, value |-> z \o x]
  BY <1>5, <1>6
<1>18. Line(F, v)
  <2>1. F.scalar.type = ty /\ F.scalar.value = z \o x
    <3>1. PICK r : r = [type |-> ty, index |-> n - 1, value |-> z \o x]
      OBVIOUS
    <3>2. r.type = ty /\ r.value = z \o x
      BY <3>1
    <3>3. F.scalar = r
      BY <1>17, <3>1
    <3> QED BY <3>2, <3>3
  <2>2. Open(F, v)
    BY <1>7, <1>9, <1>11, <1>13, <1>14, <1>16, <1>17, <2>1 DEF Open, Unfinished
  <2> QED BY <1>7, <1>13, <1>14, <1>16, <2>1, <2>2 DEF Line
<1>19. /\ IsSeq(G.blocks) /\ Len(G.blocks) = n /\ DOMAIN G.blocks = 1..n
  <2>1. IsSeq(G.blocks) /\ Len(G.blocks) = n
    BY <1>4, <1>7, <1>12, FS_EmptySet DEF Row
  <2> QED BY <2>1, LengthOf
<1>20. G.blocks[n] = b
  BY <1>4, <1>7, <1>10, <1>12 DEF Agree, Wall
<1>21. /\ IsSeq(D.blocks) /\ Len(D.blocks) = n /\ DOMAIN D.blocks = 1..n /\ D.blocks[n] = c
       /\ \A p \in 1..n : p # n => D.blocks[p] = G.blocks[p]
  <2>1. PICK a : a = G.blocks
    OBVIOUS
  <2>2. IsSeq(a) /\ n \in 1..Len(a) /\ Len(a) = n /\ a[n] = b
    BY <1>12, <1>19, <1>20, <2>1
  <2>3. /\ IsSeq(Grown(a, n, x)) /\ Len(Grown(a, n, x)) = Len(a)
        /\ Grown(a, n, x)[n] = Filled(a[n], a[n].value \o x)
        /\ \A p \in 1..Len(a) : p # n => Grown(a, n, x)[p] = a[p]
    <3>1. OneGrown(a, n, x)
      BY <2>2, GrownOne
    <3> QED BY <3>1 DEF OneGrown
  <2>4. DOMAIN Grown(a, n, x) = 1..Len(Grown(a, n, x))
    BY <2>3, LengthOf
  <2> QED BY <1>11, <2>1, <2>2, <2>3, <2>4
<1>22. Row(F, D)
  <2>1. n + Cardinality({}) = n /\ (n + 1)..n = {}
    BY <1>12, FS_EmptySet
  <2> QED BY <1>16, <1>21, <2>1 DEF Row, Values
<1>23. Wall(F, D)
  BY <1>11, <1>21 DEF Wall
<1>24. Agree(D, Assembled(v), n)
  <2>1. PICK k : k = n - 1
    OBVIOUS
  <2>2. k \in Nat /\ k + 1 = n /\ \A p \in 1..k : p \in 1..n /\ p # n
    BY <1>7, <1>12, <2>1
  <2>3. Agree(D, Assembled(v), k)
    <3>1. Walled(G.blocks, k)
      BY <1>11, <1>12, <1>19, <1>20, <2>2 DEF Walled
    <3>2. Walled(D.blocks, k)
      BY <1>11, <1>12, <1>21, <2>2 DEF Walled
    <3>3. Alike(G.blocks, D.blocks, k)
      BY <1>21, <2>2 DEF Alike
    <3>4. StayClosed(G, D)
      BY DEF Keeps, StayClosed
    <3>5. Alike(Assembled(u), Assembled(v), k)
      BY <1>14, <2>2 DEF Alike
    <3>6. Agree(G, Assembled(u), k)
      BY <1>4, <2>2 DEF Agree
    <3> QED BY <2>2, <3>1, <3>2, <3>3, <3>4, <3>5, <3>6, AgreeKept
  <2> SUFFICES ASSUME NEW p \in 1..n
               PROVE  IF A!IsTool(D.blocks[p])
                      THEN /\ ToolAt(D.blocks, p) \in DOMAIN D.tools \ D.pending
                           /\ Assembled(v)[p] = A!ToolBlock(D.tools[ToolAt(D.blocks, p)],
                                                 D.tools[ToolAt(D.blocks, p)].args)
                      ELSE Assembled(v)[p] = D.blocks[p]
    BY DEF Agree
  <2>4. CASE p = n
    BY <1>11, <1>14, <1>21, <2>4
  <2>5. CASE p # n
    <3>1. p \in 1..k
      BY <1>12, <2>2, <2>5
    <3> QED BY <2>3, <3>1 DEF Agree
  <2> QED BY <2>4, <2>5
<1>25. View(F, D, v)
  BY <1>15, <1>18, <1>22, <1>23, <1>24 DEF View, Basic
<1>26. F.scalar.type = ty
  BY <1>17
<1> QED BY <1>8, <1>13, <1>16, <1>25, <1>26

-----------------------------------------------------------------------------
(* An aggregator with other blocks.                                        *)
Rebuilt(C, D, bs) == Gathers(D) /\ Keeps(C, D) /\ D.blocks = bs

(* Its other fields stay as they were.                                     *)
LEMMA Reblocked ==
    ASSUME NEW C, Gathers(C), NEW bs, NEW D, D = [C EXCEPT !.blocks = bs]
    PROVE  Rebuilt(C, D, bs)
BY DEF Gathers, Keeps, Rebuilt

(* What AppendScalar makes of a part that says something.                  *)
Appends(C, D, n, part) ==
    /\ Gathers(D) /\ Keeps(C, D)
    /\ D.blocks = IF n > 0 /\ C.blocks[n].type = part.type
                  THEN Grown(C.blocks, n, part.value) ELSE Append(C.blocks, part)

(* AppendScalar grows the last block, or begins a new one.                 *)
LEMMA AppendsScalar ==
    ASSUME NEW G, NEW C, C = A!CloseGroup(G), Gathers(C), ~C.bad,
           NEW ty, NEW x, x # << >>, NEW part, part = [type |-> ty, value |-> x],
           NEW D, D = A!AppendScalar(G, part), NEW n, n = Len(C.blocks)
    PROVE  Appends(C, D, n, part)
<1>1. part.value = x /\ part.type = ty
  OBVIOUS
<1> SUFFICES /\ Gathers(D) /\ Keeps(C, D)
             /\ D.blocks = IF n > 0 /\ C.blocks[n].type = ty
                           THEN Grown(C.blocks, n, x) ELSE Append(C.blocks, part)
  BY <1>1 DEF Appends
<1>2. CASE n > 0 /\ C.blocks[n].type = ty
  <2>1. D = [C EXCEPT !.blocks = Grown(C.blocks, n, x)]
    BY <1>1, <1>2 DEF A!AppendScalar, Grown, Gathers
  <2>2. PICK bs : bs = Grown(C.blocks, n, x)
    OBVIOUS
  <2>3. D = [C EXCEPT !.blocks = bs]
    BY <2>1, <2>2
  <2>4. Rebuilt(C, D, bs)
    BY <2>3, Reblocked
  <2> QED BY <1>2, <2>2, <2>4 DEF Rebuilt
<1>3. CASE ~(n > 0 /\ C.blocks[n].type = ty)
  <2>1. D = [C EXCEPT !.blocks = Append(C.blocks, part)]
    BY <1>1, <1>3 DEF A!AppendScalar, Gathers
  <2>2. PICK bs : bs = Append(C.blocks, part)
    OBVIOUS
  <2>3. D = [C EXCEPT !.blocks = bs]
    BY <2>1, <2>2
  <2>4. Rebuilt(C, D, bs)
    BY <2>3, Reblocked
  <2> QED BY <1>3, <2>2, <2>4 DEF Rebuilt
<1> QED BY <1>2, <1>3

(* What EmitScalar makes of it: a piece of the open block...               *)
LEMMA EmitsPiece ==
    ASSUME NEW E, NEW f, f = A!FlushGroup(E), Enc(f), ~f.bad,
           NEW ty, NEW x, x # << >>, NEW part, part = [type |-> ty, value |-> x],
           NEW l, NEW q, f.scalar = [type |-> ty, index |-> l, value |-> q],
           NEW F, F = A!EmitScalar(E, part), NEW n, n = f.next,
           NEW sc, sc = [type |-> ty, index |-> l, value |-> q \o x],
           NEW out, out = Append(f.out, A!Delta(l, x))
    PROVE  Moves(f, F, n, sc, out)
<1>a. f.scalar.type = ty /\ f.scalar.index = l /\ f.scalar.value = q
  OBVIOUS
<1>1. part.value = x /\ part.type = ty
  OBVIOUS
<1>2. F = [f EXCEPT !.scalar.value = @ \o x, !.out = Append(@, A!Delta(l, x))]
  BY <1>a, <1>1 DEF A!EmitScalar, A!Continued
<1>3. F.scalar = [f.scalar EXCEPT !.value = @ \o x] /\ F.out = out
      /\ Keeps(f, F) /\ F.started = f.started /\ F.next = n
  BY <1>2 DEF Enc, Keeps
<1>4. [f.scalar EXCEPT !.value = @ \o x] = sc
  <2>1. PICK g : g = q \o x
    OBVIOUS
  <2>2. sc = [type |-> ty, index |-> l, value |-> g]
    BY <2>1
  <2>3. [f.scalar EXCEPT !.value = g] = sc
    <3>1. ASSUME NEW r, r = [type |-> ty, index |-> l, value |-> q]
          PROVE  [r EXCEPT !.value = g] = [type |-> ty, index |-> l, value |-> g]
      BY <3>1
    <3> QED BY <2>2, <3>1, Zenon
  <2>4. [f.scalar EXCEPT !.value = @ \o x] = [f.scalar EXCEPT !.value = g]
    BY <1>a, <2>1
  <2> QED BY <2>3, <2>4
<1> QED BY <1>3, <1>4 DEF Moves

(* ...or a new block.                                                      *)
LEMMA EmitsBlock ==
    ASSUME NEW E, NEW f, f = A!FlushGroup(E), ~f.bad, NEW c, c = A!CloseScalar(f), Enc(c),
           NEW ty, NEW x, x # << >>, IsSeq(x), NEW part, part = [type |-> ty, value |-> x],
           f.scalar.type # ty, NEW F, F = A!EmitScalar(E, part), NEW n, n = c.next,
           NEW b, b = [type |-> ty, value |-> << >>], NEW m, m = n + 1,
           NEW sc, sc = [type |-> ty, index |-> n, value |-> x],
           NEW out, out = Append(Append(c.out, A!Start(n, b)), A!Delta(n, x))
    PROVE  Moves(c, F, m, sc, out)
<1>1. part.value = x /\ part.type = ty
  OBVIOUS
<1>2. PICK o : o = [c EXCEPT !.next = @ + 1,
                             !.scalar = [type |-> ty, index |-> n, value |-> << >>],
                             !.out = Append(@, A!Start(n, b))]
  OBVIOUS
<1>3. /\ Keeps(c, o) /\ o.started = c.started /\ o.next = n + 1
      /\ o.scalar = [type |-> ty, index |-> n, value |-> << >>]
      /\ o.out = Append(c.out, A!Start(n, b))
      /\ o = [o EXCEPT !.bad = o.bad]
  BY <1>2 DEF Enc, Keeps
<1>4. F = [o EXCEPT !.scalar.value = @ \o x, !.out = Append(@, A!Delta(o.scalar.index, x))]
  BY <1>1, <1>2 DEF A!EmitScalar, A!Continued
<1>5. << >> \o x = x
  BY DEF IsSeq
<1>6. o.scalar.index = n /\ [o.scalar EXCEPT !.value = @ \o x] = [type |-> ty, index |-> n, value |-> x]
  BY <1>3, <1>5
<1>7. F.scalar = [o.scalar EXCEPT !.value = @ \o x] /\ F.out = Append(o.out, A!Delta(o.scalar.index, x))
      /\ Keeps(o, F) /\ F.started = o.started /\ F.next = o.next
  BY <1>2, <1>4 DEF Enc, Keeps
<1> QED BY <1>3, <1>6, <1>7 DEF Keeps, Moves

(* Both ways tell the same of a piece of thinking or text.                 *)
LEMMA ScalarTold ==
    ASSUME NEW E, NEW G, NEW w, IsSeq(w), View(E, G, w \o E.out), Busy(E), w \o E.out # << >>,
           NEW ty \in {"thinking", "text"}, NEW x, IsSeq(x),
           NEW part, part = [type |-> ty, value |-> x],
           NEW F, F = A!EmitScalar(E, part), ~F.bad, NEW D, D = A!AppendScalar(G, part)
    PROVE  View(F, D, w \o F.out) /\ w \o F.out # << >> /\ Busy(F)
<1>1. CASE x = << >>
  <2>1. part.value = << >>
    BY <1>1
  <2>2. F = E /\ D = G
    BY <2>1 DEF A!EmitScalar, A!AppendScalar
  <2> QED BY <2>2
<1>2. CASE x # << >>
  <2> PICK f : f = A!FlushGroup(E)
    OBVIOUS
  <2> PICK C : C = A!CloseGroup(G)
    OBVIOUS
  <2> PICK n : n = Len(C.blocks)
    OBVIOUS
  <2>1. /\ Twin(E, G) /\ Kept(E) /\ Line(E, w \o E.out) /\ Row(E, G)
        /\ Agree(G, Assembled(w \o E.out), E.next) /\ Wall(E, G)
    BY DEF View, Basic
  <2>2. Enc(E) /\ Enc(f) /\ Enc(F)
    <3>1. Enc(E)
      BY <2>1 DEF Twin
    <3> QED BY <3>1, EncFlushed, EncScalarEmitted
  <2>3. ~f.bad
    <3>1. part.value # << >>
      BY <1>2
    <3>2. f.bad => F = f
      BY <3>1 DEF A!EmitScalar
    <3> QED BY <3>2
  <2>4. ty # None /\ ty # "tool_use"
    BY NoneIsNothing DEF Marks
  <2>5. CASE E.scalar.type # None
    <3>1. Open(E, w \o E.out)
      BY <2>1, <2>5 DEF Line
    <3>2. E.pending = {} /\ E.next # 0
      BY <3>1 DEF Open
    <3>3. f = E
      BY <2>1, <2>2, <3>2, FlushNone DEF Twin
    <3>4. C = G
      <4>1. Kept(G) /\ G.pending = {} /\ Gathers(G)
        BY <2>1, <3>2 DEF Twin, Kept
      <4> QED BY <4>1, CloseNone
    <3>5. E.next = Len(Assembled(w \o E.out)) /\ E.next \in Nat /\ E.next \in 1..E.next
      <4>1. E.next = Len(Assembled(w \o E.out)) /\ IsSeq(Assembled(w \o E.out))
        BY <2>1 DEF Line, Sound
      <4>2. E.next \in Nat
        BY <4>1, LengthOf
      <4> QED BY <3>2, <4>1, <4>2
    <3>6. Len(G.blocks) = E.next /\ n = E.next /\ n > 0
      BY <2>1, <3>2, <3>4, <3>5, FS_EmptySet DEF Row
    <3>7. G.blocks[n] = [type |-> E.scalar.type, value |-> E.scalar.value]
      <4>1. ~A!IsTool(G.blocks[E.next])
        BY <2>1, <3>2 DEF Wall
      <4>2. Assembled(w \o E.out)[E.next] = G.blocks[E.next]
        BY <2>1, <3>5, <4>1 DEF Agree
      <4> QED BY <3>1, <3>6, <4>2 DEF Open
    <3>8. G.blocks[n].type = E.scalar.type
      BY <3>7
    <3>9. Gathers(C) /\ ~C.bad
      BY <2>1, <3>4 DEF Twin
    <3>10. /\ Gathers(D) /\ Keeps(C, D)
           /\ D.blocks = IF n > 0 /\ C.blocks[n].type = ty
                         THEN Grown(C.blocks, n, x) ELSE Append(C.blocks, part)
      <4>1. Appends(C, D, n, part)
        BY <1>2, <3>9, AppendsScalar
      <4>2. part.type = ty /\ part.value = x
        OBVIOUS
      <4> QED BY <4>1, <4>2 DEF Appends
    <3>11. CASE E.scalar.type = ty
      <4> PICK y : y = E.scalar.value
        OBVIOUS
      <4>1. E.scalar = [type |-> ty, index |-> n - 1, value |-> y]
        BY <3>1, <3>6, <3>11 DEF Open
      <4> PICK l : l = n - 1
        OBVIOUS
      <4> PICK sc : sc = [type |-> ty, index |-> l, value |-> y \o x]
        OBVIOUS
      <4> PICK out : out = Append(E.out, A!Delta(l, x))
        OBVIOUS
      <4>2. f.scalar = [type |-> ty, index |-> l, value |-> y] /\ f.out = E.out /\ f.next = n
        BY <3>3, <3>6, <4>1
      <4>3. Moves(f, F, n, sc, out)
        BY <1>2, <2>2, <2>3, <4>2, EmitsPiece
      <4>4. Moves(E, F, n, sc, out) /\ n = E.next
        BY <3>3, <3>6, <4>3
      <4>5. Keeps(G, D) /\ D.blocks = Grown(G.blocks, n, x)
        BY <3>4, <3>6, <3>8, <3>10, <3>11
      <4>6. sc = [type |-> E.scalar.type, index |-> l, value |-> y \o x]
        BY <3>11
      <4>7. Speaks(F, D, w)
        BY <2>2, <2>5, <3>10, <4>4, <4>5, <4>6, Continued
      <4> QED BY <4>7 DEF Busy, Speaks
    <3>12. CASE E.scalar.type # ty
      <4> PICK c : c = A!CloseScalar(E)
        OBVIOUS
      <4> PICK b : b = [type |-> ty, value |-> << >>]
        OBVIOUS
      <4> PICK m : m = c.next
        OBVIOUS
      <4>1. /\ View(c, G, w \o c.out) /\ w \o c.out # << >> /\ Between(w \o c.out)
            /\ c.scalar.type = None /\ c.pending = E.pending /\ c.next = E.next /\ c.bad = FALSE
        <5>1. View(E, G, w \o E.out) /\ w \o E.out # << >>
          OBVIOUS
        <5>2. Shut(E, c, G, w)
          BY <5>1, ScalarShut
        <5> QED BY <5>2 DEF Shut
      <4>2. Enc(c)
        BY <2>2, EncScalarClosed
      <4>3. c = A!CloseScalar(f) /\ f.scalar.type # ty
        BY <3>3, <3>12
      <4> PICK k : k = m + 1
        OBVIOUS
      <4> PICK sc : sc = [type |-> ty, index |-> m, value |-> x]
        OBVIOUS
      <4> PICK out : out = Append(Append(c.out, A!Start(m, b)), A!Delta(m, x))
        OBVIOUS
      <4>4. Moves(c, F, k, sc, out)
        BY <1>2, <2>3, <4>2, <4>3, EmitsBlock
      <4>5. Keeps(G, D) /\ D.blocks = Append(G.blocks, part)
        BY <3>4, <3>8, <3>10, <3>12
      <4>6. Basic(c, G, w \o c.out) /\ c.pending = {}
        BY <3>2, <4>1 DEF View
      <4>8. Gathers(D) /\ Enc(F) /\ w \o c.out # << >> /\ c.scalar.type = None
        BY <2>2, <3>10, <4>1
      <4>7. Speaks(F, D, w)
        BY <4>4, <4>5, <4>6, <4>8, Opened
      <4> QED BY <4>7 DEF Busy, Speaks
    <3> QED BY <3>11, <3>12
  <2>6. CASE E.scalar.type = None
    <3> PICK b : b = [type |-> ty, value |-> << >>]
      OBVIOUS
    <3> PICK m : m = f.next
      OBVIOUS
    <3>1. /\ Basic(f, C, w \o f.out) /\ w \o f.out # << >>
          /\ f.scalar = E.scalar /\ f.pending = {} /\ f.next = n
          /\ E.pending = {} => f = E /\ C = G
          /\ E.pending # {} => f.next # 0 /\ A!IsTool(C.blocks[f.next])
      <4>1. Flushed(E, G, w, f, C)
        BY <2>3, <2>6, FlushTold
      <4> QED BY <4>1 DEF Flushed
    <3>2. f = A!CloseScalar(f) /\ f.scalar.type = None /\ f.scalar.type # ty
      BY <2>4, <2>6, <3>1 DEF A!CloseScalar
    <3> PICK k : k = m + 1
      OBVIOUS
    <3> PICK sc : sc = [type |-> ty, index |-> m, value |-> x]
      OBVIOUS
    <3> PICK out : out = Append(Append(f.out, A!Start(m, b)), A!Delta(m, x))
      OBVIOUS
    <3>3. Moves(f, F, k, sc, out)
      BY <1>2, <2>2, <2>3, <3>2, EmitsBlock
    <3>4. Gathers(C) /\ ~C.bad
      BY <3>1 DEF Basic, Twin
    <3>5. /\ Gathers(D) /\ Keeps(C, D)
           /\ D.blocks = IF n > 0 /\ C.blocks[n].type = ty
                         THEN Grown(C.blocks, n, x) ELSE Append(C.blocks, part)
      <4>1. Appends(C, D, n, part)
        BY <1>2, <3>4, AppendsScalar
      <4>2. part.type = ty /\ part.value = x
        OBVIOUS
      <4> QED BY <4>1, <4>2 DEF Appends
    <3>6. ~(n > 0 /\ C.blocks[n].type = ty)
      <4>1. CASE E.pending = {}
        <5>1. f.next = 0
          BY <2>6, <3>1, <4>1 DEF Busy
        <5> QED BY <3>1, <5>1
      <4>2. CASE E.pending # {}
        BY <2>4, <3>1, <4>2 DEF A!IsTool
      <4> QED BY <4>1, <4>2
    <3>7. D.blocks = Append(C.blocks, part)
      BY <3>5, <3>6
    <3>8. Speaks(F, D, w)
      <4>1. /\ Basic(f, C, w \o f.out) /\ w \o f.out # << >> /\ f.scalar.type = None
            /\ f.pending = {} /\ Gathers(D) /\ Keeps(C, D) /\ Enc(F)
        BY <2>2, <3>1, <3>2, <3>5
      <4> QED BY <3>3, <3>7, <4>1, Opened, Zenon
    <3> QED BY <3>8 DEF Busy, Speaks
  <2> QED BY <2>5, <2>6
<1> QED BY <1>1, <1>2

-----------------------------------------------------------------------------
(* Which call a piece belongs to is still known of every piece.            *)
LEMMA Resolved ==
    ASSUME NEW r, IndexesOk(r), NEW call, call.index \in Int \union {None},
           call.id \in Ids \union {None}
    PROVE  IndexesOk(A!Resolve(r, call))
<1> PICK index : index = call.index
  OBVIOUS
<1> PICK id : id = call.id
  OBVIOUS
<1> PICK given : given = IF index # None THEN index ELSE A!Generated(r.used)
  OBVIOUS
<1>1. /\ r = [byId |-> r.byId, used |-> r.used, current |-> r.current]
      /\ r.byId \in [Ids -> Int \union {None}] /\ IsFiniteSet(r.used)
      /\ r.current \in Int \union {None}
  BY DEF IndexesOk
<1>2. given \in Int
  <2>1. A!Generated(r.used) \in Nat
    BY <1>1, IndexGenerated
  <2> QED BY <2>1
<1>3. IsFiniteSet(r.used \union {given})
  BY <1>1, FS_AddElement
<1>4. CASE index = None /\ id = None
  BY <1>4 DEF A!Resolve
<1>5. CASE index = None /\ id # None /\ r.byId[id] # None
  <2>1. A!Resolve(r, call) = [r EXCEPT !.current = r.byId[id]]
    BY <1>5 DEF A!Resolve
  <2>2. r.byId[id] \in Int \union {None}
    BY <1>1, <1>5
  <2> QED BY <1>1, <2>1, <2>2 DEF IndexesOk
<1>6. CASE ~(index = None /\ id = None) /\ ~(index = None /\ id # None /\ r.byId[id] # None)
  <2> PICK m : m = IF id = None THEN r.byId ELSE [r.byId EXCEPT ![id] = given]
    OBVIOUS
  <2> PICK u : u = r.used \union {given}
    OBVIOUS
  <2>1. A!Resolve(r, call) = [byId |-> m, used |-> u, current |-> given]
    BY <1>6 DEF A!Resolve
  <2>2. m \in [Ids -> Int \union {None}]
    <3>1. CASE id = None
      BY <1>1, <3>1
    <3>2. CASE id # None
      BY <1>1, <1>2, <3>2
    <3> QED BY <3>1, <3>2
  <2> QED BY <1>2, <1>3, <2>1, <2>2 DEF IndexesOk
<1> QED BY <1>4, <1>5, <1>6

(* A piece of a call, in what both ways keep.                              *)
Merged(s, t, q, i, tool) ==
    /\ t.bad = s.bad /\ t.finish = s.finish /\ t.usage = s.usage
    /\ t.indexes = q /\ t.pending = s.pending \union {i} /\ t.tools = A!Put(s.tools, i, tool)

(* A state s that takes it as t: one of the encoder's tells nothing of it, *)
(* one of the aggregator's adds no block.                                  *)
Takes(s, t, q, i, known, tool) ==
    /\ i # None /\ ~known.closed /\ Merged(s, t, q, i, tool)
    /\ Enc(s) => t.out = s.out /\ t.started = s.started /\ t.next = s.next /\ t.scalar = s.scalar
    /\ Gathers(s) => Gathers(t) /\ t.blocks = s.blocks

(* Merge takes it in the same way for both.                                *)
LEMMA Merges ==
    ASSUME NEW s, NEW t, NEW call, NEW q, NEW i, NEW known, NEW tool,
           ~s.bad, Enc(s) \/ Gathers(s), t = A!Merge(s, call), ~t.bad,
           q = A!Resolve(s.indexes, call), i = q.current, known = A!Known(s, i),
           tool = [id |-> A!Latest(known.id, call.id), name |-> A!Latest(known.name, call.name),
                   args |-> known.args \o call.args, closed |-> FALSE]
    PROVE  Takes(s, t, q, i, known, tool)
<1>1. A!Merge(s, call) =
        IF \/ s.bad \/ i = None \/ known.closed
           \/ A!Changes(known.id, call.id) \/ A!Changes(known.name, call.name)
        THEN A!Violation(s)
        ELSE [s EXCEPT !.indexes = q, !.pending = @ \union {i}, !.tools = A!Put(@, i, tool)]
  BY DEF A!Merge
<1>2. A!Violation(s).bad
  BY DEF A!Violation, Enc, Gathers
<1>3. /\ i # None /\ ~known.closed
      /\ t = [s EXCEPT !.indexes = q, !.pending = @ \union {i}, !.tools = A!Put(@, i, tool)]
  BY <1>1, <1>2
<1>5. PICK tools : tools = A!Put(s.tools, i, tool)
  OBVIOUS
<1>6. t = [s EXCEPT !.indexes = q, !.pending = @ \union {i}, !.tools = tools]
  BY <1>3, <1>5
<1>7. Merged(s, t, q, i, tool)
  BY <1>5, <1>6 DEF Merged, Enc, Gathers
<1>8. Enc(s) => t.out = s.out /\ t.started = s.started /\ t.next = s.next /\ t.scalar = s.scalar
  BY <1>6 DEF Enc
<1>9. Gathers(s) => Gathers(t) /\ t.blocks = s.blocks
  BY <1>6 DEF Gathers
<1> QED BY <1>3, <1>7, <1>8, <1>9 DEF Takes

(* A tool that gets a piece is no longer closed, or not there yet.         *)
LEMMA KeptMerged ==
    ASSUME NEW s, Kept(s), NEW t, NEW q, IndexesOk(q), NEW i \in Int, NEW tool, Tool(tool),
           Merged(s, t, q, i, tool)
    PROVE  Kept(t)
<1>1. PICK tools : tools = A!Put(s.tools, i, tool)
  OBVIOUS
<1>2. PICK pending : pending = s.pending \union {i}
  OBVIOUS
<1>3. t.indexes = q /\ t.pending = pending /\ t.tools = tools
  BY <1>1, <1>2 DEF Merged
<1>4. IsFiniteSet(pending)
  BY <1>2, FS_AddElement DEF Kept
<1>5. /\ tools = [j \in DOMAIN tools |-> tools[j]] /\ DOMAIN tools = DOMAIN s.tools \union {i}
      /\ tools[i] = tool /\ \A j \in DOMAIN s.tools : j # i => tools[j] = s.tools[j]
  BY <1>1 DEF A!Put
<1>6. \A j \in DOMAIN tools : Tool(tools[j]) /\ (j \in pending \/ tools[j].closed)
  <2> SUFFICES ASSUME NEW j \in DOMAIN tools PROVE Tool(tools[j]) /\ (j \in pending \/ tools[j].closed)
    OBVIOUS
  <2>1. CASE j = i
    BY <1>2, <1>5, <2>1
  <2>2. CASE j # i
    <3>1. j \in DOMAIN s.tools /\ tools[j] = s.tools[j]
      BY <1>5, <2>2
    <3> QED BY <1>2, <3>1 DEF Kept
  <2> QED BY <2>1, <2>2
<1>7. pending \subseteq DOMAIN tools /\ DOMAIN tools \subseteq Int
  BY <1>2, <1>5 DEF Kept
<1> QED BY <1>3, <1>4, <1>5, <1>6, <1>7 DEF Kept

(* Behind the wall the aggregator has more blocks, or the same.            *)
LEMMA WallKept ==
    ASSUME NEW E, NEW G, NEW u, View(E, G, u), E.scalar.type = None,
           NEW F, F.next = E.next, F.started = E.started, F.scalar = E.scalar,
           NEW D, Twin(F, D), Kept(F), Row(F, D), StayClosed(G, D),
           NEW n, n = E.next, Alike(G.blocks, D.blocks, n)
    PROVE  View(F, D, u)
<1>1. /\ Twin(E, G) /\ Kept(E) /\ Line(E, u) /\ Row(E, G) /\ Agree(G, Assembled(u), n)
      /\ Wall(E, G)
  BY DEF View, Basic
<1>2. Line(F, u)
  BY <1>1 DEF Line
<1>3. n \in Nat
  BY <1>1, LengthOf DEF Line, Sound
<1>4. Wall(F, D)
  BY <1>1, <1>3 DEF Wall, Alike
<1>5. Agree(D, Assembled(u), n)
  <2>1. CASE n = 0
    <3>1. 1..n = {}
      BY <2>1
    <3> QED BY <3>1 DEF Agree
  <2>2. CASE n # 0
    <3> PICK k : k = n - 1
      OBVIOUS
    <3>1. k \in Nat /\ k + 1 = n /\ \A p \in 1..k : p \in 1..n
      BY <1>3, <2>2
    <3>2. ASSUME NEW H, NEW b, b = H.blocks, NEW X, Row(X, H), X.next = n, Kept(X),
                 ~A!IsTool(b[n])
          PROVE  Walled(b, k)
      <4>1. Cardinality(X.pending) \in Nat
        BY <3>2, FS_CardinalityType DEF Kept
      <4>2. IsSeq(b) /\ Len(b) = n + Cardinality(X.pending)
        BY <3>2 DEF Row
      <4>3. DOMAIN b = 1..Len(b) /\ Len(b) \in Nat /\ k <= Len(b)
        BY <1>3, <3>1, <4>1, <4>2, LengthOf
      <4> QED BY <3>1, <3>2, <4>3 DEF Walled
    <3>3. ~A!IsTool(G.blocks[n]) /\ ~A!IsTool(D.blocks[n])
      BY <1>1, <1>3, <1>4, <2>2 DEF Wall
    <3>4. Walled(G.blocks, k) /\ Walled(D.blocks, k)
      BY <1>1, <3>2, <3>3
    <3>5. Alike(G.blocks, D.blocks, k) /\ Alike(Assembled(u), Assembled(u), k)
      BY <3>1 DEF Alike
    <3>6. Agree(G, Assembled(u), k)
      BY <1>1, <3>1 DEF Agree
    <3>7. Agree(D, Assembled(u), k)
      BY <3>1, <3>4, <3>5, <3>6, AgreeKept
    <3>8. Assembled(u)[n] = D.blocks[n]
      <4>1. n \in 1..n
        BY <1>3, <2>2
      <4>2. Assembled(u)[n] = G.blocks[n]
        BY <1>1, <3>3, <4>1 DEF Agree
      <4> QED BY <4>1, <4>2 DEF Alike
    <3>9. \A p \in 1..n : p \in 1..k \/ p = n
      BY <3>1
    <3> QED BY <3>3, <3>7, <3>8, <3>9 DEF Agree
  <2> QED BY <2>1, <2>2
<1> QED BY <1>2, <1>4, <1>5 DEF View, Basic

(* The first n blocks of G are those of D, which has its tools behind.     *)
Deeper(F, D, G, n) == Row(F, D) /\ Alike(G.blocks, D.blocks, n)

(* A block of a tool more behind the others.                               *)
LEMMA RowMore ==
    ASSUME NEW E, NEW G, Row(E, G), Kept(E), NEW n \in Nat, n = E.next,
           NEW i, i \notin E.pending, NEW c, c = [type |-> "tool_use", value |-> i],
           NEW F, F.next = n, F.pending = E.pending \union {i},
           NEW D, D.blocks = Append(G.blocks, c)
    PROVE  Deeper(F, D, G, n)
<1>1. PICK a : a = G.blocks
  OBVIOUS
<1>2. PICK b : b = Append(a, c)
  OBVIOUS
<1>3. PICK l : l = Len(a)
  OBVIOUS
<1>4. PICK m : m = Cardinality(E.pending)
  OBVIOUS
<1>5. /\ IsSeq(a) /\ l = n + m /\ \A p \in (n + 1)..l : A!IsTool(a[p])
      /\ Values(a, n, l) = E.pending
  BY <1>1, <1>3, <1>4 DEF Row
<1>6. m \in Nat /\ Cardinality(F.pending) = m + 1
  BY <1>4, FS_CardinalityType, FS_AddElement DEF Kept
<1>7. IsSeq(b) /\ Len(b) = l + 1 /\ b[l + 1] = c /\ \A p \in 1..l : b[p] = a[p]
  <2>3. IsSeq(a)
    BY <1>5
  <2>1. IsSeq(b) /\ Len(b) = l + 1 /\ b[l + 1] = c
    BY <1>2, <1>3, <2>3, OneMore
  <2>2. \A p \in 1..l : b[p] = a[p]
    BY <1>2, <1>3, <2>3, OneMore
  <2> QED BY <2>1, <2>2
<1>8. l \in Nat /\ n <= l /\ Len(b) = n + Cardinality(F.pending)
  BY <1>5, <1>6, <1>7
<1>9. \A p \in (n + 1)..(l + 1) : A!IsTool(b[p])
  <2> SUFFICES ASSUME NEW p \in (n + 1)..(l + 1) PROVE A!IsTool(b[p])
    OBVIOUS
  <2>1. CASE p = l + 1
    BY <1>7, <2>1 DEF A!IsTool
  <2>2. CASE p # l + 1
    <3>1. p \in (n + 1)..l /\ p \in 1..l
      BY <1>8, <2>2
    <3> QED BY <1>5, <1>7, <3>1
  <2> QED BY <2>1, <2>2
<1>10. Values(b, n, l + 1) = E.pending \union {i}
  <2>1. ASSUME NEW v \in Values(b, n, l + 1) PROVE v \in E.pending \union {i}
    <3>1. PICK p \in (n + 1)..(l + 1) : v = b[p].value
      BY <2>1 DEF Values
    <3>2. CASE p = l + 1
      BY <1>7, <3>1, <3>2
    <3>3. CASE p # l + 1
      <4>1. p \in (n + 1)..l /\ p \in 1..l
        BY <1>8, <3>3
      <4>2. a[p].value \in Values(a, n, l)
        BY <4>1 DEF Values
      <4> QED BY <1>5, <1>7, <3>1, <4>1, <4>2
    <3> QED BY <3>2, <3>3
  <2>2. ASSUME NEW v \in E.pending PROVE v \in Values(b, n, l + 1)
    <3>1. PICK p \in (n + 1)..l : v = a[p].value
      BY <1>5, <2>2 DEF Values
    <3>2. p \in (n + 1)..(l + 1) /\ p \in 1..l
      BY <1>8
    <3> QED BY <1>7, <3>1, <3>2 DEF Values
  <2>3. i \in Values(b, n, l + 1)
    <3>1. l + 1 \in (n + 1)..(l + 1) /\ b[l + 1].value = i
      BY <1>7, <1>8
    <3> QED BY <3>1 DEF Values
  <2> QED BY <2>1, <2>2, <2>3
<1>11. D.blocks = b
  BY <1>1, <1>2
<1>12. Row(F, D)
  BY <1>7, <1>8, <1>9, <1>10, <1>11 DEF Row
<1>13. Alike(G.blocks, D.blocks, n)
  <2>1. \A p \in 1..n : p \in 1..l
    BY <1>8
  <2> QED BY <1>1, <1>7, <1>11, <2>1 DEF Alike
<1> QED BY <1>12, <1>13 DEF Deeper

(* F and D have a piece of a call more than E and G.                       *)
Joins(E, F, D, u) ==
    View(F, D, u) /\ F.out = E.out /\ F.scalar = E.scalar /\ F.pending # {}

(* A piece of a call is kept by both, and has the aggregator put a block   *)
(* where the group is told later.                                          *)
LEMMA MergeTold ==
    ASSUME NEW E, NEW G, NEW u, View(E, G, u), E.scalar.type = None,
           NEW call, IsSeq(call.args), call.index \in Int \union {None},
           call.id \in Ids \union {None},
           NEW F, F = A!Merge(E, call), ~F.bad, NEW D, D = A!AppendTool(G, call)
    PROVE  Joins(E, F, D, u)
<1>q. PICK q : q = A!Resolve(E.indexes, call)
  OBVIOUS
<1>i. PICK i : i = q.current
  OBVIOUS
<1>k. PICK known : known = A!Known(E, i)
  OBVIOUS
<1>o. PICK tool : tool = [id |-> A!Latest(known.id, call.id),
                          name |-> A!Latest(known.name, call.name),
                          args |-> known.args \o call.args, closed |-> FALSE]
  OBVIOUS
<1>t. PICK t : t = A!Merge(G, call)
  OBVIOUS
<1>n. PICK n : n = E.next
  OBVIOUS
<1>1. /\ Twin(E, G) /\ Kept(E) /\ Line(E, u) /\ Row(E, G)
  BY DEF View, Basic
<1>2. /\ Enc(E) /\ Gathers(G) /\ ~E.bad /\ ~G.bad /\ G.indexes = E.indexes /\ G.tools = E.tools
      /\ G.pending = E.pending /\ G.finish = E.finish /\ G.usage = E.usage
  BY <1>1 DEF Twin
<1>3. /\ i # None /\ ~known.closed /\ Merged(E, F, q, i, tool)
      /\ F.out = E.out /\ F.started = E.started /\ F.next = E.next /\ F.scalar = E.scalar
  <2>1. Takes(E, F, q, i, known, tool)
    BY <1>2, <1>q, <1>i, <1>k, <1>o, Merges
  <2> QED BY <1>2, <2>1 DEF Takes
<1>4. known = A!Known(G, i) /\ q = A!Resolve(G.indexes, call)
  BY <1>2, <1>q, <1>k DEF A!Known
<1>5. ~t.bad
  <2>1. ~(\/ E.bad \/ i = None \/ known.closed
          \/ A!Changes(known.id, call.id) \/ A!Changes(known.name, call.name))
    <3>1. A!Violation(E).bad
      BY <1>2 DEF A!Violation, Enc
    <3> QED BY <1>q, <1>i, <1>k, <3>1 DEF A!Merge
  <2>2. t = [G EXCEPT !.indexes = q, !.pending = @ \union {i}, !.tools = A!Put(@, i, tool)]
    BY <1>2, <1>4, <1>i, <1>o, <1>t, <2>1 DEF A!Merge
  <2> QED BY <1>2, <2>2 DEF Gathers
<1>6. Merged(G, t, q, i, tool) /\ Gathers(t) /\ t.blocks = G.blocks
  <2>1. Takes(G, t, q, i, known, tool)
    BY <1>2, <1>4, <1>5, <1>i, <1>o, <1>t, Merges
  <2> QED BY <1>2, <2>1 DEF Takes
<1>7. IndexesOk(q) /\ i \in Int
  <2>1. IndexesOk(q)
    BY <1>1, <1>q, Resolved DEF Kept
  <2> QED BY <1>3, <1>i, <2>1 DEF IndexesOk
<1>8. Tool(tool)
  <2>1. IsSeq(known.args)
    <3>1. CASE i \in DOMAIN E.tools
      BY <1>1, <1>k, <3>1 DEF A!Known, Kept, Tool
    <3>2. CASE i \notin DOMAIN E.tools
      BY <1>k, <3>2, SeqNone DEF A!Known, A!UnnamedTool
    <3> QED BY <3>1, <3>2
  <2>2. IsSeq(known.args \o call.args)
    BY <2>1, SeqConcat
  <2> QED BY <1>o, <2>2 DEF Tool
<1>9. Kept(F)
  BY <1>1, <1>3, <1>7, <1>8, KeptMerged
<1>10. Enc(F)
  BY <1>2, EncMerged
<1>11. Twin(F, t)
  BY <1>2, <1>3, <1>6, <1>10 DEF Merged, Twin
<1>12. i \in E.pending \/ i \notin DOMAIN E.tools
  BY <1>1, <1>3, <1>k DEF Kept, A!Known
<1>13. StayClosed(G, t)
  <2> PICK tools : tools = A!Put(E.tools, i, tool)
    OBVIOUS
  <2>1. \A j \in DOMAIN E.tools \ E.pending :
          j # i /\ j \in DOMAIN tools /\ tools[j] = E.tools[j]
    BY <1>12 DEF A!Put
  <2>2. t.tools = tools /\ t.pending = E.pending \union {i}
    BY <1>2, <1>6 DEF Merged
  <2> SUFFICES ASSUME NEW j \in DOMAIN G.tools \ G.pending
               PROVE  /\ j \in DOMAIN t.tools \ t.pending /\ t.tools[j] = G.tools[j]
    BY DEF StayClosed
  <2> QED BY <1>2, <2>1, <2>2
<1>14. n \in Nat
  BY <1>1, <1>n, LengthOf DEF Line, Sound
<1>15. F.pending = E.pending \union {i} /\ t.pending = G.pending \union {i} /\ t.indexes.current = i
  BY <1>3, <1>6, <1>i DEF Merged
<1>16. CASE i \in E.pending
  <2>1. D = t
    BY <1>2, <1>5, <1>15, <1>16, <1>t DEF A!AppendTool
  <2>2. F.pending = E.pending
    BY <1>15, <1>16
  <2>3. Row(F, D) /\ Alike(G.blocks, D.blocks, n)
    BY <1>1, <1>3, <1>6, <1>n, <2>1, <2>2 DEF Row, Alike
  <2>4. View(F, D, u)
    BY <1>3, <1>9, <1>11, <1>13, <1>n, <2>1, <2>3, WallKept
  <2> QED BY <1>3, <1>16, <2>2, <2>4 DEF Joins
<1>17. CASE i \notin E.pending
  <2> PICK c : c = [type |-> "tool_use", value |-> i]
    OBVIOUS
  <2>1. D = [t EXCEPT !.blocks = Append(@, c)]
    BY <1>2, <1>5, <1>15, <1>17, <1>t DEF A!AppendTool
  <2>2. PICK bs : bs = Append(G.blocks, c)
    OBVIOUS
  <2>3. D = [t EXCEPT !.blocks = bs]
    BY <1>6, <2>1, <2>2
  <2>4. Gathers(D) /\ Keeps(t, D) /\ D.blocks = bs
    <3>1. Rebuilt(t, D, bs)
      BY <1>6, <2>3, Reblocked
    <3> QED BY <3>1 DEF Rebuilt
  <2>5. Twin(F, D)
    BY <1>11, <2>4 DEF Twin, Keeps
  <2>6. StayClosed(G, D)
    BY <1>13, <2>4 DEF StayClosed, Keeps
  <2>7. Row(F, D) /\ Alike(G.blocks, D.blocks, n)
    <3>1. F.next = n
      BY <1>3, <1>n
    <3>2. D.blocks = Append(G.blocks, c)
      BY <2>2, <2>4
    <3>3. F.pending = E.pending \union {i}
      BY <1>15
    <3>4. Deeper(F, D, G, n)
      BY <1>1, <1>14, <1>17, <1>n, <3>1, <3>2, <3>3, RowMore
    <3> QED BY <3>4 DEF Deeper
  <2>8. View(F, D, u)
    BY <1>3, <1>9, <1>n, <2>5, <2>6, <2>7, WallKept
  <2> QED BY <1>3, <1>15, <2>8 DEF Joins
<1> QED BY <1>16, <1>17

(* What is wrong stays so.                                                 *)
LEMMA MergeBad ==
    ASSUME NEW s, Enc(s), s.bad, NEW call
    PROVE  A!Merge(s, call).bad
<1>1. A!Merge(s, call) = A!Violation(s)
  BY DEF A!Merge
<1> QED BY <1>1, EncViolation

(* The pieces of calls that an event may have.                             *)
Calls(xs) == \A p \in DOMAIN xs :
    /\ IsSeq(xs[p].args) /\ xs[p].index \in Int \union {None}
    /\ xs[p].id \in Ids \union {None}

(* All the pieces of calls of an event.                                    *)
LEMMA CallsTold ==
    ASSUME NEW E, NEW G, NEW u, View(E, G, u), E.scalar.type = None,
           NEW n \in Nat, n # 0, NEW xs, DOMAIN xs = 1..n, Calls(xs),
           NEW F, F = Fold("merge", E, xs), ~F.bad, NEW D, D = Fold("tool", G, xs)
    PROVE  Joins(E, F, D, u)
<1>1. PICK t : Passes(t, "merge", E, xs, n)
  BY FoldPasses
<1>2. PICK r : Passes(r, "tool", G, xs, n)
  BY FoldPasses
<1> DEFINE Good(p) == IF p = 0 THEN t[p] = E /\ r[p] = G ELSE Joins(E, t[p], r[p], u)
           ups == {p \in 0..n : Enc(t[p]) /\ (t[p].bad \/ Good(p))}
<1>3. 0 \in ups
  <2>1. t[0] = E /\ r[0] = G
    BY <1>1, <1>2 DEF Passes
  <2>2. Enc(E)
    BY DEF View, Basic, Twin
  <2> QED BY <2>1, <2>2
<1>4. ASSUME NEW p \in 0..n, p < n /\ p \in ups PROVE p + 1 \in ups
  <2> PICK a : a = t[p]
    OBVIOUS
  <2> PICK b : b = r[p]
    OBVIOUS
  <2> PICK c : c = t[p + 1]
    OBVIOUS
  <2> PICK d : d = r[p + 1]
    OBVIOUS
  <2> PICK x : x = xs[p + 1]
    OBVIOUS
  <2>1. c = A!Merge(a, x) /\ d = A!AppendTool(b, x)
    BY <1>1, <1>2, <1>4 DEF Passes, FoldStep
  <2>2. p + 1 \in 0..n /\ p + 1 # 0 /\ p + 1 \in DOMAIN xs
    BY <1>4
  <2>3. /\ IsSeq(x.args) /\ x.index \in Int \union {None} /\ x.id \in Ids \union {None}
    BY <2>2 DEF Calls
  <2>4. Enc(a) /\ (a.bad \/ Good(p))
    BY <1>4
  <2>5. Enc(c)
    BY <2>1, <2>4, EncMerged
  <2>6. CASE a.bad
    <3>1. c.bad
      BY <2>1, <2>4, <2>6, MergeBad
    <3> QED BY <2>2, <2>5, <3>1
  <2>7. CASE c.bad
    BY <2>2, <2>5, <2>7
  <2>8. CASE ~a.bad /\ ~c.bad
    <3>1. View(a, b, u) /\ a.scalar = E.scalar /\ a.out = E.out
      BY <2>4, <2>8 DEF Joins
    <3>2. a.scalar.type = None
      BY <3>1
    <3>3. Joins(a, c, d, u)
      BY <2>1, <2>3, <2>8, <3>1, <3>2, MergeTold
    <3>4. Joins(E, c, d, u)
      BY <3>1, <3>3 DEF Joins
    <3>5. Good(p + 1)
      BY <2>2, <3>4
    <3> HIDE DEF Good
    <3> QED BY <2>2, <2>5, <3>5
  <2> QED BY <2>6, <2>7, <2>8
<1> HIDE DEF ups
<1>5. n \in ups
  <2>1. n \in 0..n
    OBVIOUS
  <2> QED BY <1>3, <1>4, <2>1, UpTo
<1>6. t[n] = F /\ r[n] = D
  BY <1>1, <1>2 DEF Passes
<1> QED BY <1>5, <1>6 DEF ups

-----------------------------------------------------------------------------
(* The end of what one call returns is the beginning of the next.          *)
Silent(s) == [s EXCEPT !.out = << >>]

(* What is told so far is still the message so far.                        *)
LEMMA SilentTold ==
    ASSUME NEW E, NEW G, NEW u, View(E, G, u), NEW S, S = Silent(E)
    PROVE  /\ View(S, G, u) /\ S.out = << >> /\ (Busy(E) => Busy(S))
           /\ S.scalar = E.scalar /\ S.pending = E.pending /\ S.next = E.next
<1>1. Enc(E)
  BY DEF View, Basic, Twin
<1>2. /\ Keeps(E, S) /\ S.started = E.started /\ S.next = E.next /\ S.scalar = E.scalar
      /\ S.out = << >>
  BY <1>1 DEF Silent, Enc, Keeps
<1>3. Enc(S)
  BY <1>1, SeqNone DEF Silent, Enc, Plain
<1>4. Line(E, u)
  BY DEF View, Basic
<1>5. Line(S, u)
  <2>1. E.scalar.type # None => Open(S, u)
    BY <1>2, <1>4 DEF Line, Open, Keeps
  <2> QED BY <1>2, <1>4, <2>1 DEF Line
<1>6. View(S, G, u)
  BY <1>2, <1>3, <1>5, SameRow
<1>7. Busy(E) => Busy(S)
  BY <1>2 DEF Busy, Keeps
<1> QED BY <1>2, <1>6, <1>7 DEF Keeps

(* Both take the same from what is common of an event.                     *)
Taken(E, F, D, u) ==
    /\ View(F, D, u) /\ F.out = E.out /\ F.scalar = E.scalar
    /\ F.pending = E.pending /\ F.next = E.next

(* Capture keeps the stream and the message the same.                      *)
LEMMA CaptureTold ==
    ASSUME NEW E, NEW G, NEW u, View(E, G, u), NEW e,
           NEW F, F = A!Capture(E, e), ~F.bad, NEW D, D = A!Capture(G, e)
    PROVE  Taken(E, F, D, u)
<1>1. /\ Twin(E, G) /\ Kept(E) /\ Line(E, u) /\ Row(E, G) /\ Agree(G, Assembled(u), E.next)
      /\ Wall(E, G)
  BY DEF View, Basic
<1>2. Enc(E) /\ Gathers(G) /\ ~E.bad /\ ~G.bad /\ G.finish = E.finish /\ G.usage = E.usage
  BY <1>1 DEF Twin
<1>3. ~(e.kind = "broken" \/ A!Changes(E.finish, e.finish))
  <2>1. A!Violation(E).bad
    BY <1>2, EncViolation
  <2> QED BY <2>1 DEF A!Capture
<1>4. PICK finish : finish = A!Latest(E.finish, e.finish)
  OBVIOUS
<1>5. PICK usage : usage = (E.usage \/ e.usage)
  OBVIOUS
<1>6. F = [E EXCEPT !.finish = finish, !.usage = usage]
  BY <1>3, <1>4, <1>5 DEF A!Capture
<1>7. D = [G EXCEPT !.finish = finish, !.usage = usage]
  BY <1>2, <1>3, <1>4, <1>5 DEF A!Capture
<1>8. /\ Enc(F) /\ F.bad = E.bad /\ F.finish = finish /\ F.usage = usage /\ F.indexes = E.indexes
      /\ F.tools = E.tools /\ F.pending = E.pending /\ F.out = E.out /\ F.started = E.started
      /\ F.next = E.next /\ F.scalar = E.scalar
  BY <1>2, <1>6 DEF Enc
<1>9. /\ Gathers(D) /\ D.bad = G.bad /\ D.finish = finish /\ D.usage = usage
      /\ D.indexes = G.indexes /\ D.tools = G.tools /\ D.pending = G.pending
      /\ D.blocks = G.blocks
  BY <1>2, <1>7 DEF Gathers
<1>10. Twin(F, D)
  BY <1>1, <1>8, <1>9 DEF Twin
<1>11. Kept(F)
  BY <1>1, <1>8 DEF Kept
<1>12. Line(F, u)
  <2>1. E.scalar.type # None => Open(F, u)
    BY <1>1, <1>8 DEF Line, Open
  <2> QED BY <1>1, <1>8, <2>1 DEF Line
<1>13. Row(F, D)
  BY <1>1, <1>8, <1>9 DEF Row
<1>14. Agree(D, Assembled(u), F.next)
  BY <1>1, <1>8, <1>9 DEF Agree
<1>15. Wall(F, D)
  BY <1>1, <1>8, <1>9 DEF Wall
<1> QED BY <1>8, <1>10, <1>11, <1>12, <1>13, <1>14, <1>15 DEF Taken, View, Basic

(* What is wrong stays so.                                                 *)
LEMMA EmitBad ==
    ASSUME NEW s, Enc(s), s.bad, NEW part
    PROVE  A!EmitScalar(s, part).bad
<1>1. A!FlushGroup(s).bad
  BY CloseBad
<1>2. CASE part.value = << >>
  BY <1>2 DEF A!EmitScalar
<1>3. CASE part.value # << >>
  BY <1>1, <1>3 DEF A!EmitScalar
<1> QED BY <1>2, <1>3

(* An event tells the client of the stream what it adds to the message.    *)
Tells(F, D, w) ==
    /\ View(F, D, w \o F.out) /\ Busy(F) /\ ~F.bad

(* An event that says nothing tells nothing.                               *)
LEMMA NoteTold ==
    ASSUME NEW E, NEW G, NEW w, IsSeq(w), View(E, G, w), Busy(E), NEW e, e.kind = "note",
           NEW F, F = A!Encode(E, e), NEW D, D = A!Aggregate(G, e)
    PROVE  Tells(F, D, w)
<1>1. F = Silent(E) /\ D = G
  BY DEF A!Encode, A!Aggregate, Silent
<1>2. View(F, D, w) /\ F.out = << >> /\ Busy(F)
  BY <1>1, SilentTold
<1>3. w \o F.out = w
  BY <1>2 DEF IsSeq
<1>4. ~F.bad
  BY <1>2 DEF View, Basic, Twin
<1> QED BY <1>2, <1>3, <1>4 DEF Tells

(* Thinking, then text, after the start of the message.                    *)
Spoken(t, d, w) == View(t, d, w \o t.out) /\ w \o t.out # << >> /\ Busy(t)

(* Both are told as the aggregator keeps them.                             *)
LEMMA ScalarsTold ==
    ASSUME NEW E, NEW G, NEW w, IsSeq(w), View(E, G, w \o E.out), Busy(E),
           NEW e, IsSeq(e.think), IsSeq(e.text), NEW t,
           t = A!EmitScalar(A!EmitScalar(A!EnsureStarted(E), A!Thinking(e)), A!Text(e)),
           ~t.bad, NEW d,
           d = A!AppendScalar(A!AppendScalar(G, A!Thinking(e)), A!Text(e))
    PROVE  Spoken(t, d, w)
<1> PICK a : a = A!EnsureStarted(E)
  OBVIOUS
<1> PICK x : x = A!Thinking(e)
  OBVIOUS
<1> PICK y : y = A!Text(e)
  OBVIOUS
<1> PICK b : b = A!EmitScalar(a, x)
  OBVIOUS
<1> PICK h : h = A!AppendScalar(G, x)
  OBVIOUS
<1> PICK v : v = e.think
  OBVIOUS
<1> PICK z : z = e.text
  OBVIOUS
<1>1. x = [type |-> "thinking", value |-> v] /\ y = [type |-> "text", value |-> z]
  BY DEF A!Thinking, A!Text
<1>2. IsSeq(v) /\ IsSeq(z)
  OBVIOUS
<1>3. t = A!EmitScalar(b, y) /\ d = A!AppendScalar(h, y)
  OBVIOUS
<1>4. /\ View(a, G, w \o a.out) /\ w \o a.out # << >>
      /\ a.scalar = E.scalar /\ a.pending = E.pending /\ a.next = E.next /\ a.bad = FALSE
  <2>1. Begun(E, a, G, w)
    BY StartTold
  <2> QED BY <2>1 DEF Begun
<1>5. Busy(a)
  BY <1>4 DEF Busy
<1>6. Enc(a)
  BY <1>4 DEF View, Basic, Twin
<1>7. Enc(b)
  BY <1>6, EncScalarEmitted
<1>8. ~b.bad
  <2>1. b.bad => t.bad
    BY <1>3, <1>7, EmitBad
  <2> QED BY <2>1
<1>9. View(b, h, w \o b.out) /\ w \o b.out # << >> /\ Busy(b)
  <2>1. "thinking" \in {"thinking", "text"}
    OBVIOUS
  <2> QED BY <1>1, <1>2, <1>4, <1>5, <1>8, <2>1, ScalarTold
<1>10. View(t, d, w \o t.out) /\ w \o t.out # << >> /\ Busy(t)
  <2>1. "text" \in {"thinking", "text"}
    OBVIOUS
  <2> QED BY <1>1, <1>2, <1>3, <1>9, <2>1, ScalarTold
<1> QED BY <1>10 DEF Spoken

(* An event, whatever it brings.                                           *)
LEMMA EncodeTold ==
    ASSUME NEW E, NEW G, NEW w, IsSeq(w), View(E, G, w), Busy(E),
           NEW e, e \in Events,
           NEW F, F = A!Encode(E, e), ~F.bad, NEW D, D = A!Aggregate(G, e)
    PROVE  Tells(F, D, w)
<1> PICK s : s = Silent(E)
  OBVIOUS
<1> PICK c : c = A!Capture(s, e)
  OBVIOUS
<1> PICK g : g = A!Capture(G, e)
  OBVIOUS
<1> PICK t : t = A!EmitScalar(A!EmitScalar(A!EnsureStarted(c), A!Thinking(e)), A!Text(e))
  OBVIOUS
<1> PICK d : d = A!AppendScalar(A!AppendScalar(g, A!Thinking(e)), A!Text(e))
  OBVIOUS
<1> PICK xs : xs = e.tools
  OBVIOUS
<1> PICK n : n = Len(xs)
  OBVIOUS
<1>1. IsSeq(e.think) /\ IsSeq(e.text) /\ IsSeq(xs) /\ Calls(xs)
  BY EventsAssumption DEF Calls, IsCall
<1>2. CASE e.kind = "note"
  BY <1>2, NoteTold
<1>3. CASE e.kind # "note"
  <2>1. /\ View(s, G, w) /\ s.out = << >> /\ Busy(s)
    BY SilentTold
  <2>2. F = IF E.finished THEN A!Violation(E) ELSE IF c.bad THEN c
            ELSE IF t.bad \/ xs = << >> THEN t
            ELSE A!FoldLeft(A!Merge, A!CloseScalar(t), xs)
    BY <1>3 DEF A!Encode, Silent
  <2>3. D = IF g.bad THEN g ELSE IF d.bad THEN d ELSE A!FoldLeft(A!AppendTool, d, xs)
    BY <1>3 DEF A!Aggregate
  <2>4. ~E.finished /\ ~c.bad
    <3>1. A!Violation(E).bad
      BY EncViolation DEF View, Basic, Twin
    <3> QED BY <2>2, <3>1
  <2>5. Taken(s, c, g, w)
    BY <2>1, <2>4, CaptureTold
  <2>6. View(c, g, w) /\ c.out = << >> /\ Busy(c)
    BY <2>1, <2>5 DEF Taken, Busy
  <2>7. w \o c.out = w
    BY <2>6 DEF IsSeq
  <2>8. ~g.bad
    BY <2>6 DEF View, Basic, Twin
  <2>9. ~t.bad
    <3>1. t.bad => F = t
      BY <2>2, <2>4
    <3> QED BY <3>1
  <2>10. View(t, d, w \o t.out) /\ w \o t.out # << >> /\ Busy(t)
    <3>1. View(c, g, w \o c.out) /\ Busy(c)
      BY <2>6, <2>7
    <3>2. Spoken(t, d, w)
      BY <1>1, <2>9, <3>1, ScalarsTold
    <3> QED BY <3>2 DEF Spoken
  <2>11. ~d.bad
    BY <2>10 DEF View, Basic, Twin
  <2>12. n \in Nat /\ DOMAIN xs = 1..n /\ (xs = << >> => n = 0) /\ (xs # << >> => n # 0)
    BY <1>1, LengthOf
  <2>13. CASE xs = << >>
    <3>1. F = t
      BY <2>2, <2>4, <2>9, <2>13
    <3>2. DOMAIN xs = 1..0
      BY <2>12, <2>13
    <3>3. D = Fold("tool", d, xs)
      BY <2>3, <2>8, <2>11, <3>2, ToolFold
    <3>4. D = d
      BY <3>2, <3>3, FoldNone
    <3> QED BY <2>10, <3>1, <3>4 DEF Tells
  <2>14. CASE xs # << >>
    <3> PICK k : k = A!CloseScalar(t)
      OBVIOUS
    <3>1. F = Fold("merge", k, xs)
      BY <2>2, <2>4, <2>9, <2>12, <2>14, MergeFold
    <3>2. D = Fold("tool", d, xs)
      BY <2>3, <2>8, <2>11, <2>12, ToolFold
    <3>3. View(k, d, w \o k.out) /\ k.scalar.type = None
      <4>1. Shut(t, k, d, w)
        BY <2>10, ScalarShut
      <4> QED BY <4>1 DEF Shut
    <3>4. Joins(k, F, D, w \o k.out)
      BY <1>1, <2>12, <2>14, <3>1, <3>2, <3>3, CallsTold
    <3> QED BY <3>4 DEF Joins, Busy, Tells
  <2> QED BY <2>13, <2>14
<1> QED BY <1>2, <1>3

(* The stream v tells a client the message of D.                           *)
TellsAll(v, D) ==
    /\ Sound(v) /\ v # << >> /\ LastType(v) = "message_stop" /\ ~D.bad
    /\ Assembled(v) = A!FinalBlocks(D) /\ v[Len(v) - 1].stop = D.finish

(* The end of the events ends the stream, with the whole message told.     *)
LEMMA FinalizeTold ==
    ASSUME NEW E, NEW G, NEW w, IsSeq(w), View(E, G, w),
           NEW F, F = A!FinalizeEncode(E), ~F.bad, NEW D, D = A!FinalizeAggregate(G)
    PROVE  TellsAll(w \o F.out, D)
<1>s. PICK s : s = Silent(E)
  OBVIOUS
<1>a. PICK a : a = A!EnsureStarted(s)
  OBVIOUS
<1>k. PICK k : k = A!CloseScalar(a)
  OBVIOUS
<1>f. PICK f : f = A!FlushGroup(k)
  OBVIOUS
<1>C. PICK C : C = A!CloseGroup(G)
  OBVIOUS
<1>x. PICK x : x = [type |-> "message_delta", stop |-> f.finish]
  OBVIOUS
<1>y. PICK y : y = [type |-> "message_stop"]
  OBVIOUS
<1>1. Twin(E, G)
  BY DEF View, Basic
<1>2. F = IF E.finished \/ ~A!Complete(E) THEN A!Violation(E) ELSE IF f.bad THEN f
          ELSE [f EXCEPT !.finished = TRUE, !.out = @ \o <<x, y>>]
  BY <1>s, <1>a, <1>k, <1>f, <1>x, <1>y DEF A!FinalizeEncode, Silent
<1>3. A!Complete(E)
  <2>1. A!Violation(E).bad
    BY <1>1, EncViolation DEF Twin
  <2> QED BY <1>2, <2>1
<1>4. ~f.bad /\ F = [f EXCEPT !.finished = TRUE, !.out = @ \o <<x, y>>]
  <2>1. A!Violation(E).bad
    BY <1>1, EncViolation DEF Twin
  <2> QED BY <1>2, <2>1
<1>5. D = C
  BY <1>C, <1>1, <1>3 DEF A!FinalizeAggregate, A!Complete, Twin
<1>6. View(s, G, w) /\ s.out = << >>
  BY <1>s, SilentTold
<1>7. w \o s.out = w
  BY <1>6 DEF IsSeq
<1>8. View(a, G, w \o a.out) /\ w \o a.out # << >>
  <2>1. View(s, G, w \o s.out)
    BY <1>6, <1>7
  <2>2. Begun(s, a, G, w)
    BY <1>a, <2>1, StartTold
  <2> QED BY <2>2 DEF Begun
<1>9. View(k, G, w \o k.out) /\ w \o k.out # << >> /\ k.scalar.type = None
  <2>1. Shut(a, k, G, w)
    BY <1>k, <1>8, ScalarShut
  <2> QED BY <2>1 DEF Shut
<1>10. Flushed(k, G, w, f, C)
  BY <1>f, <1>C, <1>4, <1>9, FlushTold
<1>11. /\ Basic(f, C, w \o f.out) /\ w \o f.out # << >>
       /\ f.scalar = k.scalar /\ f.pending = {} /\ f.next = Len(C.blocks)
  BY <1>10 DEF Flushed
<1>n. PICK n : n = f.next
  OBVIOUS
<1>u. PICK u : u = w \o f.out
  OBVIOUS
<1>v. PICK v : v = Append(Append(u, x), y)
  OBVIOUS
<1>12. /\ Twin(f, C) /\ Line(f, u) /\ Row(f, C) /\ Agree(C, Assembled(u), n)
  BY <1>n, <1>u, <1>11 DEF Basic
<1>13. Sound(u) /\ u # << >> /\ Between(u) /\ n = Len(Assembled(u))
  BY <1>n, <1>u, <1>9, <1>11, <1>12 DEF Line
<1>14. x.type = "message_delta" /\ y.type = "message_stop" /\ x.stop = f.finish
  BY <1>x, <1>y
<1>15. /\ Sound(v) /\ LastType(v) = "message_stop" /\ Assembled(v) = Assembled(u)
       /\ v[Len(v) - 1] = x /\ Len(v) = Len(u) + 2 /\ Len(u) \in Nat
  <2>1. x.type = "message_delta" /\ y.type = "message_stop"
    BY <1>14
  <2>2. Sound(u) /\ u # << >> /\ Between(u)
    BY <1>13
  <2>3. LET z == Append(Append(u, x), y)
        IN /\ Sound(z) /\ LastType(z) = "message_stop" /\ Assembled(z) = Assembled(u)
           /\ z[Len(z) - 1] = x /\ Len(z) = Len(u) + 2 /\ Len(u) \in Nat
    BY <2>1, <2>2, MessageEnded
  <2> QED BY <1>v, <2>3
<1>16. w \o F.out = v
  <2>1. Enc(f)
    BY <1>12 DEF Twin
  <2>o. PICK o : o = f.out
    OBVIOUS
  <2>2. F.out = o \o <<x, y>> /\ IsSeq(o)
    BY <2>o, <1>4, <2>1 DEF Enc, Plain
  <2>7. IsSeq(o)
    BY <2>2
  <2>3. o \o <<x, y>> = Append(Append(o, x), y)
    BY <2>7, SeqFew
  <2>p. PICK p : p = Append(o, x)
    OBVIOUS
  <2>4. IsSeq(p)
    BY <2>p, <2>7, SeqAppend
  <2>5. w \o Append(p, y) = Append(w \o p, y)
    BY <2>4, OutMore
  <2>6. w \o Append(o, x) = Append(w \o o, x)
    BY <2>7, OutMore
  <2> QED BY <1>u, <1>v, <2>o, <2>p, <2>2, <2>3, <2>5, <2>6
<1>17. Assembled(u) = A!FinalBlocks(C)
  <2>1. IsSeq(Assembled(u)) /\ Len(Assembled(u)) = n /\ DOMAIN Assembled(u) = 1..n
    BY <1>13, LengthOf DEF Sound
  <2>2. IsSeq(C.blocks) /\ Len(C.blocks) = n
    BY <1>n, <1>11, <1>12 DEF Row
  <2>3. DOMAIN C.blocks = 1..n
    BY <2>2, LengthOf
  <2>4. \A p \in 1..n : Assembled(u)[p] = A!FinalBlock(C, p)
    BY <1>12, AgreeFinal
  <2>5. Assembled(u) = [p \in 1..n |-> Assembled(u)[p]]
    <3>b. PICK bs : bs = Assembled(u)
      OBVIOUS
    <3>1. bs \in Seq(Range(bs)) /\ DOMAIN bs = 1..n
      BY <3>b, <2>1 DEF IsSeq
    <3>2. bs = [p \in 1..n |-> bs[p]]
      BY <3>1
    <3> QED BY <3>b, <3>2
  <2> QED BY <2>3, <2>4, <2>5 DEF A!FinalBlocks
<1>18. ~C.bad /\ C.finish = f.finish
  BY <1>12 DEF Twin
<1>19. v # << >>
  BY <1>15
<1> QED BY <1>5, <1>14, <1>15, <1>16, <1>17, <1>18, <1>19 DEF TellsAll

-----------------------------------------------------------------------------
(* The message of the same events for OpenAI.                              *)
Answering(G) ==
    /\ G \in [bad : {FALSE}, think : {G.think}, text : {G.text}, finish : {G.finish},
              usage : {G.usage}, indexes : {G.indexes}, tools : {G.tools}]
    /\ IsSeq(G.think) /\ IsSeq(G.text)

(* What may be cut off at any point: it has not come to its end.           *)
Quiet(w) == IsSeq(w) /\ \A p \in DOMAIN w : ~EndsWell(w[p])

(* The chunks w say what the answer D holds: its tool calls if ok, that is *)
(* when no call was bare.                                                  *)
SaysOf(ok, h, D) ==
    h.think = D.think /\ h.text = D.text /\ (ok => h.tools = D.tools)

Says(ok, w, D) == Quiet(w) /\ SaysOf(ok, Heard(w), D)

Echo(ok, P, G, w) ==
    /\ Passer(P) /\ P.bad = FALSE /\ Answering(G)
    /\ (ok => G.indexes = P.indexes) /\ (P.sawFinish <=> G.finish # None)
    /\ Says(ok, w, G)

(* A chunk more is heard after the others.                                 *)
LEMMA HeardMore ==
    ASSUME NEW w, IsSeq(w), NEW c
    PROVE  Heard(Append(w, c)) = Hear(Heard(w), c)
<1> DEFINE s == [think |-> << >>, text |-> << >>, tools |-> NoTools]
           v == Append(w, c)
<1>1. IsSeq(v)
  BY OneMore
<1>2. Len(w) \in Nat /\ DOMAIN w = 1..Len(w) /\ Len(v) \in Nat /\ DOMAIN v = 1..Len(v)
  BY <1>1, LengthOf
<1> HIDE DEF s, v
<1>3. FoldLeft(Hear, s, w) = Fold("hear", s, w) /\ FoldLeft(Hear, s, v) = Fold("hear", s, v)
  BY <1>2, HearFold
<1>4. Fold("hear", s, v) = FoldStep("hear", Fold("hear", s, w), c)
  BY FoldAppend DEF v
<1> QED BY <1>3, <1>4 DEF Heard, FoldStep, s, v

(* Nothing is heard of no chunks.                                          *)
LEMMA HeardNone == Heard(<< >>) = [think |-> << >>, text |-> << >>, tools |-> NoTools]
<1> DEFINE s == [think |-> << >>, text |-> << >>, tools |-> NoTools]
           v == << >>
<1>1. DOMAIN v = 1..0
  OBVIOUS
<1> HIDE DEF s, v
<1>2. FoldLeft(Hear, s, v) = Fold("hear", s, v) /\ Fold("hear", s, v) = s
  BY <1>1, HearFold, FoldNone
<1> QED BY <1>2 DEF Heard, s, v

(* A chunk that is not the end leaves it to come.                          *)
LEMMA QuietMore ==
    ASSUME NEW w, Quiet(w), NEW c, ~EndsWell(c)
    PROVE  Quiet(Append(w, c))
<1>1. IsSeq(w)
  BY DEF Quiet
<1>2. Len(w) \in Nat /\ DOMAIN w = 1..Len(w)
  BY <1>1, LengthOf
<1>3. /\ IsSeq(Append(w, c)) /\ Len(Append(w, c)) = Len(w) + 1
      /\ Append(w, c)[Len(w) + 1] = c
      /\ \A p \in 1..Len(w) : Append(w, c)[p] = w[p]
  BY <1>1, OneMore
<1>4. DOMAIN Append(w, c) = 1..(Len(w) + 1)
  BY <1>3, LengthOf
<1> QED BY <1>2, <1>3, <1>4 DEF Quiet

(* A stream that has not begun has not ended.                              *)
LEMMA QuietNone == Quiet(<< >>)
BY SeqNone DEF Quiet

(* A chunk that is passed on says what its event says.                     *)
HeardAs(v, think, text, tools) ==
    /\ Quiet(v)
    /\ Heard(v).think = think /\ Heard(v).text = text /\ Heard(v).tools = tools

(* A chunk of text and calls more.                                         *)
LEMMA ChunkHeard ==
    ASSUME NEW w, NEW a, NEW b, NEW d, HeardAs(w, a, b, d),
           NEW c, c.type = "chunk", NEW delta, delta = c.delta
    PROVE  HeardAs(Append(w, c), a \o delta.think, b \o delta.text,
                   FoldLeft(AddPiece, d, delta.tools))
<1>1. Quiet(w) /\ ~EndsWell(c)
  BY DEF HeardAs, EndsWell
<1>2. Quiet(Append(w, c))
  BY <1>1, QuietMore
<1>3. IsSeq(w)
  BY <1>1 DEF Quiet
<1>4. Heard(Append(w, c)) = Hear(Heard(w), c)
  BY <1>3, HeardMore
<1>5. Hear(Heard(w), c) = [think |-> a \o delta.think, text |-> b \o delta.text,
                           tools |-> FoldLeft(AddPiece, d, delta.tools)]
  BY DEF Hear, HeardAs
<1> QED BY <1>2, <1>4, <1>5 DEF HeardAs

(* What is known of call i, and what it is with a piece more.              *)
KnownCall(tools, i) == IF i \in DOMAIN tools THEN tools[i] ELSE O!UnnamedCall

MoreOf(known, call) ==
    [id |-> O!Newest(known.id, call.id), name |-> O!Newest(known.name, call.name),
     args |-> known.args \o call.args]

(* The calls, with a piece of call i.                                      *)
WithPiece(tools, i, call) ==
    IF i = None THEN tools ELSE Put(tools, i, MoreOf(KnownCall(tools, i), call))

(* c is call, passed on with index i.                                      *)
Indexing(c, call, i) ==
    c.id = call.id /\ c.name = call.name /\ c.args = call.args /\ c.index = i

(* That is what a reader of the chunks makes of a piece of a call...       *)
LEMMA PieceAdds ==
    ASSUME NEW tools, NEW c, NEW call, NEW i, Indexing(c, call, i)
    PROVE  AddPiece(tools, c) = WithPiece(tools, i, call)
<1>1. MoreOf(KnownCall(tools, i), c) = MoreOf(KnownCall(tools, i), call)
  BY Zenon DEF MoreOf, Indexing
<1>2. AddPiece(tools, c) = WithPiece(tools, i, c)
  BY Zenon DEF AddPiece, WithPiece, MoreOf, KnownCall, Indexing
<1> QED BY <1>1, <1>2, Zenon DEF WithPiece

(* ...and what the aggregator does.                                        *)
LEMMA CallAdds ==
    ASSUME NEW G, NEW call, ~call.bare, Answering(G), NEW r, r = O!Resolve(G.indexes, call)
    PROVE  /\ O!AddCall(G, call).tools = WithPiece(G.tools, r.current, call)
           /\ O!AddCall(G, call).indexes = r
<1> DEFINE put(i) == O!Put(G.tools, i, MoreOf(KnownCall(G.tools, i), call))
<1>1. O!AddCall(G, call) =
        IF r.current = None THEN [G EXCEPT !.indexes = r]
        ELSE [G EXCEPT !.indexes = r, !.tools = put(r.current)]
  BY Zenon DEF O!AddCall, MoreOf, KnownCall
<1>2. put(r.current) = Put(G.tools, r.current, MoreOf(KnownCall(G.tools, r.current), call))
  BY Zenon DEF O!Put, Put
<1> HIDE DEF put
<1>3. O!AddCall(G, call).indexes = r
  BY <1>1 DEF Answering
<1>4. O!AddCall(G, call).tools = IF r.current = None THEN G.tools ELSE put(r.current)
  BY <1>1 DEF Answering
<1> QED BY <1>2, <1>3, <1>4, Zenon DEF WithPiece

(* A call that is passed on with an index is the call that is kept.        *)
LEMMA CallTold ==
    ASSUME NEW acc, NEW G, NEW call, IsCall(call), ~call.bare, Answering(G),
           acc.indexes = G.indexes,
           IsSeq(acc.calls), NEW base, Fold("piece", base, acc.calls) = G.tools,
           NEW next, next = O!IndexCall(acc, call), NEW D, D = O!AddCall(G, call)
    PROVE  next.indexes = D.indexes /\ Fold("piece", base, next.calls) = D.tools
<1> PICK r : r = O!Resolve(G.indexes, call)
  OBVIOUS
<1> PICK i : i = r.current
  OBVIOUS
<1> PICK c : c = [call EXCEPT !.index = IF i = None THEN call.index ELSE i]
  OBVIOUS
<1> PICK calls : calls = acc.calls
  OBVIOUS
<1>1. next = [indexes |-> r, calls |-> Append(calls, c)]
  BY DEF O!IndexCall
<1>3. Fold("piece", base, next.calls) = AddPiece(G.tools, c)
  <2>1. IsSeq(calls) /\ Fold("piece", base, calls) = G.tools
    OBVIOUS
  <2>2. Fold("piece", base, Append(calls, c)) = FoldStep("piece", Fold("piece", base, calls), c)
    BY <2>1, FoldAppend
  <2>3. \A s, x : FoldStep("piece", s, x) = AddPiece(s, x)
    BY DEF FoldStep
  <2> QED BY <1>1, <2>1, <2>2, <2>3
<1>4. /\ c.id = call.id /\ c.name = call.name /\ c.args = call.args
      /\ c.index = IF i = None THEN call.index ELSE i
  BY DEF IsCall
<1>5. c.index = i
  <2>1. i = None => call.index = None
    BY DEF O!Resolve
  <2> QED BY <1>4, <2>1
<1>6. AddPiece(G.tools, c) = D.tools /\ D.indexes = r
  <2>1. AddPiece(G.tools, c) = WithPiece(G.tools, i, call)
    <3>1. Indexing(c, call, i)
      BY <1>4, <1>5 DEF Indexing
    <3> QED BY <3>1, PieceAdds, Zenon
  <2>2. D.tools = WithPiece(G.tools, i, call) /\ D.indexes = r
    BY CallAdds
  <2> QED BY <2>1, <2>2, Zenon
<1> QED BY <1>1, <1>3, <1>6

(* A bare call too leaves the rest of the answer as it is.                 *)
LEMMA CallKept ==
    ASSUME NEW acc, NEW G, NEW call, Answering(G), IsSeq(acc.calls),
           NEW next, next = O!IndexCall(acc, call), NEW D, D = O!AddCall(G, call)
    PROVE  /\ Answering(D) /\ IsSeq(next.calls)
           /\ D.think = G.think /\ D.text = G.text /\ D.finish = G.finish
<1>1. IsSeq(next.calls)
  <2> PICK calls : calls = acc.calls
    OBVIOUS
  <2>1. PICK c : next.calls = Append(calls, c)
    BY DEF O!IndexCall
  <2>2. IsSeq(calls)
    OBVIOUS
  <2>3. IsSeq(Append(calls, c))
    BY <2>2, OneMore
  <2> QED BY <2>1, <2>3
<1>2. CASE call.bare
  <2>1. D = G
    BY <1>2 DEF O!AddCall
  <2> QED BY <1>1, <2>1
<1>3. CASE ~call.bare
  <2>1. Answering(D) /\ D.think = G.think /\ D.text = G.text /\ D.finish = G.finish
    BY <1>3 DEF O!AddCall, Answering
  <2> QED BY <1>1, <2>1
<1> QED BY <1>2, <1>3

(* All the calls of an event; their indexes and pieces if ok.              *)
Indexes(ok, P, G, xs, D) ==
    LET r == O!Indexed(P.indexes, xs)
    IN /\ Answering(D)
       /\ ok => D.indexes = r.indexes /\ FoldLeft(AddPiece, G.tools, r.calls) = D.tools
       /\ D.think = G.think /\ D.text = G.text /\ D.finish = G.finish

(* They get the same indexes when passed on and when added up.             *)
LEMMA AllCallsTold ==
    ASSUME NEW ok \in BOOLEAN, NEW P, NEW G, Answering(G), ok => G.indexes = P.indexes,
           NEW xs, IsSeq(xs), \A p \in DOMAIN xs : IsCall(xs[p]),
           ok => \A p \in DOMAIN xs : ~xs[p].bare,
           NEW D, D = O!FoldLeft(O!AddCall, G, xs)
    PROVE  Indexes(ok, P, G, xs, D)
<1> PICK n : n = Len(xs)
  OBVIOUS
<1> PICK acc : acc = [indexes |-> P.indexes, calls |-> << >>]
  OBVIOUS
<1> PICK base : base = G.tools
  OBVIOUS
<1>1. n \in Nat /\ DOMAIN xs = 1..n
  BY LengthOf
<1>2. D = Fold("call", G, xs)
  BY <1>1, CallFold
<1>3. O!Indexed(P.indexes, xs) = Fold("index", acc, xs)
  BY <1>1, IndexFold DEF O!Indexed
<1>4. PICK t : Passes(t, "index", acc, xs, n)
  BY <1>1, FoldPasses
<1>5. PICK u : Passes(u, "call", G, xs, n)
  BY <1>1, FoldPasses
<1> DEFINE Good(a, s) ==
             /\ Answering(s) /\ IsSeq(a.calls)
             /\ ok => a.indexes = s.indexes /\ Fold("piece", base, a.calls) = s.tools
             /\ s.think = G.think /\ s.text = G.text /\ s.finish = G.finish
           ups == {p \in 0..n : Good(t[p], u[p])}
<1>6. 0 \in ups
  <2>1. t[0] = acc /\ u[0] = G
    BY <1>4, <1>5 DEF Passes
  <2>e. PICK no : no = << >>
    OBVIOUS
  <2>2. IsSeq(no) /\ DOMAIN no = 1..0
    BY <2>e, SeqNone
  <2>3. Fold("piece", base, no) = base
    BY <2>2, FoldNone
  <2>4. acc.calls = no /\ (ok => acc.indexes = G.indexes)
    BY <2>e
  <2>5. Good(acc, G)
    BY <2>2, <2>3, <2>4
  <2> QED BY <1>1, <2>1, <2>5
<1>7. ASSUME NEW p \in 0..n, p < n, p \in ups PROVE p + 1 \in ups
  <2>1. t[p + 1] = FoldStep("index", t[p], xs[p + 1]) /\ u[p + 1] = FoldStep("call", u[p], xs[p + 1])
    BY <1>4, <1>5, <1>7 DEF Passes
  <2>2. p + 1 \in 1..n /\ p + 1 \in 0..n
    BY <1>1, <1>7
  <2>x. PICK x : x = xs[p + 1]
    OBVIOUS
  <2>a. PICK a : a = t[p]
    OBVIOUS
  <2>s. PICK s : s = u[p]
    OBVIOUS
  <2>b. PICK b : b = O!IndexCall(a, x)
    OBVIOUS
  <2>d. PICK d : d = O!AddCall(s, x)
    OBVIOUS
  <2>3. t[p + 1] = b /\ u[p + 1] = d
    BY <2>1, <2>x, <2>a, <2>s, <2>b, <2>d DEF FoldStep
  <2>4. IsCall(x) /\ (ok => ~x.bare)
    BY <1>1, <2>2, <2>x
  <2>5. Good(a, s)
    BY <1>7, <2>a, <2>s
  <2>6. /\ Answering(d) /\ IsSeq(b.calls)
        /\ d.think = s.think /\ d.text = s.text /\ d.finish = s.finish
    BY ONLY <2>5, <2>b, <2>d, CallKept
  <2>7. ok => b.indexes = d.indexes /\ Fold("piece", base, b.calls) = d.tools
    BY ONLY <2>4, <2>5, <2>b, <2>d, CallTold
  <2>8. Good(b, d)
    BY <2>5, <2>6, <2>7
  <2> QED BY <2>2, <2>3, <2>8
<1>8. Good(t[n], u[n])
  <2>1. n \in 0..n
    BY <1>1
  <2>2. \A p \in 0..n : p \in ups
    <3> HIDE DEF ups
    <3> QED BY <1>1, <1>6, <1>7, UpTo
  <2> QED BY <2>1, <2>2
<1>9. t[n] = O!Indexed(P.indexes, xs) /\ u[n] = D
  BY <1>2, <1>3, <1>4, <1>5 DEF Passes
<1>r. PICK r : r = O!Indexed(P.indexes, xs)
  OBVIOUS
<1>c. PICK calls : calls = r.calls
  OBVIOUS
<1>10. Good(r, D)
  BY <1>8, <1>9, <1>r
<1>11. FoldLeft(AddPiece, base, calls) = Fold("piece", base, calls)
  <2>1. IsSeq(calls)
    BY <1>10, <1>c
  <2>2. Len(calls) \in Nat /\ DOMAIN calls = 1..Len(calls)
    BY <2>1, LengthOf
  <2> QED BY <2>2, PieceFold
<1> QED BY <1>10, <1>11, <1>r, <1>c DEF Indexes

(* Up to two chunks more.                                                  *)
LEMMA UpToTwo ==
    ASSUME NEW w, IsSeq(w), NEW x, NEW y
    PROVE  /\ w \o (<< >> \o << >>) = w /\ w \o (<<x>> \o << >>) = Append(w, x)
           /\ w \o (<< >> \o <<y>>) = Append(w, y)
           /\ w \o (<<x>> \o <<y>>) = Append(Append(w, x), y)
<1> DEFINE S == Range(w) \union {x, y}
<1>1. w \in Seq(S) /\ x \in S /\ y \in S
  BY DEF IsSeq
<1> HIDE DEF S
<1>2. << >> \o << >> = << >> /\ <<x>> \o << >> = <<x>> /\ << >> \o <<y>> = <<y>>
  BY <1>1
<1>4. w \o << >> = w /\ w \o <<x>> = Append(w, x) /\ w \o <<y>> = Append(w, y)
  BY <1>1
<1>5. w \o (<<x>> \o <<y>>) = (w \o <<x>>) \o <<y>>
  <2> PICK a : a = <<x>>
    OBVIOUS
  <2> PICK b : b = <<y>>
    OBVIOUS
  <2>1. IsSeq(a) /\ IsSeq(b)
    BY SeqSingle
  <2>2. w \o (a \o b) = (w \o a) \o b
    BY <2>1, Associates
  <2> QED BY <2>2
<1>6. Append(w, x) \o <<y>> = Append(Append(w, x), y)
  <2>1. IsSeq(Append(w, x))
    BY OneMore
  <2> QED BY <2>1, SeqFew
<1> QED BY <1>2, <1>4, <1>5, <1>6

(* An event brings the answer from G to D.                                 *)
Brings(ok, G, e, calls, D) ==
    /\ Answering(G) /\ Answering(D)
    /\ D.think = G.think \o e.think /\ D.text = G.text \o e.text
    /\ ok => FoldLeft(AddPiece, G.tools, calls) = D.tools

(* What the envelope adds says nothing of the message.                     *)
LEMMA RoleHeard ==
    ASSUME NEW ok \in BOOLEAN, NEW w, NEW G, Answering(G), Says(ok, w, G),
           NEW c, c.type = "chunk", c.delta = O!NoDelta
    PROVE  Says(ok, Append(w, c), G)
<1> PICK a : a = G.think
  OBVIOUS
<1> PICK b : b = G.text
  OBVIOUS
<1> PICK d : d = Heard(w).tools
  OBVIOUS
<1> PICK delta : delta = O!NoDelta
  OBVIOUS
<1> PICK no : no = << >>
  OBVIOUS
<1>1. IsSeq(a) /\ IsSeq(b) /\ HeardAs(w, a, b, d) /\ (ok => d = G.tools)
  BY DEF Answering, SaysOf, Says, HeardAs
<1>2. HeardAs(Append(w, c), a \o delta.think, b \o delta.text, FoldLeft(AddPiece, d, delta.tools))
  <2>1. HeardAs(w, a, b, d) /\ c.type = "chunk" /\ delta = c.delta
    BY <1>1
  <2>2. HeardAs(Append(w, c), a \o delta.think, b \o delta.text,
                FoldLeft(AddPiece, d, delta.tools))
    BY <2>1, ChunkHeard
  <2> QED BY <2>2
<1>3. delta.think = no /\ delta.text = no /\ delta.tools = no
  BY DEF O!NoDelta
<1>4. a \o no = a /\ b \o no = b
  BY <1>1 DEF IsSeq
<1>5. FoldLeft(AddPiece, d, no) = d
  <2>1. DOMAIN no = 1..0
    OBVIOUS
  <2>2. FoldLeft(AddPiece, d, no) = Fold("piece", d, no) /\ Fold("piece", d, no) = d
    BY <2>1, PieceFold, FoldNone
  <2> QED BY <2>2
<1> QED BY <1>1, <1>2, <1>3, <1>4, <1>5 DEF SaysOf, HeardAs, Says

(* An event passed on is heard as it is added to the message.              *)
LEMMA EventHeard ==
    ASSUME NEW ok \in BOOLEAN, NEW w, NEW G, Says(ok, w, G),
           NEW e, NEW calls, NEW D, Brings(ok, G, e, calls, D),
           NEW c, c.type = "chunk",
           c.delta = [think |-> e.think, text |-> e.text, tools |-> calls]
    PROVE  Says(ok, Append(w, c), D)
<1> PICK a : a = G.think
  OBVIOUS
<1> PICK b : b = G.text
  OBVIOUS
<1> PICK d : d = Heard(w).tools
  OBVIOUS
<1> PICK delta : delta = c.delta
  OBVIOUS
<1>1. IsSeq(a) /\ IsSeq(b) /\ HeardAs(w, a, b, d) /\ (ok => d = G.tools)
  BY DEF Answering, SaysOf, Says, Brings, HeardAs
<1>2. HeardAs(Append(w, c), a \o delta.think, b \o delta.text, FoldLeft(AddPiece, d, delta.tools))
  <2>1. HeardAs(w, a, b, d) /\ c.type = "chunk" /\ delta = c.delta
    BY <1>1
  <2>2. HeardAs(Append(w, c), a \o delta.think, b \o delta.text,
                FoldLeft(AddPiece, d, delta.tools))
    BY <2>1, ChunkHeard
  <2> QED BY <2>2
<1>3. delta.think = e.think /\ delta.text = e.text /\ delta.tools = calls
  OBVIOUS
<1> QED BY <1>1, <1>2, <1>3 DEF SaysOf, HeardAs, Says, Brings

(* An event that says nothing adds nothing.                                *)
LEMMA NothingHeard ==
    ASSUME NEW ok \in BOOLEAN, NEW G, NEW e, ~O!HasOutput(e), NEW indexes,
           NEW D, Brings(ok, G, e, O!Indexed(indexes, e.tools).calls, D)
    PROVE  SaysOf(ok, G, D)
<1> PICK r : r = O!Indexed(indexes, e.tools)
  OBVIOUS
<1> PICK no : no = << >>
  OBVIOUS
<1> PICK acc : acc = [indexes |-> indexes, calls |-> no]
  OBVIOUS
<1> PICK d : d = G.tools
  OBVIOUS
<1>1. e.think = no /\ e.text = no /\ e.tools = no
  BY DEF O!HasOutput
<1>2. DOMAIN no = 1..0
  OBVIOUS
<1>3. r = O!FoldLeft(O!IndexCall, acc, no)
  BY <1>1 DEF O!Indexed
<1>4. O!FoldLeft(O!IndexCall, acc, no) = Fold("index", acc, no) /\ Fold("index", acc, no) = acc
  BY <1>2, IndexFold, FoldNone
<1>5. r.calls = no
  BY <1>3, <1>4
<1>6. FoldLeft(AddPiece, d, no) = Fold("piece", d, no) /\ Fold("piece", d, no) = d
  BY <1>2, PieceFold, FoldNone
<1>7. G.think \o no = G.think /\ G.text \o no = G.text
  <2>1. \A a : IsSeq(a) => a \o no = a
    BY DEF IsSeq
  <2> QED BY <2>1 DEF Answering, Brings
<1> QED BY <1>1, <1>5, <1>6, <1>7 DEF SaysOf, Brings

(* What an event is passed on as.                                          *)
Passed(P, e, F) ==
    LET r == O!Indexed(P.indexes, e.tools)
        delta == [think |-> e.think, text |-> e.text, tools |-> r.calls]
        role == <<O!Chunk(TRUE, O!NoDelta, None, FALSE)>>
        rest == <<O!Chunk(FALSE, delta, e.finish, e.usage)>>
    IN /\ F.bad = P.bad /\ F.indexes = r.indexes
       /\ F.sawFinish = (P.sawFinish \/ e.finish # None)
       /\ \/ F.out = << >> \o rest
          \/ F.out = role \o rest
          \/ ~O!HasOutput(e) /\ e.finish = None /\ F.out = << >> \o << >>
          \/ ~O!HasOutput(e) /\ e.finish = None /\ F.out = role \o << >>

(* PassOn returns no more than the role and the rest of the event.         *)
LEMMA PassOnGives ==
    ASSUME NEW P, Passer(P), NEW e, e.kind # "note", NEW F, F = O!PassOn(P, e)
    PROVE  Passed(P, e, F)
<1> DEFINE r == O!Indexed(P.indexes, e.tools)
           t == [P EXCEPT !.sawFinish = @ \/ e.finish # None, !.indexes = r.indexes]
           delta == [think |-> e.think, text |-> e.text, tools |-> r.calls]
           has == O!HasOutput(e)
           sends == ~t.roleSent /\ (e.role \/ has)
           drops == ~has /\ e.finish = None /\ ~e.usage
           one == <<O!Chunk(TRUE, O!NoDelta, None, FALSE)>>
           two == <<O!Chunk(FALSE, delta, e.finish, e.usage)>>
           role == IF sends THEN one ELSE << >>
           rest == IF drops THEN << >> ELSE two
<1>1. F = O!Normalize(t, e, r.calls)
  BY Zenon DEF O!PassOn
<1>2. \E sent : O!Normalize(t, e, r.calls) = [t EXCEPT !.roleSent = sent, !.out = role \o rest]
  <2> HIDE DEF r, t
  <2> QED BY Zenon DEF O!Normalize
<1> HIDE DEF r, delta, has, sends, one, two
<1>3. /\ t.bad = P.bad /\ t.indexes = r.indexes
      /\ t.sawFinish = (P.sawFinish \/ e.finish # None) /\ "out" \in DOMAIN t
      /\ t \in [bad : {t.bad}, sawFinish : {t.sawFinish}, indexes : {t.indexes},
                roleSent : {t.roleSent}, out : {t.out}]
  BY DEF Passer
<1> HIDE DEF t
<1>4. /\ F.bad = t.bad /\ F.indexes = t.indexes /\ F.sawFinish = t.sawFinish
      /\ F.out = role \o rest
  <2> PICK said : said = role \o rest
    OBVIOUS
  <2>1. PICK sent : F = [t EXCEPT !.roleSent = sent, !.out = said]
    BY <1>1, <1>2, Zenon
  <2>2. /\ F.bad = t.bad /\ F.indexes = t.indexes /\ F.sawFinish = t.sawFinish
        /\ F.out = said
    BY <1>3, <2>1
  <2> QED BY <2>2
<1>5. \/ F.out = << >> \o two
      \/ F.out = one \o two
      \/ ~has /\ e.finish = None /\ F.out = << >> \o << >>
      \/ ~has /\ e.finish = None /\ F.out = one \o << >>
  BY <1>4
<1> QED BY <1>3, <1>4, <1>5 DEF Passed, r, delta, has, one, two

(* What an event is passed on as is heard as what it adds to the message.  *)
LEMMA PassedHeard ==
    ASSUME NEW ok \in BOOLEAN, NEW w, NEW P, NEW G, Says(ok, w, G),
           NEW e, NEW F, Passed(P, e, F),
           NEW D, Brings(ok, G, e, O!Indexed(P.indexes, e.tools).calls, D)
    PROVE  Says(ok, w \o F.out, D)
<1> PICK calls : calls = O!Indexed(P.indexes, e.tools).calls
  OBVIOUS
<1> PICK delta : delta = [think |-> e.think, text |-> e.text, tools |-> calls]
  OBVIOUS
<1>x. PICK x : x = O!Chunk(TRUE, O!NoDelta, None, FALSE)
  OBVIOUS
<1>y. PICK y : y = O!Chunk(FALSE, delta, e.finish, e.usage)
  OBVIOUS
<1>1. \/ F.out = << >> \o <<y>>
      \/ F.out = <<x>> \o <<y>>
      \/ ~O!HasOutput(e) /\ F.out = << >> \o << >>
      \/ ~O!HasOutput(e) /\ F.out = <<x>> \o << >>
  BY <1>x, <1>y DEF Passed
<1>2. IsSeq(w)
  BY DEF Quiet, Says
<1>3. /\ w \o (<< >> \o << >>) = w /\ w \o (<<x>> \o << >>) = Append(w, x)
      /\ w \o (<< >> \o <<y>>) = Append(w, y)
      /\ w \o (<<x>> \o <<y>>) = Append(Append(w, x), y)
  BY <1>2, UpToTwo
<1>v. PICK v : v = Append(w, x)
  OBVIOUS
<1>4. Says(ok, v, G)
  <2>1. x.type = "chunk" /\ x.delta = O!NoDelta
    BY <1>x DEF O!Chunk
  <2>2. Answering(G)
    BY DEF Brings
  <2> QED BY <1>v, <2>1, <2>2, RoleHeard
<1>5. ASSUME NEW u, Says(ok, u, G)
      PROVE  Says(ok, Append(u, y), D)
  <2>1. y.type = "chunk" /\ y.delta = delta
    BY <1>y DEF O!Chunk
  <2>2. Brings(ok, G, e, calls, D)
    OBVIOUS
  <2> QED BY <1>5, <2>1, <2>2, EventHeard
<1>6. ~O!HasOutput(e) => (Says(ok, w, G) => Says(ok, w, D)) /\ (Says(ok, v, G) => Says(ok, v, D))
  <2>1. ~O!HasOutput(e) => SaysOf(ok, G, D)
    <3>1. Brings(ok, G, e, O!Indexed(P.indexes, e.tools).calls, D)
      OBVIOUS
    <3>i. PICK indexes : indexes = P.indexes
      OBVIOUS
    <3> QED BY <3>1, <3>i, NothingHeard
  <2> QED BY <2>1 DEF Says, SaysOf
<1>7. CASE F.out = << >> \o <<y>>
  BY <1>3, <1>5, <1>7
<1>8. CASE F.out = <<x>> \o <<y>>
  BY <1>3, <1>4, <1>5, <1>8, <1>v
<1>9. CASE ~O!HasOutput(e) /\ F.out = << >> \o << >>
  BY <1>3, <1>6, <1>9
<1>10. CASE ~O!HasOutput(e) /\ F.out = <<x>> \o << >>
  BY <1>3, <1>4, <1>6, <1>10, <1>v
<1> QED BY <1>1, <1>7, <1>8, <1>9, <1>10

(* An event tells the client of the stream what it adds to the answer.     *)
LEMMA EchoNote ==
    ASSUME NEW ok \in BOOLEAN, NEW P, NEW G, NEW w, Echo(ok, P, G, w), NEW e, e.kind = "note",
           NEW F, F = O!PassOn(P, e), NEW D, D = O!Add(G, e)
    PROVE  Echo(ok, F, D, w \o F.out)
<1>c. PICK c : c = [type |-> "note"]
  OBVIOUS
<1>1. F = [P EXCEPT !.out = <<c>>] /\ D = G
  BY <1>c DEF O!PassOn, O!Add
<1>2. Passer(F)
  BY PasserPasses DEF Echo
<1>3. F.out = <<c>> /\ F.bad = P.bad /\ F.indexes = P.indexes /\ F.sawFinish = P.sawFinish
  BY <1>1 DEF Echo, Passer
<1>4. Quiet(w) /\ IsSeq(w)
  BY DEF Echo, Says, Quiet
<1>5. w \o <<c>> = Append(w, c)
  BY <1>4, SeqFew
<1>6. Quiet(Append(w, c))
  BY <1>c, <1>4, QuietMore DEF EndsWell
<1>7. Heard(Append(w, c)) = Heard(w)
  <2>1. Heard(Append(w, c)) = Hear(Heard(w), c)
    BY <1>4, HeardMore
  <2> QED BY <1>c, <2>1 DEF Hear
<1> QED BY <1>1, <1>2, <1>3, <1>5, <1>6, <1>7 DEF Echo, Says

(* No call is bare.                                                        *)
NoneBare(xs) == \A p \in DOMAIN xs : ~xs[p].bare

(* An event that is passed on says what it adds to the answer.             *)
LEMMA EchoTold ==
    ASSUME NEW ok \in BOOLEAN, NEW P, NEW G, NEW w, Echo(ok, P, G, w),
           NEW e, e \in Events, ok => NoneBare(e.tools),
           NEW F, F = O!PassOn(P, e), NEW D, D = O!Add(G, e)
    PROVE  Echo(ok, F, D, w \o F.out)
<1>1. CASE e.kind = "note"
  BY <1>1, EchoNote
<1>2. CASE e.kind # "note"
  <2>xs. PICK xs : xs = e.tools
    OBVIOUS
  <2>h. PICK h : h = [G EXCEPT !.think = @ \o e.think, !.text = @ \o e.text,
                               !.finish = O!Newest(G.finish, e.finish), !.usage = @ \/ e.usage]
    OBVIOUS
  <2>1. D = O!FoldLeft(O!AddCall, h, xs)
    BY <1>2, <2>xs, <2>h DEF O!Add
  <2>2. Answering(G) /\ (ok => G.indexes = P.indexes) /\ Says(ok, w, G)
    BY DEF Echo
  <2>3. IsSeq(e.think) /\ IsSeq(e.text)
    BY EventsAssumption
  <2>4. IsSeq(xs) /\ \A p \in DOMAIN xs : IsCall(xs[p])
    BY <2>xs, EventsAssumption
  <2>5. /\ h.think = G.think \o e.think /\ h.text = G.text \o e.text
        /\ h.finish = O!Newest(G.finish, e.finish) /\ h.indexes = G.indexes
        /\ h.tools = G.tools /\ h.bad = FALSE
        /\ h \in [bad : {FALSE}, think : {h.think}, text : {h.text}, finish : {h.finish},
                  usage : {h.usage}, indexes : {h.indexes}, tools : {h.tools}]
    BY <2>h, <2>2 DEF Answering
  <2>6. Answering(h)
    <3>1. \A a, b : IsSeq(a) /\ IsSeq(b) => IsSeq(a \o b)
      BY SeqConcat
    <3>2. IsSeq(G.think) /\ IsSeq(G.text)
      BY <2>2 DEF Answering
    <3> QED BY <2>3, <2>5, <3>1, <3>2 DEF Answering
  <2>7. Indexes(ok, P, h, xs, D)
    <3>1. ok => h.indexes = P.indexes
      BY <2>2, <2>5
    <3>2. ok => \A p \in DOMAIN xs : ~xs[p].bare
      BY <2>xs DEF NoneBare
    <3> QED BY <2>1, <2>4, <2>6, <3>1, <3>2, AllCallsTold
  <2>8. Passed(P, e, F)
    BY <1>2, PassOnGives DEF Echo
  <2>r. PICK r : r = O!Indexed(P.indexes, e.tools)
    OBVIOUS
  <2>9. /\ Answering(D)
        /\ ok => D.indexes = r.indexes /\ FoldLeft(AddPiece, G.tools, r.calls) = D.tools
        /\ D.think = G.think \o e.think /\ D.text = G.text \o e.text
        /\ D.finish = O!Newest(G.finish, e.finish)
    BY <2>7, <2>5, <2>r, <2>xs, <2>2 DEF Indexes
  <2>10. Says(ok, w \o F.out, D)
    <3>1. Brings(ok, G, e, O!Indexed(P.indexes, e.tools).calls, D)
      BY <2>2, <2>9, <2>r DEF Brings
    <3> QED BY <2>2, <2>8, <3>1, PassedHeard
  <2>11. Passer(F)
    BY PasserPasses DEF Echo
  <2>12. F.bad = FALSE /\ F.indexes = r.indexes /\ (F.sawFinish <=> D.finish # None)
    BY <2>2, <2>8, <2>9, <2>r DEF Passed, Echo, O!Newest
  <2> QED BY <2>9, <2>10, <2>11, <2>12 DEF Echo
<1> QED BY <1>1, <1>2

(* A stream begins with nothing of its answer.                             *)
LEMMA EchoFresh == ASSUME NEW ok \in BOOLEAN PROVE Echo(ok, O!StreamState, O!Answer, << >>)
<1>1. Passer(O!StreamState)
  BY PasserFresh
<1>2. Answering(O!Answer)
  <2>1. IsSeq(<< >>)
    BY SeqNone
  <2> QED BY <2>1 DEF Answering, O!Answer
<1>3. SaysOf(ok, Heard(<< >>), O!Answer)
  BY HeardNone DEF SaysOf, O!Answer, O!NoTools, NoTools
<1>4. Quiet(<< >>)
  BY QuietNone
<1>5. /\ O!StreamState.bad = FALSE /\ O!Answer.indexes = O!StreamState.indexes
      /\ ~O!StreamState.sawFinish /\ O!Answer.finish = None
  BY DEF O!StreamState, O!Answer
<1> QED BY <1>1, <1>2, <1>3, <1>4, <1>5 DEF Echo, Says

(* The end of a stream is the end of its answer.                           *)
LEMMA EchoEnds ==
    ASSUME NEW ok \in BOOLEAN, NEW P, NEW G, NEW w, Echo(ok, P, G, w), NEW done,
           NEW F, F = O!FinalizeStream(P, done), ~F.bad, NEW D, D = O!FinalizeAnswer(G, done)
    PROVE  \E c : /\ F.out = <<c>> /\ EndsWell(c) /\ D = G
                  /\ SaysOf(ok, Heard(Append(w, c)), D) /\ ~D.bad
<1>c. PICK c : c = [type |-> "done"]
  OBVIOUS
<1>1. F = IF done \/ P.sawFinish THEN [P EXCEPT !.out = <<c>>] ELSE [P EXCEPT !.bad = TRUE]
  BY <1>c DEF O!FinalizeStream
<1>2. [P EXCEPT !.bad = TRUE].bad
  BY DEF Echo, Passer
<1>3. (done \/ P.sawFinish) /\ F = [P EXCEPT !.out = <<c>>]
  BY <1>1, <1>2
<1>4. F.out = <<c>>
  BY <1>3 DEF Echo, Passer
<1>5. D = G
  BY <1>3 DEF O!FinalizeAnswer, Echo
<1>6. ~G.bad
  BY DEF Echo, Answering
<1>7. Heard(Append(w, c)) = Heard(w)
  <2>1. IsSeq(w)
    BY DEF Echo, Says, Quiet
  <2>2. Heard(Append(w, c)) = Hear(Heard(w), c)
    BY <2>1, HeardMore
  <2> QED BY <1>c, <2>2 DEF Hear
<1>8. EndsWell(c)
  BY <1>c DEF EndsWell
<1> QED BY <1>4, <1>5, <1>6, <1>7, <1>8 DEF Echo, Says

-----------------------------------------------------------------------------
(* A stream begins with nothing of its message.                            *)
LEMMA ViewFresh == View(A!Encoder, A!Aggregator, << >>) /\ Busy(A!Encoder)
<1>e. PICK E : E = A!Encoder
  OBVIOUS
<1>g. PICK G : G = A!Aggregator
  OBVIOUS
<1>n. PICK no : no = << >>
  OBVIOUS
<1>1. /\ E.bad = FALSE /\ E.finish = None /\ E.usage = FALSE /\ E.indexes = A!NoIndexes
      /\ E.tools = A!NoTools /\ E.pending = {} /\ E.started = FALSE /\ E.next = 0
      /\ E.scalar.type = None
  BY <1>e DEF A!Encoder, A!NoScalar
<1>2. /\ G.bad = FALSE /\ G.finish = None /\ G.usage = FALSE /\ G.indexes = A!NoIndexes
      /\ G.tools = A!NoTools /\ G.pending = {} /\ G.blocks = no /\ Gathers(G)
  BY <1>g, <1>n DEF A!Aggregator, Gathers
<1>3. Sound(no) /\ Assembled(no) = no /\ IsSeq(no) /\ Len(no) = 0 /\ DOMAIN no = {}
  BY <1>n, SoundNone, AssembledNone, SeqNone
<1>4. Twin(E, G)
  BY <1>e, <1>1, <1>2, EncoderFresh DEF Twin
<1>5. Kept(E)
  <2>1. IsFiniteSet({})
    BY FS_EmptySet
  <2>2. IndexesOk(A!NoIndexes)
    BY <2>1 DEF IndexesOk, A!NoIndexes
  <2>3. A!NoTools = [i \in DOMAIN A!NoTools |-> A!NoTools[i]] /\ DOMAIN A!NoTools = {}
    BY DEF A!NoTools
  <2> QED BY <1>1, <2>1, <2>2, <2>3 DEF Kept
<1>6. Line(E, no)
  BY <1>1, <1>3, <1>n DEF Line
<1>7. Cardinality({}) = 0
  BY FS_EmptySet
<1>8. Row(E, G)
  <2>1. Len(G.blocks) = 0
    BY <1>2, <1>3
  <2>2. Values(G.blocks, 0, 0) = {}
    BY DEF Values
  <2> QED BY <1>1, <1>2, <1>3, <1>7, <2>1, <2>2 DEF Row
<1>9. Agree(G, Assembled(no), 0)
  BY DEF Agree
<1>10. Wall(E, G) /\ Busy(E)
  BY <1>1 DEF Wall, Busy
<1> QED BY <1>e, <1>g, <1>n, <1>1, <1>4, <1>5, <1>6, <1>8, <1>9, <1>10 DEF View, Basic

(* A well-formed stream ends once.                                         *)
LEMMA EndsOnce ==
    ASSUME NEW w, IsSeq(w), WellFormed(w), NEW p \in DOMAIN w, EndsWell(w[p])
    PROVE  p = Len(w)
<1>1. Len(w) \in Nat /\ DOMAIN w = 1..Len(w)
  BY LengthOf
<1> SUFFICES ASSUME p # Len(w) PROVE FALSE
  OBVIOUS
<1>2. p \in 1..Len(w) /\ p + 1 \in 1..Len(w) /\ (p + 1) - 1 = p
  BY <1>1
<1> DEFINE u == SubSeq(w, 1, p)
<1>3. u # << >> /\ Last(u) = w[p]
  <2>1. w \in Seq(Range(w))
    BY DEF IsSeq
  <2>2. Len(u) = p /\ u[p] = w[p]
    BY <1>1, <1>2, <2>1
  <2> HIDE DEF u
  <2>3. Len(<< >>) = 0
    OBVIOUS
  <2> QED BY <1>2, <2>2, <2>3 DEF Last
<1> HIDE DEF u
<1>4. MayFollow(u, w[p + 1]) /\ MayFollow(SubSeq(w, 1, p - 1), w[p])
  BY <1>1, <1>2 DEF WellFormed, u
<1>5. w[p].type # "done"
  BY <1>4 DEF MayFollow
<1>6. LastType(u) = "message_stop"
  BY <1>3, <1>5 DEF EndsWell, LastType
<1> QED BY <1>3, <1>4, <1>6 DEF MayFollow, Between, Ongoing

(* A stream may be cut off with an error.                                  *)
Cut(a, w) ==
    /\ Quiet(w)
    /\ a => WellFormed(w) /\ (w # << >> => WellFormed(Append(w, ErrorChunk)))

(* A stream that has not begun may be cut off.                             *)
LEMMA CutNone == ASSUME NEW a PROVE Cut(a, << >>)
<1>1. WellFormed(<< >>)
  BY SoundNone DEF Sound
<1> QED BY <1>1, QuietNone DEF Cut

(* An Anthropic stream that is not finished may be cut off.                *)
LEMMA ViewCut ==
    ASSUME NEW E, NEW G, NEW w, View(E, G, w), NEW a
    PROVE  Cut(a, w)
<1>1. Sound(w) /\ (w = << >> \/ Between(w) \/ LastType(w) \in Unfinished)
  BY DEF View, Basic, Line, Open
<1>2. IsSeq(w) /\ WellFormed(w)
  BY <1>1 DEF Sound
<1>3. w # << >> => LastType(w) # "message_stop" /\ ~EndsWell(w[Len(w)])
  BY <1>1 DEF Between, Unfinished, EndsWell, LastType, Last
<1>4. Quiet(w)
  <2>1. ASSUME NEW p \in DOMAIN w, EndsWell(w[p]) PROVE FALSE
    <3>1. p = Len(w)
      BY <1>2, <2>1, EndsOnce
    <3>2. w = << >> => DOMAIN w = {}
      OBVIOUS
    <3> QED BY <1>3, <2>1, <3>1, <3>2
  <2> QED BY <1>2, <2>1 DEF Quiet
<1>5. w # << >> => WellFormed(Append(w, ErrorChunk))
  BY <1>1, <1>3, ErrorEnds
<1> QED BY <1>2, <1>4, <1>5 DEF Cut

(* What the chunks w tell a client is what the message D holds.            *)
TellsOf(a, ok, w, D) ==
    IF a THEN Assembled(w) = A!FinalBlocks(D) /\ w[Len(w) - 1].stop = D.finish
    ELSE SaysOf(ok, Heard(w), D)

(* A stream that ends at most once, and then tells the message D.          *)
Fine(a, ok, w, D) ==
    /\ IsSeq(w) /\ (a => WellFormed(w))
    /\ \A p \in DOMAIN w : EndsWell(w[p]) => p = Len(w)
    /\ Whole(w) => TellsOf(a, ok, w, D)

(* An adapter that has been given as many events as the message.           *)
Follows(a, ok, s, G, w) == IF a THEN View(s, G, w) /\ Busy(s) ELSE Echo(ok, s, G, w)

(* A stream that has not come to its end is in order...                    *)
LEMMA CutFine ==
    ASSUME NEW a, NEW ok, NEW w, Cut(a, w), NEW D
    PROVE  Fine(a, ok, w, D) /\ ~Whole(w)
<1>1. Quiet(w) /\ IsSeq(w)
  BY DEF Cut, Quiet
<1>2. Len(w) \in Nat /\ DOMAIN w = 1..Len(w) /\ (w # << >> => Len(w) # 0)
  BY <1>1, LengthOf
<1>3. ~Whole(w)
  <2>1. w # << >> => ~EndsWell(w[Len(w)])
    BY <1>1, <1>2 DEF Quiet
  <2> QED BY <2>1 DEF Whole, EndsWell, LastType, Last
<1>4. \A p \in DOMAIN w : ~EndsWell(w[p])
  BY <1>1 DEF Quiet
<1> QED BY <1>1, <1>3, <1>4 DEF Fine, Cut

(* ...and is, once it is cut off.                                          *)
LEMMA CutEnds ==
    ASSUME NEW a, NEW ok, NEW w, Cut(a, w), w # << >>, NEW D
    PROVE  Fine(a, ok, Append(w, ErrorChunk), D)
<1>1. ~EndsWell(ErrorChunk)
  BY DEF EndsWell, ErrorChunk
<1>c. PICK c : c = ErrorChunk
  OBVIOUS
<1>2. Quiet(Append(w, c))
  BY <1>1, <1>c, QuietMore DEF Cut
<1>3. IsSeq(w)
  BY DEF Cut, Quiet
<1>4. Append(w, c) # << >> /\ Last(Append(w, c)) = c
  BY <1>3, OneMore
<1>5. ~Whole(Append(w, c))
  BY <1>1, <1>4, <1>c DEF Whole, EndsWell, LastType
<1>6. a => WellFormed(Append(w, c))
  BY <1>c DEF Cut
<1> QED BY <1>2, <1>5, <1>6, <1>c DEF Fine, Quiet

(* What a client has got of a stream is in order when the stream is.       *)
LEMMA FineSoFar ==
    ASSUME NEW a, NEW ok, NEW v, IsSeq(v), NEW w, IsSeq(w), NEW D, Fine(a, ok, v \o w, D)
    PROVE  Fine(a, ok, v, D)
<1>s. PICK S : S = Range(v) \union Range(w)
  OBVIOUS
<1>m. PICK m : m = Len(v)
  OBVIOUS
<1>n. PICK n : n = Len(w)
  OBVIOUS
<1>x. PICK x : x = v \o w
  OBVIOUS
<1>1. v \in Seq(S) /\ w \in Seq(S)
  BY <1>s DEF IsSeq
<1>2. /\ m \in Nat /\ n \in Nat /\ DOMAIN v = 1..m /\ DOMAIN x = 1..(m + n) /\ Len(x) = m + n
      /\ \A p \in 1..m : x[p] = v[p]
  BY <1>1, <1>m, <1>n, <1>x
<1>3. CASE n = 0
  <2>1. w = << >>
    BY <1>n, <1>3, LengthOf
  <2>2. v \o << >> = v
    BY <1>1
  <2> QED BY <2>1, <2>2
<1>4. CASE n # 0
  <2>1. ASSUME NEW p \in DOMAIN v, EndsWell(v[p]) PROVE FALSE
    <3>1. p \in 1..m /\ p \in DOMAIN x /\ x[p] = v[p]
      BY <1>2
    <3>2. p = Len(x)
      BY <2>1, <3>1, <1>x DEF Fine
    <3> QED BY <1>2, <1>4, <3>1, <3>2
  <2>2. a => WellFormed(v)
    BY BeginsWell DEF Fine
  <2>3. ~Whole(v)
    <3>1. v # << >> => m \in DOMAIN v
      BY <1>2, <1>m, LengthOf
    <3>2. v # << >> => ~EndsWell(v[m])
      BY <2>1, <3>1
    <3> QED BY <3>2, <1>m DEF Whole, EndsWell, LastType, Last
  <2> QED BY <2>1, <2>2, <2>3 DEF Fine
<1> QED BY <1>3, <1>4

(* Both of what an adapter follows are in order.                           *)
LEMMA FollowsCut ==
    ASSUME NEW a \in BOOLEAN, NEW ok \in BOOLEAN, NEW s, NEW G, NEW w, Follows(a, ok, s, G, w)
    PROVE  Cut(a, w) /\ ~G.bad
<1>1. CASE a
  BY <1>1, ViewCut DEF Follows, View, Basic, Twin
<1>2. CASE ~a
  <2>1. Echo(ok, s, G, w)
    BY <1>2 DEF Follows
  <2> QED BY <1>2, <2>1 DEF Echo, Says, Answering, Cut
<1> QED BY <1>1, <1>2

(* The message of no events, and of one event more.                        *)
AddTo(G, e) == IF Anthropic THEN A!Aggregate(G, e) ELSE O!Add(G, e)
EndOf(G, done) == IF Anthropic THEN A!FinalizeAggregate(G) ELSE O!FinalizeAnswer(G, done)

(* The message of no events.                                               *)
LEMMA AggregatedNone ==
    AggregatedOf(<< >>) = IF Anthropic THEN A!Aggregator ELSE O!Answer
<1> PICK no : no = << >>
  OBVIOUS
<1>1. DOMAIN no = 1..0
  OBVIOUS
<1> PICK x : x = A!Aggregator
  OBVIOUS
<1> PICK y : y = O!Answer
  OBVIOUS
<1>2. FoldLeft(A!Aggregate, x, no) = Fold("event", x, no) /\ Fold("event", x, no) = x
  BY <1>1, EventFold, FoldNone
<1>3. FoldLeft(O!Add, y, no) = Fold("answer", y, no) /\ Fold("answer", y, no) = y
  BY <1>1, AnswerFold, FoldNone
<1> QED BY <1>2, <1>3 DEF AggregatedOf

(* The message of one event more.                                          *)
LEMMA AggregatedMore ==
    ASSUME NEW events, IsSeq(events), NEW e
    PROVE  AggregatedOf(Append(events, e)) = AddTo(AggregatedOf(events), e)
<1> PICK more : more = Append(events, e)
  OBVIOUS
<1> PICK x : x = A!Aggregator
  OBVIOUS
<1> PICK y : y = O!Answer
  OBVIOUS
<1>1. IsSeq(more)
  BY OneMore
<1>2. /\ Len(events) \in Nat /\ DOMAIN events = 1..Len(events)
      /\ Len(more) \in Nat /\ DOMAIN more = 1..Len(more)
  BY <1>1, LengthOf
<1>3. /\ FoldLeft(A!Aggregate, x, events) = Fold("event", x, events)
      /\ FoldLeft(A!Aggregate, x, more) = Fold("event", x, more)
  BY <1>2, EventFold
<1>4. /\ FoldLeft(O!Add, y, events) = Fold("answer", y, events)
      /\ FoldLeft(O!Add, y, more) = Fold("answer", y, more)
  BY <1>2, AnswerFold
<1>5. /\ Fold("event", x, more) = FoldStep("event", Fold("event", x, events), e)
      /\ Fold("answer", y, more) = FoldStep("answer", Fold("answer", y, events), e)
  BY FoldAppend
<1> QED BY <1>3, <1>4, <1>5 DEF AggregatedOf, AddTo, FoldStep

(* The adapter of a stream, from its start to its end.                     *)
LEMMA FollowsFresh ==
    ASSUME NEW ok \in BOOLEAN, req.stream
    PROVE  Follows(Anthropic, ok, Fresh, AggregatedOf(<< >>), << >>)
BY AggregatedNone, ViewFresh, EchoFresh DEF Follows, Fresh

(* One event more is told as it is added to the message.                   *)
LEMMA FollowsHandles ==
    ASSUME req.stream, NEW ok \in BOOLEAN, NEW s, NEW G, NEW w, Follows(Anthropic, ok, s, G, w),
           NEW e \in Events, NEW more \in BOOLEAN, more => ok /\ NoneBare(e.tools),
           NEW F, F = Handle(s, e), ~F.bad
    PROVE  Follows(Anthropic, more, F, AddTo(G, e), w \o F.out)
<1> PICK D : D = AddTo(G, e)
  OBVIOUS
<1>1. CASE Anthropic
  <2>1. F = A!Encode(s, e) /\ D = A!Aggregate(G, e) /\ View(s, G, w) /\ Busy(s)
    BY <1>1 DEF Handle, AddTo, Follows
  <2>2. IsSeq(w)
    BY <2>1 DEF View, Basic, Line, Sound
  <2>3. Tells(F, D, w)
    BY <2>1, <2>2, EncodeTold
  <2> QED BY <1>1, <2>3 DEF Tells, Follows
<1>2. CASE ~Anthropic
  <2>1. F = O!PassOn(s, e) /\ D = O!Add(G, e) /\ Echo(ok, s, G, w)
    BY <1>2 DEF Handle, AddTo, Follows
  <2>2. Echo(more, s, G, w)
    BY <2>1 DEF Echo, Says, SaysOf
  <2>3. Echo(more, F, D, w \o F.out)
    BY <2>1, <2>2, EchoTold
  <2> QED BY <1>2, <2>3 DEF Follows
<1> QED BY <1>1, <1>2

(* The end of the events tells the end of the message.                     *)
LEMMA FollowsEnds ==
    ASSUME req.stream, NEW ok \in BOOLEAN, NEW s, NEW G, NEW w, Follows(Anthropic, ok, s, G, w),
           NEW done,
           NEW F, F = Finalize(s, done), ~F.bad
    PROVE  Fine(Anthropic, ok, w \o F.out, EndOf(G, done)) /\ ~EndOf(G, done).bad
<1> PICK D : D = EndOf(G, done)
  OBVIOUS
<1>1. CASE Anthropic
  <2>1. F = A!FinalizeEncode(s) /\ D = A!FinalizeAggregate(G) /\ View(s, G, w)
    BY <1>1 DEF Finalize, EndOf, Follows
  <2>2. IsSeq(w)
    BY <2>1 DEF View, Basic, Line, Sound
  <2>3. TellsAll(w \o F.out, D)
    BY <2>1, <2>2, FinalizeTold
  <2>v. PICK v : v = w \o F.out
    OBVIOUS
  <2>4. /\ Sound(v) /\ ~D.bad
        /\ Assembled(v) = A!FinalBlocks(D) /\ v[Len(v) - 1].stop = D.finish
    BY <2>3, <2>v DEF TellsAll
  <2>5. IsSeq(v) /\ WellFormed(v)
    BY <2>4 DEF Sound
  <2>6. \A p \in DOMAIN v : EndsWell(v[p]) => p = Len(v)
    BY <2>5, EndsOnce
  <2> QED BY <1>1, <2>v, <2>4, <2>5, <2>6 DEF Fine, TellsOf
<1>2. CASE ~Anthropic
  <2>1. F = O!FinalizeStream(s, done) /\ D = O!FinalizeAnswer(G, done) /\ Echo(ok, s, G, w)
    BY <1>2 DEF Finalize, EndOf, Follows
  <2>2. PICK c : /\ F.out = <<c>> /\ EndsWell(c) /\ D = G
                 /\ SaysOf(ok, Heard(Append(w, c)), D) /\ ~D.bad
    BY <2>1, EchoEnds
  <2>3. Quiet(w) /\ IsSeq(w)
    BY <2>1 DEF Echo, Says, Quiet
  <2>4. w \o <<c>> = Append(w, c)
    BY <2>3, SeqFew
  <2>5. /\ IsSeq(Append(w, c)) /\ Len(Append(w, c)) = Len(w) + 1
        /\ \A p \in 1..Len(w) : Append(w, c)[p] = w[p]
    BY <2>3, OneMore
  <2>6. /\ Len(w) \in Nat /\ DOMAIN w = 1..Len(w)
        /\ DOMAIN Append(w, c) = 1..(Len(w) + 1)
    BY <2>3, <2>5, LengthOf
  <2>7. \A p \in DOMAIN Append(w, c) : EndsWell(Append(w, c)[p]) => p = Len(Append(w, c))
    BY <2>3, <2>5, <2>6 DEF Quiet
  <2> QED BY <1>2, <2>2, <2>4, <2>5, <2>7 DEF Fine, TellsOf
<1> QED BY <1>1, <1>2

-----------------------------------------------------------------------------
(* The chunks that a request's tasks and its client have got of the        *)
(* generator, or will get; without the tasks, those the client has got.    *)
Live == task.first # "none" /\ task.body # "oserror"

Functional == HaveFunctions(read.events)

Fetched == IF Holds THEN Append(resp.wire, task.held) ELSE resp.wire
Yielded == Fetched \o gen.queue

Upheld ==
    /\ Fine(Anthropic, Functional, Yielded, Aggregated)
    /\ gen.at \in Early => Yielded = << >>
    /\ gen.at = "stream" => Follows(Anthropic, Functional, work, Aggregated, Yielded)
    /\ gen.at = "failed" => Cut(Anthropic, Yielded)
    /\ task.body = "pull" => resp.wire # << >>

Left == Fine(Anthropic, Functional, resp.wire, Aggregated) \/ (resp.status # 200 /\ ~Whole(resp.wire))

Matches ==
    /\ IsSeq(read.events)
    /\ gen.at = "stream" => read.end = None
    /\ gen.at \in {"stream", "last"} => ~Aggregated.bad
    /\ reply.status # 200 /\ (reply.status # None => reply.body = ErrorChunk)
    /\ Live => Upheld
    /\ ~Live => Left

Telling == req.stream => Matches

(* The message is that of the request and of what was read.                *)
LEMMA SameMessage ==
    ASSUME req' = req, read' = read
    PROVE  /\ Anthropic' = Anthropic /\ Aggregated' = Aggregated
           /\ Functional' = Functional
BY DEF Anthropic, Aggregated, AggregatedOf, Functional

(* One event more: its calls have functions if all of them have.           *)
LEMMA FunctionalMore ==
    ASSUME NEW events, IsSeq(events), NEW e
    PROVE  HaveFunctions(Append(events, e)) => HaveFunctions(events) /\ NoneBare(e.tools)
<1> PICK more : more = Append(events, e)
  OBVIOUS
<1>1. /\ IsSeq(more) /\ Len(more) = Len(events) + 1 /\ more[Len(events) + 1] = e
      /\ \A p \in 1..Len(events) : more[p] = events[p]
  BY OneMore
<1>2. /\ Len(events) \in Nat /\ DOMAIN events = 1..Len(events)
      /\ DOMAIN more = 1..(Len(events) + 1)
  BY <1>1, LengthOf
<1> QED BY <1>1, <1>2 DEF HaveFunctions, NoneBare

(* While the stream is read it is the message of its events.               *)
LEMMA MessageSoFar ==
    ASSUME read.end = None
    PROVE  Aggregated = AggregatedOf(read.events)
BY DEF Aggregated

(* The chunks move on, or the generator stops.                             *)
LEMMA StaysLive ==
    ASSUME Matches, Live, Live', req' = req, read' = read, work' = work, reply' = reply,
           Yielded' = Yielded,
           gen'.at \in {gen.at, "closed"} \/ (gen.at \in Early /\ gen'.at \in Early)
             \/ (gen.at \in Early \union {"stream"} /\ gen'.at = "failed"),
           task'.body = "pull" => resp'.wire # << >>
    PROVE  Matches'
<1>1. Anthropic' = Anthropic /\ Aggregated' = Aggregated /\ Functional' = Functional
  BY SameMessage
<1>2. Upheld
  BY DEF Matches
<1>3. Fine(Anthropic, Functional, Yielded, Aggregated)'
  BY <1>1, <1>2 DEF Upheld
<1>4. gen'.at \in Early => gen.at \in Early
  BY DEF Early
<1>5. gen'.at = "stream" => gen.at = "stream"
  BY DEF Early
<1>6. gen'.at = "failed" => Cut(Anthropic, Yielded)
  <2>1. gen'.at = "failed" => gen.at \in Early \union {"stream", "failed"}
    BY DEF Early
  <2>2. gen.at \in Early => Cut(Anthropic, Yielded)
    BY <1>2, CutNone DEF Upheld
  <2>3. gen.at = "stream" => Cut(Anthropic, Yielded)
    BY <1>2, FollowsCut DEF Upheld, Anthropic, Functional, HaveFunctions
  <2> QED BY <1>2, <2>1, <2>2, <2>3 DEF Upheld
<1>7. Upheld'
  BY <1>1, <1>2, <1>3, <1>4, <1>5, <1>6 DEF Upheld
<1>8. gen'.at \in {"stream", "last"} => gen.at \in {"stream", "last"}
  BY DEF Early
<1> QED BY <1>1, <1>5, <1>7, <1>8 DEF Matches

(* Nothing is left of the request's tasks.                                 *)
LEMMA StaysLeft ==
    ASSUME Matches, ~Live, ~Live', req' = req, read' = read, resp' = resp,
           reply'.status # 200 /\ (reply'.status # None => reply'.body = ErrorChunk),
           gen'.at \in {gen.at, "closed"}
    PROVE  Matches'
<1>1. Anthropic' = Anthropic /\ Aggregated' = Aggregated /\ Functional' = Functional
  BY SameMessage
<1> QED BY <1>1 DEF Matches, Left

(* What the client has got of it by then is in order.                      *)
LEMMA GotFine ==
    ASSUME Matches, Live, IsSeq(gen.queue), IsSeq(resp.wire)
    PROVE  Fine(Anthropic, Functional, resp.wire, Aggregated)
<1>w. PICK w : w = resp.wire
  OBVIOUS
<1>q. PICK q : q = gen.queue
  OBVIOUS
<1>c. PICK c : c = task.held
  OBVIOUS
<1>2. Fine(Anthropic, Functional, w, Aggregated)
  <2>1. Fine(Anthropic, Functional, Yielded, Aggregated)
    BY DEF Matches, Upheld
  <2>2. IsSeq(w) /\ IsSeq(q)
    BY <1>w, <1>q
  <2>3. CASE Holds
    <3>1. Yielded = Append(w, c) \o q
      BY <1>w, <1>q, <1>c, <2>3 DEF Yielded, Fetched
    <3>v. PICK v : v = Append(w, c)
      OBVIOUS
    <3>2. IsSeq(v)
      BY <2>2, <3>v, OneMore
    <3>3. Fine(Anthropic, Functional, v \o q, Aggregated)
      BY <2>1, <3>1, <3>v
    <3>4. Fine(Anthropic, Functional, v, Aggregated)
      BY <2>2, <3>2, <3>3, FineSoFar
    <3>o. PICK o : o = <<c>>
      OBVIOUS
    <3>5. v = w \o o /\ IsSeq(o)
      BY <2>2, <3>o, <3>v, SeqFew, SeqSingle
    <3>6. Fine(Anthropic, Functional, w \o o, Aggregated)
      BY <3>4, <3>5
    <3> QED BY <2>2, <3>5, <3>6, FineSoFar
  <2>4. CASE ~Holds
    <3>1. Fine(Anthropic, Functional, w \o q, Aggregated)
      BY <1>w, <1>q, <2>1, <2>4 DEF Yielded, Fetched
    <3> QED BY <2>2, <3>1, FineSoFar
  <2> QED BY <2>3, <2>4
<1> QED BY <1>2, <1>w

(* The tasks are cancelled, or the client does not listen any more.        *)
LEMMA BecomesLeft ==
    ASSUME Matches, Live, ~Live', req' = req, read' = read, resp' = resp, reply' = reply,
           IsSeq(gen.queue), IsSeq(resp.wire), gen'.at \in {gen.at, "closed"}
    PROVE  Matches'
<1>1. Anthropic' = Anthropic /\ Aggregated' = Aggregated /\ Functional' = Functional
  BY SameMessage
<1>2. Fine(Anthropic, Functional, resp.wire, Aggregated)
  BY GotFine
<1>3. Left'
  BY <1>1, <1>2 DEF Left
<1>4. gen'.at \in {"stream", "last"} => gen.at \in {"stream", "last"}
  OBVIOUS
<1> QED BY <1>1, <1>3, <1>4 DEF Matches

(* Whoever makes the generator of a stream run will get its chunks.        *)
LEMMA DemandLive ==
    ASSUME Control, Sending, Flow, req.stream, Demand
    PROVE  Live
<1>1. CASE task.first = "pull"
  BY <1>1 DEF Sending, Live
<1>2. CASE task.body = "pull"
  BY <1>2 DEF Sending, Live
<1>3. main.at # "plain"
  BY DEF Flow
<1> QED BY <1>1, <1>2, <1>3 DEF Demand

(* All is fetched when nothing waits.                                      *)
LEMMA AllFetched ==
    ASSUME Flow, gen.queue = << >>
    PROVE  IsSeq(Fetched) /\ Yielded = Fetched
<1>1. IsSeq(resp.wire)
  BY DEF Flow
<1>2. IsSeq(Fetched)
  BY <1>1, OneMore DEF Fetched
<1>3. \A w : IsSeq(w) => w \o << >> = w
  BY DEF IsSeq
<1> QED BY <1>2, <1>3 DEF Yielded

(* Upstream accepts: nothing has been said yet.                            *)
LEMMA AcceptsMatches ==
    ASSUME Shapes, Control, Sending, Flow, req.stream, Matches, UpstreamAccepts
    PROVE  Matches'
<1>1. /\ gen.at = "connect" /\ Demand /\ gen'.at = "stream" /\ gen'.queue = gen.queue
      /\ work' = Fresh /\ read' = [events |-> << >>, end |-> None]
      /\ UNCHANGED <<req, task, resp, reply>>
  BY DEF UpstreamAccepts, Runs, NotRead, Shapes, GenOk
<1>2. Live /\ Live'
  BY <1>1, DemandLive DEF Live
<1>3. Yielded = << >> /\ Yielded' = << >>
  BY <1>1, <1>2 DEF Matches, Upheld, Early, Yielded, Fetched, Holds
<1>4. Aggregated' = AggregatedOf(<< >>) /\ Anthropic' = Anthropic
  BY <1>1 DEF Aggregated, AggregatedOf, Anthropic
<1>5. Follows(Anthropic, Functional', work', AggregatedOf(<< >>), << >>)
  <2>1. HaveFunctions(read'.events) \in BOOLEAN
    BY DEF HaveFunctions
  <2> QED BY <1>1, <2>1, FollowsFresh DEF Functional
<1>6. Cut(Anthropic, << >>) /\ ~AggregatedOf(<< >>).bad
  BY <1>5, FollowsCut DEF Anthropic, Functional, HaveFunctions
<1>7. Fine(Anthropic, Functional', << >>, AggregatedOf(<< >>))
  BY <1>6, CutFine
<1>8. IsSeq(read'.events) /\ read'.end = None
  BY <1>1, SeqNone
<1>9. task'.body # "pull" \/ resp'.wire # << >>
  BY <1>1, <1>2 DEF Matches, Upheld
<1>10. Upheld'
  BY <1>1, <1>3, <1>4, <1>5, <1>7, <1>9 DEF Upheld, Early
<1> QED BY <1>1, <1>2, <1>4, <1>6, <1>8, <1>10 DEF Matches

(* An event is read: it is cut off, or what it says is told.               *)
LEMMA ReadsMatches ==
    ASSUME Shapes, Control, Sending, Flow, req.stream, Matches, NEW e \in Events, Reads(e)
    PROVE  Matches'
<1>1. /\ gen.at = "stream" /\ Demand /\ gen.queue = << >>
      /\ UNCHANGED <<req, task, resp, reply>>
      /\ \/ gen'.at = "failed" /\ gen'.queue = << >>
         \/ /\ ~Handle(work, e).bad /\ work' = Handle(work, e)
            /\ gen'.at = "stream" /\ gen'.queue = Chunks(work')
  BY ReadsEffect DEF Shapes
<1>2. read' = [read EXCEPT !.events = Append(@, e)]
  BY DEF Reads
<1>3. Live /\ Live'
  BY <1>1, DemandLive DEF Live
<1>u. PICK u : u = Yielded
  OBVIOUS
<1>a. PICK a : a = Anthropic
  OBVIOUS
<1>k. PICK ok : ok = Functional
  OBVIOUS
<1>b. ok \in BOOLEAN
  BY <1>k DEF Functional, HaveFunctions
<1>G. PICK G : G = AggregatedOf(read.events)
  OBVIOUS
<1>4. Matches /\ Upheld /\ IsSeq(read.events) /\ read.end = None
  BY <1>1, <1>3 DEF Matches
<1>5. Follows(a, ok, work, G, u)
  BY <1>1, <1>4, <1>u, <1>a, <1>k, <1>G, MessageSoFar DEF Upheld
<1>6. Cut(a, u)
  BY <1>5, <1>a, <1>b, FollowsCut DEF Anthropic
<1>7. read'.end = None /\ read'.events = Append(read.events, e) /\ IsSeq(read'.events)
  BY <1>2, <1>4, OneMore DEF Shapes, ReadOk
<1>8. Aggregated' = AddTo(G, e) /\ Anthropic' = a
  <2>1. AggregatedOf(Append(read.events, e)) = AddTo(G, e)
    BY <1>4, <1>G, AggregatedMore
  <2> QED BY <1>1, <1>7, <1>a, <2>1 DEF Aggregated, AggregatedOf, Anthropic
<1>m. PICK more : more = Functional'
  OBVIOUS
<1>n. more \in BOOLEAN /\ (more => ok /\ NoneBare(e.tools))
  <2>1. more = HaveFunctions(Append(read.events, e))
    BY <1>7, <1>m DEF Functional
  <2>2. HaveFunctions(Append(read.events, e)) => HaveFunctions(read.events) /\ NoneBare(e.tools)
    BY <1>4, FunctionalMore
  <2> QED BY <1>k, <2>1, <2>2 DEF Functional, HaveFunctions
<1>9. u = Fetched /\ Fetched' = Fetched /\ Yielded' = Fetched \o gen'.queue /\ IsSeq(Fetched)
  BY <1>1, <1>u, AllFetched DEF Yielded, Fetched, Holds
<1>10. task'.body = "pull" => resp'.wire # << >>
  BY <1>1, <1>4 DEF Upheld
<1>11. CASE gen'.at = "failed" /\ gen'.queue = << >>
  <2>1. Yielded' = u
    BY <1>9, <1>11 DEF IsSeq
  <2>2. Fine(a, more, u, Aggregated')
    BY <1>6, CutFine
  <2>3. Upheld'
    BY <1>6, <1>8, <1>10, <1>11, <1>m, <2>1, <2>2 DEF Upheld, Early
  <2> QED BY <1>1, <1>3, <1>4, <1>7, <1>11, <2>3 DEF Matches
<1>12. CASE /\ ~Handle(work, e).bad /\ work' = Handle(work, e)
            /\ gen'.at = "stream" /\ gen'.queue = Chunks(work')
  <2>F. PICK F : F = Handle(work, e)
    OBVIOUS
  <2>D. PICK D : D = AddTo(G, e)
    OBVIOUS
  <2>1. Follows(Anthropic, more, F, AddTo(G, e), u \o F.out)
    <3>1. Follows(Anthropic, ok, work, G, u) /\ ~F.bad
      BY <1>5, <1>12, <1>a, <2>F
    <3> QED BY <1>b, <1>n, <2>F, <3>1, FollowsHandles
  <2>v. PICK v : v = u \o F.out
    OBVIOUS
  <2>2. Follows(a, more, F, D, v)
    BY <1>a, <2>1, <2>v, <2>D
  <2>3. Cut(a, v) /\ ~D.bad
    BY <1>a, <1>n, <2>2, FollowsCut DEF Anthropic
  <2>4. Fine(a, more, v, D)
    BY <2>3, CutFine
  <2>5. Yielded' = v
    BY <1>9, <1>12, <2>F, <2>v DEF Chunks
  <2>6. Upheld'
    BY <1>8, <1>10, <1>12, <1>m, <2>2, <2>4, <2>5, <2>F, <2>D DEF Upheld, Early
  <2> QED BY <1>1, <1>3, <1>4, <1>7, <1>8, <1>12, <2>3, <2>6, <2>D DEF Matches
<1> QED BY <1>1, <1>11, <1>12

(* The stream ends: it is cut off, or its end is told.                     *)
LEMMA EndsMatches ==
    ASSUME Shapes, Control, Sending, Flow, req.stream, Matches,
           NEW done \in BOOLEAN, StreamEnds(done)
    PROVE  Matches'
<1>1. /\ gen.at = "stream" /\ Demand /\ gen.queue = << >>
      /\ UNCHANGED <<req, task, resp, reply>>
      /\ \/ gen'.at = "failed" /\ gen'.queue = << >>
         \/ /\ ~Finalize(work, done).bad /\ work' = Finalize(work, done)
            /\ gen'.at = "last" /\ gen'.queue = Chunks(work')
  BY EndsEffect DEF Shapes
<1>2. read' = [read EXCEPT !.end = IF done THEN "done" ELSE "eof"]
  BY DEF StreamEnds
<1>3. Live /\ Live'
  BY <1>1, DemandLive DEF Live
<1>u. PICK u : u = Yielded
  OBVIOUS
<1>a. PICK a : a = Anthropic
  OBVIOUS
<1>k. PICK ok : ok = Functional
  OBVIOUS
<1>b. ok \in BOOLEAN
  BY <1>k DEF Functional, HaveFunctions
<1>G. PICK G : G = AggregatedOf(read.events)
  OBVIOUS
<1>4. Matches /\ Upheld /\ IsSeq(read.events) /\ read.end = None
  BY <1>1, <1>3 DEF Matches
<1>5. Follows(a, ok, work, G, u)
  BY <1>1, <1>4, <1>u, <1>a, <1>k, <1>G, MessageSoFar DEF Upheld
<1>6. Cut(a, u) /\ ~G.bad
  BY <1>5, <1>a, <1>b, FollowsCut DEF Anthropic
<1>7. /\ read'.end = (IF done THEN "done" ELSE "eof") /\ read'.events = read.events
      /\ read'.end # None
  BY <1>2, NoneIsNothing DEF Shapes, ReadOk, Marks
<1>8. Aggregated' = EndOf(G, done) /\ Anthropic' = a
  <2>1. read'.end = "done" <=> done
    BY <1>7
  <2> QED BY <1>1, <1>6, <1>7, <1>a, <1>G, <2>1 DEF Aggregated, AggregatedOf, Anthropic, EndOf
<1>m. Functional' = ok
  BY <1>7, <1>k DEF Functional
<1>9. u = Fetched /\ Fetched' = Fetched /\ Yielded' = Fetched \o gen'.queue /\ IsSeq(Fetched)
  BY <1>1, <1>u, AllFetched DEF Yielded, Fetched, Holds
<1>10. task'.body = "pull" => resp'.wire # << >>
  BY <1>1, <1>4 DEF Upheld
<1>11. CASE gen'.at = "failed" /\ gen'.queue = << >>
  <2>1. Yielded' = u
    BY <1>9, <1>11 DEF IsSeq
  <2>2. Fine(a, ok, u, Aggregated')
    BY <1>6, CutFine
  <2>3. Upheld'
    BY <1>6, <1>8, <1>10, <1>11, <1>m, <2>1, <2>2 DEF Upheld, Early
  <2> QED BY <1>1, <1>3, <1>4, <1>7, <1>11, <2>3 DEF Matches
<1>12. CASE /\ ~Finalize(work, done).bad /\ work' = Finalize(work, done)
            /\ gen'.at = "last" /\ gen'.queue = Chunks(work')
  <2>F. PICK F : F = Finalize(work, done)
    OBVIOUS
  <2>D. PICK D : D = EndOf(G, done)
    OBVIOUS
  <2>1. Fine(Anthropic, ok, u \o F.out, EndOf(G, done)) /\ ~EndOf(G, done).bad
    <3>1. Follows(Anthropic, ok, work, G, u) /\ ~F.bad
      BY <1>5, <1>12, <1>a, <2>F
    <3> QED BY <1>b, <2>F, <3>1, FollowsEnds
  <2>2. Yielded' = u \o F.out
    BY <1>9, <1>12, <2>F DEF Chunks
  <2>3. Fine(Anthropic, Functional, Yielded, Aggregated)'
    BY <1>8, <1>a, <1>m, <2>1, <2>2
  <2>4. Upheld'
    BY <1>10, <1>12, <2>3 DEF Upheld, Early
  <2> QED BY <1>1, <1>3, <1>4, <1>7, <1>8, <1>12, <2>1, <2>4 DEF Matches
<1> QED BY <1>1, <1>11, <1>12

(* The body tells of a failure with a chunk of its own, its last.          *)
LEMMA BodyFailsMatches ==
    ASSUME Shapes, Sending, Working, Flow, req.stream, Matches, BodyFails
    PROVE  Matches'
<1>1. /\ task.body = "pull" /\ gen.at = "failed" /\ gen'.at = "closed" /\ gen'.queue = << >>
      /\ task'.body = "send" /\ task'.first = task.first /\ task'.held = ErrorChunk
      /\ UNCHANGED <<req, read, resp, reply>>
  BY Releases DEF BodyFails, Shapes, TaskOk
<1>2. task.first = "ready" /\ Live /\ Live'
  BY <1>1 DEF Sending, Live
<1>3. gen.queue = << >>
  BY <1>1 DEF Working
<1>w. PICK w : w = resp.wire
  OBVIOUS
<1>4. IsSeq(w) /\ Yielded = w /\ w # << >>
  <2>1. Fetched = w
    BY <1>1, <1>w DEF Fetched, Holds
  <2> QED BY <1>1, <1>2, <1>3, <1>w, <2>1, AllFetched DEF Matches, Upheld
<1>5. Yielded' = Append(w, ErrorChunk)
  <2>1. Fetched' = Append(w, ErrorChunk)
    BY <1>1, <1>w DEF Fetched, Holds
  <2>c. PICK c : c = ErrorChunk
    OBVIOUS
  <2>2. IsSeq(Append(w, c))
    BY <1>4, OneMore
  <2>3. Append(w, c) \o << >> = Append(w, c)
    BY <2>2 DEF IsSeq
  <2> QED BY <1>1, <2>1, <2>3, <2>c DEF Yielded
<1>a. PICK a : a = Anthropic
  OBVIOUS
<1>6. Cut(a, w)
  BY <1>1, <1>2, <1>4, <1>a DEF Matches, Upheld
<1>7. Fine(a, Functional, Append(w, ErrorChunk), Aggregated)
  BY <1>4, <1>6, CutEnds
<1>8. Anthropic' = Anthropic /\ Aggregated' = Aggregated /\ Functional' = Functional
  BY <1>1, SameMessage
<1>9. Upheld'
  BY <1>1, <1>5, <1>7, <1>8, <1>a DEF Upheld, Early
<1> QED BY <1>1, <1>2, <1>8, <1>9 DEF Matches

(* The request is executed: nothing is told yet.                           *)
LEMMA ExecuteMatches ==
    ASSUME Shapes, Control, Sending, Working, req.stream, Matches, Execute
    PROVE  Matches'
<1>1. /\ main.at = "body" /\ task = NoTasks /\ gen.at = "new"
      /\ gen'.at = "connect" /\ gen'.queue = gen.queue
      /\ task'.first = "pull" /\ task'.body = task.body
      /\ UNCHANGED <<req, read, work, resp, reply>>
  BY DEF Execute, Control, Sleeping, Shapes, GenOk, TaskOk
<1>2. task.body = "none" /\ Untold /\ gen.queue = << >>
  BY <1>1 DEF Sending, NoTasks, Working
<1>3. Live'
  BY <1>1, <1>2 DEF Live
<1>4. Yielded' = << >>
  BY <1>1, <1>2 DEF Yielded, Fetched, Holds, Untold
<1>5. Cut(Anthropic, << >>)
  BY CutNone
<1>6. Fine(Anthropic, Functional, << >>, Aggregated)
  BY <1>5, CutFine
<1>7. Anthropic' = Anthropic /\ Aggregated' = Aggregated /\ Functional' = Functional
  BY <1>1, SameMessage
<1>8. Upheld'
  BY <1>1, <1>2, <1>4, <1>6, <1>7 DEF Upheld
<1> QED BY <1>1, <1>3, <1>7, <1>8 DEF Matches

(* An answer that is no stream is no message.                              *)
LEMMA SendAnswerMatches ==
    ASSUME Shapes, Control, req.stream, Matches, SendAnswer
    PROVE  Matches'
<1>1. /\ main.at = "answer" /\ task = NoTasks
      /\ resp'.status = reply.status /\ resp'.wire = <<reply.body>>
      /\ UNCHANGED <<req, gen, read, work, task, reply>>
  BY DEF SendAnswer, Control, Sleeping
<1>2. reply.status # None /\ reply.status # 200 /\ reply.body = ErrorChunk
  BY <1>1 DEF Control, Matches
<1>3. ~Live /\ ~Live'
  BY <1>1 DEF Live, NoTasks
<1>4. ~Whole(resp'.wire)
  <2>c. PICK c : c = ErrorChunk
    OBVIOUS
  <2>1. Len(<<c>>) = 1 /\ <<c>>[1] = c
    OBVIOUS
  <2>2. c.type = "error"
    BY <2>c DEF ErrorChunk
  <2> QED BY <1>1, <1>2, <2>c, <2>1, <2>2 DEF Whole, LastType, Last
<1>5. Anthropic' = Anthropic /\ Aggregated' = Aggregated /\ Functional' = Functional
  BY <1>1, SameMessage
<1> QED BY <1>1, <1>2, <1>3, <1>4, <1>5 DEF Matches, Left

(* The tasks are where they were.                                          *)
LEMMA Unmoved ==
    ASSUME Matches, req' = req, gen' = gen, read' = read, work' = work, resp' = resp,
           reply' = reply, task'.first = task.first, task'.body = task.body,
           task'.held = task.held
    PROVE  Matches'
<1>1. Live' = Live /\ Yielded' = Yielded
  BY DEF Live, Yielded, Fetched, Holds
<1>2. CASE Live
  <2>1. task'.body = "pull" => resp'.wire # << >>
    BY <1>2 DEF Matches, Upheld
  <2> QED BY <1>1, <1>2, <2>1, StaysLive
<1>3. CASE ~Live
  <2>1. reply'.status # 200 /\ (reply'.status # None => reply'.body = ErrorChunk)
    BY DEF Matches
  <2> QED BY <1>1, <1>3, <2>1, StaysLeft
<1> QED BY <1>2, <1>3

(* The generator stops or waits.                                           *)
LEMMA GeneratorRests ==
    ASSUME Matches, Live, UNCHANGED <<req, read, work, task, resp, reply>>,
           gen'.queue = gen.queue,
           (gen.at \in Early /\ gen'.at \in Early)
             \/ (gen.at \in Early \union {"stream"} /\ gen'.at = "failed")
    PROVE  Matches'
<1>1. Live' /\ Yielded' = Yielded
  BY DEF Live, Yielded, Fetched, Holds
<1>2. task'.body = "pull" => resp'.wire # << >>
  BY DEF Matches, Upheld
<1> QED BY <1>1, <1>2, StaysLive

(* A chunk is fetched.                                                     *)
LEMMA ChunkFetched ==
    ASSUME Matches, Live, Live', UNCHANGED <<req, read, work, resp, reply>>,
           IsSeq(gen.queue), IsSeq(resp.wire), gen.queue # << >>, ~Holds, Holds',
           task'.held = Head(gen.queue), gen'.queue = Tail(gen.queue), gen'.at = gen.at,
           task'.body # "pull"
    PROVE  Matches'
<1>w. PICK w : w = resp.wire
  OBVIOUS
<1>q. PICK q : q = gen.queue
  OBVIOUS
<1>1. Append(w, Head(q)) \o Tail(q) = w \o q
  <2> DEFINE S == Range(w) \union Range(q)
  <2>1. w \in Seq(S) /\ q \in Seq(S) /\ q # << >>
    BY <1>w, <1>q DEF IsSeq
  <2> HIDE DEF S
  <2> QED BY <2>1
<1>2. Yielded' = Yielded
  BY <1>1, <1>w, <1>q DEF Yielded, Fetched
<1> QED BY <1>2, StaysLive

(* The tasks are cancelled.                                                *)
LEMMA TasksCancelled ==
    ASSUME Shapes, Working, Flow, req.stream, Matches, Cancelled,
           UNCHANGED <<req, read, work, resp, reply>>
    PROVE  Matches'
<1>1. ~Live'
  BY DEF Cancelled, Live
<1>2. gen'.at \in {gen.at, "closed"}
  BY Releases DEF Cancelled, Shapes
<1>3. IsSeq(gen.queue) /\ IsSeq(resp.wire)
  BY DEF Working, Flow, Plain
<1>4. reply'.status # 200 /\ (reply'.status # None => reply'.body = ErrorChunk)
  BY DEF Matches
<1> QED BY <1>1, <1>2, <1>3, <1>4, StaysLeft, BecomesLeft

(* Every step keeps the stream and the message the same.                   *)
LEMMA TellingStep ==
    ASSUME Shapes, Control, Sending, Working, Flow, Telling, [Next]_vars
    PROVE  Telling'
<1> DEFINE Here == Shapes /\ Control /\ Sending /\ Working /\ Flow /\ req.stream /\ Matches
           Rests == UNCHANGED <<req, read, work, task, resp, reply>>
<1> SUFFICES ASSUME req'.stream PROVE Matches'
  BY DEF Telling
<1> HIDE DEF Here
<1>h. ASSUME req' = req PROVE Here
  BY <1>h DEF Here, Telling
<1>s. ASSUME req' = req, UNCHANGED <<gen, read, work, task, resp, reply>> PROVE Matches'
  BY <1>h, <1>s, Unmoved DEF Here
<1>i. Here => (main.at \in Sleeping => ~Live /\ task = NoTasks) /\ (Demand => Live)
               /\ main.at # "plain" /\ IsSeq(gen.queue) /\ IsSeq(resp.wire)
  BY DemandLive DEF Here, Live, NoTasks, Control, Flow, Working, Plain
<1>1. ASSUME NEW error \in {"connect", "sent"}, NoAnswer(error) PROVE Matches'
  <2>1. /\ gen.at = "connect" /\ Demand /\ gen'.at \in {"backoff", "failed"}
        /\ gen'.queue = gen.queue /\ Rests
    BY <1>1 DEF NoAnswer, Runs, Shapes, GenOk
  <2> QED BY <1>h, <1>i, <2>1, GeneratorRests DEF Here, Early
<1>2. CASE UpstreamRefuses
  <2>1. /\ gen.at = "connect" /\ Demand /\ gen'.at = "failed"
        /\ gen'.queue = gen.queue /\ Rests
    BY <1>2 DEF UpstreamRefuses, Runs, Shapes, GenOk
  <2> QED BY <1>h, <1>i, <2>1, GeneratorRests DEF Here, Early
<1>3. CASE UpstreamAccepts
  <2>1. req' = req
    BY <1>3 DEF UpstreamAccepts
  <2> QED BY <1>3, <1>h, <2>1, AcceptsMatches DEF Here
<1>4. ASSUME NEW e \in Events, Reads(e) PROVE Matches'
  <2>1. req' = req
    BY <1>4 DEF Reads
  <2> QED BY <1>4, <1>h, <2>1, ReadsMatches DEF Here
<1>5. ASSUME NEW done \in BOOLEAN, StreamEnds(done) PROVE Matches'
  <2>1. req' = req
    BY <1>5 DEF StreamEnds
  <2> QED BY <1>5, <1>h, <2>1, EndsMatches DEF Here
<1>6. CASE ReadFails
  <2>1. /\ gen.at = "stream" /\ Demand /\ gen'.at = "failed"
        /\ gen'.queue = gen.queue /\ Rests
    BY <1>6, Releases DEF ReadFails, Runs, Shapes
  <2> QED BY <1>h, <1>i, <2>1, GeneratorRests DEF Here, Early
<1>7. CASE BodyLost
  BY <1>7, <1>s DEF BodyLost
<1>8. ASSUME NEW status \in {400, 401, 500}, Refuses(status) PROVE Matches'
  <2>1. /\ main.at = "body" /\ reply' = [status |-> status, body |-> ErrorChunk]
        /\ UNCHANGED <<req, gen, read, task, resp>>
    BY <1>8 DEF Refuses
  <2>2. Here /\ ~Live /\ ~Live'
    BY <1>h, <1>i, <2>1 DEF Sleeping, Live
  <2>3. reply'.status # 200 /\ reply'.body = ErrorChunk
    BY <2>1
  <2> QED BY <2>1, <2>2, <2>3, StaysLeft DEF Here
<1>9. CASE Execute
  <2>1. req' = req
    BY <1>9 DEF Execute
  <2> QED BY <1>9, <1>h, <2>1, ExecuteMatches DEF Here
<1>10. CASE WaitBeforeRetry
  <2>1. /\ gen.at = "backoff" /\ Demand /\ gen'.at = "connect"
        /\ gen'.queue = gen.queue /\ Rests
    BY <1>10 DEF WaitBeforeRetry, Runs, Shapes, GenOk
  <2> QED BY <1>h, <1>i, <2>1, GeneratorRests DEF Here, Early
<1>11. CASE FirstChunk
  <2>1. /\ task.first = "pull" /\ gen.queue # << >>
        /\ task'.first = "ready" /\ task'.body = task.body /\ task'.held = Head(gen.queue)
        /\ gen'.queue = Tail(gen.queue) /\ gen'.at = gen.at
        /\ UNCHANGED <<req, read, work, resp, reply>>
    BY <1>11 DEF FirstChunk, Shapes, TaskOk, GenOk
  <2>2. task.body = "none"
    BY <2>1 DEF Sending
  <2>3. Live /\ Live' /\ ~Holds /\ Holds' /\ task'.body # "pull"
    BY <2>1, <2>2 DEF Live, Holds
  <2> QED BY <1>h, <1>i, <2>1, <2>3, ChunkFetched DEF Here
<1>12. CASE FirstFails
  <2>1. /\ task.first = "pull" /\ gen.queue = << >>
        /\ task'.first = "failed" /\ task'.body = task.body /\ task'.held = task.held
        /\ gen'.queue = << >> /\ gen'.at = "closed"
        /\ UNCHANGED <<req, read, work, resp, reply>>
    BY <1>12, Releases DEF FirstFails, Shapes, TaskOk
  <2>2. task.body = "none"
    BY <2>1 DEF Sending
  <2>3. Live /\ Live' /\ Yielded' = Yielded /\ task'.body # "pull"
    BY <2>1, <2>2 DEF Live, Holds, Yielded, Fetched
  <2> QED BY <1>h, <2>1, <2>3, StaysLive DEF Here
<1>13. CASE NextChunk
  <2>1. /\ task.body = "pull" /\ gen.queue # << >>
        /\ task'.first = task.first /\ task'.body = "send" /\ task'.held = Head(gen.queue)
        /\ gen'.queue = Tail(gen.queue) /\ gen'.at = gen.at
        /\ UNCHANGED <<req, read, work, resp, reply>>
    BY <1>13 DEF NextChunk, Shapes, TaskOk, GenOk
  <2>2. task.first = "ready"
    BY <2>1 DEF Sending
  <2>3. Live /\ Live' /\ ~Holds /\ Holds' /\ task'.body # "pull"
    BY <2>1, <2>2 DEF Live, Holds
  <2> QED BY <1>h, <1>i, <2>1, <2>3, ChunkFetched DEF Here
<1>14. CASE BodyFails
  <2>1. req' = req
    BY <1>14 DEF BodyFails
  <2> QED BY <1>14, <1>h, <2>1, BodyFailsMatches DEF Here
<1>15. CASE BodyEnds
  <2>1. /\ task.body = "pull" /\ gen.queue = << >>
        /\ task'.first = task.first /\ task'.body = "final" /\ task'.held = task.held
        /\ gen'.queue = << >> /\ gen'.at = "closed"
        /\ UNCHANGED <<req, read, work, resp, reply>>
    BY <1>15, Releases DEF BodyEnds, Shapes, TaskOk
  <2>2. task.first = "ready"
    BY <2>1 DEF Sending
  <2>3. Live /\ Live' /\ Yielded' = Yielded /\ task'.body # "pull"
    BY <2>1, <2>2 DEF Live, Holds, Yielded, Fetched
  <2> QED BY <1>h, <2>1, <2>3, StaysLive DEF Here
<1>16. CASE SendStart
  <2>1. /\ task.body = "start" /\ resp'.wire = resp.wire
        /\ task'.first = task.first /\ task'.body = "send" /\ task'.held = task.held
        /\ UNCHANGED <<req, gen, read, work, reply>>
    BY <1>16 DEF SendStart, Shapes, TaskOk, RespOk
  <2>2. task.first = "ready"
    BY <2>1 DEF Sending
  <2>3. Live /\ Live' /\ Yielded' = Yielded /\ task'.body # "pull"
    BY <2>1, <2>2 DEF Live, Holds, Yielded, Fetched
  <2> QED BY <1>h, <2>1, <2>3, StaysLive DEF Here
<1>17. CASE SendChunk
  <2>1. /\ task.body = "send" /\ resp'.wire = Append(resp.wire, task.held)
        /\ task'.first = task.first /\ task'.body = "pull"
        /\ UNCHANGED <<req, gen, read, work, reply>>
    BY <1>17 DEF SendChunk, Shapes, TaskOk, RespOk
  <2>2. task.first = "ready"
    BY <2>1 DEF Sending
  <2>3. Live /\ Live' /\ Yielded' = Yielded
    BY <2>1, <2>2 DEF Live, Holds, Yielded, Fetched
  <2>w. PICK w : w = resp.wire
    OBVIOUS
  <2>4. IsSeq(w)
    BY <2>w DEF Flow
  <2>5. resp'.wire # << >>
    BY <2>1, <2>4, <2>w, OneMore
  <2> QED BY <1>h, <2>1, <2>3, <2>5, StaysLive DEF Here
<1>18. CASE SendFinal
  <2>1. /\ task.body = "final" /\ resp'.wire = resp.wire
        /\ task'.first = task.first /\ task'.body = "done" /\ task'.held = task.held
        /\ UNCHANGED <<req, gen, read, work, reply>>
    BY <1>18 DEF SendFinal, Shapes, TaskOk, RespOk
  <2>2. task.first = "ready"
    BY <2>1 DEF Sending
  <2>3. Live /\ Live' /\ Yielded' = Yielded /\ task'.body # "pull"
    BY <2>1, <2>2 DEF Live, Holds, Yielded, Fetched
  <2> QED BY <1>h, <2>1, <2>3, StaysLive DEF Here
<1>19. CASE SendFails
  <2>1. /\ task.body \in {"start", "send", "final"} /\ task'.body = "oserror"
        /\ UNCHANGED <<req, gen, read, work, resp, reply>>
    BY <1>19 DEF SendFails, Shapes, TaskOk
  <2>2. Live /\ ~Live'
    BY <2>1 DEF Sending, Live
  <2> QED BY <1>h, <1>i, <2>1, <2>2, BecomesLeft DEF Here
<1>20. CASE WatchSees
  <2>1. /\ task'.first = task.first /\ task'.body = task.body /\ task'.held = task.held
        /\ UNCHANGED <<req, gen, read, work, resp, reply>>
    BY <1>20 DEF WatchSees, Shapes, TaskOk
  <2> QED BY <1>h, <2>1, Unmoved DEF Here
<1>21. CASE AwaitFirst
  <2>1. UNCHANGED <<req, gen, read, work, resp, reply>>
    BY <1>21 DEF AwaitFirst
  <2>2. CASE task' = task
    BY <1>s, <2>1, <2>2
  <2>3. CASE task' # task
    <3>1. /\ main.at = "first" /\ task.first = "ready" /\ task'.first = task.first
          /\ task'.body = "start" /\ task'.held = task.held
      BY <1>21, <2>3 DEF AwaitFirst, Shapes, TaskOk
    <3>2. task.body = "none"
      BY <3>1 DEF Sending
    <3>3. Live /\ Live' /\ Yielded' = Yielded /\ task'.body # "pull"
      BY <2>1, <3>1, <3>2 DEF Live, Holds, Yielded, Fetched
    <3> QED BY <1>h, <2>1, <3>3, StaysLive DEF Here
  <2> QED BY <2>2, <2>3
<1>22. CASE AwaitStream
  BY <1>22, <1>s DEF AwaitStream
<1>23. CASE Cleanup
  BY <1>23, <1>h, TasksCancelled DEF Cleanup, Here
<1>24. CASE Close
  <2>1. /\ main.at = "closing" /\ gen'.at = "closed"
        /\ reply' = reply \/ reply' = [status |-> 502, body |-> ErrorChunk]
        /\ UNCHANGED <<req, read, task, resp>>
    BY <1>24, Releases DEF Close, CloseCallback, Shapes
  <2>2. Here /\ ~Live /\ ~Live'
    BY <1>h, <1>i, <2>1 DEF Sleeping, Live
  <2>3. reply'.status # 200 /\ (reply'.status # None => reply'.body = ErrorChunk)
    BY <2>1, <2>2 DEF Here, Matches
  <2> QED BY <2>1, <2>2, <2>3, StaysLeft DEF Here
<1>25. CASE PlainAnswer
  BY <1>25, <1>h, <1>i DEF PlainAnswer
<1>26. CASE PlainFails
  BY <1>26, <1>h, <1>i DEF PlainFails
<1>27. CASE SendAnswer
  <2>1. req' = req
    BY <1>27 DEF SendAnswer
  <2> QED BY <1>27, <1>h, <2>1, SendAnswerMatches DEF Here
<1>28. CASE AnswerFails
  BY <1>28, <1>s DEF AnswerFails
<1>29. CASE CompleteResponse
  BY <1>29, <1>s DEF CompleteResponse
<1>30. ASSUME NEW ok \in BOOLEAN, Record(ok) PROVE Matches'
  BY <1>30, <1>s DEF Record
<1>31. CASE CompletionReturns
  BY <1>31, <1>s DEF CompletionReturns
<1>32. CASE ClientLeaves
  BY <1>32, <1>s DEF ClientLeaves
<1>33. CASE ServerCancels
  <2>1. /\ main.at = "cleanup" => Cancelled
        /\ main.at \in {"first", "stream", "body", "answer", "closing", "completing"} =>
             UNCHANGED <<task, gen>>
        /\ main.at \in {"cleanup", "first", "stream", "body", "answer", "closing",
                        "completing", "plain"}
        /\ UNCHANGED <<req, read, work, resp, reply>>
    BY <1>33, CancelEffect DEF Shapes
  <2>2. CASE main.at = "cleanup"
    BY <1>h, <2>1, <2>2, TasksCancelled DEF Here
  <2>3. CASE main.at # "cleanup"
    BY <1>h, <1>i, <1>s, <2>1, <2>3
  <2> QED BY <2>2, <2>3
<1>34. CASE UNCHANGED vars
  BY <1>34, <1>s DEF vars
<1> QED
  BY ONLY [Next]_vars, <1>1, <1>2, <1>3, <1>4, <1>5, <1>6, <1>7, <1>8, <1>9, <1>10,
     <1>11, <1>12, <1>13, <1>14, <1>15, <1>16, <1>17, <1>18, <1>19, <1>20, <1>21,
     <1>22, <1>23, <1>24, <1>25, <1>26, <1>27, <1>28, <1>29, <1>30, <1>31, <1>32,
     <1>33, <1>34 DEF Next, Upstream, Request, CompletionsRefuses, MessagesRefuses

-----------------------------------------------------------------------------
(* Nothing is told before the request is read.                             *)
LEMMA TellingInit == ASSUME Init PROVE Telling
<1>1. IsSeq(read.events)
  BY SeqNone DEF Init, NotRead
<1>2. gen.at = "new" /\ ~Live
  BY DEF Init, Live, NoTasks
<1>3. reply.status = None /\ None # 200
  BY NoneIsNothing DEF Init, NoReply, Statuses
<1>4. Left
  <2>1. resp.wire = << >>
    BY DEF Init
  <2> QED BY <2>1, CutNone, CutFine DEF Left
<1> QED BY <1>1, <1>2, <1>3, <1>4 DEF Telling, Matches

(* The stream tells the message in every behaviour.                        *)
LEMMA TellingAlways == Spec => [](StreamInv /\ Telling)
<1>1. Init => StreamInv /\ Telling
  BY StreamInit, TellingInit
<1>2. StreamInv /\ Telling /\ [Next]_vars => (StreamInv /\ Telling)'
  BY StreamStep, TellingStep DEF StreamInv
<1> QED BY <1>1, <1>2, PTL DEF Spec

(* A client of the stream gets what a client of the message would get of   *)
(* the same upstream events, however the chunks are cut and whenever the   *)
(* two tasks of the response run: the chunks are well formed at every      *)
(* point, a message that would be refused is not told to its end, and one  *)
(* that is told to its end has the same blocks: for OpenAI the same text   *)
(* and thinking, and the same tool calls if none of the events' was bare.  *)
THEOREM TellsTheMessage == Spec => []StreamTellsMessage
<1>1. StreamInv /\ Telling => StreamTellsMessage
  <2> SUFFICES ASSUME StreamInv, Matches, req.stream
               PROVE  /\ Anthropic /\ resp.status = 200 => WellFormed(resp.wire)
                      /\ gen.at \in {"stream", "last"} => ~Aggregated.bad
                      /\ Whole(resp.wire) => TellsOf(Anthropic, Functional, resp.wire, Aggregated)
    BY DEF Telling, StreamTellsMessage, TellsOf, SaysOf, Functional
  <2>1. IsSeq(gen.queue) /\ IsSeq(resp.wire)
    BY DEF StreamInv, Working, Flow, Plain
  <2>2. CASE Live
    <3>1. Fine(Anthropic, Functional, resp.wire, Aggregated)
      BY <2>1, <2>2, GotFine
    <3> QED BY <3>1 DEF Fine, Matches
  <2>3. CASE ~Live
    BY <2>3 DEF Matches, Left, Fine
  <2> QED BY <2>2, <2>3
<1> QED BY <1>1, TellingAlways, PTL
=============================================================================
