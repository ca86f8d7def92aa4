----------------------------- MODULE ReportJobs -----------------------------
(***************************************************************************)
(* The asynchronous report pipeline end to end: POST /documents/generate   *)
(* and GET /jobs/{id}/stream (RAG/app.py), the jobs table                  *)
(* (RAG/services/jobs.py), the Kafka topic and the workers (JobQueue.tla,  *)
(* RAG/worker.py), the shared execution core (RAG/services/report_jobs.py) *)
(* and the Redis pub/sub bridge that carries progress back                 *)
(* (RAG/services/job_events.py).                                           *)
(*                                                                         *)
(* An executor is a worker, or an API pod running job j inline after Kafka *)
(* refused it; the inline executor of j is named j.  Steps are separated   *)
(* where the code awaits: between two of them other pods, other requests,  *)
(* a crash or a disconnect may come in.  Progress events that end nothing  *)
(* (status, section_start, ...) are left out: no control depends on them.  *)
(***************************************************************************)
EXTENDS JobQueue, SequencesExt

CONSTANTS
    TitleOf,          \* the slugified title each job asks for
    Reconnecting,     \* jobs for which a second client opens /jobs/{id}/stream
    KafkaMayFail,     \* enqueue may return False
    RedisMayFail,     \* subscribe and publish may fail
    PostgresMayFail,  \* statements on the jobs table may fail
    GraphMayFail,     \* run_report_job may raise before it signals completion
    HandlerMayFail,   \* the handler may raise outside run_report_job
    ClientsMayLeave   \* a client may disconnect, or its API pod may die

ASSUME PipelineAssumption ==
    /\ Jobs \cap Workers = {}
    /\ Reconnecting \subseteq Jobs
    /\ {KafkaMayFail, RedisMayFail, PostgresMayFail, GraphMayFail,
        HandlerMayFail, ClientsMayLeave} \subseteq BOOLEAN

Titles == {TitleOf[j] : j \in Jobs}
Executors == Workers \cup Jobs
Streams == Jobs \X {"generate", "reconnect"}
Gen(j) == <<j, "generate">>
Rec(j) == <<j, "reconnect">>

Statuses == {"absent", "queued", "running", "done", "error"}
Terminal == {"done", "error"}
Events == {"complete", "error", "done"}

\* The Python None of a missing row is not a status.
ASSUME NoRowAssumption == None \notin Statuses

\* Faulty variant: an error does not end a live bridge.
WithoutError == {"complete", "done"}

TerminalEvents == {"complete", "error", "done"}

Stages == {"off", "source", "graph", "written", "index",
           "mark_done", "mark_error"}
Phases == {"new", "created", "subscribed", "refused", "checked", "bridge",
           "poll", "inline", "ended", "cut"}

\* Nothing runs for the stream any more; "cut" is an inline run whose client left.
Over == {"ended", "cut"}

VARIABLES
    row,        \* row[j]: the status of j's row in the jobs table
    result,     \* result[j]: the source suffix in the row's result, 0 if none
    stage,      \* stage[x]: where executor x is in run_report_job
    source,     \* source[x]: the suffix x chose for its report's file name
    files,      \* files[t][n]: the job that last wrote workspace file <t>-<n>.md
    phase,      \* phase[s]: where the SSE handler of stream s is
    subscribed, \* subscribed[s]: s holds a pub/sub subscription
    inbox,      \* inbox[s]: published events s has not read yet
    sent,       \* sent[s]: the events s has sent to its client
    announced   \* history: jobs with a terminal event that Redis accepted

execVars   == <<stage, source, files>>
rowVars    == <<row, result>>
streamVars == <<phase, subscribed, inbox, sent>>
vars == <<queueVars, execVars, rowVars, streamVars, announced>>

TypeOK ==
    /\ QTypeOK
    /\ row \in [Jobs -> Statuses]
    /\ result \in [Jobs -> Nat]
    /\ stage \in [Executors -> Stages]
    /\ source \in [Executors -> Nat]
    /\ files \in [Titles -> Seq(Jobs)]
    /\ phase \in [Streams -> Phases]
    /\ subscribed \in [Streams -> BOOLEAN]
    /\ inbox \in [Streams -> Seq(Events)]
    /\ sent \in [Streams -> Seq(Events)]
    /\ announced \subseteq Jobs

Init ==
    /\ QInit
    /\ row = [j \in Jobs |-> "absent"]
    /\ result = [j \in Jobs |-> 0]
    /\ stage = [x \in Executors |-> "off"]
    /\ source = [x \in Executors |-> 0]
    /\ files = [t \in Titles |-> <<>>]
    /\ phase = [s \in Streams |-> "new"]
    /\ subscribed = [s \in Streams |-> FALSE]
    /\ inbox = [s \in Streams |-> <<>>]
    /\ sent = [s \in Streams |-> <<>>]
    /\ announced = {}

-----------------------------------------------------------------------------
\* Helpers

\* The job executor x runs.
JobOf(x) == IF x \in Workers THEN log[current[x]][batch[x][current[x]].from + 1]
                             ELSE x

\* UPDATE jobs SET status = ... WHERE job_id = ...: unconditional, silent when
\* the row does not exist, dropped when Postgres fails.
SetRow(j, status, n) ==
    \/ /\ row' = [row EXCEPT ![j] = IF @ = "absent" THEN @ ELSE status]
       /\ result' = [result EXCEPT ![j] =
                        IF row[j] # "absent" /\ status = "done" THEN n ELSE @]
    \/ PostgresMayFail /\ UNCHANGED rowVars

\* What SELECT on the row returns; None stands for a failed statement or no row.
ReadRow(j, status) ==
    \/ status = IF row[j] = "absent" THEN None ELSE row[j]
    \/ PostgresMayFail /\ status = None

\* redis.publish on j's channel reaches exactly the present subscribers.
Publish(j, event) ==
    \/ /\ inbox' = [s \in Streams |->
                        IF s[1] = j /\ subscribed[s] THEN Append(inbox[s], event)
                                                     ELSE inbox[s]]
       /\ announced' = announced \cup {j}
    \/ RedisMayFail /\ UNCHANGED <<inbox, announced>>

\* The handler of stream s returns; its subscription is closed.
EndStream(s) ==
    /\ phase' = [phase EXCEPT ![s] = "ended"]
    /\ subscribed' = [subscribed EXCEPT ![s] = FALSE]
    /\ inbox' = [inbox EXCEPT ![s] = <<>>]

SendAll(s, events) == sent' = [sent EXCEPT ![s] = @ \o events]

StreamTo(s, p) == phase' = [phase EXCEPT ![s] = p]
StageTo(x, g) == stage' = [stage EXCEPT ![x] = g]

-----------------------------------------------------------------------------
\* POST /documents/generate: create the row, subscribe, enqueue, then relay.

\* jobs.create_job; the handler ignores whether it succeeded.
CreateJob(j) ==
    /\ phase[Gen(j)] = "new"
    /\ StreamTo(Gen(j), "created")
    /\ \/ row' = [row EXCEPT ![j] = "queued"]
       \/ PostgresMayFail /\ UNCHANGED row
    /\ UNCHANGED <<queueVars, execVars, result, subscribed, inbox, sent,
                   announced>>

\* job_events.open_subscription, awaited before the job is enqueued.
OpenSubscription(j) ==
    /\ phase[Gen(j)] = "created"
    /\ StreamTo(Gen(j), "subscribed")
    /\ \/ subscribed' = [subscribed EXCEPT ![Gen(j)] = TRUE]
       \/ RedisMayFail /\ UNCHANGED subscribed
    /\ UNCHANGED <<queueVars, execVars, rowVars, inbox, sent, announced>>

\* Faulty variant: the subscription, a lazy generator, is not made when the job
\* is enqueued.
EnqueuedBeforeSubscribing(j) ==
    /\ phase[Gen(j)] = "subscribed"
    /\ SendAndWait(j)
    /\ StreamTo(Gen(j), "bridge")
    /\ subscribed' = [subscribed EXCEPT ![Gen(j)] = FALSE]
    /\ UNCHANGED <<execVars, rowVars, inbox, sent, announced>>

\* enqueue returned True: bridge live progress, or poll the table without Redis.
Enqueued(j) ==
    /\ phase[Gen(j)] = "subscribed"
    /\ SendAndWait(j)
    /\ StreamTo(Gen(j), IF subscribed[Gen(j)] THEN "bridge" ELSE "poll")
    /\ UNCHANGED <<execVars, rowVars, subscribed, inbox, sent, announced>>

\* enqueue returns False: there is no producer, or send_and_wait raises, also
\* when the broker took the message and the acknowledgement was lost.
EnqueueFails(j) == SendAndWait(j) \/ UNCHANGED queueVars

\* The handler learns of it and waits for close_subscription; a worker may run
\* the job meanwhile, if the broker has it.
EnqueueRefused(j) ==
    /\ KafkaMayFail
    /\ phase[Gen(j)] = "subscribed"
    /\ EnqueueFails(j)
    /\ StreamTo(Gen(j), "refused")
    /\ UNCHANGED <<execVars, rowVars, subscribed, inbox, sent, announced>>

\* The subscription is closed; mark_running, whatever the row says by now, and
\* the graph runs inline.
RunInline(j) ==
    /\ phase[Gen(j)] = "refused"
    /\ subscribed' = [subscribed EXCEPT ![Gen(j)] = FALSE]
    /\ inbox' = [inbox EXCEPT ![Gen(j)] = <<>>]
    /\ SetRow(j, "running", 0)
    /\ StageTo(j, "source")
    /\ StreamTo(Gen(j), "inline")
    /\ UNCHANGED <<queueVars, source, files, sent, announced>>

-----------------------------------------------------------------------------
\* run_report_job, driven by a worker or inline.

\* A worker takes the next message: mark_running, then the report graph.
StartJob(w, p) ==
    /\ Begin(w, p)
    /\ SetRow(log[p][batch[w][p].from + 1], "running", 0)
    /\ StageTo(w, "source")
    /\ UNCHANGED <<source, files, streamVars, announced>>

\* Faulty variant: the slug of the title without a suffix.
SlugOnly(t) == 1

\* The first suffix of title t with no file yet.
FreshSuffix(t) == Len(files[t]) + 1

\* unique_workspace_source.  The file itself is written only after the whole
\* graph has run.
ChooseSource(x) ==
    /\ stage[x] = "source"
    /\ source' = [source EXCEPT ![x] = FreshSuffix(TitleOf[JobOf(x)])]
    /\ StageTo(x, "graph")
    /\ UNCHANGED <<queueVars, files, rowVars, streamVars, announced>>

\* The graph has finished; write_text creates or replaces the file.
WriteReport(x) ==
    /\ stage[x] = "graph"
    /\ LET t == TitleOf[JobOf(x)] IN
       files' = [files EXCEPT ![t] = IF source[x] \in DOMAIN @
                                     THEN [@ EXCEPT ![source[x]] = JobOf(x)]
                                     ELSE Append(@, JobOf(x))]
    /\ StageTo(x, "written")
    /\ UNCHANGED <<queueVars, source, rowVars, streamVars, announced>>

\* The "complete" event: published by a worker, stored and sent when inline.
SignalComplete(x) ==
    /\ stage[x] = "written"
    /\ StageTo(x, "index")
    /\ \/ /\ x \in Workers
          /\ Publish(JobOf(x), "complete")
          /\ UNCHANGED <<rowVars, sent>>
       \/ /\ x \in Jobs
          /\ SetRow(x, "done", source[x])
          /\ SendAll(Gen(x), <<"complete">>)
          /\ UNCHANGED <<inbox, announced>>
    /\ UNCHANGED <<queueVars, source, files, phase, subscribed>>

\* Indexing and export, best effort, then "done".
SignalDone(x) ==
    /\ stage[x] = "index"
    /\ \/ /\ x \in Workers
          /\ Publish(JobOf(x), "done")
          /\ StageTo(x, "mark_done")
          /\ UNCHANGED <<sent, phase, subscribed>>
       \/ /\ x \in Jobs
          /\ SendAll(Gen(x), <<"done">>)
          /\ EndStream(Gen(x))
          /\ StageTo(x, "off")
          /\ UNCHANGED announced
    /\ UNCHANGED <<queueVars, source, files, rowVars>>

\* Faulty variant: a failing worker marks the row without publishing the error.
FailJobSilently(x) ==
    /\ GraphMayFail
    /\ stage[x] \in {"source", "graph", "written"}
    /\ x \in Workers
    /\ StageTo(x, "mark_error")
    /\ UNCHANGED <<queueVars, source, files, rowVars, streamVars, announced>>

\* Any exception before "complete", the write of the registry included.
FailJob(x) ==
    /\ GraphMayFail
    /\ stage[x] \in {"source", "graph", "written"}
    /\ \/ /\ x \in Workers
          /\ Publish(JobOf(x), "error")
          /\ StageTo(x, "mark_error")
          /\ UNCHANGED <<rowVars, sent, phase, subscribed>>
       \/ /\ x \in Jobs
          /\ SetRow(x, "error", 0)
          /\ SendAll(Gen(x), <<"error">>)
          /\ EndStream(Gen(x))
          /\ StageTo(x, "off")
          /\ UNCHANGED announced
    /\ UNCHANGED <<queueVars, source, files>>

\* Faulty variant: the error branch forgets the row.
MarkOnlyDone(w) ==
    /\ \/ stage[w] = "mark_done" /\ SetRow(JobOf(w), "done", source[w])
       \/ stage[w] = "mark_error" /\ UNCHANGED rowVars
    /\ End(w)
    /\ StageTo(w, "off")
    /\ UNCHANGED <<source, files, streamVars, announced>>

\* End of handle_report_generate: mark_done or mark_error, and the message is
\* handled.
MarkOutcome(w) ==
    /\ \/ stage[w] = "mark_done" /\ SetRow(JobOf(w), "done", source[w])
       \/ stage[w] = "mark_error" /\ SetRow(JobOf(w), "error", 0)
    /\ End(w)
    /\ StageTo(w, "off")
    /\ UNCHANGED <<source, files, streamVars, announced>>

\* The handler raises outside run_report_job (graph construction, a malformed
\* payload): _process_message marks the row and publishes nothing.
HandlerRaises(w) ==
    /\ HandlerMayFail
    /\ stage[w] = "source"
    /\ SetRow(JobOf(w), "error", 0)
    /\ End(w)
    /\ StageTo(w, "off")
    /\ UNCHANGED <<source, files, streamVars, announced>>

\* A worker pod is killed, in the middle of a job or not.
WorkerCrash(w) ==
    /\ Crash(w)
    /\ StageTo(w, "off")
    /\ UNCHANGED <<source, files, rowVars, streamVars, announced>>

\* Faulty variant: the consumer commits its position in the background
\* (enable_auto_commit=True), handled or not.
LoopStepAutoCommit(w) ==
    /\ \/ Poll(w) \/ Commit(w) \/ CommitRejected(w) \/ Shutdown(w) \/ Restart(w)
       \/ \E p \in Partitions : Assign(p, w) \/ Rebalance(p, w)
       \/ /\ committed' = [p \in Partitions |-> IF owner[p] = w THEN position[p]
                                                ELSE committed[p]]
          /\ UNCHANGED <<log, owner, position, workerVars, faultVars, handled>>
    /\ UNCHANGED <<execVars, rowVars, streamVars, announced>>

\* Steps of the consume loop that touch nothing but the queue.
LoopStep(w) ==
    /\ \/ Poll(w) \/ Commit(w) \/ CommitRejected(w) \/ Shutdown(w) \/ Restart(w)
       \/ \E p \in Partitions : Assign(p, w) \/ Rebalance(p, w)
    /\ UNCHANGED <<execVars, rowVars, streamVars, announced>>

-----------------------------------------------------------------------------
\* The SSE handlers while they wait.

\* iter_messages: relay one event; stop after a terminal one.  With nothing to
\* relay get_message returns None at its own timeout, before the outer wait_for
\* can expire, and the loop goes round again: no step of the stream.
RelayEvent(s) ==
    /\ phase[s] = "bridge"
    /\ inbox[s] # <<>>
    /\ SendAll(s, <<Head(inbox[s])>>)
    /\ IF Head(inbox[s]) \in TerminalEvents
       THEN EndStream(s)
       ELSE inbox' = [inbox EXCEPT ![s] = Tail(@)] /\ UNCHANGED <<phase, subscribed>>
    /\ UNCHANGED <<queueVars, execVars, rowVars, announced>>

\* Faulty variant: the raw sentinel in place of the event name.
FromRowRaw(status) == IF status = "done" THEN <<"complete", "[DONE]">>
                                         ELSE <<"error">>

\* Events synthesized from a row in a terminal status.
FromRow(status) == IF status = "done" THEN <<"complete", "done">> ELSE <<"error">>

\* _poll_job_progress finds the row in a terminal status.
PollRow(s) ==
    /\ phase[s] = "poll"
    /\ \E status \in Terminal :
        /\ ReadRow(s[1], status)
        /\ SendAll(s, FromRow(status))
    /\ EndStream(s)
    /\ UNCHANGED <<queueVars, execVars, rowVars, announced>>

\* _poll_job_progress gives up after its timeout.
PollTimeout(s) ==
    /\ phase[s] = "poll"
    /\ SendAll(s, <<"error">>)
    /\ EndStream(s)
    /\ UNCHANGED <<queueVars, execVars, rowVars, announced>>

\* GET /jobs/{id}/stream, first half: look at the row.
Reconnect(j) ==
    /\ j \in Reconnecting
    /\ phase[Gen(j)] # "new"
    /\ phase[Rec(j)] = "new"
    /\ \E status \in Statuses \cup {None} :
        /\ ReadRow(j, status)
        /\ \/ /\ status \in Terminal \cup {None}
              /\ SendAll(Rec(j), FromRow(status))
              /\ EndStream(Rec(j))
           \/ /\ status \notin Terminal \cup {None}
              /\ StreamTo(Rec(j), "checked")
              /\ UNCHANGED <<subscribed, inbox, sent>>
    /\ UNCHANGED <<queueVars, execVars, rowVars, announced>>

\* Second half, after an await: subscribe, or poll without Redis.
ReconnectSubscribe(j) ==
    /\ phase[Rec(j)] = "checked"
    /\ \/ /\ subscribed' = [subscribed EXCEPT ![Rec(j)] = TRUE]
          /\ StreamTo(Rec(j), "bridge")
       \/ /\ RedisMayFail
          /\ StreamTo(Rec(j), "poll")
          /\ UNCHANGED subscribed
    /\ UNCHANGED <<queueVars, execVars, rowVars, inbox, sent, announced>>

\* The client disconnects or its API pod dies: the generator is cancelled at
\* its await, an inline run with it.
ClientLeaves(s) ==
    /\ ClientsMayLeave
    /\ phase[s] \notin {"new"} \cup Over
    /\ phase' = [phase EXCEPT ![s] = IF @ = "inline" THEN "cut" ELSE "ended"]
    /\ subscribed' = [subscribed EXCEPT ![s] = FALSE]
    /\ inbox' = [inbox EXCEPT ![s] = <<>>]
    /\ stage' = [x \in Executors |-> IF x = s[1] /\ phase[s] = "inline"
                                      THEN "off" ELSE stage[x]]
    /\ UNCHANGED <<queueVars, source, files, rowVars, sent, announced>>

-----------------------------------------------------------------------------

Submit(j) ==
    \/ CreateJob(j) \/ OpenSubscription(j)
    \/ Enqueued(j) \/ EnqueueRefused(j) \/ RunInline(j)
Execute(x) == ChooseSource(x) \/ WriteReport(x) \/ SignalComplete(x) \/ SignalDone(x)
Relay(s) == RelayEvent(s) \/ PollRow(s) \/ PollTimeout(s)

Next ==
    \/ \E j \in Jobs : Submit(j) \/ Reconnect(j) \/ ReconnectSubscribe(j)
    \/ \E x \in Executors : Execute(x) \/ FailJob(x)
    \/ \E w \in Workers :
        \/ \E p \in Partitions : StartJob(w, p)
        \/ MarkOutcome(w) \/ HandlerRaises(w) \/ WorkerCrash(w) \/ LoopStep(w)
    \/ \E s \in Streams : Relay(s) \/ ClientLeaves(s)

Spec == Init /\ [][Next]_vars

\* Coroutines that can run do run; the report graph ends (its recursion_limit
\* is 50); Kubernetes and the broker do their part as in JobQueue.
Fairness ==
    /\ \A j \in Jobs : WF_vars(Submit(j) /\ phase[Gen(j)] # "new")
                      /\ WF_vars(ReconnectSubscribe(j))
    /\ \A x \in Executors : WF_vars(Execute(x))
    /\ \A w \in Workers :
        /\ WF_vars(\E p \in Partitions : StartJob(w, p))
        /\ WF_vars(MarkOutcome(w))
        /\ WF_vars((Poll(w) \/ Commit(w) \/ CommitRejected(w) \/ Restart(w))
                   /\ LoopStep(w))
    /\ \A p \in Partitions :
        WF_vars(\E w \in Workers : Assign(p, w) /\ LoopStep(w))
    /\ \A s \in Streams : WF_vars(RelayEvent(s)) /\ WF_vars(PollRow(s) \/ PollTimeout(s))

FairSpec == Spec /\ Fairness

-----------------------------------------------------------------------------
\* Properties that hold

\* No two executions overlap: partitions move only when their worker died, there
\* is one at most, and nothing runs inline.
OneAtATime == rebalances = 0 /\ (\A p, q \in Partitions : p = q) /\ ~KafkaMayFail

\* A row that says "done" names a report that is on disk, whichever executor
\* wrote it and however often the job ran (mark_done gets the result of a
\* "complete" event, which follows write_text).  As long as executions do not
\* overlap it is the job's own, although redelivered jobs write a second file and
\* other jobs ask for the same title (unique_workspace_source).
DoneRowHasOwnReport ==
    \A j \in Jobs : row[j] = "done" =>
        /\ result[j] \in DOMAIN files[TitleOf[j]]
        /\ OneAtATime => files[TitleOf[j]][result[j]] = j

\* Subscribing before enqueueing works: a client on the live bridge of its own
\* request has every terminal event Redis accepted for the job waiting for it.
LiveBridgeMissesNothing ==
    \A j \in Jobs : phase[Gen(j)] = "bridge" /\ j \in announced
                        => inbox[Gen(j)] # <<>>

\* No client is told both that its report is ready and that it failed, even when
\* a redelivered job ends differently the second time.
OneVerdictPerClient ==
    \A s \in Streams : ~({"complete", "error"} \subseteq ToSet(sent[s]))

\* Nobody is working on j.
Quiet(j) == \A x \in Executors : stage[x] # "off" => JobOf(x) # j

\* When partitions change hands only because a worker died and no update of the
\* table is lost, the jobs table is the safe copy of a committed job's state
\* (jobs.py): its outcome is there.  The one exception is a job that Kafka kept
\* although enqueue said False: its request marks the row "running" late, perhaps
\* after a worker committed the job, and the row says so as long as the inline
\* run goes on, for good when its client leaves.
CommittedJobSettled ==
    rebalances = 0 /\ ~PostgresMayFail =>
        \A p \in Partitions : \A i \in 1..committed[p] :
            \/ row[log[p][i]] \in Terminal
            \/ phase[Gen(log[p][i])] \in {"inline", "cut"}

\* The pipeline drives the topic and the workers only through the consume loop.
ImplementsQueue == QSpec

\* Every request that got as far as a live bridge, polling or a refusal of its job
\* has its stream ended in the end: through its job's terminal event, which
\* crashes and rebalances only delay, or by a client that leaves.
GenerateStreamEnds ==
    \A j \in Jobs : phase[Gen(j)] \in {"bridge", "poll", "refused", "inline"}
                        ~> phase[Gen(j)] \in Over

\* Without rebalances of live workers every enqueued job ends with its outcome in
\* the table for good, whatever crashes and inline runs came in between and
\* whoever left, except the client of its inline run.
EnqueuedJobSettles ==
    [](rebalances = 0) =>
        \A j \in Jobs : [](phase[Gen(j)] # "cut") =>
            (Logged(j) ~> [](row[j] \in Terminal \/ ~Quiet(j)))

-----------------------------------------------------------------------------
\* Statements of the repository that the code does not keep

\* "If the job already finished ... synthesize the terminal event from Postgres;
\* otherwise bridge live progress" (stream_job_progress): the reconnected client
\* of a finished job hears of it.
ReconnectHearsOutcome ==
    \A j \in Jobs : phase[Rec(j)] \in {"checked", "bridge"} /\ row[j] \in Terminal
                        ~> phase[Rec(j)] = "ended"
=============================================================================
