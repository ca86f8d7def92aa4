-------------------------- MODULE ReportJobs_proofs --------------------------
(***************************************************************************)
(* Proofs about ReportJobs for every number of jobs, workers and           *)
(* partitions and every choice of what may fail: the pipeline implements   *)
(* JobQueue, types, the live bridge, one verdict per client, what the jobs *)
(* table says of committed and of done jobs, and what a report on disk and *)
(* a client's "complete" are worth.                                        *)
(***************************************************************************)
EXTENDS ReportJobs, JobQueue_proofs, SequenceTheorems

-----------------------------------------------------------------------------
\* The pipeline implements the queue

LEMMA StepIsQueueStep == [Next]_vars => [QNext]_queueVars
<1> SUFFICES ASSUME [Next]_vars
             PROVE  [QNext]_queueVars
  OBVIOUS
<1>1. ASSUME NEW j \in Jobs, Submit(j)
      PROVE  [QNext]_queueVars
  BY <1>1 DEF Submit, CreateJob, OpenSubscription, Enqueued, EnqueueRefused, RunInline,
              EnqueueFails, QNext
<1>2. ASSUME NEW j \in Jobs, Reconnect(j) \/ ReconnectSubscribe(j)
      PROVE  UNCHANGED queueVars
  BY <1>2 DEF Reconnect, ReconnectSubscribe
<1>3. ASSUME NEW x \in Executors, Execute(x) \/ FailJob(x)
      PROVE  UNCHANGED queueVars
  BY <1>3 DEF Execute, ChooseSource, WriteReport, SignalComplete, SignalDone, FailJob
<1>4. ASSUME NEW w \in Workers, NEW p \in Partitions, StartJob(w, p)
      PROVE  QNext
  BY <1>4 DEF StartJob, QNext
<1>5. ASSUME NEW w \in Workers,
             MarkOutcome(w) \/ HandlerRaises(w) \/ WorkerCrash(w) \/ LoopStep(w)
      PROVE  QNext
  BY <1>5 DEF MarkOutcome, HandlerRaises, WorkerCrash, LoopStep, QNext
<1>6. ASSUME NEW s \in Streams, Relay(s) \/ ClientLeaves(s)
      PROVE  UNCHANGED queueVars
  BY <1>6 DEF Relay, RelayEvent, PollRow, PollTimeout, ClientLeaves
<1>7. CASE UNCHANGED vars
  BY <1>7 DEF vars
<1>8. QED
  BY <1>1, <1>2, <1>3, <1>4, <1>5, <1>6, <1>7 DEF Next

\* The API, the workers and the streams drive the topic only through the consume
\* loop of worker.run, so that what is proved of JobQueue holds of the pipeline.
THEOREM PipelineRefinesQueue == Spec => ImplementsQueue
<1>1. Init => QInit
  BY DEF Init
<1>2. QED
  BY <1>1, StepIsQueueStep, PTL DEF Spec, ImplementsQueue, QSpec

LEMMA QueueHolds == Spec => [](Hold /\ LoggedOnce)
BY HoldInvariant, PipelineRefinesQueue, PTL DEF ImplementsQueue

LEMMA PipelineQueueInvariant == Spec => []RInv
BY InitRInv, NextRInv, PipelineRefinesQueue, PTL DEF ImplementsQueue, QSpec

-----------------------------------------------------------------------------
\* Types

\* A worker runs a job exactly while it is inside _process_message.
WorkerStages == \A w \in Workers : stage[w] # "off" <=> busy[w]

\* An inline run exists exactly while its request waits for it.
InlineStages ==
    \A j \in Jobs :
        /\ stage[j] \in {"off", "source", "graph", "written", "index"}
        /\ stage[j] # "off" <=> phase[Gen(j)] = "inline"
        /\ phase[Rec(j)] # "inline"

PInv == TypeOK /\ WorkerStages /\ InlineStages

LEMMA Disjoint == \A w \in Workers : w \notin Jobs
BY PipelineAssumption

\* Whoever executes, executes a job; a worker a logged one.
LEMMA JobOfExecutor ==
    ASSUME RInv, PInv, NEW x \in Executors, stage[x] # "off"
    PROVE  /\ JobOf(x) \in Jobs
           /\ TitleOf[JobOf(x)] \in Titles
           /\ x \in Workers => Logged(JobOf(x))
<1>1. CASE x \in Workers
  <2>1. busy[x]
    BY <1>1 DEF PInv, WorkerStages
  <2>2. /\ current[x] \in Partitions
        /\ batch[x][current[x]].from + 1 \in DOMAIN log[current[x]]
        /\ JobOf(x) \in Jobs
    BY <1>1, <2>1, BusyAtHand DEF RInv, JobOf
  <2>3. PartitionOf[JobOf(x)] = current[x]
    BY <1>1, <2>2 DEF RInv, MessagesPlaced, JobOf
  <2>4. QED
    BY <1>1, <2>2, <2>3 DEF Logged, JobOf, Titles
<1>2. CASE x \notin Workers
  BY <1>2 DEF Executors, JobOf, Titles
<1>3. QED
  BY <1>1, <1>2

LEMMA InitPInv == Init => PInv
<1> SUFFICES ASSUME Init
             PROVE  PInv
  OBVIOUS
<1>1. QTypeOK
  BY InitQInv DEF Init, QInv
<1>2. TypeOK
  BY <1>1 DEF Init, TypeOK, Statuses, Stages, Phases, Streams
<1>3. WorkerStages
  BY DEF Init, QInit, WorkerStages, Executors
<1>4. InlineStages
  BY DEF Init, InlineStages, Executors, Streams, Gen, Rec
<1>5. QED
  BY <1>2, <1>3, <1>4 DEF PInv

\* The types of the tables and streams, apart from the queue's.
RowTypes == row \in [Jobs -> Statuses] /\ result \in [Jobs -> Nat]
ExecTypes ==
    /\ stage \in [Executors -> Stages]
    /\ source \in [Executors -> Nat]
    /\ files \in [Titles -> Seq(Jobs)]
StreamTypes ==
    /\ phase \in [Streams -> Phases]
    /\ subscribed \in [Streams -> BOOLEAN]
    /\ inbox \in [Streams -> Seq(Events)]
    /\ sent \in [Streams -> Seq(Events)]
    /\ announced \subseteq Jobs

LEMMA TypeParts == TypeOK <=> QTypeOK /\ RowTypes /\ ExecTypes /\ StreamTypes
BY DEF TypeOK, RowTypes, ExecTypes, StreamTypes

LEMMA SetRowTypes ==
    ASSUME RowTypes, NEW j \in Jobs, NEW status \in Statuses, NEW n \in Nat,
           SetRow(j, status, n)
    PROVE  RowTypes'
BY DEF RowTypes, SetRow, rowVars, Statuses

LEMMA PublishTypes ==
    ASSUME StreamTypes, NEW j \in Jobs, NEW e \in Events, Publish(j, e)
    PROVE  inbox' \in [Streams -> Seq(Events)] /\ announced' \subseteq Jobs
<1>1. \A s \in Streams : inbox[s] \in Seq(Events) /\ Append(inbox[s], e) \in Seq(Events)
  BY DEF StreamTypes
<1>2. CASE UNCHANGED <<inbox, announced>>
  BY <1>2 DEF StreamTypes
<1>3. CASE /\ inbox' = [s \in Streams |->
                        IF s[1] = j /\ subscribed[s] THEN Append(inbox[s], e)
                                                     ELSE inbox[s]]
           /\ announced' = announced \cup {j}
  BY <1>1, <1>3 DEF StreamTypes
<1>4. QED
  BY <1>2, <1>3 DEF Publish

LEMMA EndStreamTypes ==
    ASSUME StreamTypes, NEW s \in Streams, EndStream(s)
    PROVE  /\ phase' \in [Streams -> Phases]
           /\ subscribed' \in [Streams -> BOOLEAN]
           /\ inbox' \in [Streams -> Seq(Events)]
BY DEF StreamTypes, EndStream, Phases

LEMMA SendAllTypes ==
    ASSUME StreamTypes, NEW s \in Streams, NEW e \in Seq(Events), SendAll(s, e)
    PROVE  sent' \in [Streams -> Seq(Events)]
BY DEF StreamTypes, SendAll

LEMMA EventLists ==
    /\ <<"complete">> \in Seq(Events) /\ <<"done">> \in Seq(Events)
    /\ <<"error">> \in Seq(Events)
    /\ \A status : FromRow(status) \in Seq(Events)
<1>1. /\ <<"complete">> \in Seq(Events) /\ <<"done">> \in Seq(Events)
      /\ <<"error">> \in Seq(Events) /\ <<"complete", "done">> \in Seq(Events)
  BY DEF Events
<1>2. QED
  BY <1>1 DEF FromRow

LEMMA StreamsOfJobs ==
    /\ \A j \in Jobs : Gen(j) \in Streams /\ Rec(j) \in Streams /\ Gen(j) # Rec(j)
    /\ \A j, k \in Jobs : (Gen(j) = Gen(k) \/ Rec(j) = Rec(k)) => j = k
    /\ \A j, k \in Jobs : Gen(j) # Rec(k)
    /\ \A s \in Streams : s[1] \in Jobs /\ (s = Gen(s[1]) \/ s = Rec(s[1]))
    /\ \A j \in Jobs : Gen(j)[1] = j /\ Rec(j)[1] = j
BY DEF Streams, Gen, Rec

-----------------------------------------------------------------------------
\* One lemma per group of actions: types, and who executes.

LEMMA SubmitPInv ==
    ASSUME RInv, PInv, QTypeOK', NEW j \in Jobs, Submit(j)
    PROVE  PInv'
<1> USE StreamsOfJobs DEF PInv
<1>1. RowTypes /\ ExecTypes /\ StreamTypes /\ j \in Executors
  BY TypeParts DEF Executors
<1>2. CASE CreateJob(j)
  <2>1. RowTypes' /\ ExecTypes' /\ StreamTypes'
    BY <1>1, <1>2 DEF CreateJob, StreamTo, execVars, RowTypes, ExecTypes, StreamTypes,
                      Statuses, Phases
  <2>2. WorkerStages' /\ InlineStages'
    BY <1>1, <1>2 DEF CreateJob, StreamTo, execVars, queueVars, workerVars,
                      WorkerStages, InlineStages, StreamTypes
  <2>3. QED
    BY <2>1, <2>2 DEF TypeOK, RowTypes, ExecTypes, StreamTypes
<1>3. CASE OpenSubscription(j)
  <2>1. RowTypes' /\ ExecTypes' /\ StreamTypes'
    BY <1>1, <1>3 DEF OpenSubscription, StreamTo, execVars, rowVars, RowTypes,
                      ExecTypes, StreamTypes, Phases
  <2>2. WorkerStages' /\ InlineStages'
    BY <1>1, <1>3 DEF OpenSubscription, StreamTo, execVars, queueVars, workerVars,
                      WorkerStages, InlineStages, StreamTypes
  <2>3. QED
    BY <2>1, <2>2 DEF TypeOK, RowTypes, ExecTypes, StreamTypes
<1>4. CASE Enqueued(j)
  <2>1. RowTypes' /\ ExecTypes' /\ StreamTypes'
    BY <1>1, <1>4 DEF Enqueued, StreamTo, execVars, rowVars, RowTypes, ExecTypes,
                      StreamTypes, Phases
  <2>2. WorkerStages' /\ InlineStages'
    BY <1>1, <1>4 DEF Enqueued, SendAndWait, StreamTo, execVars, workerVars,
                      WorkerStages, InlineStages, StreamTypes
  <2>3. QED
    BY <2>1, <2>2 DEF TypeOK, RowTypes, ExecTypes, StreamTypes
<1>5. CASE EnqueueRefused(j)
  <2>1. RowTypes' /\ ExecTypes' /\ StreamTypes'
    BY <1>1, <1>5 DEF EnqueueRefused, StreamTo, execVars, rowVars, RowTypes, ExecTypes,
                      StreamTypes, Phases
  <2>2. WorkerStages' /\ InlineStages'
    BY <1>1, <1>5 DEF EnqueueRefused, EnqueueFails, SendAndWait, StreamTo, execVars,
                      queueVars, workerVars, WorkerStages, InlineStages, StreamTypes
  <2>3. QED
    BY <2>1, <2>2 DEF TypeOK, RowTypes, ExecTypes, StreamTypes
<1>6. CASE RunInline(j)
  <2>1. RowTypes'
    BY <1>1, <1>6, SetRowTypes DEF RunInline, Statuses
  <2>2. ExecTypes'
    BY <1>1, <1>6 DEF RunInline, StageTo, ExecTypes, Stages
  <2>3. StreamTypes'
    BY <1>1, <1>6 DEF RunInline, StreamTo, StreamTypes, Phases
  <2>4. busy' = busy
    BY <1>6 DEF RunInline, workerVars, queueVars
  <2>5. WorkerStages'
    BY <1>1, <1>6, <2>4, Disjoint DEF RunInline, StageTo, WorkerStages, ExecTypes
  <2>6. InlineStages'
    BY <1>1, <1>6 DEF RunInline, StageTo, StreamTo, InlineStages, ExecTypes,
                      StreamTypes, Executors
  <2>7. QED
    BY <2>1, <2>2, <2>3, <2>5, <2>6 DEF TypeOK, RowTypes, ExecTypes, StreamTypes
<1>7. QED
  BY <1>2, <1>3, <1>4, <1>5, <1>6 DEF Submit

LEMMA ReconnectPInv ==
    ASSUME RInv, PInv, QTypeOK', NEW j \in Jobs, Reconnect(j) \/ ReconnectSubscribe(j)
    PROVE  PInv'
<1> USE StreamsOfJobs DEF PInv
<1>1. RowTypes /\ ExecTypes /\ StreamTypes
  BY TypeParts
<1>2. CASE Reconnect(j)
  <2>1. UNCHANGED <<queueVars, execVars, rowVars, announced>>
    BY <1>2 DEF Reconnect
  <2>2. /\ StreamTypes'
        /\ \A k \in Jobs : phase'[Gen(k)] = phase[Gen(k)]
        /\ \A k \in Jobs : phase'[Rec(k)] = phase[Rec(k)] \/ phase'[Rec(k)] # "inline"
    <3>1. PICK status \in Statuses \cup {None} :
              \/ SendAll(Rec(j), FromRow(status)) /\ EndStream(Rec(j))
              \/ StreamTo(Rec(j), "checked") /\ UNCHANGED <<subscribed, inbox, sent>>
      BY <1>2 DEF Reconnect
    <3>2. CASE SendAll(Rec(j), FromRow(status)) /\ EndStream(Rec(j))
      <4>1. StreamTypes'
        BY <1>1, <2>1, <3>2, SendAllTypes, EndStreamTypes, EventLists DEF StreamTypes
      <4>2. QED
        BY <1>1, <3>2, <4>1 DEF EndStream, StreamTypes
    <3>3. CASE StreamTo(Rec(j), "checked") /\ UNCHANGED <<subscribed, inbox, sent>>
      BY <1>1, <2>1, <3>3 DEF StreamTo, StreamTypes, Phases
    <3>4. QED
      BY <3>1, <3>2, <3>3
  <2>3. QED
    BY <1>1, <2>1, <2>2 DEF TypeOK, RowTypes, ExecTypes, rowVars, execVars,
       StreamTypes, queueVars, workerVars, WorkerStages, InlineStages
<1>3. CASE ReconnectSubscribe(j)
  <2>1. UNCHANGED <<queueVars, execVars, rowVars, announced>>
    BY <1>3 DEF ReconnectSubscribe
  <2>2. /\ StreamTypes'
        /\ \A k \in Jobs : phase'[Gen(k)] = phase[Gen(k)]
        /\ \A k \in Jobs : phase'[Rec(k)] = phase[Rec(k)] \/ phase'[Rec(k)] # "inline"
    <3>1. PICK p \in {"bridge", "poll"} : StreamTo(Rec(j), p)
      BY <1>3 DEF ReconnectSubscribe
    <3>2. phase' \in [Streams -> Phases]
      BY <1>1, <3>1 DEF StreamTo, StreamTypes, Phases
    <3>3. subscribed' \in [Streams -> BOOLEAN] /\ UNCHANGED <<inbox, sent, announced>>
      BY <1>1, <1>3 DEF ReconnectSubscribe, StreamTypes
    <3>4. StreamTypes'
      BY <1>1, <3>2, <3>3 DEF StreamTypes
    <3>5. QED
      BY <1>1, <3>1, <3>4 DEF StreamTo, StreamTypes
  <2>3. QED
    BY <1>1, <2>1, <2>2 DEF TypeOK, RowTypes, ExecTypes, rowVars, execVars,
       StreamTypes, queueVars, workerVars, WorkerStages, InlineStages
<1>4. QED
  BY <1>2, <1>3

LEMMA ExecutePInv ==
    ASSUME RInv, PInv, QTypeOK', NEW x \in Executors, Execute(x) \/ FailJob(x)
    PROVE  PInv'
<1> USE StreamsOfJobs DEF PInv
<1>1. RowTypes /\ ExecTypes /\ StreamTypes
  BY TypeParts
<1>2. stage[x] # "off"
  BY DEF Execute, ChooseSource, WriteReport, SignalComplete, SignalDone, FailJob
<1>3. JobOf(x) \in Jobs /\ TitleOf[JobOf(x)] \in Titles
  BY <1>2, JobOfExecutor
<1>4. x \in Jobs => x \notin Workers /\ JobOf(x) = x
  BY Disjoint DEF JobOf
<1>5. x \in Jobs \/ x \in Workers
  BY DEF Executors
<1>6. UNCHANGED queueVars
  BY DEF Execute, ChooseSource, WriteReport, SignalComplete, SignalDone, FailJob
<1>7. busy' = busy
  BY <1>6 DEF queueVars, workerVars
<1>8. CASE ChooseSource(x)
  <2>1. RowTypes' /\ StreamTypes'
    BY <1>1, <1>8 DEF ChooseSource, rowVars, streamVars, RowTypes, StreamTypes
  <2>2. ExecTypes'
    <3>1. FreshSuffix(TitleOf[JobOf(x)]) \in Nat
      BY <1>1, <1>3 DEF FreshSuffix, ExecTypes
    <3>2. QED
      BY <1>1, <1>8, <3>1 DEF ChooseSource, StageTo, ExecTypes, Stages
  <2>3. WorkerStages' /\ InlineStages'
    BY <1>1, <1>2, <1>7, <1>8 DEF ChooseSource, StageTo, streamVars, ExecTypes,
                                  WorkerStages, InlineStages, Executors
  <2>4. QED
    BY <2>1, <2>2, <2>3 DEF TypeOK, RowTypes, ExecTypes, StreamTypes
<1>9. CASE WriteReport(x)
  <2>1. RowTypes' /\ StreamTypes'
    BY <1>1, <1>9 DEF WriteReport, rowVars, streamVars, RowTypes, StreamTypes
  <2>2. ExecTypes'
    <3> DEFINE t == TitleOf[JobOf(x)]
    <3>1. files[t] \in Seq(Jobs)
      BY <1>1, <1>3 DEF ExecTypes
    <3>2. (IF source[x] \in DOMAIN files[t] THEN [files[t] EXCEPT ![source[x]] = JobOf(x)]
                                           ELSE Append(files[t], JobOf(x))) \in Seq(Jobs)
      <4>1. CASE source[x] \in DOMAIN files[t]
        <5>1. source[x] \in 1..Len(files[t])
          BY <3>1, <4>1
        <5>2. [files[t] EXCEPT ![source[x]] = JobOf(x)] \in Seq(Jobs)
          BY <1>3, <3>1, <5>1, ExceptSeq
        <5>3. QED
          BY <4>1, <5>2
      <4>2. CASE source[x] \notin DOMAIN files[t]
        BY <1>3, <3>1, <4>2
      <4>3. QED
        BY <4>1, <4>2
    <3>3. files' \in [Titles -> Seq(Jobs)]
      BY <1>1, <1>3, <1>9, <3>2 DEF WriteReport, ExecTypes
    <3>4. QED
      BY <1>1, <1>9, <3>3 DEF WriteReport, StageTo, ExecTypes, Stages
  <2>3. WorkerStages' /\ InlineStages'
    BY <1>1, <1>2, <1>7, <1>9 DEF WriteReport, StageTo, streamVars, ExecTypes,
                                  WorkerStages, InlineStages, Executors
  <2>4. QED
    BY <2>1, <2>2, <2>3 DEF TypeOK, RowTypes, ExecTypes, StreamTypes
<1>10. CASE SignalComplete(x)
  <2>1. ExecTypes'
    BY <1>1, <1>10 DEF SignalComplete, StageTo, ExecTypes, Stages
  <2>2. RowTypes' /\ StreamTypes'
    <3>1. phase' = phase /\ subscribed' = subscribed
      BY <1>10 DEF SignalComplete
    <3>2. CASE Publish(JobOf(x), "complete") /\ UNCHANGED <<rowVars, sent>>
      BY <1>1, <1>3, <3>1, <3>2, PublishTypes DEF RowTypes, StreamTypes, rowVars, Events
    <3>3. CASE /\ x \in Jobs /\ SetRow(x, "done", source[x])
               /\ SendAll(Gen(x), <<"complete">>) /\ UNCHANGED <<inbox, announced>>
      <4>1. RowTypes'
        <5>1. source[x] \in Nat /\ "done" \in Statuses
          BY <1>1 DEF ExecTypes, Statuses
        <5>2. QED
          BY <1>1, <3>3, <5>1, SetRowTypes
      <4>2. sent' \in [Streams -> Seq(Events)]
        BY <1>1, <3>3, SendAllTypes, EventLists
      <4>3. QED
        BY <1>1, <3>1, <3>3, <4>1, <4>2 DEF StreamTypes
    <3>4. QED
      BY <1>10, <3>2, <3>3 DEF SignalComplete
  <2>3. WorkerStages' /\ InlineStages'
    BY <1>1, <1>2, <1>7, <1>10 DEF SignalComplete, StageTo, ExecTypes,
                                   WorkerStages, InlineStages, Executors
  <2>4. QED
    BY <2>1, <2>2, <2>3 DEF TypeOK, RowTypes, ExecTypes, StreamTypes
<1>11. CASE SignalDone(x)
  <2>1. RowTypes' /\ ExecTypes'
    BY <1>1, <1>11 DEF SignalDone, StageTo, RowTypes, ExecTypes, Stages, rowVars
  <2>2. CASE /\ x \in Workers /\ Publish(JobOf(x), "done") /\ StageTo(x, "mark_done")
             /\ UNCHANGED <<sent, phase, subscribed>>
    <3>1. StreamTypes'
      BY <1>1, <1>3, <2>2, PublishTypes DEF StreamTypes, Events
    <3>2. WorkerStages' /\ InlineStages'
      BY <1>1, <1>2, <1>4, <1>7, <2>2 DEF StageTo, ExecTypes, WorkerStages,
                                          InlineStages, Executors
    <3>3. QED
      BY <2>1, <3>1, <3>2 DEF TypeOK, RowTypes, ExecTypes, StreamTypes
  <2>3. CASE /\ x \in Jobs /\ SendAll(Gen(x), <<"done">>) /\ EndStream(Gen(x))
             /\ StageTo(x, "off") /\ UNCHANGED announced
    <3>1. StreamTypes'
      BY <1>1, <2>3, SendAllTypes, EndStreamTypes, EventLists DEF StreamTypes
    <3>2. WorkerStages'
      BY <1>1, <1>4, <1>7, <2>3 DEF StageTo, ExecTypes, WorkerStages, Executors
    <3>3. InlineStages'
      BY <1>1, <2>3 DEF StageTo, EndStream, ExecTypes, StreamTypes, InlineStages,
                        Executors
    <3>4. QED
      BY <2>1, <3>1, <3>2, <3>3 DEF TypeOK, RowTypes, ExecTypes, StreamTypes
  <2>4. QED
    BY <1>11, <2>2, <2>3 DEF SignalDone
<1>12. CASE FailJob(x)
  <2>1. CASE /\ x \in Workers /\ Publish(JobOf(x), "error") /\ StageTo(x, "mark_error")
             /\ UNCHANGED <<rowVars, sent, phase, subscribed>>
    <3>1. StreamTypes' /\ RowTypes'
      BY <1>1, <1>3, <2>1, PublishTypes DEF StreamTypes, RowTypes, rowVars, Events
    <3>2. WorkerStages' /\ InlineStages'
      BY <1>1, <1>2, <1>4, <1>7, <2>1 DEF StageTo, ExecTypes, WorkerStages,
                                          InlineStages, Executors
    <3>3. ExecTypes'
      BY <1>1, <1>12, <2>1 DEF FailJob, StageTo, ExecTypes, Stages
    <3>4. QED
      BY <3>1, <3>2, <3>3 DEF TypeOK, RowTypes, ExecTypes, StreamTypes
  <2>2. CASE /\ x \in Jobs /\ SetRow(x, "error", 0) /\ SendAll(Gen(x), <<"error">>)
             /\ EndStream(Gen(x)) /\ StageTo(x, "off") /\ UNCHANGED announced
    <3>1. StreamTypes'
      BY <1>1, <2>2, SendAllTypes, EndStreamTypes, EventLists DEF StreamTypes
    <3>2. RowTypes'
      BY <1>1, <2>2, SetRowTypes DEF Statuses
    <3>3. WorkerStages'
      BY <1>1, <1>4, <1>7, <2>2 DEF StageTo, ExecTypes, WorkerStages, Executors
    <3>4. InlineStages'
      BY <1>1, <2>2 DEF StageTo, EndStream, ExecTypes, StreamTypes, InlineStages,
                        Executors
    <3>5. ExecTypes'
      BY <1>1, <1>12, <2>2 DEF FailJob, StageTo, ExecTypes, Stages
    <3>6. QED
      BY <3>1, <3>2, <3>3, <3>4, <3>5 DEF TypeOK, RowTypes, ExecTypes, StreamTypes
  <2>3. QED
    BY <1>12, <2>1, <2>2 DEF FailJob
<1>13. QED
  BY <1>8, <1>9, <1>10, <1>11, <1>12 DEF Execute

\* A worker that may leave the loop is not in a handler.
LEMMA LoopBusy ==
    ASSUME RInv, NEW w \in Workers, LoopStep(w)
    PROVE  busy' = busy
<1>1. busy \in [Workers -> BOOLEAN]
  BY DEF RInv, QInv, QTypeOK
<1>2. Polling(w) => ~busy[w]
  BY PartitionsAssumption DEF Polling, RInv, QInv, BusyInSlice
<1>3. ~busy[w] /\ Gone(w) => busy' = busy
  BY <1>1 DEF Gone
<1>4. CASE Poll(w) \/ Commit(w) \/ Restart(w)
  BY <1>4 DEF Poll, Commit, Restart
<1>5. CASE CommitRejected(w) \/ Shutdown(w)
  BY <1>2, <1>3, <1>5 DEF CommitRejected, SliceHandled, Shutdown
<1>6. CASE \E p \in Partitions : Assign(p, w) \/ Rebalance(p, w)
  BY <1>6 DEF Assign, Rebalance, GiveTo, workerVars
<1>7. QED
  BY <1>4, <1>5, <1>6 DEF LoopStep

LEMMA WorkerPInv ==
    ASSUME RInv, PInv, QTypeOK', NEW w \in Workers,
           \/ \E p \in Partitions : StartJob(w, p)
           \/ MarkOutcome(w) \/ HandlerRaises(w) \/ WorkerCrash(w) \/ LoopStep(w)
    PROVE  PInv'
<1> USE StreamsOfJobs DEF PInv
<1>1. RowTypes /\ ExecTypes /\ StreamTypes /\ w \in Executors /\ w \notin Jobs
  BY TypeParts, Disjoint DEF Executors
<1>2. StreamTypes' /\ UNCHANGED <<phase, files, source>>
  BY <1>1 DEF StartJob, MarkOutcome, HandlerRaises, WorkerCrash, LoopStep, streamVars,
              execVars, StreamTypes
<1>3. ExecTypes'
  BY <1>1 DEF StartJob, MarkOutcome, HandlerRaises, WorkerCrash, LoopStep, execVars,
              StageTo, ExecTypes, Stages
<1>4. \A j \in Jobs : stage'[j] = stage[j]
  BY <1>1 DEF StartJob, MarkOutcome, HandlerRaises, WorkerCrash, LoopStep, execVars,
              StageTo, ExecTypes, Executors
<1>5. InlineStages'
  BY <1>2, <1>4 DEF InlineStages
<1>6. RowTypes' /\ WorkerStages'
  <2>1. ASSUME NEW p \in Partitions, StartJob(w, p)
        PROVE  RowTypes' /\ WorkerStages'
    <3>1. log[p][batch[w][p].from + 1] \in Jobs
      <4>1. batch[w][p] \in Slice /\ log[p] \in Seq(Jobs)
        BY DEF RInv, QInv, QTypeOK
      <4>2. batch[w][p].from < batch[w][p].upto /\ batch[w][p].upto <= Len(log[p])
        BY <2>1 DEF StartJob, Begin, Pending, RInv, QInv, OffsetsInLog
      <4>3. batch[w][p].from + 1 \in 1..Len(log[p])
        BY <4>1, <4>2 DEF Slice
      <4>4. QED
        BY <4>1, <4>3
    <3>2. RowTypes'
      BY <1>1, <2>1, <3>1, SetRowTypes DEF StartJob, Statuses
    <3>3. WorkerStages'
      BY <1>1, <2>1 DEF StartJob, Begin, StageTo, WorkerStages, ExecTypes, TypeOK,
                        QTypeOK, Executors
    <3>4. QED
      BY <3>2, <3>3
  <2>2. ASSUME MarkOutcome(w) \/ HandlerRaises(w)
        PROVE  RowTypes' /\ WorkerStages'
    <3>1. JobOf(w) \in Jobs
      BY <1>1, <2>2, JobOfExecutor DEF MarkOutcome, HandlerRaises
    <3>2. PICK status \in {"done", "error"}, n \in Nat : SetRow(JobOf(w), status, n)
      BY <1>1, <2>2 DEF MarkOutcome, HandlerRaises, ExecTypes
    <3>3. RowTypes'
      BY <1>1, <3>1, <3>2, SetRowTypes DEF Statuses
    <3>4. End(w) /\ StageTo(w, "off")
      BY <2>2 DEF MarkOutcome, HandlerRaises
    <3>5. WorkerStages'
      BY <1>1, <3>4 DEF End, StageTo, WorkerStages, ExecTypes, TypeOK, QTypeOK, Executors
    <3>6. QED
      BY <3>3, <3>5
  <2>3. ASSUME WorkerCrash(w)
        PROVE  RowTypes' /\ WorkerStages'
    BY <1>1, <2>3 DEF WorkerCrash, Crash, Gone, StageTo, WorkerStages, RowTypes, rowVars,
                      ExecTypes, TypeOK, QTypeOK, Executors
  <2>4. ASSUME LoopStep(w)
        PROVE  RowTypes' /\ WorkerStages'
    BY <1>1, <2>4, LoopBusy DEF LoopStep, WorkerStages, RowTypes, rowVars, execVars
  <2>5. QED
    BY <2>1, <2>2, <2>3, <2>4
<1>7. QED
  BY <1>2, <1>3, <1>5, <1>6 DEF TypeOK, RowTypes, ExecTypes, StreamTypes

LEMMA RelayPInv ==
    ASSUME RInv, PInv, QTypeOK', NEW s \in Streams, Relay(s) \/ ClientLeaves(s)
    PROVE  PInv'
<1> USE StreamsOfJobs DEF PInv
<1>1. RowTypes /\ ExecTypes /\ StreamTypes
  BY TypeParts
<1>2. UNCHANGED <<queueVars, source, files, rowVars, announced>>
  BY DEF Relay, RelayEvent, PollRow, PollTimeout, ClientLeaves, execVars
<1>3. ASSUME Relay(s)
      PROVE  /\ StreamTypes' /\ UNCHANGED stage
             /\ \A r \in Streams :
                  \/ phase'[r] = phase[r]
                  \/ r = s /\ phase[s] # "inline" /\ phase'[s] = "ended"
  <2>1. CASE RelayEvent(s)
    <3>1. inbox[s] \in Seq(Events) /\ inbox[s] # <<>>
      BY <1>1, <2>1 DEF RelayEvent, StreamTypes
    <3>2. <<Head(inbox[s])>> \in Seq(Events) /\ Tail(inbox[s]) \in Seq(Events)
      BY <3>1
    <3>3. sent' \in [Streams -> Seq(Events)] /\ UNCHANGED stage
      BY <1>1, <2>1, <3>2, SendAllTypes DEF RelayEvent, execVars
    <3>4. CASE EndStream(s)
      BY <1>1, <1>2, <2>1, <3>3, <3>4, EndStreamTypes
         DEF RelayEvent, EndStream, StreamTypes
    <3>5. CASE inbox' = [inbox EXCEPT ![s] = Tail(@)] /\ UNCHANGED <<phase, subscribed>>
      <4>1. inbox' \in [Streams -> Seq(Events)]
        BY <1>1, <3>2, <3>5 DEF StreamTypes
      <4>2. QED
        BY <1>1, <1>2, <3>3, <3>5, <4>1 DEF StreamTypes
    <3>6. QED
      BY <2>1, <3>4, <3>5 DEF RelayEvent
  <2>2. CASE PollRow(s) \/ PollTimeout(s)
    <3>1. PICK e \in Seq(Events) : SendAll(s, e)
      BY <2>2, EventLists DEF PollRow, PollTimeout
    <3>2. EndStream(s) /\ UNCHANGED stage /\ phase[s] = "poll"
      BY <2>2 DEF PollRow, PollTimeout, execVars
    <3>3. StreamTypes'
      BY <1>1, <1>2, <3>1, <3>2, SendAllTypes, EndStreamTypes DEF StreamTypes
    <3>4. QED
      BY <1>1, <3>2, <3>3 DEF EndStream, StreamTypes
  <2>3. QED
    BY <1>3, <2>1, <2>2 DEF Relay
<1>4. CASE ClientLeaves(s)
  <2>1. StreamTypes'
    BY <1>1, <1>2, <1>4 DEF ClientLeaves, StreamTypes, Phases
  <2>2. stage' = [x \in Executors |-> IF x = s[1] /\ phase[s] = "inline"
                                      THEN "off" ELSE stage[x]]
    BY <1>4 DEF ClientLeaves
  <2>3. ExecTypes' /\ RowTypes'
    BY <1>1, <1>2, <2>2 DEF ExecTypes, RowTypes, rowVars, Stages
  <2>4. WorkerStages'
    BY <1>2, <2>2, Disjoint DEF WorkerStages, queueVars, workerVars, Executors
  <2>5. InlineStages'
    <3>1. \A r \in Streams : IF r = s THEN phase'[r] \in Over ELSE phase'[r] = phase[r]
      BY <1>1, <1>4 DEF ClientLeaves, StreamTypes, Over
    <3>2. \A j \in Jobs : stage'[j] = IF s = Gen(j) /\ phase[s] = "inline"
                                      THEN "off" ELSE stage[j]
      BY <2>2 DEF Executors, InlineStages
    <3>3. QED
      BY <3>1, <3>2 DEF InlineStages, Over
  <2>6. QED
    BY <2>1, <2>3, <2>4, <2>5 DEF TypeOK, RowTypes, ExecTypes, StreamTypes
<1>5. CASE Relay(s)
  BY <1>1, <1>2, <1>3, <1>5 DEF TypeOK, RowTypes, ExecTypes, StreamTypes, rowVars,
     queueVars, workerVars, WorkerStages, InlineStages
<1>6. QED
  BY <1>4, <1>5

LEMMA NextPInv == RInv /\ PInv /\ RInv' /\ [Next]_vars => PInv'
<1> SUFFICES ASSUME RInv, PInv, RInv', [Next]_vars
             PROVE  PInv'
  OBVIOUS
<1>1. QTypeOK'
  BY DEF RInv, QInv
<1>2. CASE UNCHANGED vars
  BY <1>2 DEF vars, queueVars, workerVars, topicVars, faultVars, execVars, rowVars,
     streamVars, PInv, TypeOK, QTypeOK, WorkerStages, InlineStages
<1>3. CASE Next
  BY <1>1, <1>3, SubmitPInv, ReconnectPInv, ExecutePInv, WorkerPInv, RelayPInv DEF Next
<1>4. QED
  BY <1>2, <1>3

\* The types of the whole pipeline, and that a worker is in run_report_job exactly
\* while the consume loop is inside _process_message, an inline run exactly while
\* its request waits for it (report_jobs.py, app.py).
THEOREM PipelineTypeCorrect == Spec => [](TypeOK /\ WorkerStages /\ InlineStages)
<1>1. Init => PInv
  BY InitPInv
<1>2. RInv /\ PInv /\ RInv' /\ [Next]_vars => PInv'
  BY NextPInv
<1>3. QED
  BY <1>1, <1>2, PipelineQueueInvariant, PTL DEF Spec, PInv

-----------------------------------------------------------------------------
\* The live bridge

\* A request that has not been enqueued yet has no message in the topic.
NotYetLogged ==
    \A j \in Jobs : phase[Gen(j)] \in {"new", "created", "subscribed"} => ~Logged(j)

\* Only jobs of the topic are announced: an inline run publishes nothing.
AnnouncedLogged == \A j \in announced : Logged(j)

BridgeSubscribed == \A j \in Jobs : phase[Gen(j)] = "bridge" => subscribed[Gen(j)]

BridgeInv ==
    /\ NotYetLogged
    /\ AnnouncedLogged
    /\ BridgeSubscribed
    /\ LiveBridgeMissesNothing

\* One append logs one job, and the log forgets none.
LEMMA SendLogs ==
    ASSUME RInv, NEW j \in Jobs, SendAndWait(j), NEW k \in Jobs
    PROVE  Logged(k)' <=> Logged(k) \/ k = j
<1>1. Submitted' = Submitted \cup {j}
  BY SendSubmits
<1>2. (k \in Submitted <=> Logged(k)) /\ (k \in Submitted' <=> Logged(k)')
  BY DEF Submitted
<1>3. QED
  BY <1>1, <1>2

LEMMA WorkerLog ==
    ASSUME NEW w \in Workers,
           \/ \E p \in Partitions : StartJob(w, p)
           \/ MarkOutcome(w) \/ HandlerRaises(w) \/ WorkerCrash(w) \/ LoopStep(w)
    PROVE  log' = log
<1>1. CASE LoopStep(w)
  BY <1>1 DEF LoopStep, Poll, Commit, CommitRejected, Shutdown, Restart, Assign,
              Rebalance, GiveTo, topicVars
<1>2. CASE \E p \in Partitions : StartJob(w, p)
  BY <1>2 DEF StartJob, Begin, topicVars
<1>3. QED
  BY <1>1, <1>2 DEF MarkOutcome, HandlerRaises, End, WorkerCrash, Crash, topicVars

LEMMA InitBridgeInv == Init => BridgeInv
<1> SUFFICES ASSUME Init
             PROVE  BridgeInv
  OBVIOUS
<1>1. \A j \in Jobs : ~Logged(j) /\ phase[Gen(j)] = "new"
  BY PartitionsAssumption, StreamsOfJobs DEF Init, QInit, Logged
<1>2. QED
  BY <1>1 DEF Init, BridgeInv, NotYetLogged, AnnouncedLogged, BridgeSubscribed,
              LiveBridgeMissesNothing

\* A step that leaves the topic, the announcements and the subscriptions alone and
\* at most ends streams or empties nobody's inbox.
LEMMA QuietBridge ==
    ASSUME BridgeInv, log' = log, announced' = announced,
           \A j \in Jobs : \/ phase'[Gen(j)] \in {"refused", "inline", "poll", "ended", "cut"}
                           \/ /\ phase'[Gen(j)] = phase[Gen(j)]
                              /\ subscribed'[Gen(j)] = subscribed[Gen(j)]
                              /\ inbox'[Gen(j)] = inbox[Gen(j)]
    PROVE  BridgeInv'
BY DEF BridgeInv, NotYetLogged, AnnouncedLogged, BridgeSubscribed,
       LiveBridgeMissesNothing, Logged

LEMMA SubmitBridge ==
    ASSUME RInv, PInv, BridgeInv, NEW j \in Jobs, Submit(j)
    PROVE  BridgeInv'
<1> USE StreamsOfJobs
<1>1. StreamTypes
  BY TypeParts DEF PInv
<1>2. announced' = announced /\ announced \subseteq Jobs
  BY <1>1 DEF Submit, CreateJob, OpenSubscription, Enqueued, EnqueueRefused, RunInline, StreamTypes
<1>3. \A k \in Jobs : k # j => /\ phase'[Gen(k)] = phase[Gen(k)]
                               /\ subscribed'[Gen(k)] = subscribed[Gen(k)]
                               /\ inbox'[Gen(k)] = inbox[Gen(k)]
  BY <1>1 DEF Submit, CreateJob, OpenSubscription, Enqueued, EnqueueRefused, RunInline, StreamTo,
              StreamTypes
<1>4. \/ SendAndWait(j) /\ (Enqueued(j) \/ EnqueueRefused(j))
      \/ log' = log
  BY DEF Submit, CreateJob, OpenSubscription, Enqueued, EnqueueRefused, RunInline, EnqueueFails,
         queueVars, topicVars
<1>5. \A k \in Jobs : /\ Logged(k) => Logged(k)'
                      /\ k # j /\ Logged(k)' => Logged(k)
  <2>1. CASE SendAndWait(j)
    BY <2>1, SendLogs
  <2>2. CASE log' = log
    BY <2>2 DEF Logged
  <2>3. QED
    BY <1>4, <2>1, <2>2
<1>6. AnnouncedLogged'
  <2> SUFFICES ASSUME NEW k \in announced'
               PROVE  Logged(k)'
    BY DEF AnnouncedLogged
  <2>1. k \in Jobs /\ k \in announced
    BY <1>2
  <2>2. Logged(k)
    BY <2>1 DEF BridgeInv, AnnouncedLogged
  <2>3. CASE SendAndWait(j)
    BY <2>1, <2>2, <2>3, SendLogs
  <2>4. CASE log' = log
    BY <2>2, <2>4 DEF Logged
  <2>5. QED
    BY <1>4, <2>3, <2>4
<1>7. CASE CreateJob(j)
  <2>1. phase[Gen(j)] = "new" /\ phase'[Gen(j)] = "created" /\ log' = log
    BY <1>1, <1>7 DEF CreateJob, StreamTo, StreamTypes, queueVars, topicVars
  <2>2. QED
    BY <1>2, <1>3, <1>5, <1>6, <2>1 DEF BridgeInv, NotYetLogged, BridgeSubscribed,
                                        LiveBridgeMissesNothing, Logged
<1>8. CASE OpenSubscription(j)
  <2>1. phase[Gen(j)] = "created" /\ phase'[Gen(j)] = "subscribed" /\ log' = log
    BY <1>1, <1>8 DEF OpenSubscription, StreamTo, StreamTypes, queueVars, topicVars
  <2>2. QED
    BY <1>2, <1>3, <1>5, <1>6, <2>1 DEF BridgeInv, NotYetLogged, BridgeSubscribed,
                                        LiveBridgeMissesNothing, Logged
<1>9. CASE Enqueued(j)
  <2>1. /\ phase[Gen(j)] = "subscribed" /\ subscribed' = subscribed
        /\ phase'[Gen(j)] = IF subscribed[Gen(j)] THEN "bridge" ELSE "poll"
    BY <1>1, <1>9 DEF Enqueued, StreamTo, StreamTypes
  <2>2. j \notin announced
    BY <2>1 DEF BridgeInv, NotYetLogged, AnnouncedLogged
  <2>3. QED
    BY <1>2, <1>3, <1>5, <1>6, <2>1, <2>2 DEF BridgeInv, NotYetLogged,
       BridgeSubscribed, LiveBridgeMissesNothing
<1>10. CASE EnqueueRefused(j)
  <2>1. phase'[Gen(j)] = "refused"
    BY <1>1, <1>10 DEF EnqueueRefused, StreamTo, StreamTypes
  <2>2. QED
    BY <1>2, <1>3, <1>5, <1>6, <2>1 DEF BridgeInv, NotYetLogged,
       BridgeSubscribed, LiveBridgeMissesNothing
<1>11. CASE RunInline(j)
  <2>1. phase'[Gen(j)] = "inline"
    BY <1>1, <1>11 DEF RunInline, StreamTo, StreamTypes
  <2>2. QED
    BY <1>2, <1>3, <1>5, <1>6, <2>1 DEF BridgeInv, NotYetLogged,
       BridgeSubscribed, LiveBridgeMissesNothing
<1>12. QED
  BY <1>7, <1>8, <1>9, <1>10, <1>11 DEF Submit

\* A publication reaches the bridge of its own job and no other.
LEMMA PublishBridge ==
    ASSUME PInv, BridgeInv, NEW j \in Jobs, NEW e \in Events, Logged(j), Publish(j, e),
           log' = log, UNCHANGED <<phase, subscribed>>
    PROVE  BridgeInv'
<1> USE StreamsOfJobs
<1>1. StreamTypes
  BY TypeParts DEF PInv
<1>2. CASE UNCHANGED <<inbox, announced>>
  BY <1>2, QuietBridge
<1>3. CASE /\ inbox' = [s \in Streams |->
                        IF s[1] = j /\ subscribed[s] THEN Append(inbox[s], e)
                                                     ELSE inbox[s]]
           /\ announced' = announced \cup {j}
  <2>1. NotYetLogged' /\ AnnouncedLogged' /\ BridgeSubscribed'
    BY <1>3 DEF BridgeInv, NotYetLogged, AnnouncedLogged, BridgeSubscribed, Logged
  <2>2. ASSUME NEW k \in Jobs, phase[Gen(k)] = "bridge", k \in announced'
        PROVE  inbox'[Gen(k)] # <<>>
    <3>1. CASE k = j
      <4>1. inbox'[Gen(k)] = Append(inbox[Gen(k)], e)
        BY <1>3, <2>2, <3>1 DEF BridgeInv, BridgeSubscribed
      <4>2. inbox[Gen(k)] \in Seq(Events)
        BY <1>1 DEF StreamTypes
      <4>3. Append(inbox[Gen(k)], e) # <<>>
        <5>1. Len(Append(inbox[Gen(k)], e)) = Len(inbox[Gen(k)]) + 1
          BY <4>2
        <5>2. Len(inbox[Gen(k)]) \in Nat /\ Len(<<>>) = 0
          BY <4>2
        <5>3. QED
          BY <5>1, <5>2
      <4>4. QED
        BY <4>1, <4>3
    <3>2. CASE k # j
      BY <1>3, <2>2, <3>2 DEF BridgeInv, LiveBridgeMissesNothing
    <3>3. QED
      BY <3>1, <3>2
  <2>3. QED
    BY <2>1, <2>2 DEF BridgeInv, LiveBridgeMissesNothing
<1>4. QED
  BY <1>2, <1>3 DEF Publish

LEMMA ExecuteBridge ==
    ASSUME RInv, PInv, BridgeInv, NEW x \in Executors, Execute(x) \/ FailJob(x)
    PROVE  BridgeInv'
<1> USE StreamsOfJobs
<1>1. StreamTypes
  BY TypeParts DEF PInv
<1>2. log' = log
  BY DEF Execute, ChooseSource, WriteReport, SignalComplete, SignalDone, FailJob,
         queueVars, topicVars
<1>3. stage[x] # "off"
  BY DEF Execute, ChooseSource, WriteReport, SignalComplete, SignalDone, FailJob
<1>4. JobOf(x) \in Jobs /\ (x \in Workers => Logged(JobOf(x)))
  BY <1>3, JobOfExecutor
<1>5. CASE x \in Workers /\ \E e \in Events : Publish(JobOf(x), e) /\ UNCHANGED <<phase, subscribed>>
  BY <1>2, <1>4, <1>5, PublishBridge
<1>6. CASE UNCHANGED <<phase, subscribed, inbox, announced>>
  BY <1>2, <1>6, QuietBridge
<1>7. CASE x \in Jobs /\ EndStream(Gen(x)) /\ UNCHANGED announced
  <2>1. \A r \in Streams : r # Gen(x) => /\ phase'[r] = phase[r]
                                         /\ subscribed'[r] = subscribed[r]
                                         /\ inbox'[r] = inbox[r]
    BY <1>1, <1>7 DEF EndStream, StreamTypes
  <2>2. phase'[Gen(x)] = "ended"
    BY <1>1, <1>7 DEF EndStream, StreamTypes
  <2>3. QED
    BY <1>2, <1>7, <2>1, <2>2, QuietBridge
<1>8. QED
  BY <1>5, <1>6, <1>7 DEF Execute, ChooseSource, WriteReport, SignalComplete,
     SignalDone, FailJob, streamVars, Events

\* Every event that is relayed is a terminal one and ends the bridge.
LEMMA RelayEnds ==
    ASSUME PInv, NEW s \in Streams, Relay(s)
    PROVE  EndStream(s) /\ phase[s] \in {"bridge", "poll"}
<1>1. ASSUME RelayEvent(s)
      PROVE  Head(inbox[s]) \in TerminalEvents
  <2>1. inbox[s] \in Seq(Events) /\ inbox[s] # <<>>
    BY <1>1 DEF PInv, TypeOK, RelayEvent
  <2>2. Head(inbox[s]) \in Events
    BY <2>1
  <2>3. QED
    BY <2>2 DEF Events, TerminalEvents
<1>2. QED
  BY <1>1 DEF Relay, RelayEvent, PollRow, PollTimeout

LEMMA NextBridgeInv == RInv /\ PInv /\ BridgeInv /\ [Next]_vars => BridgeInv'
<1> SUFFICES ASSUME RInv, PInv, BridgeInv, [Next]_vars
             PROVE  BridgeInv'
  OBVIOUS
<1> USE StreamsOfJobs
<1>1. StreamTypes
  BY TypeParts DEF PInv
<1>2. ASSUME NEW j \in Jobs, Reconnect(j) \/ ReconnectSubscribe(j)
      PROVE  BridgeInv'
  <2>1. log' = log /\ announced' = announced
    BY <1>2 DEF Reconnect, ReconnectSubscribe, queueVars, topicVars
  <2>2. \A r \in Streams : r # Rec(j) => /\ phase'[r] = phase[r]
                                         /\ subscribed'[r] = subscribed[r]
                                         /\ inbox'[r] = inbox[r]
    BY <1>1, <1>2 DEF Reconnect, ReconnectSubscribe, EndStream, StreamTo, StreamTypes
  <2>3. QED
    BY <2>1, <2>2, QuietBridge
<1>3. ASSUME NEW w \in Workers,
             \/ \E p \in Partitions : StartJob(w, p)
             \/ MarkOutcome(w) \/ HandlerRaises(w) \/ WorkerCrash(w) \/ LoopStep(w)
      PROVE  BridgeInv'
  <2>1. UNCHANGED <<streamVars, announced>>
    BY <1>3 DEF StartJob, MarkOutcome, HandlerRaises, WorkerCrash, LoopStep
  <2>2. QED
    BY <1>3, <2>1, WorkerLog, QuietBridge DEF streamVars
<1>4. ASSUME NEW s \in Streams, Relay(s) \/ ClientLeaves(s)
      PROVE  BridgeInv'
  <2>1. CASE Relay(s)
    <3>1. EndStream(s)
      BY <2>1, RelayEnds
    <3>2. \A r \in Streams : \/ phase'[r] \in {"ended", "cut"}
                             \/ /\ phase'[r] = phase[r]
                                /\ subscribed'[r] = subscribed[r]
                                /\ inbox'[r] = inbox[r]
      BY <1>1, <3>1 DEF EndStream, StreamTypes
    <3>3. log' = log /\ announced' = announced
      BY <2>1 DEF Relay, RelayEvent, PollRow, PollTimeout, queueVars, topicVars
    <3>4. QED
      BY <3>2, <3>3, QuietBridge
  <2>2. log' = log /\ announced' = announced
    BY <1>4 DEF Relay, RelayEvent, PollRow, PollTimeout, ClientLeaves, queueVars, topicVars
  <2>3. CASE ClientLeaves(s)
    <3>1. \A r \in Streams : \/ phase'[r] \in {"ended", "cut"}
                             \/ /\ phase'[r] = phase[r]
                                /\ subscribed'[r] = subscribed[r]
                                /\ inbox'[r] = inbox[r]
      BY <1>1, <2>3 DEF ClientLeaves, StreamTypes
    <3>2. QED
      BY <2>2, <3>1, QuietBridge
  <2>4. QED
    BY <1>4, <2>1, <2>3
<1>5. CASE UNCHANGED vars
  BY <1>5, QuietBridge DEF vars, queueVars, topicVars, streamVars
<1>6. QED
  BY <1>2, <1>3, <1>4, <1>5, SubmitBridge, ExecuteBridge DEF Next

LEMMA BridgeInvariant == Spec => []BridgeInv
<1>1. Init => BridgeInv
  BY InitBridgeInv
<1>2. RInv /\ PInv /\ BridgeInv /\ [Next]_vars => BridgeInv'
  BY NextBridgeInv
<1>3. Spec => []PInv
  BY PipelineTypeCorrect, PTL DEF PInv
<1>4. QED
  BY <1>1, <1>2, <1>3, PipelineQueueInvariant, PTL DEF Spec

\* create_job, open_subscription, then enqueue: whatever a worker publishes for a
\* job comes after the subscription of its own request (app.py, generate), so no
\* terminal event Redis took is lost to a client on the live bridge.
THEOREM LiveBridge == Spec => []LiveBridgeMissesNothing
BY BridgeInvariant, PTL DEF BridgeInv

-----------------------------------------------------------------------------
\* One verdict per client

Verdicts == {<<>>, <<"complete">>, <<"error">>, <<"done">>, <<"complete", "done">>}

\* A client has heard nothing before its stream ends, except the "complete" of an
\* inline run that is about to say "done".
SentSoFar(s) ==
    /\ sent[s] \in Verdicts
    /\ phase[s] \notin {"inline"} \cup Over => sent[s] = <<>>
    /\ phase[s] = "inline" =>
          /\ sent[s] \in {<<>>, <<"complete">>}
          /\ stage[s[1]] # "index" => sent[s] = <<>>

VerdictInv == \A s \in Streams : SentSoFar(s)

LEMMA VerdictLists ==
    /\ \A e \in Verdicts : <<>> \o e = e
    /\ <<"complete">> \o <<"done">> = <<"complete", "done">>
    /\ \A e \in Events : <<e>> \in Verdicts
    /\ \A status : FromRow(status) \in Verdicts
<1>1. \A e \in Verdicts : <<>> \o e = e
  <2>1. ASSUME NEW e \in Verdicts
        PROVE  <<>> \o e = e
    <3>1. /\ <<>> \in Seq(Events) /\ <<"complete">> \in Seq(Events)
          /\ <<"error">> \in Seq(Events) /\ <<"done">> \in Seq(Events)
          /\ <<"complete", "done">> \in Seq(Events)
      BY DEF Events
    <3>2. e \in Seq(Events)
      BY <3>1 DEF Verdicts
    <3>3. QED
      BY <3>2
  <2>2. QED
    BY <2>1
<1>2. <<"complete">> \o <<"done">> = <<"complete", "done">>
  <2> DEFINE a == <<"complete">> \o <<"done">>
             b == <<"complete", "done">>
  <2>1. <<"complete">> \in Seq(Events) /\ <<"done">> \in Seq(Events) /\ b \in Seq(Events)
    BY DEF Events
  <2>2. a \in Seq(Events) /\ Len(a) = 2 /\ a[1] = "complete" /\ a[2] = "done"
    BY <2>1
  <2>3. \A i \in 1..Len(a) : a[i] = b[i]
    BY <2>2
  <2>4. Len(b) = 2
    OBVIOUS
  <2> HIDE DEF a, b
  <2>5. a = b
    BY <2>1, <2>2, <2>3, <2>4, SeqEqual
  <2>6. QED
    BY <2>5 DEF a, b
<1>3. \A e \in Events : <<e>> \in Verdicts
  BY DEF Events, Verdicts
<1>4. \A status : FromRow(status) \in Verdicts
  BY DEF FromRow, Verdicts
<1>5. QED
  BY <1>1, <1>2, <1>3, <1>4

\* What SendAll and EndStream make of a stream that had heard nothing.
LEMMA FirstWords ==
    ASSUME PInv, VerdictInv, NEW s \in Streams, sent[s] = <<>>,
           NEW e \in Verdicts, SendAll(s, e), EndStream(s)
    PROVE  /\ SentSoFar(s)'
           /\ \A r \in Streams : r # s => sent'[r] = sent[r] /\ phase'[r] = phase[r]
<1>1. StreamTypes
  BY TypeParts DEF PInv
<1>2. sent'[s] = e /\ phase'[s] = "ended"
  BY <1>1, VerdictLists DEF SendAll, EndStream, StreamTypes
<1>3. SentSoFar(s)'
  BY <1>2 DEF SentSoFar, Over
<1>4. \A r \in Streams : r # s => sent'[r] = sent[r] /\ phase'[r] = phase[r]
  BY <1>1 DEF SendAll, EndStream, StreamTypes
<1>5. QED
  BY <1>3, <1>4

LEMMA SubmitVerdict ==
    ASSUME PInv, VerdictInv, NEW j \in Jobs, Submit(j)
    PROVE  VerdictInv'
<1> USE StreamsOfJobs
<1>1. StreamTypes /\ ExecTypes
  BY TypeParts DEF PInv
<1>2. sent' = sent /\ sent[Gen(j)] = <<>>
  BY DEF VerdictInv, SentSoFar, Submit, CreateJob, OpenSubscription, Enqueued,
         EnqueueRefused, RunInline, Over
<1>3. phase'[Gen(j)] \notin Over
      /\ \A r \in Streams : r # Gen(j) => phase'[r] = phase[r]
  BY <1>1 DEF Submit, CreateJob, OpenSubscription, Enqueued, EnqueueRefused, RunInline, StreamTo,
              StreamTypes, Over
<1>4. \A k \in Jobs : k # j => stage'[k] = stage[k]
  BY <1>1 DEF Submit, CreateJob, OpenSubscription, Enqueued, EnqueueRefused, RunInline, StageTo,
              ExecTypes, execVars, Executors
<1>5. ASSUME NEW r \in Streams
      PROVE  SentSoFar(r)'
  <2>1. CASE r = Gen(j)
    BY <1>2, <2>1 DEF SentSoFar, Verdicts
  <2>2. CASE r # Gen(j)
    <3>1. phase[r] = "inline" => r[1] # j
      <4>1. r = Gen(r[1]) \/ r = Rec(r[1])
        OBVIOUS
      <4>2. QED
        BY <2>2, <4>1 DEF PInv, InlineStages
    <3>2. QED
      BY <1>2, <1>3, <1>4, <2>2, <3>1 DEF VerdictInv, SentSoFar
  <2>3. QED
    BY <2>1, <2>2
<1>6. QED
  BY <1>5 DEF VerdictInv

LEMMA ExecuteVerdict ==
    ASSUME RInv, PInv, VerdictInv, NEW x \in Executors, Execute(x) \/ FailJob(x)
    PROVE  VerdictInv'
<1> USE StreamsOfJobs
<1>1. StreamTypes /\ ExecTypes
  BY TypeParts DEF PInv
<1>2. \A y \in Executors : y # x => stage'[y] = stage[y]
  BY <1>1 DEF Execute, ChooseSource, WriteReport, SignalComplete, SignalDone, FailJob,
              StageTo, ExecTypes
<1>3. CASE x \in Workers
  <2>1. UNCHANGED <<phase, sent>>
    BY <1>3, Disjoint DEF Execute, ChooseSource, WriteReport, SignalComplete,
                          SignalDone, FailJob, streamVars
  <2>2. \A j \in Jobs : stage'[j] = stage[j]
    BY <1>2, <1>3, Disjoint DEF Executors
  <2>3. ASSUME NEW r \in Streams
        PROVE  SentSoFar(r)'
    BY <2>1, <2>2 DEF VerdictInv, SentSoFar
  <2>4. QED
    BY <2>3 DEF VerdictInv
<1>4. CASE x \in Jobs
  <2> DEFINE s == Gen(x)
  <2>1. /\ x \notin Workers /\ s \in Streams /\ s[1] = x
        /\ stage[x] # "off" /\ phase[s] = "inline"
    BY <1>4, Disjoint DEF PInv, InlineStages, Execute, ChooseSource, WriteReport,
       SignalComplete, SignalDone, FailJob
  <2>2. ASSUME \A r \in Streams : r # s => sent'[r] = sent[r] /\ phase'[r] = phase[r],
               SentSoFar(s)'
        PROVE  VerdictInv'
    <3>1. ASSUME NEW r \in Streams, r # s
          PROVE  SentSoFar(r)'
      <4>1. phase[r] = "inline" => r[1] # x
        <5>1. r = Gen(r[1]) \/ r = Rec(r[1])
          OBVIOUS
        <5>2. QED
          BY <1>4, <3>1, <5>1 DEF PInv, InlineStages
      <4>2. phase[r] = "inline" => stage'[r[1]] = stage[r[1]]
        BY <1>2, <4>1 DEF Executors
      <4>3. QED
        BY <2>2, <3>1, <4>2 DEF VerdictInv, SentSoFar
    <3>2. QED
      BY <2>2, <3>1 DEF VerdictInv
  <2>3. CASE ChooseSource(x) \/ WriteReport(x)
    <3>1. UNCHANGED <<phase, sent>> /\ stage[x] # "index"
      BY <2>3 DEF ChooseSource, WriteReport, streamVars
    <3>2. SentSoFar(s)'
      BY <2>1, <3>1 DEF VerdictInv, SentSoFar
    <3>3. QED
      BY <2>2, <3>1, <3>2
  <2>4. CASE SignalComplete(x)
    <3>1. SendAll(s, <<"complete">>) /\ phase' = phase /\ sent[s] = <<>>
      BY <2>1, <2>4 DEF SignalComplete, VerdictInv, SentSoFar
    <3>2. stage'[x] = "index"
      BY <1>1, <2>4 DEF SignalComplete, StageTo, ExecTypes
    <3>3. sent'[s] = <<"complete">> /\ \A r \in Streams : r # s => sent'[r] = sent[r]
      BY <1>1, <2>1, <3>1, VerdictLists DEF SendAll, StreamTypes, Verdicts
    <3>4. SentSoFar(s)'
      BY <2>1, <3>1, <3>2, <3>3 DEF SentSoFar, Verdicts
    <3>5. QED
      BY <2>2, <3>1, <3>3, <3>4
  <2>5. CASE SignalDone(x)
    <3>1. SendAll(s, <<"done">>) /\ EndStream(s) /\ sent[s] \in {<<>>, <<"complete">>}
      BY <2>1, <2>5 DEF SignalDone, VerdictInv, SentSoFar
    <3>2. sent'[s] \in Verdicts /\ phase'[s] = "ended"
          /\ \A r \in Streams : r # s => sent'[r] = sent[r] /\ phase'[r] = phase[r]
      BY <1>1, <2>1, <3>1, VerdictLists DEF SendAll, EndStream, StreamTypes, Verdicts
    <3>3. SentSoFar(s)'
      BY <3>2 DEF SentSoFar, Over
    <3>4. QED
      BY <2>2, <3>2, <3>3
  <2>6. CASE FailJob(x)
    <3>1. SendAll(s, <<"error">>) /\ EndStream(s) /\ sent[s] = <<>>
      BY <2>1, <2>6 DEF FailJob, VerdictInv, SentSoFar
    <3>2. <<"error">> \in Verdicts
      BY DEF Verdicts
    <3>3. QED
      BY <2>1, <2>2, <3>1, <3>2, FirstWords
  <2>7. QED
    BY <2>3, <2>4, <2>5, <2>6 DEF Execute
<1>5. QED
  BY <1>3, <1>4 DEF Executors

LEMMA StreamVerdict ==
    ASSUME PInv, VerdictInv, NEW s \in Streams,
           \/ Relay(s) \/ ClientLeaves(s)
           \/ \E j \in Jobs : s = Rec(j) /\ (Reconnect(j) \/ ReconnectSubscribe(j))
    PROVE  VerdictInv'
<1> USE StreamsOfJobs
<1>1. StreamTypes /\ ExecTypes
  BY TypeParts DEF PInv
<1>2. ASSUME UNCHANGED stage, SentSoFar(s)',
             \A r \in Streams : r # s => sent'[r] = sent[r] /\ phase'[r] = phase[r]
      PROVE  VerdictInv'
  <2>1. ASSUME NEW r \in Streams, r # s
        PROVE  SentSoFar(r)'
    BY <1>2, <2>1 DEF VerdictInv, SentSoFar
  <2>2. QED
    BY <1>2, <2>1 DEF VerdictInv
<1>3. CASE Relay(s)
  <2>1. EndStream(s) /\ phase[s] \in {"bridge", "poll"} /\ stage' = stage
    BY <1>3, RelayEnds DEF Relay, RelayEvent, PollRow, PollTimeout, execVars
  <2>2. sent[s] = <<>>
    BY <2>1 DEF VerdictInv, SentSoFar, Over
  <2>3. PICK e \in Verdicts : SendAll(s, e)
    <3>1. CASE RelayEvent(s)
      <4>1. inbox[s] \in Seq(Events) /\ inbox[s] # <<>>
        BY <1>1, <3>1 DEF RelayEvent, StreamTypes
      <4>2. <<Head(inbox[s])>> \in Verdicts
        BY <4>1, VerdictLists
      <4>3. QED
        BY <3>1, <4>2 DEF RelayEvent
    <3>2. CASE PollRow(s) \/ PollTimeout(s)
      BY <3>2, VerdictLists DEF PollRow, PollTimeout, Verdicts
    <3>3. QED
      BY <1>3, <3>1, <3>2 DEF Relay
  <2>4. QED
    BY <1>2, <2>1, <2>2, <2>3, FirstWords
<1>4. CASE ClientLeaves(s)
  <2>1. /\ sent' = sent
        /\ \A r \in Streams : IF r = s THEN phase'[r] \in Over ELSE phase'[r] = phase[r]
    BY <1>1, <1>4 DEF ClientLeaves, StreamTypes, Over
  <2>2. \A j \in Jobs : stage'[j] = IF j = s[1] /\ phase[s] = "inline" THEN "off" ELSE stage[j]
    BY <1>4 DEF ClientLeaves, Executors
  <2>3. ASSUME NEW r \in Streams
        PROVE  SentSoFar(r)'
    <3>1. CASE r = s
      BY <2>1, <3>1 DEF VerdictInv, SentSoFar, Over
    <3>2. CASE r # s
      <4>1. phase[r] = "inline" => ~(r[1] = s[1] /\ phase[s] = "inline")
        <5>1. (r = Gen(r[1]) \/ r = Rec(r[1])) /\ (s = Gen(s[1]) \/ s = Rec(s[1]))
          OBVIOUS
        <5>2. QED
          BY <3>2, <5>1 DEF PInv, InlineStages
      <4>2. phase[r] = "inline" => stage'[r[1]] = stage[r[1]]
        BY <2>2, <4>1
      <4>3. QED
        BY <2>1, <3>2, <4>2 DEF VerdictInv, SentSoFar
    <3>3. QED
      BY <3>1, <3>2
  <2>4. QED
    BY <2>3 DEF VerdictInv
<1>5. ASSUME NEW j \in Jobs, s = Rec(j), Reconnect(j)
      PROVE  VerdictInv'
  <2>1. phase[s] = "new" /\ stage' = stage
    BY <1>5 DEF Reconnect, execVars
  <2>2. sent[s] = <<>>
    BY <2>1 DEF VerdictInv, SentSoFar, Over
  <2>3. PICK status \in Statuses \cup {None} :
            \/ SendAll(s, FromRow(status)) /\ EndStream(s)
            \/ StreamTo(s, "checked") /\ UNCHANGED sent
    BY <1>5 DEF Reconnect
  <2>4. CASE SendAll(s, FromRow(status)) /\ EndStream(s)
    <3>1. FromRow(status) \in Verdicts
      BY VerdictLists
    <3>2. QED
      BY <1>2, <2>1, <2>2, <2>4, <3>1, FirstWords
  <2>5. CASE StreamTo(s, "checked") /\ UNCHANGED sent
    <3>1. \A r \in Streams : phase'[r] = IF r = s THEN "checked" ELSE phase[r]
      BY <1>1, <2>5 DEF StreamTo, StreamTypes
    <3>2. SentSoFar(s)'
      BY <2>2, <2>5, <3>1 DEF SentSoFar, Verdicts
    <3>3. QED
      BY <1>2, <2>1, <2>5, <3>1, <3>2
  <2>6. QED
    BY <2>3, <2>4, <2>5
<1>6. ASSUME NEW j \in Jobs, s = Rec(j), ReconnectSubscribe(j)
      PROVE  VerdictInv'
  <2>1. phase[s] = "checked" /\ stage' = stage /\ sent' = sent
    BY <1>6 DEF ReconnectSubscribe, execVars
  <2>2. phase'[s] \in {"bridge", "poll"}
        /\ \A r \in Streams : r # s => phase'[r] = phase[r]
    BY <1>1, <1>6 DEF ReconnectSubscribe, StreamTo, StreamTypes
  <2>3. SentSoFar(s)'
    BY <2>1, <2>2 DEF VerdictInv, SentSoFar, Over
  <2>4. QED
    BY <1>2, <2>1, <2>2, <2>3
<1>7. QED
  BY <1>3, <1>4, <1>5, <1>6

LEMMA NextVerdictInv == RInv /\ PInv /\ VerdictInv /\ [Next]_vars => VerdictInv'
<1> SUFFICES ASSUME RInv, PInv, VerdictInv, [Next]_vars
             PROVE  VerdictInv'
  OBVIOUS
<1>1. ASSUME UNCHANGED streamVars, \A j \in Jobs : stage'[j] = stage[j]
      PROVE  VerdictInv'
  <2>1. ASSUME NEW r \in Streams
        PROVE  SentSoFar(r)'
    BY <1>1, StreamsOfJobs DEF VerdictInv, SentSoFar, streamVars
  <2>2. QED
    BY <2>1 DEF VerdictInv
<1>2. ASSUME NEW w \in Workers,
             \/ \E p \in Partitions : StartJob(w, p)
             \/ MarkOutcome(w) \/ HandlerRaises(w) \/ WorkerCrash(w) \/ LoopStep(w)
      PROVE  VerdictInv'
  <2>1. UNCHANGED streamVars
    BY <1>2 DEF StartJob, MarkOutcome, HandlerRaises, WorkerCrash, LoopStep
  <2>2. \A j \in Jobs : stage'[j] = stage[j]
    BY <1>2, Disjoint DEF StartJob, MarkOutcome, HandlerRaises, WorkerCrash, LoopStep,
       execVars, StageTo, PInv, TypeOK, Executors
  <2>3. QED
    BY <1>1, <2>1, <2>2
<1>3. CASE UNCHANGED vars
  BY <1>1, <1>3 DEF vars, execVars
<1>4. ASSUME NEW j \in Jobs, Reconnect(j) \/ ReconnectSubscribe(j)
      PROVE  VerdictInv'
  BY <1>4, StreamVerdict, StreamsOfJobs
<1>5. QED
  BY <1>2, <1>3, <1>4, SubmitVerdict, ExecuteVerdict, StreamVerdict DEF Next

\* Each way a stream can end (relay, synthesized from the row, timeout, inline)
\* says one verdict and closes it, so a redelivered job that ends differently the
\* second time reaches no client twice (report_jobs.py, app.py).
THEOREM OneVerdict == Spec => []OneVerdictPerClient
<1>1. Init => VerdictInv
  BY DEF Init, VerdictInv, SentSoFar, Verdicts
<1>2. RInv /\ PInv /\ VerdictInv /\ [Next]_vars => VerdictInv'
  BY NextVerdictInv
<1>3. VerdictInv => OneVerdictPerClient
  BY DEF VerdictInv, SentSoFar, Verdicts, OneVerdictPerClient, ToSet
<1>4. Spec => []PInv
  BY PipelineTypeCorrect, PTL DEF PInv
<1>5. QED
  BY <1>1, <1>2, <1>3, <1>4, PipelineQueueInvariant, PTL DEF Spec

-----------------------------------------------------------------------------
\* The outcome of a committed job is in the table

\* Message i of p is committed, or the holder of p is past it.
Settled(p, i) == i <= committed[p] \/ \E w \in Workers : i <= batch[w][p].from

\* create_job comes before everything else of a request.
RowsExist == \A j \in Jobs : phase[Gen(j)] # "new" => row[j] # "absent"

\* j's outcome is in the table, or its inline run has yet to put it there, or was
\* cut short before it did.
Outcome(j) ==
    \/ row[j] \in Terminal
    \/ phase[Gen(j)] = "inline" /\ stage[j] # "index"
    \/ phase[Gen(j)] = "cut"

SettledRows ==
    \A p \in Partitions : \A i \in DOMAIN log[p] :
        Settled(p, i) => Outcome(log[p][i])

TableInv ==
    ~PostgresMayFail => RowsExist /\ (rebalances = 0 => SettledRows)

LEMMA LogTypes ==
    ASSUME QInv, NEW p \in Partitions
    PROVE  /\ log[p] \in Seq(Jobs) /\ Len(log[p]) \in Nat
           /\ DOMAIN log[p] = 1..Len(log[p])
           /\ \A i \in DOMAIN log[p] : log[p][i] \in Jobs
BY DEF QInv, QTypeOK

\* A job that is in the topic has its row.
LEMMA LoggedHasRow ==
    ASSUME RInv, BridgeInv, RowsExist, NEW j \in Jobs, Logged(j)
    PROVE  row[j] # "absent"
BY DEF BridgeInv, NotYetLogged, RowsExist

\* Polling, committing and dying settle no message: only the end of its handler
\* does.
LEMMA LoopSettles ==
    ASSUME QInv, HoldFacts, NEW w \in Workers, LoopStep(w) \/ WorkerCrash(w),
           NEW p \in Partitions, NEW i \in DOMAIN log[p], Settled(p, i)'
    PROVE  Settled(p, i)
<1>1. i \in Nat \ {0}
  BY LogTypes
<1>2. HoldFacts
  OBVIOUS
<1>3. CASE Poll(w)
  <2>1. PICK n \in [Partitions -> 0..MaxRecords] :
          /\ \A q \in Partitions : n[q] <= Available(w, q)
          /\ batch' = [batch EXCEPT ![w] = [q \in Partitions |->
                          IF n[q] = 0 THEN NoSlice
                          ELSE [from |-> position[q], upto |-> position[q] + n[q]]]]
    BY <1>3 DEF Poll
  <2>2. committed' = committed
    BY <1>3 DEF Poll
  <2>3. ASSUME NEW v \in Workers, i <= batch'[v][p].from
        PROVE  Settled(p, i)
    <3>1. CASE v # w
      <4>1. batch'[v][p] = batch[v][p]
        BY <2>1, <3>1 DEF QInv, QTypeOK
      <4>2. QED
        BY <2>3, <4>1 DEF Settled
    <3>2. CASE v = w /\ n[p] = 0
      <4>1. batch'[v][p] = [from |-> 0, upto |-> 0]
        BY <2>1, <3>2 DEF QInv, QTypeOK, NoSlice
      <4>2. QED
        BY <1>1, <2>3, <4>1
    <3>3. CASE v = w /\ n[p] # 0
      <4>1. batch'[v][p] = [from |-> position[p], upto |-> position[p] + n[p]]
        BY <2>1, <3>3 DEF QInv, QTypeOK
      <4>2. owner[p] = w
        <5>1. n[p] \in Nat /\ n[p] <= Available(w, p)
          BY <2>1, BoundsAssumption
        <5>2. QED
          BY <3>3, <5>1 DEF Available
      <4>3. batch[w][p].upto = 0
        <5>1. ~(batch[w][p].from < batch[w][p].upto) /\ current[w] # p
          BY <1>3, PartitionsAssumption DEF Poll, Polling, Pending
        <5>2. batch[w][p].from = batch[w][p].upto
          BY <5>1, HoldTypes
        <5>3. QED
          BY <1>2, <5>1, <5>2 DEF HoldFacts, HoldAt
      <4>4. position[p] = committed[p]
        BY <1>2, <4>2, <4>3 DEF HoldFacts, HoldAt
      <4>5. QED
        BY <2>3, <4>1, <4>4 DEF Settled
    <3>4. QED
      BY <3>1, <3>2, <3>3
  <2>4. QED
    BY <2>2, <2>3 DEF Settled
<1>4. CASE Commit(w)
  <2> DEFINE c == current[w]
  <2>1. c \in Partitions
    BY <1>4 DEF Commit, SliceHandled, QInv, QTypeOK
  <2>2. \A v \in Workers, q \in Partitions :
          batch'[v][q] = IF v = w /\ q = c THEN [from |-> 0, upto |-> 0] ELSE batch[v][q]
    BY <1>4 DEF Commit, QInv, QTypeOK, NoSlice
  <2>3. committed' = [committed EXCEPT ![c] = batch[w][c].upto]
    BY <1>4 DEF Commit, NextOffset
  <2>4. batch[w][c].from = batch[w][c].upto
    <3>1. ~(batch[w][c].from < batch[w][c].upto)
      BY <1>4, <2>1 DEF Commit, SliceHandled, Pending
    <3>2. QED
      BY <2>1, <3>1, HoldTypes
  <2>5. \A q \in Partitions : committed'[q] = IF q = c THEN batch[w][c].from ELSE committed[q]
    BY <2>1, <2>3, <2>4 DEF QInv, QTypeOK
  <2>6. CASE i <= committed'[p]
    BY <2>5, <2>6 DEF Settled
  <2>7. ASSUME NEW v \in Workers, i <= batch'[v][p].from
        PROVE  Settled(p, i)
    <3>1. ~(v = w /\ p = c)
      <4>1. [from |-> 0, upto |-> 0].from = 0
        OBVIOUS
      <4>2. QED
        BY <1>1, <2>2, <2>7, <4>1
    <3>2. QED
      BY <2>2, <2>7, <3>1 DEF Settled
  <2>8. QED
    BY <2>6, <2>7 DEF Settled
<1>5. CASE Gone(w) /\ committed' = committed
  <2>1. ASSUME NEW v \in Workers, i <= batch'[v][p].from
        PROVE  v # w /\ batch'[v][p] = batch[v][p]
    <3>1. CASE v = w
      <4>1. batch'[v][p] = [from |-> 0, upto |-> 0]
        BY <1>5, <3>1 DEF Gone, QInv, QTypeOK, NoSlice
      <4>2. QED
        BY <1>1, <2>1, <4>1
    <3>2. CASE v # w
      BY <1>5, <3>2 DEF Gone, QInv, QTypeOK
    <3>3. QED
      BY <3>1, <3>2
  <2>2. QED
    BY <1>5, <2>1 DEF Settled
<1>6. CASE UNCHANGED <<committed, batch>>
  BY <1>6 DEF Settled
<1>7. QED
  BY <1>3, <1>4, <1>5, <1>6 DEF LoopStep, WorkerCrash, CommitRejected, Crash, Shutdown,
     Restart, Assign, Rebalance, GiveTo, topicVars, workerVars

\* A new outcome in a row that exists keeps and adds final rows.
LEMMA OutcomeKeepsRows ==
    ASSUME ~PostgresMayFail, PInv, NEW j \in Jobs, NEW status \in Terminal, NEW n \in Nat,
           SetRow(j, status, n)
    PROVE  /\ \A k \in Jobs : /\ row[k] # "absent" => row'[k] # "absent"
                              /\ row[k] \in Terminal => row'[k] \in Terminal
           /\ row[j] # "absent" => row'[j] \in Terminal
BY DEF SetRow, PInv, TypeOK, Terminal

LEMMA KeepsTable ==
    ASSUME RInv, PInv, BridgeInv, TableInv, ~PostgresMayFail, log' = log,
           rebalances' = 0 => rebalances = 0,
           \A j \in Jobs : /\ phase[Gen(j)] = "new" => phase'[Gen(j)] = "new"
                           /\ row[j] # "absent" => row'[j] # "absent"
                           /\ Outcome(j) => Outcome(j)',
           rebalances' = 0 => \A p \in Partitions : \A i \in DOMAIN log[p] :
                                Settled(p, i)' => Settled(p, i)
    PROVE  TableInv'
<1>1. RowsExist'
  BY DEF TableInv, RowsExist
<1>2. ASSUME rebalances' = 0
      PROVE  SettledRows'
  <2> SUFFICES ASSUME NEW p \in Partitions, NEW i \in DOMAIN log[p], Settled(p, i)'
               PROVE  Outcome(log[p][i])'
    BY DEF SettledRows
  <2>1. log[p][i] \in Jobs /\ log'[p][i] = log[p][i]
    BY LogTypes DEF RInv
  <2>2. Settled(p, i)
    BY <1>2
  <2>3. Outcome(log[p][i])
    BY <1>2, <2>2 DEF TableInv, SettledRows
  <2>4. QED
    BY <2>1, <2>3
<1>3. QED
  BY <1>1, <1>2 DEF TableInv

\* The late mark_running: whatever the row said, an inline run answers for it now.
LEMMA InlineTable ==
    ASSUME RInv, PInv, BridgeInv, TableInv, ~PostgresMayFail, NEW j \in Jobs, RunInline(j)
    PROVE  TableInv'
<1> USE StreamsOfJobs
<1>1. StreamTypes /\ RowTypes /\ ExecTypes
  BY TypeParts DEF PInv
<1>2. UNCHANGED <<log, committed, batch, rebalances>>
  BY DEF RunInline, queueVars, topicVars, workerVars, faultVars
<1>3. \A p \in Partitions : \A i \in DOMAIN log[p] : Settled(p, i)' => Settled(p, i)
  BY <1>2 DEF Settled
<1>4. phase'[Gen(j)] = "inline" /\ stage'[j] = "source" /\ phase[Gen(j)] = "refused"
  BY <1>1 DEF RunInline, StreamTo, StageTo, StreamTypes, ExecTypes, Executors
<1>5. \A k \in Jobs : k # j => /\ row'[k] = row[k] /\ stage'[k] = stage[k]
                               /\ phase'[Gen(k)] = phase[Gen(k)]
  BY <1>1 DEF RunInline, SetRow, StreamTo, StageTo, StreamTypes, RowTypes, ExecTypes,
              rowVars, Executors
<1>6. row[j] # "absent" => row'[j] # "absent"
  BY <1>1 DEF RunInline, SetRow, RowTypes, rowVars
<1>7. \A k \in Jobs : Outcome(k) => Outcome(k)'
  BY <1>4, <1>5 DEF Outcome
<1>8. QED
  BY <1>2, <1>3, <1>4, <1>5, <1>6, <1>7, KeepsTable

\* Before that a request concerns a job that is not in the topic yet, hence no
\* settled message.
LEMMA SubmitTable ==
    ASSUME RInv, PInv, BridgeInv, TableInv, ~PostgresMayFail, NEW j \in Jobs, Submit(j),
           ~RunInline(j)
    PROVE  TableInv'
<1> USE StreamsOfJobs
<1>1. StreamTypes /\ RowTypes
  BY TypeParts DEF PInv
<1>2. ~Logged(j)
  BY DEF BridgeInv, NotYetLogged, Submit, CreateJob, OpenSubscription, Enqueued,
         EnqueueRefused
<1>3. UNCHANGED <<committed, batch, rebalances>>
  BY DEF Submit, CreateJob, OpenSubscription, Enqueued, EnqueueRefused, EnqueueFails,
         SendAndWait, queueVars, topicVars, workerVars, faultVars
<1>4. \A k \in Jobs : k # j => /\ row'[k] = row[k] /\ stage'[k] = stage[k]
                               /\ phase'[Gen(k)] = phase[Gen(k)]
  BY <1>1 DEF Submit, CreateJob, OpenSubscription, Enqueued, EnqueueRefused, SetRow,
              StreamTo, StreamTypes, RowTypes, rowVars, execVars
<1>5. phase'[Gen(j)] # "new" => row'[j] # "absent"
  <2>1. CASE CreateJob(j)
    BY <1>1, <2>1 DEF CreateJob, RowTypes
  <2>2. CASE ~CreateJob(j)
    <3>1. row[j] # "absent"
      BY <2>2 DEF TableInv, RowsExist, Submit, OpenSubscription, Enqueued, EnqueueRefused
    <3>2. QED
      BY <1>1, <2>2, <3>1 DEF Submit, OpenSubscription, Enqueued, EnqueueRefused, SetRow,
                              RowTypes, rowVars
  <2>3. QED
    BY <2>1, <2>2
<1>6. RowsExist'
  BY <1>4, <1>5 DEF TableInv, RowsExist
<1>7. \/ SendAndWait(j) \/ log' = log
  BY DEF Submit, CreateJob, OpenSubscription, Enqueued, EnqueueRefused, EnqueueFails,
         queueVars, topicVars
<1>8. ASSUME rebalances = 0
      PROVE  SettledRows'
  <2> SUFFICES ASSUME NEW p \in Partitions, NEW i \in DOMAIN log'[p], Settled(p, i)'
               PROVE  Outcome(log[p][i])'
    BY DEF SettledRows
  <2>1. Settled(p, i)
    BY <1>3 DEF Settled
  <2>2. QTypeOK /\ committed[p] <= Len(log[p]) /\ Len(log[p]) \in Nat
        /\ DOMAIN log[p] = 1..Len(log[p]) /\ committed[p] \in Nat
    BY LogTypes DEF RInv, QInv, OffsetsInLog, QTypeOK
  <2>3. \A w \in Workers : batch[w][p].from \in Nat /\ batch[w][p].from <= Len(log[p])
    <3>1. ASSUME NEW w \in Workers
          PROVE  batch[w][p].from \in Nat /\ batch[w][p].from <= Len(log[p])
      <4>1. /\ batch[w][p].from \in Nat /\ batch[w][p].upto \in Nat
            /\ batch[w][p].from <= batch[w][p].upto /\ batch[w][p].upto <= Len(log[p])
        BY HoldTypes DEF RInv, QInv, OffsetsInLog
      <4>2. QED
        BY <2>2, <4>1
    <3>2. QED
      BY <3>1
  <2>4. i \in Nat \ {0}
    BY <1>7, <2>2, LogAfterSend
  <2>5. i \in DOMAIN log[p]
    BY <2>1, <2>2, <2>3, <2>4 DEF Settled
  <2>6. log'[p][i] = log[p][i]
    BY <1>7, <2>2, <2>5, LogAfterSend
  <2>7. log[p][i] \in Jobs /\ log[p][i] # j
    BY <1>2, <2>5, LogTypes DEF RInv, MessagesPlaced, Logged
  <2>8. Outcome(log[p][i])
    BY <1>8, <2>1, <2>5 DEF TableInv, SettledRows
  <2>9. QED
    BY <1>4, <2>6, <2>7, <2>8 DEF Outcome
<1>9. QED
  BY <1>3, <1>6, <1>8 DEF TableInv

\* mark_running touches the row of a message that is not settled: no other message
\* is the same job, and only w holds the partition.
LEMMA StartTable ==
    ASSUME RInv, PInv, BridgeInv, Hold, LoggedOnce, TableInv, ~PostgresMayFail,
           NEW w \in Workers, NEW p \in Partitions, StartJob(w, p)
    PROVE  TableInv'
<1> DEFINE n == batch[w][p].from + 1
           j == log[p][n]
<1>1. RowTypes
  BY TypeParts DEF PInv
<1>2. UNCHANGED <<log, committed, batch, rebalances, phase>>
  BY DEF StartJob, Begin, topicVars, faultVars, streamVars
<1>3. n \in DOMAIN log[p] /\ j \in Jobs /\ batch[w][p].from \in Nat
      /\ batch[w][p].upto # 0
  <2>1. batch[w][p].from < batch[w][p].upto /\ batch[w][p].upto <= Len(log[p])
    BY DEF StartJob, Begin, Pending, RInv, QInv, OffsetsInLog
  <2>2. batch[w][p].from \in Nat /\ batch[w][p].upto \in Nat
    BY HoldTypes DEF RInv
  <2>3. n \in 1..Len(log[p]) /\ batch[w][p].upto # 0
    BY <2>1, <2>2, LogTypes DEF RInv
  <2>4. QED
    BY <2>2, <2>3, LogTypes DEF RInv
<1>4. \A k \in Jobs : k # j => row'[k] = row[k]
  BY <1>1 DEF StartJob, SetRow, rowVars, RowTypes
<1>5. /\ \A k \in Jobs : row[k] # "absent" => row'[k] # "absent"
      /\ \A k \in Jobs : stage'[k] = stage[k]
  <2>1. ExecTypes
    BY TypeParts DEF PInv
  <2>2. QED
    BY <1>1, <2>1, Disjoint DEF StartJob, SetRow, rowVars, RowTypes, StageTo, ExecTypes,
                                Executors
<1>6. RowsExist'
  BY <1>2, <1>5 DEF TableInv, RowsExist
<1>7. ASSUME rebalances = 0
      PROVE  SettledRows'
  <2> SUFFICES ASSUME NEW q \in Partitions, NEW i \in DOMAIN log[q], Settled(q, i)
               PROVE  Outcome(log[q][i])'
    BY <1>2 DEF SettledRows, Settled
  <2>1. ~(q = p /\ i = n)
    <3>1. SUFFICES ASSUME q = p, i = n
                   PROVE  FALSE
      OBVIOUS
    <3>2. HoldAt(w, p)
      BY <1>7 DEF Hold, HoldFacts
    <3>3. ~(n <= committed[p])
      BY <1>3, <3>2, HoldTypes DEF HoldAt, RInv
    <3>4. ASSUME NEW v \in Workers, n <= batch[v][p].from
          PROVE  FALSE
      <4>1. HoldAt(v, p)
        BY <1>7 DEF Hold, HoldFacts
      <4>2. batch[v][p].upto # 0
        BY <1>3, <3>4, HoldTypes DEF RInv
      <4>3. v = w
        BY <1>3, <3>2, <4>1, <4>2 DEF HoldAt
      <4>4. QED
        BY <1>3, <3>4, <4>3
    <3>5. QED
      BY <3>1, <3>3, <3>4 DEF Settled
  <2>2. log[q][i] \in Jobs
    BY LogTypes DEF RInv
  <2>3. log[q][i] # j
    BY <1>3, <2>1 DEF LoggedOnce, RInv, MessagesPlaced
  <2>4. Outcome(log[q][i])
    BY <1>7 DEF TableInv, SettledRows
  <2>5. QED
    BY <1>2, <1>4, <1>5, <2>2, <2>3, <2>4 DEF Outcome
<1>8. QED
  BY <1>2, <1>6, <1>7 DEF TableInv

\* The handler's last act is the row's final status, before the message counts as
\* handled.
LEMMA OutcomeTable ==
    ASSUME RInv, PInv, BridgeInv, TableInv, ~PostgresMayFail,
           NEW w \in Workers, MarkOutcome(w) \/ HandlerRaises(w)
    PROVE  TableInv'
<1> DEFINE c == current[w]
<1>1. RowTypes /\ ExecTypes
  BY TypeParts DEF PInv
<1>2. /\ JobOf(w) \in Jobs /\ Logged(JobOf(w)) /\ c \in Partitions
      /\ JobOf(w) = log[c][batch[w][c].from + 1]
  <2>1. stage[w] # "off" /\ w \in Executors /\ busy[w]
    BY DEF MarkOutcome, HandlerRaises, End, Executors
  <2>2. QED
    BY <2>1, JobOfExecutor, BusyAtHand DEF RInv, JobOf
<1>3. End(w) /\ UNCHANGED <<log, committed, rebalances, phase>>
  BY DEF MarkOutcome, HandlerRaises, End, topicVars, faultVars, streamVars
<1>4. PICK status \in Terminal, n \in Nat : SetRow(JobOf(w), status, n)
  BY <1>1 DEF MarkOutcome, HandlerRaises, Terminal, ExecTypes, Executors
<1>5. \A k \in Jobs : /\ row[k] # "absent" => row'[k] # "absent"
                      /\ row[k] \in Terminal => row'[k] \in Terminal
  BY <1>2, <1>4, OutcomeKeepsRows
<1>5a. \A k \in Jobs : stage'[k] = stage[k]
  BY <1>1, Disjoint DEF MarkOutcome, HandlerRaises, StageTo, ExecTypes, Executors
<1>6. row[JobOf(w)] # "absent" => row'[JobOf(w)] \in Terminal
  BY <1>2, <1>4, OutcomeKeepsRows
<1>7. row'[JobOf(w)] \in Terminal
  BY <1>2, <1>6, LoggedHasRow DEF TableInv
<1>8. RowsExist'
  BY <1>3, <1>5 DEF TableInv, RowsExist
<1>9. \A v \in Workers, q \in Partitions :
        batch'[v][q].from = IF v = w /\ q = c THEN batch[v][q].from + 1
                                              ELSE batch[v][q].from
  BY <1>2, <1>3 DEF End, RInv, QInv, QTypeOK, Slice
<1>10. ASSUME rebalances = 0
       PROVE  SettledRows'
  <2> SUFFICES ASSUME NEW q \in Partitions, NEW i \in DOMAIN log[q], Settled(q, i)'
               PROVE  Outcome(log[q][i])'
    BY <1>3 DEF SettledRows
  <2>1. i \in Nat /\ log[q][i] \in Jobs /\ batch[w][c].from \in Nat
    BY <1>2, LogTypes, HoldTypes DEF RInv
  <2>2. Settled(q, i) \/ (q = c /\ i = batch[w][c].from + 1)
    BY <1>3, <1>9, <2>1 DEF Settled
  <2>3. CASE Settled(q, i)
    BY <1>3, <1>5, <1>5a, <1>10, <2>1, <2>3 DEF TableInv, SettledRows, Outcome
  <2>4. CASE q = c /\ i = batch[w][c].from + 1
    BY <1>2, <1>3, <1>7, <2>4 DEF Outcome
  <2>5. QED
    BY <2>2, <2>3, <2>4
<1>11. QED
  BY <1>3, <1>8, <1>10 DEF TableInv

LEMMA ExecuteTable ==
    ASSUME RInv, PInv, BridgeInv, TableInv, ~PostgresMayFail,
           NEW x \in Executors, Execute(x) \/ FailJob(x)
    PROVE  TableInv'
<1> USE StreamsOfJobs
<1>1. StreamTypes /\ ExecTypes
  BY TypeParts DEF PInv
<1>2. UNCHANGED <<log, committed, batch, rebalances>>
  BY DEF Execute, ChooseSource, WriteReport, SignalComplete, SignalDone, FailJob,
         queueVars, topicVars, workerVars, faultVars
<1>3. \A p \in Partitions : \A i \in DOMAIN log[p] : Settled(p, i)' => Settled(p, i)
  BY <1>2 DEF Settled
<1>4. \A j \in Jobs : phase[Gen(j)] = "new" => phase'[Gen(j)] = "new"
  <2>1. CASE UNCHANGED phase
    BY <2>1
  <2>2. CASE x \in Jobs /\ EndStream(Gen(x)) /\ stage[x] # "off"
    BY <1>1, <2>2 DEF EndStream, PInv, InlineStages, StreamTypes
  <2>3. QED
    BY <2>1, <2>2 DEF Execute, ChooseSource, WriteReport, SignalComplete, SignalDone,
       FailJob, streamVars
<1>5. \A j \in Jobs : /\ row[j] # "absent" => row'[j] # "absent"
                      /\ row[j] \in Terminal => row'[j] \in Terminal
  <2>1. CASE UNCHANGED rowVars
    BY <2>1 DEF rowVars
  <2>2. CASE x \in Jobs /\ \E status \in Terminal, n \in Nat : SetRow(x, status, n)
    BY <2>2, OutcomeKeepsRows
  <2>3. source[x] \in Nat /\ "done" \in Terminal /\ "error" \in Terminal
    BY <1>1 DEF ExecTypes, Terminal
  <2>4. QED
    BY <2>1, <2>2, <2>3 DEF Execute, ChooseSource, WriteReport, SignalComplete,
       SignalDone, FailJob
<1>6. ASSUME NEW j \in Jobs, Outcome(j)
      PROVE  Outcome(j)'
  <2>1. CASE j # x
    <3>1. stage'[j] = stage[j]
      BY <1>1, <2>1 DEF Execute, ChooseSource, WriteReport, SignalComplete, SignalDone,
                        FailJob, StageTo, ExecTypes, Executors
    <3>2. phase'[Gen(j)] = phase[Gen(j)]
      BY <1>1, <2>1 DEF Execute, ChooseSource, WriteReport, SignalComplete, SignalDone,
                        FailJob, EndStream, StreamTypes, streamVars
    <3>3. QED
      BY <1>5, <1>6, <3>1, <3>2 DEF Outcome
  <2>2. CASE j = x
    <3>1. x \in Jobs /\ x \notin Workers /\ phase[Gen(x)] = "inline"
      BY <2>2, Disjoint DEF PInv, InlineStages, Execute, ChooseSource, WriteReport,
         SignalComplete, SignalDone, FailJob
    <3>2. row[x] # "absent"
      BY <3>1 DEF TableInv, RowsExist
    <3>3. CASE ChooseSource(x) \/ WriteReport(x)
      <4>1. UNCHANGED <<phase, rowVars>> /\ stage'[x] # "index"
        BY <1>1, <3>3 DEF ChooseSource, WriteReport, StageTo, ExecTypes, streamVars
      <4>2. QED
        BY <1>6, <2>2, <3>1, <4>1 DEF Outcome
    <3>4. CASE \E status \in Terminal, n \in Nat : SetRow(x, status, n)
      BY <2>2, <3>1, <3>2, <3>4, OutcomeKeepsRows DEF Outcome
    <3>5. CASE SignalDone(x)
      <4>1. stage[x] = "index" /\ UNCHANGED rowVars
        BY <3>5 DEF SignalDone
      <4>2. row[x] \in Terminal
        BY <1>6, <2>2, <3>1, <4>1 DEF Outcome
      <4>3. QED
        BY <2>2, <4>1, <4>2 DEF Outcome, rowVars
    <3>6. source[x] \in Nat /\ "done" \in Terminal /\ "error" \in Terminal
      BY <1>1 DEF ExecTypes, Terminal
    <3>7. QED
      BY <3>1, <3>3, <3>4, <3>5, <3>6 DEF Execute, SignalComplete, FailJob
  <2>3. QED
    BY <2>1, <2>2
<1>7. QED
  BY <1>2, <1>3, <1>4, <1>5, <1>6, KeepsTable

LEMMA NextTableInv ==
    /\ RInv /\ PInv /\ BridgeInv /\ Hold /\ LoggedOnce /\ TableInv
    /\ [Next]_vars
    => TableInv'
<1> SUFFICES ASSUME RInv, PInv, BridgeInv, Hold, LoggedOnce, TableInv, [Next]_vars,
                    ~PostgresMayFail
             PROVE  TableInv'
  BY DEF TableInv
<1> USE StreamsOfJobs
<1>1. StreamTypes
  BY TypeParts DEF PInv
<1>2. ASSUME UNCHANGED <<queueVars, rowVars>>,
             \A j \in Jobs : /\ phase[Gen(j)] = "new" => phase'[Gen(j)] = "new"
                             /\ Outcome(j) => Outcome(j)'
      PROVE  TableInv'
  <2>1. \A p \in Partitions : \A i \in DOMAIN log[p] : Settled(p, i)' => Settled(p, i)
    BY <1>2 DEF Settled, queueVars, topicVars, workerVars
  <2>2. QED
    BY <1>2, <2>1, KeepsTable DEF queueVars, topicVars, faultVars, rowVars
<1>3. ASSUME NEW j \in Jobs, Reconnect(j) \/ ReconnectSubscribe(j)
      PROVE  TableInv'
  <2>1. UNCHANGED <<queueVars, rowVars>>
    BY <1>3 DEF Reconnect, ReconnectSubscribe
  <2>2. \A k \in Jobs : phase'[Gen(k)] = phase[Gen(k)]
    BY <1>1, <1>3 DEF Reconnect, ReconnectSubscribe, EndStream, StreamTo, StreamTypes
  <2>3. \A k \in Jobs : Outcome(k) => Outcome(k)'
    BY <1>3, <2>2 DEF Outcome, Reconnect, ReconnectSubscribe, rowVars, execVars
  <2>4. QED
    BY <1>2, <2>1, <2>2, <2>3
<1>4. ASSUME NEW s \in Streams, Relay(s) \/ ClientLeaves(s)
      PROVE  TableInv'
  <2>1. UNCHANGED <<queueVars, rowVars>>
    BY <1>4 DEF Relay, RelayEvent, PollRow, PollTimeout, ClientLeaves
  <2>2. CASE Relay(s)
    <3>1. EndStream(s) /\ phase[s] \notin {"new", "inline", "cut"} /\ UNCHANGED stage
      BY <2>2, RelayEnds DEF Relay, RelayEvent, PollRow, PollTimeout, execVars
    <3>2. \A k \in Jobs : phase[Gen(k)] \in {"new", "inline", "cut"}
                              => phase'[Gen(k)] = phase[Gen(k)]
      BY <1>1, <3>1 DEF EndStream, StreamTypes
    <3>3. QED
      BY <1>2, <2>1, <3>1, <3>2 DEF Outcome, rowVars
  <2>3. CASE ClientLeaves(s)
    <3>1. phase[s] \notin {"new", "cut"}
      BY <2>3 DEF ClientLeaves, Over
    <3>2. \A k \in Jobs : IF s = Gen(k) /\ phase[s] = "inline"
                          THEN phase'[Gen(k)] = "cut"
                          ELSE stage'[k] = stage[k]
      <4>1. \A k \in Jobs : phase[Rec(k)] # "inline"
        BY DEF PInv, InlineStages
      <4>2. phase[s] = "inline" => s = Gen(s[1])
        BY <4>1
      <4>3. \A k \in Jobs : stage'[k] = IF k = s[1] /\ phase[s] = "inline"
                                       THEN "off" ELSE stage[k]
        BY <2>3 DEF ClientLeaves, Executors
      <4>4. phase[s] = "inline" => phase'[s] = "cut"
        BY <1>1, <2>3 DEF ClientLeaves, StreamTypes
      <4>5. QED
        BY <4>2, <4>3, <4>4
    <3>3. \A k \in Jobs : s # Gen(k) => phase'[Gen(k)] = phase[Gen(k)]
      BY <1>1, <2>3 DEF ClientLeaves, StreamTypes
    <3>4. \A k \in Jobs : Outcome(k) => Outcome(k)'
      BY <2>1, <3>1, <3>2, <3>3 DEF Outcome, rowVars
    <3>5. QED
      BY <1>2, <2>1, <3>1, <3>3, <3>4
  <2>4. QED
    BY <1>4, <2>2, <2>3
<1>5. ASSUME NEW w \in Workers, WorkerCrash(w) \/ LoopStep(w)
      PROVE  TableInv'
  <2>1. UNCHANGED <<rowVars, streamVars>> /\ log' = log
    BY <1>5, WorkerLog DEF WorkerCrash, LoopStep
  <2>2. rebalances \in Nat
    BY DEF RInv, QInv, QTypeOK
  <2>3. rebalances' = 0 => rebalances = 0
    <3>1. rebalances' = rebalances \/ rebalances' = rebalances + 1
      BY <1>5 DEF WorkerCrash, LoopStep, Poll, Commit, CommitRejected, Crash, Shutdown,
         Restart, Assign, Rebalance, GiveTo, faultVars
    <3>2. QED
      BY <2>2, <3>1
  <2>4. rebalances' = 0 => \A p \in Partitions : \A i \in DOMAIN log[p] :
                              Settled(p, i)' => Settled(p, i)
    BY <1>5, <2>3, LoopSettles DEF RInv, Hold
  <2>5. \A k \in Jobs : stage'[k] = stage[k]
    BY <1>5, Disjoint DEF WorkerCrash, LoopStep, StageTo, execVars, PInv, TypeOK, Executors
  <2>6. QED
    BY <2>1, <2>3, <2>4, <2>5, KeepsTable DEF rowVars, streamVars, Outcome
<1>6. CASE UNCHANGED vars
  BY <1>2, <1>6 DEF vars, streamVars, rowVars, execVars, Outcome
<1>7. QED
  BY <1>3, <1>4, <1>5, <1>6, InlineTable, SubmitTable, StartTable, OutcomeTable,
     ExecuteTable DEF Next

\* As long as partitions change hands only because a worker died and no update of
\* the table is lost, every committed job has its outcome in the table: a worker
\* commits after mark_done or mark_error, and no worker reopens a row whose message
\* is committed (worker.py, jobs.py).  Only the request itself does, when Kafka kept
\* the job enqueue called refused: from its mark_running to the end of the inline
\* run, for good when its client leaves (app.py).
THEOREM CommittedSettled == Spec => []CommittedJobSettled
<1>1. Init => TableInv
  <2> SUFFICES ASSUME Init
               PROVE  TableInv
    OBVIOUS
  <2>1. \A p \in Partitions : DOMAIN log[p] = {}
    BY DEF Init, QInit
  <2>2. QED
    BY <2>1, StreamsOfJobs DEF Init, TableInv, RowsExist, SettledRows
<1>2. RInv /\ PInv /\ BridgeInv /\ (Hold /\ LoggedOnce) /\ TableInv /\ [Next]_vars
      => TableInv'
  BY NextTableInv
<1>3. RInv /\ TableInv => CommittedJobSettled
  <2> SUFFICES ASSUME RInv, TableInv, rebalances = 0, ~PostgresMayFail,
                      NEW p \in Partitions, NEW i \in 1..committed[p]
               PROVE  \/ row[log[p][i]] \in Terminal
                      \/ phase[Gen(log[p][i])] \in {"inline", "cut"}
    BY DEF CommittedJobSettled
  <2>1. committed[p] \in Nat /\ committed[p] <= Len(log[p]) /\ DOMAIN log[p] = 1..Len(log[p])
        /\ Len(log[p]) \in Nat
    BY LogTypes DEF RInv, QInv, OffsetsInLog, QTypeOK
  <2>2. i \in DOMAIN log[p] /\ Settled(p, i)
    BY <2>1 DEF Settled
  <2>3. QED
    BY <2>2 DEF TableInv, SettledRows, Outcome
<1>4. Spec => []PInv
  BY PipelineTypeCorrect, PTL DEF PInv
<1>5. QED
  BY <1>1, <1>2, <1>3, <1>4, PipelineQueueInvariant, BridgeInvariant, QueueHolds, PTL
     DEF Spec

-----------------------------------------------------------------------------
\* A finished job has its report

\* The workspace files with the title of the job x executes.
FilesOf(x) == files[TitleOf[JobOf(x)]]

\* Stages in which the report's file is written.
Written == {"written", "index", "mark_done"}

\* The source an executor chose is free or taken, and once written it is there.
SourceFits(x) ==
    /\ stage[x] = "graph" => source[x] \in 1..(Len(FilesOf(x)) + 1)
    /\ stage[x] \in Written => source[x] \in 1..Len(FilesOf(x))

ResultFits(j) == row[j] = "done" => result[j] \in 1..Len(files[TitleOf[j]])

\* The same while executions do not overlap: nobody takes the chosen name first.
SourceOwn(w) ==
    /\ stage[w] = "graph" => source[w] = Len(FilesOf(w)) + 1
    /\ stage[w] \in Written => FilesOf(w)[source[w]] = JobOf(w)

ResultOwn(j) == row[j] = "done" => files[TitleOf[j]][result[j]] = j

NothingInline ==
    ~KafkaMayFail => \A j \in Jobs : stage[j] = "off" /\ phase[Gen(j)] # "refused"

ReportInv ==
    /\ \A x \in Executors : SourceFits(x)
    /\ \A j \in Jobs : ResultFits(j)
    /\ NothingInline
    /\ OneAtATime => /\ \A w \in Workers : SourceOwn(w)
                     /\ \A j \in Jobs : ResultOwn(j)

\* While a worker is in a handler, its message stays the same.
LEMMA MessageStays ==
    ASSUME RInv, [QNext]_queueVars, NEW w \in Workers, busy[w], busy'[w]
    PROVE  /\ current'[w] = current[w]
           /\ batch'[w][current[w]] = batch[w][current[w]]
           /\ log'[current[w]][batch[w][current[w]].from + 1]
                  = log[current[w]][batch[w][current[w]].from + 1]
<1> DEFINE c == current[w]
<1>1. QTypeOK
  BY DEF RInv, QInv
<1>2. c \in Partitions /\ batch[w][c].from + 1 \in DOMAIN log[c]
  BY BusyAtHand DEF RInv
<1>3. ASSUME NEW j \in Jobs, SendAndWait(j)
      PROVE  log'[c][batch[w][c].from + 1] = log[c][batch[w][c].from + 1]
  BY <1>1, <1>2, <1>3, LogAfterSend
<1>4. ~Polling(w)
  BY <1>2, PartitionsAssumption DEF Polling
<1>5. ASSUME NEW v \in Workers,
             Poll(v) \/ Commit(v) \/ End(v) \/ Gone(v) \/ \E p \in Partitions : Begin(v, p)
      PROVE  /\ v # w
             /\ current'[w] = current[w]
             /\ batch'[w] = batch[w]
  <2>1. v # w
    BY <1>1, <1>4, <1>5 DEF Poll, Commit, SliceHandled, End, Gone, Begin, QTypeOK
  <2>2. QED
    BY <1>1, <1>5, <2>1 DEF Poll, Commit, End, Gone, Begin, QTypeOK
<1>6. ASSUME NEW v \in Workers,
             \/ Poll(v) \/ Commit(v) \/ End(v) \/ \E p \in Partitions : Begin(v, p)
             \/ CommitRejected(v) \/ Crash(v) \/ Shutdown(v)
      PROVE  log' = log /\ current'[w] = current[w] /\ batch'[w] = batch[w]
  <2>1. log' = log
    BY <1>6 DEF Poll, Commit, End, Begin, CommitRejected, Crash, Shutdown, topicVars
  <2>2. QED
    BY <1>5, <1>6, <2>1 DEF CommitRejected, Crash, Shutdown
<1>7. ASSUME NEW v \in Workers,
             Restart(v) \/ \E p \in Partitions : Assign(p, v) \/ Rebalance(p, v)
      PROVE  UNCHANGED <<log, current, batch>>
  BY <1>7 DEF Restart, Assign, Rebalance, GiveTo, topicVars, workerVars
<1>8. ASSUME NEW j \in Jobs, SendAndWait(j)
      PROVE  UNCHANGED <<current, batch>>
  BY <1>8 DEF SendAndWait, workerVars
<1>9. CASE UNCHANGED queueVars
  BY <1>9 DEF queueVars, topicVars, workerVars
<1>10. QED
  BY <1>3, <1>6, <1>7, <1>8, <1>9 DEF QNext

LEMMA JobStays ==
    ASSUME RInv, PInv, PInv', [Next]_vars, NEW x \in Executors,
           stage[x] # "off", stage'[x] # "off"
    PROVE  JobOf(x)' = JobOf(x)
<1>1. CASE x \in Workers
  <2>1. busy[x] /\ busy'[x]
    BY <1>1 DEF PInv, WorkerStages
  <2>2. QED
    BY <1>1, <2>1, StepIsQueueStep, MessageStays DEF JobOf
<1>2. CASE x \notin Workers
  BY <1>2 DEF JobOf
<1>3. QED
  BY <1>1, <1>2

\* How an executor gets to the graph and to a written report.
LEMMA StageStep ==
    ASSUME PInv, [Next]_vars, NEW y \in Executors
    PROVE  /\ stage'[y] \in Written =>
                 /\ source'[y] = source[y]
                 /\ stage[y] \in Written \/ (stage[y] = "graph" /\ WriteReport(y))
           /\ stage'[y] = "graph" =>
                 \/ stage[y] = "graph" /\ source'[y] = source[y]
                 \/ /\ stage[y] = "source" /\ files' = files
                    /\ source'[y] = FreshSuffix(TitleOf[JobOf(y)])
           /\ y \in Jobs /\ stage[y] = "off" /\ phase[Gen(y)] # "refused"
                 => stage'[y] = "off"
<1>1. ExecTypes
  BY TypeParts DEF PInv
<1>2. ASSUME NEW j \in Jobs, Submit(j)
      PROVE  /\ source' = source
             /\ \/ stage'[y] = stage[y]
                \/ stage'[y] = "source" /\ y = j /\ phase[Gen(y)] = "refused"
  BY <1>1, <1>2 DEF Submit, CreateJob, OpenSubscription, Enqueued, EnqueueRefused, RunInline,
     StageTo, ExecTypes, execVars
<1>3. ASSUME NEW x \in Executors, Execute(x) \/ FailJob(x)
      PROVE  /\ y # x => stage'[y] = stage[y] /\ source'[y] = source[y]
             /\ stage[x] # "off"
             /\ \/ stage'[x] \in {"off", "mark_error"}
                \/ ChooseSource(x) /\ stage'[x] = "graph"
                      /\ source'[x] = FreshSuffix(TitleOf[JobOf(x)]) /\ files' = files
                \/ WriteReport(x) /\ stage'[x] = "written" /\ source' = source
                \/ stage[x] \in Written /\ stage'[x] \in Written /\ source' = source
  BY <1>1, <1>3 DEF Execute, ChooseSource, WriteReport, SignalComplete, SignalDone,
     FailJob, StageTo, ExecTypes, Written
<1>4. ASSUME NEW w \in Workers,
             \/ \E p \in Partitions : StartJob(w, p)
             \/ MarkOutcome(w) \/ HandlerRaises(w) \/ WorkerCrash(w) \/ LoopStep(w)
      PROVE  /\ source' = source
             /\ stage'[y] = stage[y] \/ (y = w /\ stage'[y] \in {"source", "off"})
  BY <1>1, <1>4 DEF StartJob, MarkOutcome, HandlerRaises, WorkerCrash, LoopStep, StageTo,
     ExecTypes, execVars
<1>5. ASSUME NEW s \in Streams, Relay(s) \/ ClientLeaves(s)
      PROVE  source' = source /\ stage'[y] \in {stage[y], "off"}
  BY <1>5 DEF Relay, RelayEvent, PollRow, PollTimeout, ClientLeaves, execVars
<1>6. ASSUME NEW j \in Jobs, Reconnect(j) \/ ReconnectSubscribe(j)
      PROVE  UNCHANGED <<stage, source>>
  BY <1>6 DEF Reconnect, ReconnectSubscribe, execVars
<1>7. CASE UNCHANGED vars
  BY <1>7 DEF vars, execVars
<1>8. CASE \E j \in Jobs : Submit(j)
  BY <1>2, <1>8 DEF Written
<1>9. CASE \E x \in Executors : Execute(x) \/ FailJob(x)
  <2>1. PICK x \in Executors : Execute(x) \/ FailJob(x)
    BY <1>9
  <2>2. CASE y # x
    BY <1>3, <2>1, <2>2
  <2>3. CASE y = x
    BY <1>3, <2>1, <2>3 DEF ChooseSource, WriteReport, Written
  <2>4. QED
    BY <2>2, <2>3
<1>10. CASE \E w \in Workers :
             \/ \E p \in Partitions : StartJob(w, p)
             \/ MarkOutcome(w) \/ HandlerRaises(w) \/ WorkerCrash(w) \/ LoopStep(w)
  BY <1>4, <1>10, Disjoint DEF Written
<1>11. CASE \E s \in Streams : Relay(s) \/ ClientLeaves(s)
  BY <1>5, <1>11 DEF Written
<1>12. QED
  BY <1>6, <1>7, <1>8, <1>9, <1>10, <1>11 DEF Next, Written

\* As long as Kafka does not fail no request is refused.
LEMMA NoneRefused ==
    ASSUME PInv, [Next]_vars, ~KafkaMayFail, NEW j \in Jobs, phase[Gen(j)] # "refused"
    PROVE  phase'[Gen(j)] # "refused"
<1> USE StreamsOfJobs
<1>1. StreamTypes
  BY TypeParts DEF PInv
<1>2. ASSUME NEW k \in Jobs, Submit(k)
      PROVE  phase'[Gen(j)] # "refused"
  BY <1>1, <1>2 DEF Submit, CreateJob, OpenSubscription, Enqueued, EnqueueRefused,
     RunInline, StreamTo, StreamTypes
<1>3. ASSUME NEW k \in Jobs, Reconnect(k) \/ ReconnectSubscribe(k)
      PROVE  phase'[Gen(j)] # "refused"
  BY <1>1, <1>3 DEF Reconnect, ReconnectSubscribe, EndStream, StreamTo, StreamTypes
<1>4. ASSUME NEW x \in Executors, Execute(x) \/ FailJob(x)
      PROVE  phase'[Gen(j)] # "refused"
  BY <1>1, <1>4 DEF Execute, ChooseSource, WriteReport, SignalComplete, SignalDone,
     FailJob, EndStream, StreamTypes, streamVars
<1>5. ASSUME NEW w \in Workers,
             \/ \E p \in Partitions : StartJob(w, p)
             \/ MarkOutcome(w) \/ HandlerRaises(w) \/ WorkerCrash(w) \/ LoopStep(w)
      PROVE  phase'[Gen(j)] # "refused"
  BY <1>5 DEF StartJob, MarkOutcome, HandlerRaises, WorkerCrash, LoopStep, streamVars
<1>6. ASSUME NEW s \in Streams, Relay(s) \/ ClientLeaves(s)
      PROVE  phase'[Gen(j)] # "refused"
  BY <1>1, <1>6 DEF Relay, RelayEvent, PollRow, PollTimeout, ClientLeaves, EndStream,
     StreamTypes
<1>7. CASE UNCHANGED vars
  BY <1>7 DEF vars, streamVars
<1>8. QED
  BY <1>2, <1>3, <1>4, <1>5, <1>6, <1>7 DEF Next

\* A row becomes "done" only for a written report, with its source.
LEMMA RowStep ==
    ASSUME RInv, PInv, [Next]_vars, NEW j \in Jobs, row'[j] = "done"
    PROVE  \/ row[j] = "done" /\ result'[j] = result[j]
           \/ \E x \in Executors : /\ stage[x] \in Written /\ JobOf(x) = j
                                   /\ result'[j] = source[x] /\ files' = files
<1>1. RowTypes /\ ExecTypes
  BY TypeParts DEF PInv
<1>2. ASSUME NEW k \in Jobs, NEW status \in Statuses, NEW n \in Nat, SetRow(k, status, n)
      PROVE  \/ row[j] = "done" /\ result'[j] = result[j]
             \/ k = j /\ status = "done" /\ result'[j] = n
  BY <1>1, <1>2 DEF SetRow, rowVars, RowTypes, Statuses
<1>3. ASSUME NEW k \in Jobs, Submit(k)
      PROVE  row[j] = "done" /\ result'[j] = result[j]
  <2>1. CASE RunInline(k)
    BY <1>2, <2>1 DEF RunInline, Statuses
  <2>2. CASE ~RunInline(k)
    BY <1>1, <1>3, <2>2 DEF Submit, CreateJob, OpenSubscription, Enqueued,
       EnqueueRefused, rowVars, RowTypes
  <2>3. QED
    BY <2>1, <2>2
<1>4. ASSUME UNCHANGED rowVars
      PROVE  row[j] = "done" /\ result'[j] = result[j]
  BY <1>4 DEF rowVars
<1>5. ASSUME NEW x \in Executors, Execute(x) \/ FailJob(x)
      PROVE  \/ row[j] = "done" /\ result'[j] = result[j]
             \/ /\ stage[x] \in Written /\ JobOf(x) = j
                /\ result'[j] = source[x] /\ files' = files
  <2>1. CASE UNCHANGED rowVars
    BY <1>4, <2>1
  <2>2. CASE /\ x \in Jobs /\ stage[x] \in Written
             /\ SetRow(x, "done", source[x]) /\ files' = files
    <3>1. source[x] \in Nat /\ JobOf(x) = x
      BY <1>1, <2>2, Disjoint DEF ExecTypes, JobOf
    <3>2. QED
      BY <1>2, <2>2, <3>1 DEF Statuses
  <2>3. CASE x \in Jobs /\ SetRow(x, "error", 0)
    BY <1>2, <2>3 DEF Statuses
  <2>4. QED
    BY <1>5, <2>1, <2>2, <2>3 DEF Execute, ChooseSource, WriteReport, SignalComplete,
       SignalDone, FailJob, Written
<1>6. ASSUME NEW w \in Workers, NEW p \in Partitions, StartJob(w, p)
      PROVE  row[j] = "done" /\ result'[j] = result[j]
  BY <1>1, <1>6 DEF StartJob, SetRow, rowVars, RowTypes
<1>7. ASSUME NEW w \in Workers, MarkOutcome(w) \/ HandlerRaises(w)
      PROVE  \/ row[j] = "done" /\ result'[j] = result[j]
             \/ /\ stage[w] \in Written /\ JobOf(w) = j
                /\ result'[j] = source[w] /\ files' = files
  <2>1. w \in Executors /\ stage[w] # "off" /\ files' = files /\ source[w] \in Nat
    BY <1>1, <1>7 DEF Executors, MarkOutcome, HandlerRaises, ExecTypes
  <2>2. JobOf(w) \in Jobs
    BY <2>1, JobOfExecutor
  <2>3. CASE stage[w] = "mark_done" /\ SetRow(JobOf(w), "done", source[w])
    BY <1>2, <2>1, <2>2, <2>3 DEF Statuses, Written
  <2>4. CASE SetRow(JobOf(w), "error", 0)
    BY <1>2, <2>2, <2>4 DEF Statuses
  <2>5. QED
    BY <1>7, <2>3, <2>4 DEF MarkOutcome, HandlerRaises
<1>8. QED
  <2>1. ASSUME NEW w \in Workers, WorkerCrash(w) \/ LoopStep(w)
        PROVE  UNCHANGED rowVars
    BY <2>1 DEF WorkerCrash, LoopStep
  <2>2. ASSUME NEW s \in Streams, Relay(s) \/ ClientLeaves(s)
        PROVE  UNCHANGED rowVars
    BY <2>2 DEF Relay, RelayEvent, PollRow, PollTimeout, ClientLeaves
  <2>3. ASSUME NEW k \in Jobs, Reconnect(k) \/ ReconnectSubscribe(k)
        PROVE  UNCHANGED rowVars
    BY <2>3 DEF Reconnect, ReconnectSubscribe
  <2>4. CASE UNCHANGED vars
    BY <1>4, <2>4 DEF vars
  <2>5. \A w \in Workers : w \in Executors
    BY DEF Executors
  <2>6. QED
    BY <1>3, <1>4, <1>5, <1>6, <1>7, <2>1, <2>2, <2>3, <2>4, <2>5 DEF Next

LEMMA FilesChange == [Next]_vars => files' = files \/ \E x \in Executors : WriteReport(x)
<1> SUFFICES ASSUME [Next]_vars
             PROVE  files' = files \/ \E x \in Executors : WriteReport(x)
  OBVIOUS
<1>1. ASSUME NEW j \in Jobs, Submit(j) \/ Reconnect(j) \/ ReconnectSubscribe(j)
      PROVE  files' = files
  BY <1>1 DEF Submit, CreateJob, OpenSubscription, Enqueued, EnqueueRefused, RunInline, Reconnect,
     ReconnectSubscribe, execVars
<1>2. ASSUME NEW x \in Executors, Execute(x) \/ FailJob(x)
      PROVE  files' = files \/ WriteReport(x)
  BY <1>2 DEF Execute, ChooseSource, SignalComplete, SignalDone, FailJob
<1>3. ASSUME NEW w \in Workers,
             \/ \E p \in Partitions : StartJob(w, p)
             \/ MarkOutcome(w) \/ HandlerRaises(w) \/ WorkerCrash(w) \/ LoopStep(w)
      PROVE  files' = files
  BY <1>3 DEF StartJob, MarkOutcome, HandlerRaises, WorkerCrash, LoopStep, execVars
<1>4. ASSUME NEW s \in Streams, Relay(s) \/ ClientLeaves(s)
      PROVE  files' = files
  BY <1>4 DEF Relay, RelayEvent, PollRow, PollTimeout, ClientLeaves, execVars
<1>5. CASE UNCHANGED vars
  BY <1>5 DEF vars, execVars
<1>6. QED
  BY <1>1, <1>2, <1>3, <1>4, <1>5 DEF Next

LEMMA FileTypes ==
    ASSUME PInv, NEW j \in Jobs
    PROVE  TitleOf[j] \in Titles /\ files[TitleOf[j]] \in Seq(Jobs)
           /\ Len(files[TitleOf[j]]) \in Nat
BY DEF PInv, TypeOK, Titles

\* write_text at a source that was free when it was chosen.
LEMMA WriteFiles ==
    ASSUME RInv, PInv, NEW x \in Executors, WriteReport(x), SourceFits(x)
    PROVE  /\ \A t \in Titles : Len(files'[t]) \in Nat /\ Len(files'[t]) >= Len(files[t])
           /\ source[x] \in 1..Len(files'[TitleOf[JobOf(x)]])
           /\ files'[TitleOf[JobOf(x)]][source[x]] = JobOf(x)
           /\ source[x] = Len(FilesOf(x)) + 1 =>
                 \A t \in Titles : \A i \in 1..Len(files[t]) : files'[t][i] = files[t][i]
<1> DEFINE T == TitleOf[JobOf(x)]
           n == source[x]
<1>1. JobOf(x) \in Jobs /\ T \in Titles
  BY JobOfExecutor DEF WriteReport
<1>2. \A t \in Titles : files[t] \in Seq(Jobs) /\ Len(files[t]) \in Nat
  BY DEF PInv, TypeOK
<1>3. \A t \in Titles : t # T => files'[t] = files[t]
  BY <1>1 DEF WriteReport, PInv, TypeOK
<1>4. n \in 1..(Len(files[T]) + 1)
  BY DEF WriteReport, SourceFits, FilesOf
<1>5. CASE n = Len(files[T]) + 1
  <2>1. files'[T] = Append(files[T], JobOf(x))
    <3>1. n \notin DOMAIN files[T]
      BY <1>1, <1>2, <1>5
    <3>2. QED
      BY <1>1, <3>1 DEF WriteReport, PInv, TypeOK
  <2>2. /\ Len(files'[T]) = Len(files[T]) + 1 /\ files'[T][n] = JobOf(x)
        /\ \A i \in 1..Len(files[T]) : files'[T][i] = files[T][i]
    BY <1>1, <1>2, <1>5, <2>1
  <2>3. \A t \in Titles : \A i \in 1..Len(files[t]) : files'[t][i] = files[t][i]
    BY <1>3, <2>2
  <2>4. \A t \in Titles : Len(files'[t]) \in Nat /\ Len(files'[t]) >= Len(files[t])
    BY <1>1, <1>2, <1>3, <2>2
  <2>5. QED
    BY <1>1, <1>2, <1>5, <2>2, <2>3, <2>4
<1>6. CASE n # Len(files[T]) + 1
  <2>1. n \in 1..Len(files[T])
    BY <1>1, <1>2, <1>4, <1>6
  <2>2. files'[T] = [files[T] EXCEPT ![n] = JobOf(x)]
    <3>1. n \in DOMAIN files[T]
      BY <1>1, <1>2, <2>1
    <3>2. QED
      BY <1>1, <3>1 DEF WriteReport, PInv, TypeOK
  <2>3. Len(files'[T]) = Len(files[T]) /\ files'[T][n] = JobOf(x)
    BY <1>1, <1>2, <2>1, <2>2, ExceptSeq
  <2>4. \A t \in Titles : Len(files'[t]) \in Nat /\ Len(files'[t]) >= Len(files[t])
    BY <1>1, <1>2, <1>3, <2>3
  <2>5. QED
    BY <1>6, <2>1, <2>3, <2>4 DEF FilesOf
<1>7. QED
  BY <1>5, <1>6

\* Only the owner of the one partition has a message in hand.
LEMMA OneExecutor ==
    ASSUME RInv, PInv, Hold, NothingInline, OneAtATime,
           NEW x \in Executors, NEW y \in Executors, stage[x] # "off", stage[y] # "off"
    PROVE  x = y /\ x \in Workers
<1>1. x \in Workers /\ y \in Workers
  BY DEF NothingInline, OneAtATime, Executors
<1>2. HoldFacts
  BY DEF Hold, OneAtATime
<1>3. ASSUME NEW w \in Workers, stage[w] # "off"
      PROVE  /\ current[w] \in Partitions
             /\ owner[current[w]] = w
  <2>1. busy[w]
    BY <1>3 DEF PInv, WorkerStages
  <2>2. current[w] \in Partitions
    BY <2>1, BusyAtHand DEF RInv
  <2>3. HoldAt(w, current[w])
    BY <1>2, <2>2 DEF HoldFacts
  <2>4. QED
    BY <2>2, <2>3 DEF HoldAt
<1>4. QED
  BY <1>1, <1>3 DEF OneAtATime

\* Files are only added or, by an overlapping execution, written again.
LEMMA FilesGrow ==
    ASSUME RInv, PInv, Hold, ReportInv, [Next]_vars
    PROVE  /\ \A x \in Executors : WriteReport(x) =>
                 stage[x] = "graph" /\ SourceFits(x) /\ stage'[x] = "written"
           /\ \A t \in Titles : /\ Len(files'[t]) \in Nat /\ Len(files[t]) \in Nat
                               /\ Len(files'[t]) >= Len(files[t])
           /\ OneAtATime =>
                 \A t \in Titles : \A i \in 1..Len(files[t]) : files'[t][i] = files[t][i]
<1>1. ASSUME NEW x \in Executors, WriteReport(x)
      PROVE  stage[x] = "graph" /\ SourceFits(x) /\ stage'[x] = "written"
  BY <1>1 DEF WriteReport, StageTo, ReportInv, PInv, TypeOK
<1>2. \A t \in Titles : Len(files'[t]) \in Nat /\ Len(files[t]) \in Nat
                       /\ Len(files'[t]) >= Len(files[t])
  <2>1. \A t \in Titles : Len(files[t]) \in Nat
    BY DEF PInv, TypeOK
  <2>2. QED
    BY <1>1, <2>1, FilesChange, WriteFiles
<1>3. OneAtATime => \A t \in Titles : \A i \in 1..Len(files[t]) : files'[t][i] = files[t][i]
  <2>1. ASSUME OneAtATime, NEW x \in Executors, WriteReport(x)
        PROVE  source[x] = Len(FilesOf(x)) + 1
    <3>1. x \in Workers
      BY <1>1, <2>1, OneExecutor DEF ReportInv
    <3>2. QED
      BY <1>1, <2>1, <3>1 DEF ReportInv, SourceOwn
  <2>2. QED
    BY <1>1, <2>1, FilesChange, WriteFiles
<1>4. QED
  BY <1>1, <1>2, <1>3

LEMMA OverlapStays ==
    ASSUME RInv, [Next]_vars
    PROVE  OneAtATime' => OneAtATime
<1>1. rebalances \in Nat
  BY DEF RInv, QInv, QTypeOK
<1>2. rebalances' = rebalances \/ rebalances' = rebalances + 1
  BY StepIsQueueStep DEF QNext, SendAndWait, Poll, Begin, End, Commit, CommitRejected,
     Crash, Shutdown, Restart, Assign, Rebalance, GiveTo, queueVars, faultVars
<1>3. QED
  BY <1>1, <1>2 DEF OneAtATime

LEMMA NextReportInv ==
    /\ RInv /\ PInv /\ Hold /\ ReportInv /\ PInv' /\ [Next]_vars
    => ReportInv'
<1> SUFFICES ASSUME RInv, PInv, Hold, ReportInv, PInv', [Next]_vars
             PROVE  ReportInv'
  OBVIOUS
<1>1. OneAtATime' => OneAtATime
  BY OverlapStays
<1>2. \A x \in Executors : WriteReport(x) =>
          stage[x] = "graph" /\ SourceFits(x) /\ stage'[x] = "written"
  BY FilesGrow
<1>3. \A t \in Titles : Len(files'[t]) \in Nat /\ Len(files[t]) \in Nat
                       /\ Len(files'[t]) >= Len(files[t])
  BY FilesGrow
<1>4. OneAtATime => \A t \in Titles : \A i \in 1..Len(files[t]) : files'[t][i] = files[t][i]
  BY FilesGrow
<1>5. ASSUME NEW y \in Executors, stage'[y] \in Written \cup {"graph"}
      PROVE  /\ stage[y] # "off" /\ JobOf(y) \in Jobs /\ JobOf(y)' = JobOf(y)
             /\ FilesOf(y)' = files'[TitleOf[JobOf(y)]]
             /\ TitleOf[JobOf(y)] \in Titles
  <2>1. stage[y] # "off" /\ stage'[y] # "off"
    BY <1>5, StageStep DEF Written
  <2>2. QED
    BY <2>1, JobStays, JobOfExecutor DEF FilesOf
<1>6. ASSUME NEW y \in Executors
      PROVE  SourceFits(y)'
  <2>1. CASE stage'[y] = "graph"
    <3>1. CASE stage[y] = "graph" /\ source'[y] = source[y]
      <4>1. source[y] \in 1..(Len(files[TitleOf[JobOf(y)]]) + 1)
        BY <3>1 DEF ReportInv, SourceFits, FilesOf
      <4>2. source'[y] \in 1..(Len(files'[TitleOf[JobOf(y)]]) + 1)
        BY <1>3, <1>5, <2>1, <3>1, <4>1
      <4>3. QED
        BY <1>5, <2>1, <4>2 DEF SourceFits, Written
    <3>2. CASE files' = files /\ source'[y] = FreshSuffix(TitleOf[JobOf(y)])
      <4>1. source'[y] \in 1..(Len(files'[TitleOf[JobOf(y)]]) + 1)
        BY <1>3, <1>5, <2>1, <3>2 DEF FreshSuffix
      <4>2. QED
        BY <1>5, <2>1, <4>1 DEF SourceFits, Written
    <3>3. QED
      BY <2>1, <3>1, <3>2, StageStep
  <2>2. CASE stage'[y] \in Written
    <3>1. source'[y] = source[y]
      BY <2>2, StageStep
    <3>2. CASE stage[y] \in Written
      <4>1. source[y] \in 1..Len(files[TitleOf[JobOf(y)]])
        BY <3>2 DEF ReportInv, SourceFits, FilesOf
      <4>2. source'[y] \in 1..Len(files'[TitleOf[JobOf(y)]])
        BY <1>3, <1>5, <2>2, <3>1, <4>1
      <4>3. QED
        BY <1>5, <2>2, <4>2 DEF SourceFits, Written
    <3>3. CASE WriteReport(y)
      <4>1. source'[y] \in 1..Len(files'[TitleOf[JobOf(y)]])
        BY <1>2, <3>1, <3>3, WriteFiles
      <4>2. QED
        BY <1>5, <2>2, <4>1 DEF SourceFits, Written
    <3>4. QED
      BY <2>2, <3>2, <3>3, StageStep
  <2>3. QED
    BY <2>1, <2>2 DEF SourceFits
<1>7. ASSUME NEW j \in Jobs
      PROVE  ResultFits(j)'
  <2> SUFFICES ASSUME row'[j] = "done"
               PROVE  result'[j] \in 1..Len(files'[TitleOf[j]])
    BY DEF ResultFits
  <2>1. CASE row[j] = "done" /\ result'[j] = result[j]
    BY <1>3, <2>1, FileTypes DEF ReportInv, ResultFits
  <2>2. CASE \E x \in Executors : /\ stage[x] \in Written /\ JobOf(x) = j
                                  /\ result'[j] = source[x] /\ files' = files
    BY <2>2 DEF ReportInv, SourceFits, FilesOf
  <2>3. QED
    BY <2>1, <2>2, RowStep
<1>8. NothingInline'
  BY StageStep, NoneRefused DEF ReportInv, NothingInline, Executors
<1>9. ASSUME OneAtATime, NEW w \in Workers
      PROVE  SourceOwn(w)'
  <2>1. w \in Executors
    BY DEF Executors
  <2>2. CASE stage'[w] = "graph"
    <3>1. CASE stage[w] = "graph" /\ source'[w] = source[w]
      <4>1. files' = files
        <5>1. ASSUME NEW x \in Executors, WriteReport(x)
              PROVE  FALSE
          <6>1. x = w
            BY <1>2, <1>9, <2>1, <3>1, <5>1, OneExecutor DEF ReportInv
          <6>2. QED
            BY <1>2, <2>2, <5>1, <6>1
        <5>2. QED
          BY <5>1, FilesChange
      <4>2. source[w] = Len(files[TitleOf[JobOf(w)]]) + 1
        BY <1>9, <3>1 DEF ReportInv, SourceOwn, FilesOf
      <4>3. QED
        BY <1>5, <2>1, <2>2, <3>1, <4>1, <4>2 DEF SourceOwn, Written
    <3>2. CASE files' = files /\ source'[w] = FreshSuffix(TitleOf[JobOf(w)])
      BY <1>5, <2>1, <2>2, <3>2 DEF SourceOwn, Written, FreshSuffix
    <3>3. QED
      BY <2>1, <2>2, <3>1, <3>2, StageStep
  <2>3. CASE stage'[w] \in Written
    <3>1. source'[w] = source[w]
      BY <2>1, <2>3, StageStep
    <3>2. CASE stage[w] \in Written
      <4>1. /\ files[TitleOf[JobOf(w)]][source[w]] = JobOf(w)
            /\ source[w] \in 1..Len(files[TitleOf[JobOf(w)]])
        BY <1>9, <2>1, <3>2 DEF ReportInv, SourceOwn, SourceFits, FilesOf
      <4>2. files'[TitleOf[JobOf(w)]][source'[w]] = JobOf(w)
        BY <1>4, <1>5, <1>9, <2>1, <2>3, <3>1, <4>1
      <4>3. QED
        BY <1>5, <2>1, <2>3, <4>2 DEF SourceOwn, Written
    <3>3. CASE WriteReport(w)
      <4>1. files'[TitleOf[JobOf(w)]][source'[w]] = JobOf(w)
        BY <1>2, <2>1, <3>1, <3>3, WriteFiles
      <4>2. QED
        BY <1>5, <2>1, <2>3, <4>1 DEF SourceOwn, Written
    <3>4. QED
      BY <2>1, <2>3, <3>2, <3>3, StageStep
  <2>4. QED
    BY <2>2, <2>3 DEF SourceOwn
<1>10. ASSUME OneAtATime, NEW j \in Jobs
       PROVE  ResultOwn(j)'
  <2> SUFFICES ASSUME row'[j] = "done"
               PROVE  files'[TitleOf[j]][result'[j]] = j
    BY DEF ResultOwn
  <2>1. CASE row[j] = "done" /\ result'[j] = result[j]
    <3>1. files[TitleOf[j]][result[j]] = j /\ result[j] \in 1..Len(files[TitleOf[j]])
      BY <1>10, <2>1 DEF ReportInv, ResultOwn, ResultFits
    <3>2. QED
      BY <1>4, <1>10, <2>1, <3>1, FileTypes
  <2>2. ASSUME NEW x \in Executors, stage[x] \in Written, JobOf(x) = j,
               result'[j] = source[x], files' = files
        PROVE  files'[TitleOf[j]][result'[j]] = j
    <3>1. x \in Workers
      BY <1>10, <2>2, OneExecutor DEF ReportInv, Written
    <3>2. QED
      BY <1>10, <2>2, <3>1 DEF ReportInv, SourceOwn, FilesOf
  <2>3. QED
    BY <2>1, <2>2, RowStep
<1>11. QED
  BY <1>1, <1>6, <1>7, <1>8, <1>9, <1>10 DEF ReportInv

LEMMA ReportInvariant == Spec => []ReportInv
<1>1. Init => ReportInv
  <2> SUFFICES ASSUME Init
               PROVE  ReportInv
    OBVIOUS
  <2>1. \A x \in Executors : stage[x] = "off"
    BY DEF Init
  <2>2. \A j \in Jobs : row[j] # "done" /\ j \in Executors
    BY DEF Init, Executors
  <2>3. \A w \in Workers : w \in Executors
    BY DEF Executors
  <2>4. \A j \in Jobs : phase[Gen(j)] # "refused"
    BY StreamsOfJobs DEF Init
  <2>5. QED
    BY <2>1, <2>2, <2>3, <2>4 DEF ReportInv, SourceFits, ResultFits, SourceOwn, ResultOwn,
       NothingInline, Written
<1>2. RInv /\ PInv /\ (Hold /\ LoggedOnce) /\ ReportInv /\ PInv' /\ [Next]_vars => ReportInv'
  BY NextReportInv
<1>3. Spec => []PInv
  BY PipelineTypeCorrect, PTL DEF PInv
<1>4. QED
  BY <1>1, <1>2, <1>3, PipelineQueueInvariant, QueueHolds, PTL DEF Spec

\* The result of a "done" row is a report on disk, for every interleaving, crash,
\* redelivery and inline run; and while executions do not overlap it is the job's
\* own (report_jobs.py: unique_workspace_source, write_text, then "complete").
THEOREM DoneHasReport == Spec => []DoneRowHasOwnReport
<1>1. PInv /\ ReportInv => DoneRowHasOwnReport
  <2> SUFFICES ASSUME PInv, ReportInv, NEW j \in Jobs, row[j] = "done"
               PROVE  /\ result[j] \in DOMAIN files[TitleOf[j]]
                      /\ OneAtATime => files[TitleOf[j]][result[j]] = j
    BY DEF DoneRowHasOwnReport
  <2>1. result[j] \in 1..Len(files[TitleOf[j]])
    BY DEF ReportInv, ResultFits
  <2>2. DOMAIN files[TitleOf[j]] = 1..Len(files[TitleOf[j]])
    BY FileTypes
  <2>3. QED
    BY <2>1, <2>2 DEF ReportInv, ResultOwn
<1>2. Spec => []PInv
  BY PipelineTypeCorrect, PTL DEF PInv
<1>3. QED
  BY <1>1, <1>2, ReportInvariant, PTL

-----------------------------------------------------------------------------
\* What the pipeline inherits from the queue

\* No report job is skipped or committed unhandled, and without a rebalance of a live
\* worker none is run by two workers or once more after its commit, whatever the API
\* and the streams do around the consume loop: the results about worker.run, carried
\* over by the refinement.
COROLLARY PipelineDeliversInOrder ==
    Spec => [](CommittedOnlyHandled /\ HandledInOrder /\ Exclusive)
<1>1. QSpec => []CommittedOnlyHandled /\ []HandledInOrder /\ []Exclusive
  BY AtLeastOnce, InOrder, NothingCommittedIsRerun, PTL
<1>2. QED
  BY <1>1, PipelineRefinesQueue, PTL DEF ImplementsQueue

\* An enqueued report is never lost between the topic and the workers.
COROLLARY PipelineForgetsNoJob == Spec => []Abs!NothingForgotten
BY NoJobForgotten, PipelineRefinesQueue, PTL DEF ImplementsQueue

-----------------------------------------------------------------------------
\* A stream that has ended is over

EndedStays(s) == phase[s] \in Over => phase'[s] = phase[s] /\ sent'[s] = sent[s]

LEMMA OtherStreams ==
    ASSUME StreamTypes, NEW s \in Streams, NEW r \in Streams, phase[s] \notin Over,
           phase' = phase \/ (\E p : StreamTo(s, p)) \/ EndStream(s),
           sent' = sent \/ (\E e : SendAll(s, e))
    PROVE  EndedStays(r)
BY DEF StreamTypes, EndedStays, StreamTo, EndStream, SendAll

LEMMA NextEndedStays == PInv /\ [Next]_vars => \A s \in Streams : EndedStays(s)
<1> SUFFICES ASSUME PInv, [Next]_vars, NEW r \in Streams
             PROVE  EndedStays(r)
  OBVIOUS
<1> USE StreamsOfJobs
<1>1. StreamTypes
  BY TypeParts DEF PInv
<1>2. ASSUME NEW j \in Jobs, Submit(j)
      PROVE  EndedStays(r)
  <2>1. phase[Gen(j)] \notin Over /\ sent' = sent /\ \E p : StreamTo(Gen(j), p)
    BY <1>2 DEF Submit, CreateJob, OpenSubscription, Enqueued, EnqueueRefused, RunInline,
              Over
  <2>2. QED
    BY <1>1, <2>1, OtherStreams
<1>3. ASSUME NEW j \in Jobs, Reconnect(j) \/ ReconnectSubscribe(j)
      PROVE  EndedStays(r)
  <2>1. /\ phase[Rec(j)] \notin Over
        /\ (\E p : StreamTo(Rec(j), p)) \/ EndStream(Rec(j))
        /\ sent' = sent \/ \E e : SendAll(Rec(j), e)
    BY <1>3 DEF Reconnect, ReconnectSubscribe, Over
  <2>2. QED
    BY <1>1, <2>1, OtherStreams
<1>4. ASSUME NEW x \in Executors, Execute(x) \/ FailJob(x)
      PROVE  EndedStays(r)
  <2>1. CASE UNCHANGED <<phase, sent>>
    BY <2>1 DEF EndedStays
  <2>2. CASE ~ UNCHANGED <<phase, sent>>
    <3>1. x \in Jobs /\ stage[x] # "off"
      BY <1>4, <2>2 DEF Execute, ChooseSource, WriteReport, SignalComplete, SignalDone,
         FailJob, streamVars
    <3>2. phase[Gen(x)] \notin Over
      BY <3>1 DEF PInv, InlineStages, Over
    <3>3. /\ phase' = phase \/ EndStream(Gen(x))
          /\ sent' = sent \/ \E e : SendAll(Gen(x), e)
      BY <1>4, <3>1, Disjoint DEF Execute, ChooseSource, WriteReport, SignalComplete,
         SignalDone, FailJob, streamVars
    <3>4. QED
      BY <1>1, <3>1, <3>2, <3>3, OtherStreams
  <2>3. QED
    BY <2>1, <2>2
<1>5. ASSUME NEW w \in Workers,
             \/ \E p \in Partitions : StartJob(w, p)
             \/ MarkOutcome(w) \/ HandlerRaises(w) \/ WorkerCrash(w) \/ LoopStep(w)
      PROVE  EndedStays(r)
  BY <1>5 DEF StartJob, MarkOutcome, HandlerRaises, WorkerCrash, LoopStep, streamVars,
     EndedStays
<1>6. ASSUME NEW s \in Streams, Relay(s) \/ ClientLeaves(s)
      PROVE  EndedStays(r)
  <2>1. /\ phase[s] \notin Over
        /\ phase' = phase \/ EndStream(s) \/ \E p : StreamTo(s, p)
        /\ sent' = sent \/ \E e : SendAll(s, e)
    BY <1>6 DEF Relay, RelayEvent, PollRow, PollTimeout, ClientLeaves, StreamTo, Over
  <2>2. QED
    BY <1>1, <2>1, OtherStreams
<1>7. CASE UNCHANGED vars
  BY <1>7 DEF vars, streamVars, EndedStays
<1>8. QED
  BY <1>2, <1>3, <1>4, <1>5, <1>6, <1>7 DEF Next

\* A closed stream says nothing more, whatever the job still does: an inline run
\* ends with its request, and a redelivered job, a late publish or a second
\* reconnection cannot reach a client that has had its last event (app.py).
THEOREM EndedStreamsStayEnded == Spec => [][\A s \in Streams : EndedStays(s)]_vars
<1>1. Spec => []PInv
  BY PipelineTypeCorrect, PTL DEF PInv
<1>2. QED
  BY <1>1, NextEndedStays, PTL DEF Spec

-----------------------------------------------------------------------------
\* What a finished report and a client's "complete" are worth

\* Without overlapping executions a report on disk stays as it was written: neither
\* a redelivered job nor another job of the same title takes its file name
\* (unique_workspace_source looks before the graph runs, write_text comes after).
NoneReplaced ==
    OneAtATime =>
        \A t \in Titles : \A n \in DOMAIN files[t] :
            n \in DOMAIN files'[t] /\ files'[t][n] = files[t][n]

THEOREM ReportsAreNeverReplaced == Spec => [][NoneReplaced]_vars
<1>1. RInv /\ PInv /\ PInv' /\ (Hold /\ LoggedOnce) /\ ReportInv /\ [Next]_vars
      => NoneReplaced
  <2> SUFFICES ASSUME RInv, PInv, PInv', Hold, ReportInv, [Next]_vars, OneAtATime,
                      NEW t \in Titles, NEW n \in DOMAIN files[t]
               PROVE  n \in DOMAIN files'[t] /\ files'[t][n] = files[t][n]
    BY DEF NoneReplaced
  <2>1. files[t] \in Seq(Jobs) /\ files'[t] \in Seq(Jobs)
    BY DEF PInv, TypeOK
  <2>2. Len(files'[t]) \in Nat /\ Len(files[t]) \in Nat /\ Len(files'[t]) >= Len(files[t])
    BY FilesGrow
  <2>3. n \in 1..Len(files[t])
    BY <2>1
  <2>4. n \in DOMAIN files'[t]
    BY <2>1, <2>2, <2>3
  <2>5. QED
    BY <2>3, <2>4, FilesGrow
<1>2. Spec => []PInv
  BY PipelineTypeCorrect, PTL DEF PInv
<1>3. QED
  BY <1>1, <1>2, PipelineQueueInvariant, QueueHolds, ReportInvariant, PTL DEF Spec

\* A report of job j's title is in the workspace, j's own unless executions overlap.
HasReport(j) ==
    /\ Len(files[TitleOf[j]]) > 0
    /\ OneAtATime => \E n \in 1..Len(files[TitleOf[j]]) : files[TitleOf[j]][n] = j

SaysComplete(events) == "complete" \in ToSet(events)

\* Stream s has told its client "complete", or is about to.
TellsComplete(s) == SaysComplete(sent[s]) \/ SaysComplete(inbox[s])

\* A client is told "complete" only of a report it can open.
CompleteMeansReport == \A s \in Streams : TellsComplete(s) => HasReport(s[1])

LEMMA SaysMore ==
    ASSUME NEW q \in Seq(Events), NEW r \in Seq(Events), SaysComplete(q \o r)
    PROVE  SaysComplete(q) \/ SaysComplete(r)
<1>1. PICK i \in DOMAIN (q \o r) : (q \o r)[i] = "complete"
  BY DEF SaysComplete, ToSet
<1>2. /\ i \in 1..(Len(q) + Len(r))
      /\ i <= Len(q) => i \in DOMAIN q /\ q[i] = "complete"
      /\ i > Len(q) => i - Len(q) \in DOMAIN r /\ r[i - Len(q)] = "complete"
  BY <1>1
<1>3. QED
  BY <1>2 DEF SaysComplete, ToSet

LEMMA SaysEvents ==
    /\ \A e \in Events : SaysComplete(<<e>>) => e = "complete"
    /\ ~SaysComplete(<<>>)
    /\ \A status \in Statuses \cup {None} :
          SaysComplete(FromRow(status)) => status = "done"
    /\ \A status : FromRow(status) \in Seq(Events)
    /\ \A e \in Events : <<e>> \in Seq(Events)
<1>1. /\ \A e \in Events : SaysComplete(<<e>>) => e = "complete"
      /\ ~SaysComplete(<<>>)
  BY DEF SaysComplete, ToSet
<1>2. \A e \in Events : <<e>> \in Seq(Events)
  OBVIOUS
<1>3. \A status : FromRow(status) \in Seq(Events)
  <2>1. <<"complete", "done">> \in Seq(Events) /\ <<"error">> \in Seq(Events)
    BY DEF Events
  <2>2. ASSUME NEW status
        PROVE  FromRow(status) = <<"complete", "done">> \/ FromRow(status) = <<"error">>
    BY DEF FromRow
  <2>3. QED
    BY <2>1, <2>2
<1>4. \A status \in Statuses \cup {None} :
         SaysComplete(FromRow(status)) => status = "done"
  BY <1>1 DEF FromRow, Events
<1>5. QED
  BY <1>1, <1>2, <1>3, <1>4

LEMMA SaysLess ==
    ASSUME NEW q \in Seq(Events), q # <<>>
    PROVE  /\ Head(q) = "complete" => SaysComplete(q)
           /\ SaysComplete(Tail(q)) => SaysComplete(q)
<1>1. Len(q) \in Nat /\ Len(q) > 0 /\ DOMAIN q = 1..Len(q) /\ Head(q) = q[1]
  OBVIOUS
<1>2. Head(q) = "complete" => SaysComplete(q)
  BY <1>1 DEF SaysComplete, ToSet
<1>3. ASSUME SaysComplete(Tail(q))
      PROVE  SaysComplete(q)
  <2>1. PICK i \in DOMAIN Tail(q) : Tail(q)[i] = "complete"
    BY <1>3 DEF SaysComplete, ToSet
  <2>2. i + 1 \in DOMAIN q /\ q[i + 1] = "complete"
    BY <1>1, <2>1
  <2>3. QED
    BY <2>2 DEF SaysComplete, ToSet
<1>4. QED
  BY <1>2, <1>3

\* What each way of talking to a client adds to what it is told.
LEMMA TellsMore ==
    ASSUME StreamTypes, NEW r \in Streams
    PROVE  /\ \A s \in Streams : \A e \in Seq(Events) :
                 SendAll(s, e) /\ SaysComplete(sent'[r])
                 => SaysComplete(sent[r]) \/ (r = s /\ SaysComplete(e))
           /\ \A s \in Streams :
                 EndStream(s) /\ SaysComplete(inbox'[r]) => SaysComplete(inbox[r])
           /\ \A j \in Jobs : \A e \in Events :
                 Publish(j, e) /\ SaysComplete(inbox'[r])
                 => SaysComplete(inbox[r]) \/ (r[1] = j /\ e = "complete")
<1>1. ASSUME NEW s \in Streams, NEW e \in Seq(Events),
             SendAll(s, e), SaysComplete(sent'[r])
      PROVE  SaysComplete(sent[r]) \/ (r = s /\ SaysComplete(e))
  <2>1. CASE r = s
    <3>1. sent'[r] = sent[r] \o e /\ sent[r] \in Seq(Events)
      BY <1>1, <2>1 DEF SendAll, StreamTypes
    <3>2. QED
      BY <1>1, <2>1, <3>1, SaysMore
  <2>2. CASE r # s
    BY <1>1, <2>2 DEF SendAll, StreamTypes
  <2>3. QED
    BY <2>1, <2>2
<1>2. ASSUME NEW s \in Streams, EndStream(s), SaysComplete(inbox'[r])
      PROVE  SaysComplete(inbox[r])
  <2>1. inbox'[r] = inbox[r] \/ inbox'[r] = <<>>
    BY <1>2 DEF EndStream, StreamTypes
  <2>2. QED
    BY <1>2, <2>1, SaysEvents
<1>3. ASSUME NEW j \in Jobs, NEW e \in Events, Publish(j, e), SaysComplete(inbox'[r])
      PROVE  SaysComplete(inbox[r]) \/ (r[1] = j /\ e = "complete")
  <2>1. inbox[r] \in Seq(Events) /\ <<e>> \in Seq(Events)
    BY DEF StreamTypes
  <2>2. inbox'[r] = inbox[r] \/ (r[1] = j /\ inbox'[r] = Append(inbox[r], e))
    BY <1>3 DEF Publish
  <2>3. Append(inbox[r], e) = inbox[r] \o <<e>>
    BY <2>1, AppendIsConcat
  <2>4. QED
    BY <1>3, <2>1, <2>2, <2>3, SaysMore, SaysEvents
<1>4. QED
  BY <1>1, <1>2, <1>3

\* Whoever marks a row or signals completion has written the job's report.
LEMMA WrittenHasReport ==
    ASSUME RInv, PInv, ReportInv
    PROVE  /\ \A x \in Executors : stage[x] \in Written => HasReport(JobOf(x))
           /\ \A j \in Jobs : row[j] = "done" => HasReport(j)
<1>1. ASSUME RInv, PInv, ReportInv, NEW x \in Executors, stage[x] \in Written
      PROVE  HasReport(JobOf(x))
  <2>1. JobOf(x) \in Jobs
    BY <1>1, JobOfExecutor DEF Written
  <2>2. source[x] \in 1..Len(files[TitleOf[JobOf(x)]])
        /\ Len(files[TitleOf[JobOf(x)]]) \in Nat
    BY <1>1, <2>1, FileTypes DEF ReportInv, SourceFits, FilesOf
  <2>3. OneAtATime => files[TitleOf[JobOf(x)]][source[x]] = JobOf(x)
    <3>1. OneAtATime => x \in Workers
      BY <1>1 DEF ReportInv, NothingInline, OneAtATime, Executors, Written
    <3>2. QED
      BY <1>1, <3>1 DEF ReportInv, SourceOwn, FilesOf
  <2>4. QED
    BY <2>2, <2>3 DEF HasReport
<1>2. ASSUME PInv, ReportInv, NEW j \in Jobs, row[j] = "done"
      PROVE  HasReport(j)
  BY <1>2, FileTypes DEF ReportInv, ResultFits, ResultOwn, HasReport
<1>3. QED
  BY <1>1, <1>2

LEMMA ReportStays ==
    ASSUME RInv, PInv, Hold, ReportInv, [Next]_vars, NEW j \in Jobs, HasReport(j)
    PROVE  HasReport(j)'
<1>1. OneAtATime' => OneAtATime
  BY OverlapStays
<1>2. TitleOf[j] \in Titles
  BY FileTypes
<1>3. Len(files'[TitleOf[j]]) \in Nat /\ Len(files[TitleOf[j]]) \in Nat
      /\ Len(files'[TitleOf[j]]) >= Len(files[TitleOf[j]])
  BY <1>2, FilesGrow
<1>4. ASSUME OneAtATime
      PROVE  \E n \in 1..Len(files'[TitleOf[j]]) : files'[TitleOf[j]][n] = j
  <2>1. PICK n \in 1..Len(files[TitleOf[j]]) : files[TitleOf[j]][n] = j
    BY <1>4 DEF HasReport
  <2>2. files'[TitleOf[j]][n] = files[TitleOf[j]][n]
    BY <1>2, <1>4, FilesGrow
  <2>3. QED
    BY <1>3, <2>1, <2>2
<1>5. QED
  BY <1>1, <1>3, <1>4 DEF HasReport

\* A client hears "complete" only from an executor past write_text, or from a row
\* that such an executor marked.
LEMMA WhoTellsComplete ==
    ASSUME RInv, PInv, ReportInv, [Next]_vars, NEW r \in Streams, TellsComplete(r)'
    PROVE  TellsComplete(r) \/ HasReport(r[1])
<1> USE StreamsOfJobs
<1>1. StreamTypes
  BY TypeParts DEF PInv
<1>2. ASSUME UNCHANGED <<inbox, sent>>
      PROVE  TellsComplete(r)
  BY <1>2 DEF TellsComplete
<1>3. ASSUME NEW j \in Jobs, Submit(j)
      PROVE  TellsComplete(r)
  <2>1. sent' = sent
    BY <1>3 DEF Submit, CreateJob, OpenSubscription, Enqueued, EnqueueRefused, RunInline
  <2>2. inbox'[r] = inbox[r] \/ inbox'[r] = <<>>
    BY <1>1, <1>3 DEF Submit, CreateJob, OpenSubscription, Enqueued, EnqueueRefused, RunInline,
       StreamTypes
  <2>3. QED
    BY <2>1, <2>2, SaysEvents DEF TellsComplete
<1>4. ASSUME NEW j \in Jobs, Reconnect(j) \/ ReconnectSubscribe(j)
      PROVE  TellsComplete(r) \/ HasReport(r[1])
  <2>1. CASE UNCHANGED <<inbox, sent>>
    BY <1>2, <2>1
  <2>2. CASE ~UNCHANGED <<inbox, sent>>
    <3>1. PICK status \in Statuses \cup {None} :
              ReadRow(j, status) /\ SendAll(Rec(j), FromRow(status)) /\ EndStream(Rec(j))
      BY <1>4, <2>2 DEF Reconnect, ReconnectSubscribe
    <3>2. status = "done" => row[j] = "done"
      BY <3>1, NoRowAssumption DEF ReadRow, Statuses
    <3>3. HasReport(j) \/ status # "done"
      BY <3>2, WrittenHasReport
    <3>4. SaysComplete(sent'[r]) =>
              SaysComplete(sent[r]) \/ (r = Rec(j) /\ SaysComplete(FromRow(status)))
      BY <1>1, <3>1, TellsMore, SaysEvents
    <3>5. SaysComplete(inbox'[r]) => SaysComplete(inbox[r])
      BY <1>1, <3>1, TellsMore
    <3>6. QED
      BY <3>3, <3>4, <3>5, SaysEvents DEF TellsComplete
  <2>3. QED
    BY <2>1, <2>2
<1>5. ASSUME NEW x \in Executors, Execute(x) \/ FailJob(x)
      PROVE  TellsComplete(r) \/ HasReport(r[1])
  <2>1. CASE UNCHANGED <<inbox, sent>>
    BY <1>2, <2>1
  <2>2. CASE ~UNCHANGED <<inbox, sent>>
    <3>1. /\ stage[x] # "off"
          /\ \/ /\ x \in Workers /\ sent' = sent
                /\ \E e \in Events : /\ Publish(JobOf(x), e)
                                     /\ e = "complete" => stage[x] \in Written
             \/ /\ x \in Jobs
                /\ inbox' = inbox \/ EndStream(Gen(x))
                /\ \E e \in Events : /\ SendAll(Gen(x), <<e>>)
                                     /\ e = "complete" => stage[x] \in Written
      BY <1>5, <2>2 DEF Execute, ChooseSource, WriteReport, SignalComplete, SignalDone,
         FailJob, streamVars, Events, Written
    <3>2. JobOf(x) \in Jobs
      BY <3>1, JobOfExecutor
    <3>3. ASSUME NEW e \in Events, Publish(JobOf(x), e), sent' = sent,
                 e = "complete" => stage[x] \in Written
          PROVE  TellsComplete(r) \/ HasReport(r[1])
      <4>1. SaysComplete(inbox'[r]) =>
                SaysComplete(inbox[r]) \/ (r[1] = JobOf(x) /\ e = "complete")
        BY <1>1, <3>2, <3>3, TellsMore
      <4>2. QED
        BY <3>3, <4>1, WrittenHasReport DEF TellsComplete
    <3>4. ASSUME x \in Jobs, inbox' = inbox \/ EndStream(Gen(x)),
                 NEW e \in Events, SendAll(Gen(x), <<e>>),
                 e = "complete" => stage[x] \in Written
          PROVE  TellsComplete(r) \/ HasReport(r[1])
      <4>1. SaysComplete(sent'[r]) =>
                SaysComplete(sent[r]) \/ (r = Gen(x) /\ e = "complete")
        BY <1>1, <3>4, TellsMore, SaysEvents
      <4>2. SaysComplete(inbox'[r]) => SaysComplete(inbox[r])
        BY <1>1, <3>4, TellsMore
      <4>3. JobOf(x) = x /\ Gen(x)[1] = x
        BY <3>4, Disjoint DEF JobOf, Gen
      <4>4. QED
        BY <3>4, <4>1, <4>2, <4>3, WrittenHasReport DEF TellsComplete
    <3>5. QED
      BY <3>1, <3>3, <3>4
  <2>3. QED
    BY <2>1, <2>2
<1>6. ASSUME NEW w \in Workers,
             \/ \E p \in Partitions : StartJob(w, p)
             \/ MarkOutcome(w) \/ HandlerRaises(w) \/ WorkerCrash(w) \/ LoopStep(w)
      PROVE  TellsComplete(r)
  BY <1>2, <1>6 DEF StartJob, MarkOutcome, HandlerRaises, WorkerCrash, LoopStep,
     streamVars
<1>7. ASSUME NEW s \in Streams, RelayEvent(s)
      PROVE  TellsComplete(r)
  <2>1. inbox[s] \in Seq(Events) /\ inbox[s] # <<>> /\ Head(inbox[s]) \in Events
    BY <1>1, <1>7 DEF RelayEvent, StreamTypes
  <2>2. SaysComplete(sent'[r]) => SaysComplete(sent[r])
                                  \/ (r = s /\ Head(inbox[s]) = "complete")
    BY <1>1, <1>7, <2>1, TellsMore, SaysEvents DEF RelayEvent
  <2>3. inbox'[r] = inbox[r] \/ inbox'[r] = <<>> \/ (r = s /\ inbox'[r] = Tail(inbox[s]))
    BY <1>1, <1>7 DEF RelayEvent, EndStream, StreamTypes
  <2>4. QED
    BY <2>1, <2>2, <2>3, SaysLess, SaysEvents DEF TellsComplete
<1>8. ASSUME NEW s \in Streams, PollRow(s) \/ PollTimeout(s) \/ ClientLeaves(s)
      PROVE  TellsComplete(r) \/ HasReport(r[1])
  <2>1. EndStream(s) \/ (inbox' = [inbox EXCEPT ![s] = <<>>] /\ ClientLeaves(s))
    BY <1>8 DEF PollRow, PollTimeout, ClientLeaves
  <2>2. SaysComplete(inbox'[r]) => SaysComplete(inbox[r])
    <3>1. CASE EndStream(s)
      BY <1>1, <3>1, TellsMore
    <3>2. CASE inbox' = [inbox EXCEPT ![s] = <<>>]
      <4>1. inbox'[r] = inbox[r] \/ inbox'[r] = <<>>
        BY <1>1, <3>2 DEF StreamTypes
      <4>2. QED
        BY <4>1, SaysEvents
    <3>3. QED
      BY <2>1, <3>1, <3>2
  <2>3. CASE ClientLeaves(s)
    BY <2>2, <2>3 DEF ClientLeaves, TellsComplete
  <2>4. CASE PollTimeout(s)
    <3>1. "error" \in Events /\ SendAll(s, <<"error">>)
      BY <2>4 DEF PollTimeout, Events
    <3>2. SaysComplete(sent'[r]) => SaysComplete(sent[r])
      BY <1>1, <3>1, TellsMore, SaysEvents
    <3>3. QED
      BY <2>2, <3>2 DEF TellsComplete
  <2>5. CASE PollRow(s)
    <3>1. PICK status \in Terminal : ReadRow(s[1], status) /\ SendAll(s, FromRow(status))
      BY <2>5 DEF PollRow
    <3>2. status \in Statuses /\ (status = "done" => row[s[1]] = "done")
      BY <3>1, NoRowAssumption DEF ReadRow, Statuses, Terminal
    <3>3. SaysComplete(sent'[r]) =>
              SaysComplete(sent[r]) \/ (r = s /\ SaysComplete(FromRow(status)))
      BY <1>1, <3>1, TellsMore, SaysEvents
    <3>4. s[1] \in Jobs
      BY DEF Streams
    <3>5. QED
      BY <2>2, <3>2, <3>3, <3>4, SaysEvents, WrittenHasReport DEF TellsComplete
  <2>6. QED
    BY <1>8, <2>3, <2>4, <2>5
<1>9. CASE UNCHANGED vars
  BY <1>2, <1>9 DEF vars, streamVars
<1>10. QED
  BY <1>3, <1>4, <1>5, <1>6, <1>7, <1>8, <1>9 DEF Next, Relay

\* The "complete" a client sees, live, polled, after a reconnection or from an
\* inline run, names a report in the workspace: the event follows write_text and is
\* synthesized only from a row that says "done" (report_jobs.py, app.py).
THEOREM CompleteIsTrue == Spec => []CompleteMeansReport
<1>1. Init => CompleteMeansReport
  BY SaysEvents DEF Init, CompleteMeansReport, TellsComplete
<1>2. RInv /\ PInv /\ (Hold /\ LoggedOnce) /\ ReportInv /\ CompleteMeansReport
      /\ [Next]_vars => CompleteMeansReport'
  <2> SUFFICES ASSUME RInv, PInv, Hold, ReportInv, CompleteMeansReport, [Next]_vars,
                      NEW s \in Streams, TellsComplete(s)'
               PROVE  HasReport(s[1])'
    BY DEF CompleteMeansReport
  <2>1. s[1] \in Jobs
    BY DEF Streams
  <2>2. HasReport(s[1])
    BY WhoTellsComplete DEF CompleteMeansReport
  <2>3. QED
    BY <2>1, <2>2, ReportStays
<1>3. Spec => []PInv
  BY PipelineTypeCorrect, PTL DEF PInv
<1>4. QED
  BY <1>1, <1>2, <1>3, PipelineQueueInvariant, QueueHolds, ReportInvariant, PTL DEF Spec
=============================================================================
