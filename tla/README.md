# Formal models of RAG-LangChain

TLA+ specifications of the RAG-LangChain back end (`src/RAG`), the TLC runs that
check them on small instances, and TLAPS proofs for instances of every size.
Every definition is translated from the Python source; `PROJECT.json` maps each
one to the lines it stands for.

## 1. Inventory

The program is a FastAPI application (two API pods), a Kafka worker (two pods),
Kafka with three partitions, Postgres, Redis, and a shared volume with the
documents and the index files. The Redis manifest runs replicas that do not
replicate each other and says itself that this is not safe for a consistent
session; the models assume one Redis. All of it is Python with
asyncio: inside one process, other requests come in exactly at an `await` or in a
thread of `asyncio.to_thread`; between pods anything interleaves.

| component | state | operations | what makes it correct |
|---|---|---|---|
| Job queue and worker loop (`worker.py`, `services/job_queue.py`) | topic log, committed offsets, group assignment; the worker's batch | enqueue; poll, handle, commit; shutdown, crash, rebalance | at least once, in order, no job forgotten, the group catches up |
| Report pipeline (`app.py` generate and jobs endpoints, `services/jobs.py`, `job_events.py`, `report_jobs.py`) | jobs table, pub/sub subscriptions, SSE streams, workspace files | submit, relay, poll, reconnect, inline run, run by a worker | a done row has its own report; a client hears one verdict; streams end; a committed job has an outcome |
| Report graph (`agents/report_*.py`) | outline, evidence, references, sections, feedback, revision count | supervisor, researcher, writer, reviewer, finalize | what is finalised was reviewed; revisions are bounded; citations point at the source they were written for; the run ends |
| Question-answering graph (`agents/graph.py` and its nodes) | query, evidence, draft, feedback, revision count | supervisor, researcher, code interpreter, editor, writer, reviewer | one outcome per request; a grounded answer was reviewed; the run ends within the recursion limit |
| Document edits (`services/pending_edits.py`, `agents/editor.py`, the document endpoints of `app.py`) | pending edits by token in each pod, Markdown files | propose, apply, reject, save, save a draft, upload, delete | an edit is decided once and only applied to the text it was shown for; no text is lost unknowingly |
| Dual index (`services/document_manager.py`, `vector_store.py`, `retrieval.py`) | pgvector rows, BM25 file and its copy in each pod, cached answers in Redis and memory | reindex, add, delete; search, cache, invalidate | rows and lines follow the file; a cached answer is not stale for an unknown reason |
| Start-up and index lock (`app.py`, `services/rag_service.py`) | a Redis key with expiry, the channels' rows and files | load BM25, check, acquire, wait, build, release | one pod builds at a time; the index is complete; no pod waits for ever |
| Report registry (`services/report_registry.py`, report endpoints) | a JSON file beside the files themselves | create, duplicate, rename, delete | a report is registered exactly if it exists |
| Version control (`services/version_control.py`) | git index and HEAD | commit, restore, history | HEAD has what was committed last |
| Sessions (`services/session_store.py`) | history by session id in Redis or a pod's memory | load, save, expire | a conversation is remembered |
| Rate limit (`services/guardrails.py`) | requests by user in Redis or a pod's memory | admit | at most N per window |
| Feedback log (`app.py`) | Redis sets, or a file in each pod | record, list | no rating is lost |
| Editor front end (`script.js`) | editor text, dirty flags, timers | type, autosave, save | what was typed is saved in the end |
| Ingestion, exports, templates, charts, tracing, users, manifests | files, tables | sequential calls | not modelled, see section 8 |

How they interact: the generate endpoint writes the jobs table, subscribes to the
job's Redis channel and puts the job on the Kafka topic; a worker takes it, drives
the report graph, publishes its progress on the channel, writes the report on the
shared volume and the outcome in the jobs table; the endpoint relays the channel
to the browser. When Kafka refuses, the endpoint drives the graph itself; when
Redis refuses, it polls the table. Every endpoint that changes a document writes
the Markdown file, indexes it in a thread (rows, BM25 file, cache), commits it to
git and, for reports, updates the registry: four stores, one after the other, with
no lock and no roll-back. `/ask` passes the rate limit, loads the session, runs its
graph and saves the session.

What is hard: the await points between look and use (file names, rows,
subscriptions, sessions), redelivery, the worker that loses its partition while
it works, every dependency being optional, clients that leave and come back, stores
that are changed one after the other, and what is kept per process although there
are two (pending edits, the registry's lock, BM25 copies, caches, fallbacks).
`hazards` in `PROJECT.json` lists each place by line.

## 2. Modules

| module | models |
|---|---|
| `AtLeastOnceQueue` | what a queue promises: an accepted job is owed until handled |
| `JobQueue` | the topic, the consumer group and the consume loop of `worker.run` |
| `JobQueue_proofs` | theorems about `JobQueue` |
| `ReportJobs` | the report pipeline end to end, on top of `JobQueue` |
| `ReportJobs_proofs` | theorems about `ReportJobs`, on top of `JobQueue_proofs` |
| `ReportGraph` | one run of the report graph: supervisor, researcher, writer, reviewer, finalize |
| `ReportGraph_proofs` | theorems about `ReportGraph` |
| `AskGraph` | one run of the question-answering graph as POST `/ask` drives it |
| `AskGraph_proofs` | theorems about `AskGraph` |
| `AskRequests` | what surrounds that graph: the rate limit and the session |
| `AskRequests_proofs` | theorems about `AskRequests` |
| `DualIndex` | index operations, hybrid search and its cache, step by step in any number of threads |
| `DualIndex_proofs` | theorems about `DualIndex` |
| `IndexBuild` | the start-up of the pods and the index build under the Redis lock |
| `IndexBuild_proofs` | theorems about `IndexBuild` |
| `Workspace` | documents, pending edits, report registry and git, written by overlapping requests |
| `Workspace_proofs` | theorems about `Workspace` |
| `MC...` | the instances TLC checks, one for each of the specifications |

`ReportJobs` extends `JobQueue` and is checked against it; `JobQueue` is checked and
proved against `AtLeastOnceQueue`. `ReportGraph` is the inside of what `ReportJobs`
takes as one step that writes a report or fails (`WriteReport`, `FailJob`): it
runs in one process, on a state of its own, and touches nothing the pipeline reads.
`AskGraph` is the inside of what `AskRequests` takes as the time between `Load`
and `Save` or `EndUnanswered`; it shares nothing with the report pipeline.
`DualIndex` is the inside of the step in which `Workspace` indexes a document, which
can only succeed or raise there, and of the uploads of `IndexBuild`, which have
`add_document`'s files and rows step by step and of its corpus files only that they
may hold anything from then on.

### JobQueue and AtLeastOnceQueue

Offsets are counts. `log[p]` is the partition, `committed[p]` and `position[p]`
the broker's view of the group, `batch[w][p]` the part of the worker's last
`getmany` it has not handled. One action per step of the loop between awaits:
`Poll` (`consumer.getmany`), `Begin` and `End` (around `_process_message`),
`Commit` or `CommitRejected` (the `consumer.commit` after the inner loop, which is
outside the `try`, so that a rejection ends the process), `Shutdown` (the stop
event is looked at only at the top of the loop), `Crash`, `Restart`. The broker
(`Assign`, `Rebalance`) is external and modelled from its use: a commit is
accepted from the partition's present owner only, and a partition that is assigned
anew is read from its committed offset. A worker does not notice that it lost a
partition before it commits.

`handled` is a history variable: the log positions whose handler has returned.

`AtLeastOnceQueue` has three sets, `submitted`, `done` and `owed`. `JobQueue`
implements it with `owed` as the jobs above the committed offset and `done` as the
handled ones. `Settle` lets jobs leave and re-enter `owed` only when they are done:
this is where a commit that ran ahead of the handlers would show.

Left out: the producer's retry gate at start-up, malformed envelopes and unknown
job types (the only producer, `enqueue`, sends neither), and errors of `getmany`,
after which the loop goes round again unchanged.

### ReportJobs

Extends `JobQueue`; a worker's `Begin` and `End` become `StartJob` and
`MarkOutcome` or `HandlerRaises`, the rest of the loop is `LoopStep`. An executor
is a worker or, for a job that Kafka refused, the job itself (its inline run), so
`run_report_job` is modelled once: `ChooseSource`, `WriteReport`,
`SignalComplete`, `SignalDone`, `FailJob`. The disjuncts for workers publish, those
for inline runs write the row and send to the client, as `_on_event` of
`handle_report_generate` and the generator of `generate_report` do.

`phase[s]` is where the SSE handler of stream `s` is; every job has a `generate`
stream and may have a `reconnect` one (GET `/jobs/{id}/stream`). When `enqueue`
returns False, the message may be stored all the same: `EnqueueRefused` is that
return, `RunInline` comes after the awaited `close_subscription` and marks the row
`running`, whatever a worker has put there meanwhile. A client that leaves stops its
handler and with it an inline run; such a stream is `cut`. `SetRow`,
`ReadRow` and `Publish` are the three dependencies with their failure modes:
updates that are dropped, reads that return nothing, publications that are lost;
a published event reaches the present subscribers only.

Files: `files[t]` is the sequence of reports with title `t`, so that the file
`<stem>-<n>.md` exists iff `n <= Len(files[t])`.

Left out: `status`, `section_start` and `section_complete` events, which decide
nothing; the report's text; `index_and_export_workspace`, whose failure is caught
and ignored.

### ReportGraph

One run of `create_report_graph`. `node` is the node that runs next, `steps` counts
the nodes run: LangGraph stops the run at `recursion_limit`. The other variables
are the keys of `ReportState` that decide anything: `outline`, `evidence`,
`references`, `sections`, `feedback` (`section_feedback`), `gaps`
(`research_gaps`), `reviewed`, `revision` (`revision_count`). Each action is a whole
node: `Plan` and `Route` (the supervisor with and without an outline), `Research`,
`Write`, `Approve` / `RequestChanges` / `ReviewFails` (the reviewer), `Finalize`,
and `Abort` for `GraphRecursionError`.

`BuildReferences` says what the nested loops of `_build_references` compute without
repeating them: a place is a loop step (a section and a source found for it), places
are ordered as the loops meet them, `NewPlaces` are those whose source no earlier one
has (the `key not in index` of `_add`), and the n-th of them gets number n.

What the models and searches answer is chosen freely: any outline up to the cap
(the empty one too, which the planner's fallback lets through), any findings for a
section, any subset of titles in a review, a blank text, one without citations, or
one that cites its whole sources block. A title of a review need not be a section:
the reviewer writes it in its own words.

History variables: `seen` (the reviewer has seen the sections as they stand; the
code's own flag is `reviewed`), `asked` (what the last review wanted rewritten),
`rewrites`, and `outdated` (sections not rewritten since the last research).

Left out: prompts, figures and wording; the text of a section beyond whether it
is blank and what it cites.

### AskGraph

One request to `/ask` from `initial_state` to the last event. `ask` is what does not
change during the run: the kind of question as the supervisor's tests see it
(`@update`, a social phrase, nothing for the classifier, a calculation by its look,
anything else), images, the user's approval of a web search, and the deployment's
settings (reviewer, code interpreter with tables, multi-hop, web search). The
settings are all checked at once because `Init` leaves them open.

| variable | key of `AgentState` |
|---|---|
| `research` | `research_results`, as a kind: empty, the fixed "No relevant documents found.", documents, web, computed |
| `rewritten` | `rewritten_query` is set |
| `draft`, `final` | `draft_response`, `final_response`; texts are numbered, 0 is empty |
| `feedback`, `revision` | `review_feedback` is not empty, `revision_count` |
| `fastTrack`, `needsWeb`, `needsEdit` | `fast_track`, `needs_web_approval`, `needs_edit_approval` |
| `node`, `steps` | LangGraph's position and superstep count |
| `answer` | the `message` event of the endpoint |

Each action is a whole node; a node with several outcomes is one action per outcome
(`RequestWeb`, `SearchWeb`, `Retrieve`, `RetrieveHops` for the researcher).
`Deliver` is the endpoint's part of a node's end: the first final response is sent
and the turn saved, and if the save raises the request ends in an error event.
`Fail` is any exception in a node, `Abort` is `GraphRecursionError`.

A text may come out empty, feedback may be empty although the draft was not
approved, a decomposition may have no steps, and the classifier may change its mind
when asked again: all four make the supervisor take a run for a new one.
History variables: `texts`, `judged` (the text the reviewer let pass), `reviews`, and
`blank` (a text came out empty).

Left out: streamed tokens and evidence events; the texts and images. The session,
the easter egg that is answered before the graph runs and the client that leaves are
in `AskRequests`, the edit itself in `Workspace`.

### AskRequests

One user with one session, whose requests may overlap and go to any pod. A place
is Redis or the memory of a pod; `window[l]` and `session[l]` are what it holds.
`conn[s][p]` is the Redis client of service `s` in pod `p`: none, or one that is kept
for good, or a ping that failed and the time before which none is tried again
(`load_client`, `_get_redis`).

| action | code |
|---|---|
| `Ask` | `check_all`, one step of the event loop: the Redis pipeline, which records the request before it counts, or the memory fallback, which records what it lets through |
| `Load`, `Save` | `session_store.load` before the graph and `save` of `build_next_state` after the message |
| `EndUnanswered` | the ends of a run that save nothing, the easter egg, a client that leaves |
| `Tick`, `ExpireSession`, `RedisFails`, `RedisReturns`, `Crash` | time, `setex`, and the faults |

A pipeline and a save may raise before or after Redis has executed them. History:
`admitted`, the requests let through and who counted them, and `chain`, the latest
questions of a place that were asked one at a time; both forget what a crashed pod
forgets.

Left out: questions that are refused before they are counted (too long, empty), which
leave no trace; clocks that differ between pods, and two requests with one time stamp
in the sorted set; data loss inside Redis.

### DualIndex

A document is a source with a Markdown file in two channels, a text is a number and
one chunk. Per channel and source, `vec` is the rows of the pgvector table and
`corpus` the lines of the BM25 file; `tmp[c]` is the one `.tmp` file of its rewriting;
`bm25[p]` is what pod `p` has in memory. `op[t]` is the index operation in thread `t`.

An operation takes its steps in the order of `document_manager.py`, each an action:
`Chunk`, `Embed`, then for each channel `DeleteRows`, the four steps of
`_remove_from_corpus` (below), `Upsert`, `AppendLines`, `Reload`, `NextChannel`
(`invalidate_channel_cache`), and `Unlink` for a deletion. The
entry points differ as in the code: `Save` (`reindex_workspace_source`) removes before
it embeds and works on one channel, `Upload` (`add_document`) embeds first and returns
early when there is no chunk, `Delete` embeds nothing, `SaveDraft` writes the file and
leaves the index alone. A failed statement is printed and the operation goes on
(`PostgresFails`); a failed embedding, a broken line or a `.tmp` file that another
operation has renamed ends it (`Raise`).

`_remove_from_corpus` reads the lines to keep (`ReadCorpus`), opens the `.tmp` file and
by that empties it (`OpenTmp`), writes the lines and closes it (`FillTmp`), and renames
it (`ReplaceCorpus`). The file is buffered and shared by all operations on a channel:
from its opening it may hold none, some or all of the lines, or a broken one; whoever
writes to a file that another one has opened too may leave a mixture (`Overlaid`); and
after a rename those who still have it open write to the corpus file, or to a file
without a name. `rewrite[t]` is the file thread `t` has open, the name it has by now, and
whether nobody else has written to it since. `Torn` is a file with a broken line, which
no operation that meets it mends; `json.loads` raises at it, in an operation, a reload and the
warm-up of a pod that comes back. A pod that dies while it appends may leave one.

A search (`Retrieve`, `CacheResults`) takes the dense rows and the pod's BM25
candidates and stores the answer in Redis, or in the pod's memory if that fails.

History: `met` (what an operation overlapped), `fault`, and from them `vecGood` and
`corpusGood`, the pairs of channel and source whose last operation was clean;
`tainted` marks a search or a cached answer that one of the four known ways has made
stale. They decide nothing and only delimit what the properties claim.

Left out: ranking and `top_k`; figures; an embedding dimension that changes, which
drops the table; the other keys of the cache.

### IndexBuild

`place[p]` is where pod `p` is in `startup_sequence`: `Warmup` (`warmup_models` loads
BM25), `Check` (`channel_ready` for each channel), `Acquire` or `MustWait` (SET NX
EX), the waiter's poll (`WaitDone`, `GiveUp`), and the builder's loop: `NextChannel`,
`OpenTmp`, `FillTmp`, `ReplaceCorpus` (`write_corpus`, with the one `.tmp` file of a
channel, which two builders may have open at a time), `DeleteRows`, `CommitRows` (the
transaction of `replace_channel`, whose DELETE does not see what another one inserts),
`Release`. `Unlocked` builds without Redis. A row carries who inserted it, so that a
document inserted twice is two rows. A lock is the start of the pod that set it: the
key's value is the same for all, and `Release` deletes it whoever holds it.

An upload goes on beside all this: `UploadFiles` writes the Markdown files, and after
the embedding `UploadDelete` and `UploadUpsert` follow for each channel, each a
transaction; `UploadRaises` ends it half-way. What it does to the corpus files is
`DualIndex`'s subject: here they may hold anything once an upload has begun (`Doubtful`,
`Torn`), and a rename may or may not find its `.tmp` file.

Time is in `GiveUp`: a waiter polls 180 times every 5 s, which is the lock's life of
900 s, so that the lock it met is gone by then. `Expire` may come at any time, also
under a builder that is slow.

History: `lockLost` (a builder's lock expired or was deleted, or it built without one),
`disturbed` (a failure, a crash, or an upload) and `raced` (the documents whose upload
was between its files and its last row while a channel was built, or failed to delete
the old rows).

### Workspace

`md` is the workspace's Markdown files, `staged` and `head` the git index and the
tree of the last commit, `registry` the sources in `reports.json` (`Torn` when it cannot
be parsed: between the truncation and the filling of `write_text`, and after two pods
that both had truncated it filled it one after the other, the shorter text over the
longer one), `pending[p]` the edits stashed in pod
`p`. `op[t]` is a request; its steps are the stretches between awaits, and inside a
thread the points where another pod or thread can come in between.

| step | code |
|---|---|
| `Save`, `Upload`, `SaveDraft`, `Create`, `Copy`, `Delete`, `Apply` | a handler up to its first await; `Create` and `Copy` choose a free name here and write later |
| `Propose`, `Reject`, `Evict` | the stash: `editor_node`, `update_reject`, `_TTL_SECONDS` |
| `Check` | `apply_pending_edit` compares the file with the preview's text |
| `WriteText`, `CopyText` | the write in the thread |
| `Add`, `WriteTree`, `Commit` | indexing, which may raise, then `commit_change` |
| `Remove` | `delete_document_by_source`, at the end of a rename too |
| `Load`, `Truncate`, `Fill` | `record`, `rename`, `remove` of the registry |

History: `met` and `spoilt` (another request on the document; another commit or
registry write at the same time, or a failure), `owed` (texts nobody gave up
knowingly), `verdicts` (what became of an edit), `made` (files the studio made), and
`headGood` and `registryGood`, the sources whose last change was clean.

`mixed` says that the registry was truncated while another pod had it open. It then may
stay unparseable for good; that a mixture might happen to parse is left out.

Left out: how the editor finds the section and words the new text; titles,
templates and exports of a report; git's history and `restore` (section 8).

## 3. Runs that pass

| run | instance | shows |
|---|---|---|
| `queue` | 3 jobs, 2 partitions, 2 workers, batches of 2, 1 crash, 1 rebalance | nothing is committed unhandled (`CommittedOnlyHandled`), nothing is skipped (`HandledInOrder`); the refinement `ImplementsAtLeastOnce`, its liveness included; `GroupCatchesUp` |
| `report_workers` | 2 jobs with one title, 2 workers, 1 crash, 1 rebalance | `DoneRowHasOwnReport`, `LiveBridgeMissesNothing`, and `ImplementsQueue`: every step of the pipeline is a step of `JobQueue` |
| `report_degraded` | 1 job, 1 worker, a reconnecting client, every dependency may fail, clients may leave | `OneVerdictPerClient` |
| `report_liveness` | 1 job, 2 workers, 1 crash, 1 rebalance, Kafka refusals, graph failures, clients that leave | `CommittedJobSettled`, `GenerateStreamEnds`, `EnqueuedJobSettles` |
| `graph_run` | 2 titles, 2 sources, one source per section, cap 3, 24 steps | `FinalDraftWasSeen`, `UnansweredOnlyAtCap`, `RewritesBelowCap`, `FreshCitationsResolve`, and `RunIsFinalized` |
| `ask_run` | every kind of request and every deployment, cap 2, 25 steps, as in the code | `DoneMeansOneOutcome`, `GroundedAnswerWasJudged`, `ReviewsBounded`, and `RunEnds` |
| `requests` | 4 questions, 2 pods, 2 at a time, limit and window 2, gate 1, 2 turns, 1 fault | `AdmittedBounded`, `ConversationRemembered` |
| `index` | 2 sources, 2 pods with one indexing thread each, 2 operations, one of the texts blank, 1 fault | `VectorsInSync`, `CorpusInSync`, `CacheExplained` |
| `build` | 2 pods that start twice, 1 document there, 1 uploaded meanwhile, 1 fault | `OneBuilder`, `IndexComplete`, `EveryPodStarts` |
| `workspace` | 2 sources, one of them there, 2 pods, 2 requests at a time, 3 texts, 1 fault | `NoTextLost`, `EditDecidedOnce`, `HeadHasSavedText`, `RegistryTruth` |

`DoneRowHasOwnReport` says of every execution, overlapping or not, that a row at
`done` names a file that is on disk. That the file is the job's own it says where
executions do not overlap (`OneAtATime`: one partition, no rebalance, nothing inline):
two jobs with one title that run at once may choose one name, since it is chosen long
before the file is written.

`CommittedJobSettled` is checked where Kafka may store a message it seems to refuse, so
that a job runs inline and on a worker, and where clients leave. There a committed row
can go back to `running`: the request marks it late. The property allows exactly that, a
job whose inline run is under way or was cut off, and nothing else.

`OneBuilder` has two halves. Builders are alone as long as no lock was lost, uploads or
not. That a document then has one row in a channel holds for all documents but those in
`raced`: an upload asks for no lock, and a builder that has read its new file inserts a
row beside the upload's.

`CorpusInSync` excepts two operations that have the `.tmp` file of a channel open at a
time, whatever sources they are about: then the lines of any source may go. It claims all
other interleavings, those in which one operation reads, appends or reloads while another
one rewrites included; a pod that dies while it appends is the other exception.
`RegistryTruth` likewise excepts a registry that two pods have written at once or that was
read while it was half-written.

`RunIsFinalized` is a statement about the recursion limit: a run whose plan has
sections and whose drafts are not blank ends by being finalized (or by the
reviewer's exception), not by `GraphRecursionError`. Its two hypotheses are not
decoration: an empty outline sends the supervisor to the researcher and back, and
an all-blank draft to the writer and back, until the limit.

`RewritesBelowCap` says what `REPORT_MAX_REVISIONS` means: the count is taken at the
review and compared before the rewriting, so a cap of N allows N - 1 rewritings.

`RunEnds` says the same of `/ask`: the endpoint passes no `recursion_limit`, so
LangGraph's default of 25 holds. The longest ordinary run, three rounds of writer and
reviewer on one set of findings, takes 15 nodes. Its hypotheses name the ways that do
go round until the limit: empty texts, decompositions without steps, and a code
interpreter without tables (section 5).

`GroundedAnswerWasJudged` excludes runs in which a text came out empty: `fast_track`
is never reset, so a fast-tracked question whose first text was empty may be
researched and then answered past the reviewer.

Bounds. `MaxRecords` is 2 instead of 10: what matters is that a batch can hold more
than one message, end in the middle of the log, and span two partitions.
`MaxCrashes` and `MaxRebalances` bound the faults and appear in the guards of
`Crash`, `Shutdown` and `Rebalance`. One of each is enough for the late commit: a
rebalance takes the partition from a worker that still works on its batch, and the
crash of the new owner may bring it back to that worker before it commits.
Two jobs with one title are the least that collide.
Two index operations are the least that race, and every race the properties exclude
is one of two: on one source, on one file, across one cached answer. A third operation
would follow the two; what it finds is what `vecGood` and `corpusGood` say. Three texts
in `workspace` let a third request follow two that overlap, or an edit be proposed,
overtaken and approved. Two sources leave one free name to collide on. Two pods that
start twice let a pod die with the lock and meet it again. In `requests` four questions
overflow the window and the history of two, and time passes the window once and the
gate twice. One fault is enough where the property says what follows one; several faults
only repeat, except for Redis, which comes back unbounded.
In `graph_run` the cap is 3 instead of 2 (two rewritings instead of one) and the
recursion limit 24 instead of 50, so that what it shows of the limit is stronger than
what the code needs. Two titles let a review flag one section and not the other,
which is where numbering and feedback can go apart; two sources let the reference
list change its order.
The proofs of section 6 have none of these bounds.

No run checks deadlock: a finite set of jobs is submitted once, and when all are
done the system stops; a run of a graph ends; the four others stop when their bounded
supply of operations, questions or starts is used up. `ask_run` has no bound that the code does not
have.

A run holds as many properties as one instance can serve, since each instance is a
model of its own to keep in step with the code.

Symmetry is used in `report_workers` (workers), `index` (sources), `workspace` and
`requests` (threads and pods): runs that check no liveness, on sets whose members no
definition tells apart. In `index` threads are not symmetric, since each belongs to a
pod.

Several properties say what holds unless something named happened: a race on the same
document, a failure of one's own, a lock that expired. The code has no locks that would
exclude these, and without the exception each of them is false. What they
show is that nothing else breaks the invariant, and that what was broken is
repaired by the next clean operation.

## 4. Fairness

Weak fairness, on what the scheduling really guarantees. A worker that is not
killed keeps stepping through its loop; Kubernetes restarts a dead one; the group
coordinator assigns an orphan partition; an asyncio task whose await has completed
runs; the report graph ends, since LangGraph bounds its steps
(`recursion_limit` 50; in `ReportGraph` and `AskGraph` the fairness is that a node's
call returns or raises). No fairness on submissions, crashes, shutdowns, rebalances,
failures, client departures or reconnections. In `IndexBuild` a pod's own steps are
fair, since each of its calls returns and its polls are counted, and so is the expiry
of the key, which Redis guarantees; no fairness for crashes or uploads.
`DualIndex`, `Workspace` and `AskRequests` state safety only. `GroupCatchesUp` and
`EnqueuedJobSettles` carry their hypothesis, no rebalance of a live worker, in the
formula: with one they are false (section 5).

## 5. Where the code and its own statements disagree

Two are runs that TLC finds violated; `findings` quotes the statements.

* `report_reconnect`: a reconnecting client whose job finishes between the look at
  the row and the subscription waits for events that were already published.
* `build_bm25`: a pod that starts on an empty index loads BM25 before the files are
  written and never again, and reports "System is fully ready.".

The others are visible in the models and have no run:

* `iter_messages` says it gives up after `idle_timeout`; it does not
  (`job_events.py:124`), and a handler that fails outside `run_report_job` sends no
  event.
* `unique_workspace_source` promises a name that does not collide; it is chosen
  minutes before the file is written (`report_jobs.py:72`).
* A partition reassigned while its job runs can leave a committed job at `running`
  (`jobs.py:89`); so can a request that was told that Kafka refused a job which Kafka
  kept, when it marks the row after a worker has committed the job and its client then
  leaves (`app.py:1065`).
* "atomic — readers see old or new, never partial" (`rag_service.py:264`) holds of the
  rename, not of the file that is renamed: `open("w")` on the one `.tmp` name empties what
  another writer has just closed.
* "Stable" reference numbers are computed anew when the review lists a gap; a section
  that is not rewritten afterwards cites the old ones (`report_researcher.py:143`).
* The code interpreter's result is said to reach the writer; with the interpreter off,
  or without tables, the question goes back and forth until the recursion limit
  (`code_interpreter.py:67`).
* `create_job`'s result is ignored, so that a job may be queued without a row although
  `generate_report` promises the inline path; a client that leaves during an inline run
  leaves the row at `running`; the live bridge stops at `complete` and never sends the
  `done` that the docstring of `run_report_job` and the polling client see after it; and
  the reviewer clears the draft that the writer then quotes as "Previous Draft".
* `add_document` returns early for a text without chunks and leaves the source's old
  rows and lines in the index (`document_manager.py:92`).
* `document_manager` says that rows and lines stay in sync; a failed statement is
  printed and the operation reported as done, and the other pods keep their BM25 copy.
* `admin_restore` cannot succeed: `restore` passes the commit where
  `git checkout` takes paths (`version_control.py:180`).

## 6. Proofs

`JobQueue_proofs` proves, for every set of jobs, workers and partitions, every
batch size and every number of crashes and rebalances:

* `QueueTypeCorrect`: `QSpec => []QTypeOK`
* `AtLeastOnce`: `QSpec => []CommittedOnlyHandled`
* `InOrder`: `QSpec => []HandledInOrder`
* `QueueRefines`: `QSpec => Abs!AbsSafety`, the queue implements
  `AtLeastOnceQueue` without its fairness
* `PromiseForgetsNothing`: `Abs!AbsSafety => []Abs!NothingForgotten`, and with it
  `NoJobForgotten`: `QSpec => []Abs!NothingForgotten`
* `NothingCommittedIsRerun`: `QSpec => []Exclusive`
* `OffsetsNeverMoveBack`: `QSpec => [][NeverMovesBack]_queueVars`

from `PartitionsAssumption` (`None` is no worker and no partition, every job has a
partition) and `BoundsAssumption`. `CommittedOnlyHandled` alone is not inductive:
`Commit` writes the batch's end without looking at `handled`. The invariant `QInv`
adds that slices and offsets lie in the log (`OffsetsInLog`), that a busy worker is
inside a slice (`BusyInSlice`), that everything before the rest of a slice is
handled (`SlicesFollowHandled`), and that what a partition's owner has fetched it
has handled or still holds (`FetchedIsHandledOrHeld`). The last is what a poll
needs: it replaces the batch, and the new slice begins at a position below which
everything is handled. One lemma per action, with one step per conjunct.

`QueueRefines` adds two facts about the log (`MessagesPlaced`: a message lies in its
key's partition; `HandledAreLogged`) and simulates step by step: `SendAndWait` is a
`Submit`, since the new message lies above the committed offset; `End` is a
`Handle` of the job whose message it was; `Commit` is a `Settle`, since what lies
below the offset before or after it has been handled; every other step changes
none of the three sets. `PromiseForgetsNothing` is about the abstract specification
alone: what a user of the queue may conclude without knowing of offsets.

The last two are what `GroupCatchesUp` rests on, and carry its hypothesis, no rebalance
of a live worker: then a worker owns the partition it works on, no commit is rejected,
no committed message is handled again, and offsets only grow. They follow from `Hold`:
only the owner of a partition holds a slice of it, from the committed offset up to the
fetch position. Without the hypothesis TLC finds a commit that moves an offset back.

`ReportGraph_proofs` proves, for every set of titles and sources, every cap and
every recursion limit (from `GraphAssumption`, that the bounds are numbers):

* `GraphInvariant`: `Spec => []GInv`
* `SeenBeforeFinal`: `Spec => []FinalDraftWasSeen`
* `AnsweredBelowCap`: `Spec => []UnansweredOnlyAtCap`
* `RewritesBounded`: `Spec => []RewritesBelowCap`
* `CitationsResolve`: `Spec => []FreshCitationsResolve`
* `GraphTypeCorrect`: `Spec => []TypeOK`
* `EverySourceHasOneNumber`: `Spec => []SourcesNumberedOnce`
* `RunIsShort`: `Spec /\ []HasContent => [](steps <= LongestRun)`
* `LimitLeavesRoom`: `Spec /\ []HasContent => []NeverAborted`, for a limit of at
  least `LongestRun`

The properties speak of history variables, the code decides by flags; `GInv` ties
them together. `FlagMeansSeen` and `FeedbackKept` say that `reviewed` and
`section_feedback` tell the truth about the last review, also across a detour over
the researcher. `FeedbackIsCounted` says that open feedback comes from a review
that was counted and not yet answered. `SentForAReason` carries the supervisor's
decision to the node it sent the run to; without it the invariant is not inductive,
because the writer and the finalizer do not look at the flags again. `CitationInv`
has, for the citations, that every sources block agrees with the reference list as it
is now (`BlocksResolve`), since research rebuilds the blocks of all sections and not
only those it searched again, and that evidence is there for all sections or for none
(`EvidenceCovers`).

That the reference list is a sequence of sources, without repetition, is a statement
about a loop; it is proved without induction over the loop because `BuildReferences` is
defined by ranks: the places of an outline are finitely many and linearly ordered
(`BeforeIsAnOrder`), so that two new places have different ranks (`RanksAreDistinct`)
and, by the pigeonhole principle, every rank up to their number is taken
(`EveryRankIsTaken`). `ResearchInv` carries the evidence from which the list was built.

`RunIsShort` and `LimitLeavesRoom` are the safety part of `RunIsFinalized`: for every cap
on revisions, a run whose plan has sections and whose drafts are not blank (`HasContent`)
takes at most `6 * MaxRevisions + 4` nodes, 10 if the cap is 0. `PaceInv` counts the nodes
by where the run is and how often it has been sent back for rewriting. The bound is
attained (22 nodes for a cap of 3). The 50 of `report_jobs.py` is therefore enough for
every `REPORT_MAX_REVISIONS` up to 7 (`FiftyStepsAreEnough`); a value of 8 needs up to 52.

`AskGraph_proofs` proves, for every request, every deployment, every cap and every
recursion limit (from `AskAssumption`, that these are numbers):

* `AskInvariant`: `Spec => []AInv`
* `OneOutcome`: `Spec => []DoneMeansOneOutcome`
* `JudgedBeforeAnswer`: `Spec => []GroundedAnswerWasJudged`
* `BoundedReviews`: `Spec => []ReviewsBounded`
* `AskTypeCorrect`: `Spec => []TypeOK`
* `AskRunIsShort`: `Spec /\ []HasMaterial => [](steps <= 4 * MaxRevisions + 7)`
* `AskLimitLeavesRoom`: `Spec /\ []HasMaterial => []NeverAborted`, for a limit of at
  least that many nodes

`AInv` adds to the last property what its steps need. `SentIsFinal`: the client has
the final response, so that no later text can differ from it. `OutcomeEndsRun`: a
final response or a request for approval sends the run nowhere but to its end, and
excludes the others; this is where the supervisor's early returns do their work.
`SentForAReason`: the editor is called with no findings, the reviewer with a text.
`FastTrackIsShort`: as long as no text is empty, a fast track leads from the
classifier to the writer to the end, so it never meets findings. `ReviewsCounted`:
every review but the approving one raises `revision_count`.

The last two are the safety part of `RunEnds`, under its hypothesis (`HasMaterial`: texts
and plans are not empty, the interpreter has tables). `Pace` bounds the nodes by the node
the run is at and by `revision_count`. For the reviewer's cap of 2 that is 15 nodes,
which TLC attains; LangGraph's default limit of 25 would do up to a cap of 4
(`DefaultLimitIsEnough`).

`IndexBuild_proofs` proves, for every set of documents, every finite non-empty set of
pods and any number of starts and faults:

* `BuildInvariant`: `Spec => []BInv`
* `BuilderAlone`: `Spec => []OneBuilder`
* `BuildTypeCorrect`: `Spec => []TypeOK`
* `IndexIsComplete`: `Spec => []IndexComplete`

`HolderBuilds` says that a builder's start is the one that holds the lock, which is what
keeps a second one out, and why an expiry or a deletion of the key under it must show in
`lockLost`. `DeleteSeesEnough` is what the transaction of `replace_channel` needs: the
rows that its DELETE did not see are of documents uploaded after the builder had read
the directory (`IndexedOnDisk`), so it does not insert them again, or of documents whose
upload it met. `UploadsApart` and `UploadsClean` are the upload's side: one that has met
no builder inserts where its document has no row. `IndexIsComplete` rests on `BuildInv`:
a channel with any row is complete, whoever builds or waits has every incomplete channel
on his list, and whoever waits or is through has somebody building or nothing left to
build (`Covered`). It needs no lock: two builders at once write the same, also to a
`.tmp` file both have open, and one whose rename finds no file raises and disturbs the
build (`FilesInv`). The file of a complete channel is there or is being written under its
final name by a builder (`Written`), who closes it before he is through.

`ReportJobs_proofs` extends the queue's proofs. It proves, for all jobs, workers,
partitions and titles and every choice of what may fail (from `PipelineAssumption`, and
`NoRowAssumption`: `None` is no status):

* `PipelineRefinesQueue`: `Spec => ImplementsQueue`, so that the theorems about
  `JobQueue` hold of the pipeline
* `PipelineTypeCorrect`: `Spec => []TypeOK`
* `LiveBridge`: `Spec => []LiveBridgeMissesNothing`
* `OneVerdict`: `Spec => []OneVerdictPerClient`
* `CommittedSettled`: `Spec => []CommittedJobSettled`
* `DoneHasReport`: `Spec => []DoneRowHasOwnReport`
* `ReportsAreNeverReplaced`: `Spec => [][NoneReplaced]_vars`
* `CompleteIsTrue`: `Spec => []CompleteMeansReport`
* `EndedStreamsStayEnded`: `Spec => [][\A s \in Streams : EndedStays(s)]_vars`
* `PipelineDeliversInOrder`, `PipelineForgetsNoJob`: the queue's results, of the pipeline

`BridgeInv`: a request that has not been enqueued has no message in the topic, and only
jobs in the topic are announced; with `BridgeSubscribed`, an announcement finds the
subscription of whoever waits on the bridge. `VerdictInv`: what a client has heard is one
of five lists, and nothing before its stream ends but the `complete` of an inline run.
`CommittedJobSettled` speaks of commits, the table is written long before: in between,
the outcome must be there for every message the holder of the partition is past, or the
job's inline run has yet to put it there or was cut off (`SettledRows`, `Outcome`), which
holds because of `Hold` and because no job is in the
topic twice (`LoggedOnce`): the redelivered job that sets its row back to `running` is the
one its worker has at hand. `ReportInv` follows the name of a file from its choice to the row.
With it, `FilesGrow` says what a step does to the workspace: a report is only added, unless
executions overlap. A client is told `complete` by an executor past `write_text` or from a
row that such an executor marked, and by nobody else (`WhoTellsComplete`); the report it is
told of then stays (`ReportStays`).

`AskRequests_proofs` proves, for any number of pods, requests and faults, every limit
and window and histories of any length (from `RequestAssumption`):

* `RequestsTypeCorrect`: `Spec => []TypeOK`
* `ConversationKept`: `Spec => []ConversationRemembered`
* `RateLimited`: `Spec => []AdmittedBounded`

`LimitInv`: what a place let through within the window it still counts, so that there is
no more of it than the limit (`PlaceBound`), and as long as nothing failed every decision
is Redis' (`NothingFailedYet`). `SessionInv` carries what a session remembers through
the request that has loaded it; the lemmas about `NextHistory` say that a saved history
ends with the new turn and, before it, with what the old one ended with.

`Workspace_proofs` proves, for any number of documents, pods, requests and faults (from
`WorkspaceAssumption` and `NoRequestAssumption`):

* `WorkspaceTypeCorrect`: `Spec => []TypeOK`
* `NoTextIsLost`: `Spec => []NoTextLost`
* `EditsDecidedOnce`: `Spec => []EditDecidedOnce`
* `HeadHasWhatWasSaved`: `Spec => []HeadHasSavedText`
* `RegistryIsTrue`: `Spec => []RegistryTruth`

`RequestInv` is what all of them use: requests on one document know of each other, so do
those that commit or write the registry at the same time, and a request nobody has met
finds its documents as it left them (`OwnKept`). `OneFate`: an edit is in one stash or in
one request or decided, and a text not drawn yet has no verdict. `HeadInv` and
`RegistryInv` say that a settled document is in every tree, and in every copy of the
registry, that is on its way to be written. A registry left unparseable settles nothing:
from then on `RegistryInv` claims only what later clean changes put right.

`DualIndex_proofs` proves, for any number of sources, pods, threads, operations and
faults (from `IndexAssumption` and `NoOperationAssumption`):

* `IndexTypeCorrect`: `Spec => []TypeOK`
* `VectorsStayInSync`: `Spec => []VectorsInSync`
* `CorpusStaysInSync`: `Spec => []CorpusInSync`
* `CacheIsExplained`: `Spec => []CacheExplained`

`OpFits` says which steps an operation of each kind goes through with what text in which
channel; without it a text that is no text could be inserted. `OverlapInv`: operations on
one source know of each other, and what an operation has written is on disk unless it met
another on its source (`TextFits`). `VectorsFit` and `CorpusFits` follow an operation
through its channels: nothing there after the removal, the text after the insertion, the
text in the channels before. They differ in what may disturb them: rows are changed by
source, so only an operation on the same source can, the corpus file is replaced as
a whole, so any operation can. That what is in sync stays so needs three more facts:
no operation is at a pair that counts as in sync (`NobodyAt`), a copy of the file
under way has the same lines for it, in memory as in the `.tmp` file (`CopiesAgree`), and
while one operation has the `.tmp` file between its opening and its rename nobody else
does (`OneWriter`), or the channel's pairs count no more. `CacheInv` names what stands between a removal
and its invalidation: an entry shows only what is held, or some operation is `Dirty`, and
whoever stops being dirty has invalidated, raised or died.

`NoRequestAssumption`, `NoOperationAssumption` and `NoRowAssumption` say that `None` is no
request, no operation and no status, which TLC's model values give and TLA+ does not.

Only model-checked: liveness (`GroupCatchesUp`, `GenerateStreamEnds`,
`EnqueuedJobSettles`, `RunIsFinalized`, `RunEnds`, `EveryPodStarts`) and the fairness part
of `ImplementsAtLeastOnce`, which are out of the prover's reach. Every invariant of a
passing run is a theorem, and so is the refinement `ImplementsQueue`. Some theorems state
properties that no run has: the action properties and client promises above, which were
tried with TLC on the instances of `queue`, `report_workers`, `report_degraded`,
`graph_run` and `ask_run` before they were proved.

## 7. Plan

* Compositions: that one run of `ReportGraph` is a step of `ReportJobs`, and one index
  operation a step of `Workspace`, is argued in section 2 and could be a refinement.
* The front end's autosave as a module of its own.

The runs are kept few, so that each can be kept in step with the code: modules that
share state are composed and checked together, and where a component has
more to say than a narrow violation run, that run gives way to it.

## 8. Not modelled, and why

Parsing, conversion, captioning, embeddings, web search and tracing are calls to
external services without shared state. Exports, templates, charts, citation
highlighting and the front end's rendering are pure functions of a finished text.
Users and authentication are sequential look-ups. Of version control, `restore` and
the history: the first always fails as it stands, the second only reads. The feedback
log is a Redis key per rating; adding a comment reads it and writes it back, in a
thread, and without Redis rewrites the pod's file while a rating may be appended: a
race like the registry's, over data nothing else reads. The front end's
autosave has a protocol of its own, which is planned. An embedding dimension that changes drops the
table at start-up and makes a new build necessary; the deployment pins the model. The
producer's retry gate at start-up and malformed messages are left out of the queue. The
manifests were read for the number of replicas, the restarts and the shared volumes the
models assume.
