----------------------------- MODULE IndexBuild -----------------------------
(***************************************************************************)
(* The start-up of the API pods: the start-up sequence of RAG/app.py, the  *)
(* build of the index under a Redis lock (RAG/services/rag_service.py) and *)
(* what it does to the pgvector table (RAG/services/vector_store.py).      *)
(*                                                                         *)
(* A document is one chunk.  A row carries who inserted it, so that a      *)
(* document inserted by two is two rows; a pod's transaction sees, and     *)
(* deletes, what the pod inserted before.  While the pods start they       *)
(* already serve requests: an upload (add_document) writes files and rows  *)
(* beside the build.  It also rewrites the same corpus files through the   *)
(* same .tmp files and reloads BM25, whose steps are in DualIndex: here    *)
(* the corpus files and their copies are in doubt (Torn) from the first    *)
(* upload on.                                                              *)
(***************************************************************************)
EXTENDS Integers, Sequences, FiniteSets

CONSTANTS
    Pods,
    Initial,    \* the documents on disk at the start
    Uploaded,   \* documents that are uploaded, once each, while the pods start
    None,
    Torn,       \* a file that may hold anything, broken lines for one
    MaxBoots,   \* bound on the starts of a pod
    MaxFaults   \* bound on failed calls and crashes together

ASSUME BuildAssumption ==
    /\ IsFiniteSet(Pods) /\ Pods # {}
    /\ None \notin Pods
    /\ MaxBoots \in Nat \ {0} /\ MaxFaults \in Nat

Docs == Initial \cup Uploaded
Channels == {"originals", "workspace"}

\* The order of CHANNELS; the first definition is a faulty variant.
WorkspaceFirst == <<"workspace", "originals">>
AllChannels == <<"originals", "workspace">>

Starts == Pods \X (1 .. MaxBoots)
Rows == Docs \X (Pods \cup {None})
Places == {"down", "warmup", "check", "lock", "wait", "next", "corpus", "fill",
           "replace", "rows", "commit", "release", "ready", "failed"}
UploadPlaces == {"none", "delete", "upsert", "ended"}
ChannelLists == {<<>>, <<"originals">>, <<"workspace">>, <<"originals", "workspace">>}

VARIABLES
    md,       \* the documents in the Markdown directories, the same in both
    rows,     \* rows[c]: the committed rows of channel c
    corpus,   \* corpus[c]: the documents in corpus_<c>.jsonl, None without the file
    tmp,      \* tmp[c]: the same of corpus_<c>.tmp
    rewrite,  \* rewrite[p]: the .tmp file p has opened and not yet closed
    upload,   \* upload[d]: where add_document is, and the channels left
    lock,     \* rag:index:lock, by the start of a pod that acquired it
    place,    \* place[p]: where pod p is in startup_sequence
    todo,     \* todo[p]: channels_to_build
    blocker,  \* blocker[p]: the lock that made p wait
    loaded,   \* loaded[p]: the documents create_channel_index has read
    seen,     \* seen[p]: the rows p's transaction deletes
    bm25,     \* bm25[p][c]: the corpus p loaded in warmup_models, if any
    boots,    \* boots[p]: the starts of p so far
    faults,
    lockLost, \* history: a builder lost its lock, or built without one
    disturbed,\* history: a build failed, a pod died or an upload came in
    raced     \* history: documents whose upload met a build, or failed to delete

pods  == <<place, todo, blocker, loaded, seen, bm25, boots>>
files == <<corpus, tmp, rewrite>>
stores == <<md, rows, files, upload>>
notes == <<faults, lockLost, disturbed, raced>>
vars  == <<stores, lock, pods, notes>>

Lines == SUBSET Docs
\* The name the file has by now, and that every other pod that had it open
\* meanwhile writes the same lines to it.
Rewrite == [channel: Channels, file: {"tmp", "corpus", "gone"}, agreed: BOOLEAN]
\* What says that there is nobody, or that there is no file open, is neither.
ASSUME NobodyAssumption == None \notin Starts /\ None \notin Rewrite

TypeOK ==
    /\ md \subseteq Docs
    /\ rows \in [Channels -> SUBSET Rows]
    /\ \A c \in Channels : {corpus[c], tmp[c]} \subseteq Lines \cup {None, Torn}
    /\ \A p \in Pods : rewrite[p] = None \/ rewrite[p] \in Rewrite
    /\ upload \in [Uploaded -> [at: UploadPlaces, left: ChannelLists]]
    /\ lock \in Starts \cup {None}
    /\ place \in [Pods -> Places]
    /\ todo \in [Pods -> ChannelLists]
    /\ blocker \in [Pods -> Starts \cup {None}]
    /\ loaded \in [Pods -> SUBSET Docs]
    /\ seen \in [Pods -> SUBSET Rows]
    /\ \A p \in Pods, c \in Channels : bm25[p][c] \in Lines \cup {None, Torn}
    /\ boots \in [Pods -> 0 .. MaxBoots]
    /\ faults \in 0 .. MaxFaults
    /\ lockLost \in BOOLEAN /\ disturbed \in BOOLEAN /\ raced \subseteq Uploaded

\* The volume has documents, the index is empty.
Init ==
    /\ md = Initial
    /\ rows = [c \in Channels |-> {}]
    /\ corpus = [c \in Channels |-> None] /\ tmp = corpus
    /\ rewrite = [p \in Pods |-> None]
    /\ upload = [d \in Uploaded |-> [at |-> "none", left |-> <<>>]]
    /\ lock = None
    /\ place = [p \in Pods |-> "down"]
    /\ todo = [p \in Pods |-> <<>>]
    /\ blocker = [p \in Pods |-> None]
    /\ loaded = [p \in Pods |-> {}]
    /\ seen = [p \in Pods |-> {}]
    /\ bm25 = [p \in Pods |-> corpus]
    /\ boots = [p \in Pods |-> 0]
    /\ faults = 0 /\ lockLost = FALSE /\ disturbed = FALSE /\ raced = {}

-----------------------------------------------------------------------------
\* Helpers

Fault == faults < MaxFaults /\ faults' = faults + 1 /\ disturbed' = TRUE
NoFault == UNCHANGED <<faults, disturbed>>
Goto(p, to) == place' = [place EXCEPT ![p] = to]
Start(p) == <<p, boots[p]>>
DocsIn(rs) == {r[1] : r \in rs}

\* channel_ready: the channel has rows at all; the first definition is a
\* faulty variant that looks at the table.
AnyRows(c) == \E d \in Channels : rows[d] # {}
Ready(c) == rows[c] # {}
Unready(c) == IF Ready(c) THEN <<>> ELSE <<c>>

\* Builders: pods between the acquisition of the lock and its release.
BuildsChannel(p) == place[p] \in {"corpus", "fill", "replace", "rows", "commit"}
Building(p) == BuildsChannel(p) \/ place[p] \in {"next", "release"}
Builders == {p \in Pods : Building(p)}

\* Uploads under way.
Uploading == {d \in Uploaded : upload[d].at \in {"delete", "upsert"}}
Ended == [at |-> "ended", left |-> <<>>]
UploadChannel(d) == Head(upload[d].left)

-----------------------------------------------------------------------------
\* The corpus files

\* An upload may have rewritten a file, or given it away under a builder.
Doubtful == \E d \in Uploaded : upload[d].at # "none"
Unsure(content) == IF Doubtful THEN Torn ELSE content

\* The pods that have a file of channel c open which is now called so.
Open(c, file) ==
    {p \in Pods : rewrite[p] # None /\ rewrite[p].channel = c /\ rewrite[p].file = file}

\* The .tmp file of channel c gets the name of the corpus file, also for those who
\* have it open.
Renamed(r, c) ==
    IF r # None /\ r.channel = c
    THEN [r EXCEPT !.file = IF @ = "tmp" THEN "corpus" ELSE "gone"]
    ELSE r

-----------------------------------------------------------------------------
\* The start-up of a pod

Boot(p) ==
    /\ place[p] = "down"
    /\ boots[p] < MaxBoots
    /\ boots' = [boots EXCEPT ![p] = @ + 1]
    /\ Goto(p, "warmup")
    /\ UNCHANGED <<stores, lock, todo, blocker, loaded, seen, bm25, notes>>

\* warmup_models loads the BM25 corpora, from a doubtful file whatever it holds;
\* the build does not reload them.
Warmup(p) ==
    /\ place[p] = "warmup"
    /\ bm25' = [bm25 EXCEPT ![p] = corpus]
    /\ Goto(p, "check")
    /\ UNCHANGED <<stores, lock, todo, blocker, loaded, seen, boots, notes>>

\* json.loads raises at a broken line, which ends the start-up sequence.
WarmupRaises(p) ==
    /\ place[p] = "warmup"
    /\ Torn \in {corpus[c] : c \in Channels}
    /\ Goto(p, "failed")
    /\ UNCHANGED <<stores, lock, todo, blocker, loaded, seen, bm25, boots, notes>>

\* ensure_index: the channels without rows.
Check(p) ==
    /\ place[p] = "check"
    /\ todo' = [todo EXCEPT ![p] = Unready(AllChannels[1]) \o Unready(AllChannels[2])]
    /\ Goto(p, IF \A c \in Channels : Ready(c) THEN "ready" ELSE "lock")
    /\ UNCHANGED <<stores, lock, blocker, loaded, seen, bm25, boots, notes>>

\* ensure_schema fails, without Postgres for one: ensure_index returns and the
\* pod counts as ready.
NoSchema(p) ==
    /\ place[p] = "check"
    /\ Fault
    /\ Goto(p, "ready")
    /\ UNCHANGED <<stores, lock, todo, blocker, loaded, seen, bm25, boots,
                   lockLost, raced>>

\* Faulty variant: SET without NX.
AcquireAnyway(p) ==
    /\ place[p] = "lock"
    /\ lock' = Start(p)
    /\ Goto(p, "next")
    /\ UNCHANGED <<stores, todo, blocker, loaded, seen, bm25, boots, notes>>

\* r.set(_LOCK_KEY, "1", nx=True, ex=_LOCK_TTL).
Acquire(p) ==
    /\ place[p] = "lock"
    /\ lock = None
    /\ lock' = Start(p)
    /\ Goto(p, "next")
    /\ UNCHANGED <<stores, todo, blocker, loaded, seen, bm25, boots, notes>>

\* The lock is taken: the pod waits, at least as long as the lock can live.
MustWait(p) ==
    /\ place[p] = "lock"
    /\ lock # None
    /\ blocker' = [blocker EXCEPT ![p] = lock]
    /\ Goto(p, "wait")
    /\ UNCHANGED <<stores, lock, todo, loaded, seen, bm25, boots, notes>>

\* Redis is out of reach: the pod builds without a lock.
Unlocked(p) ==
    /\ place[p] = "lock"
    /\ faults < MaxFaults /\ faults' = faults + 1
    /\ lockLost' = TRUE
    /\ Goto(p, "next")
    /\ UNCHANGED <<stores, lock, todo, blocker, loaded, seen, bm25, boots,
                   disturbed, raced>>

\* ensure_index returns, and forgets what it waited for.
Returns(p) ==
    /\ todo' = [todo EXCEPT ![p] = <<>>]
    /\ blocker' = [blocker EXCEPT ![p] = None]

\* The waiter's poll finds every channel it wanted ready.
WaitDone(p) ==
    /\ place[p] = "wait"
    /\ \A i \in 1 .. Len(todo[p]) : Ready(todo[p][i])
    /\ Returns(p)
    /\ Goto(p, "ready")
    /\ UNCHANGED <<stores, lock, loaded, seen, bm25, boots, notes>>

\* Faulty variants: "proceeding anyway" means building; waiting for ever.
GiveUpAndBuild(p) ==
    /\ place[p] = "wait"
    /\ lock # blocker[p]
    /\ Goto(p, "next")
    /\ UNCHANGED <<stores, lock, todo, blocker, loaded, seen, bm25, boots, notes>>
NeverGiveUp(p) == FALSE

\* 180 polls of 5 s have passed, so that the lock it waits for, which lives
\* 900 s, is gone: it goes on without an index, and without trying the lock.
GiveUp(p) ==
    /\ place[p] = "wait"
    /\ lock # blocker[p]
    /\ Returns(p)
    /\ Goto(p, "ready")
    /\ UNCHANGED <<stores, lock, loaded, seen, bm25, boots, notes>>

\* load_markdown_documents, of either channel.
MarkdownDocuments == md

\* The loop over channels_to_build: a channel that has rows by now is
\* skipped, for another create_channel_index reads the documents.
NextChannel(p) ==
    /\ place[p] = "next"
    /\ IF todo[p] = <<>>
       THEN Goto(p, "release") /\ UNCHANGED <<todo, loaded, raced>>
       ELSE IF Ready(Head(todo[p]))
       THEN todo' = [todo EXCEPT ![p] = Tail(@)] /\ UNCHANGED <<place, loaded, raced>>
       ELSE /\ loaded' = [loaded EXCEPT ![p] = MarkdownDocuments]
            /\ raced' = raced \cup Uploading
            /\ Goto(p, "corpus")
            /\ UNCHANGED todo
    /\ UNCHANGED <<stores, lock, blocker, seen, bm25, boots, faults, lockLost,
                   disturbed>>

\* write_corpus: tmp_path.open("w") empties the file, also for a builder who is
\* writing it or has just done so.
OpenTmp(p) ==
    /\ place[p] = "corpus"
    /\ LET c      == Head(todo[p])
           others == Open(c, "tmp")
           agree(q) == loaded[q] = loaded[p]
           opened == [channel |-> c, file |-> "tmp",
                      agreed |-> \A q \in others : agree(q)]
       IN /\ tmp' = [tmp EXCEPT ![c] = Torn]
          /\ rewrite' = [q \in Pods |->
                 IF q = p THEN opened
                 ELSE IF q \in others THEN [rewrite[q] EXCEPT !.agreed = @ /\ agree(q)]
                 ELSE rewrite[q]]
    /\ Goto(p, "fill")
    /\ UNCHANGED <<md, rows, corpus, upload, lock, todo, blocker, loaded, seen,
                   bm25, boots, notes>>

\* The chunks are written and the file is closed: the one that was opened, which
\* may be the corpus file by now, or have no name.
FillTmp(p) ==
    /\ place[p] = "fill"
    /\ LET r == rewrite[p]
           c == Head(todo[p])
           found == IF r.agreed /\ Open(c, r.file) = {p} THEN loaded[p] ELSE Torn
       IN /\ tmp' = IF r.file = "tmp" THEN [tmp EXCEPT ![c] = Unsure(found)] ELSE tmp
          /\ corpus' = IF r.file = "corpus" THEN [corpus EXCEPT ![c] = Unsure(found)]
                                            ELSE corpus
    /\ rewrite' = [rewrite EXCEPT ![p] = None]
    /\ Goto(p, "replace")
    /\ UNCHANGED <<md, rows, upload, lock, todo, blocker, loaded, seen, bm25, boots,
                   notes>>

\* tmp_path.replace(corpus_path) raises when somebody else has renamed the file
\* already: then the build ends.
ReplaceCorpus(p) ==
    /\ place[p] = "replace"
    /\ LET c == Head(todo[p])
       IN \/ /\ tmp[c] # None
             /\ corpus' = [corpus EXCEPT ![c] = tmp[c]]
             /\ tmp' = [tmp EXCEPT ![c] = Unsure(None)]
             /\ rewrite' = [q \in Pods |-> Renamed(rewrite[q], c)]
             /\ Goto(p, "rows")
             /\ UNCHANGED disturbed
          \/ /\ tmp[c] = None \/ Doubtful
             /\ Goto(p, "release")
             /\ disturbed' = TRUE
             /\ UNCHANGED files
    /\ UNCHANGED <<md, rows, upload, lock, todo, blocker, loaded, seen, bm25, boots,
                   faults, lockLost, raced>>

\* write_vector_index: the embedding, which may raise and end the build, and
\* the DELETE of replace_channel's transaction, which sees what is committed.
DeleteRows(p) ==
    /\ place[p] = "rows"
    /\ \/ /\ seen' = [seen EXCEPT ![p] = rows[Head(todo[p])]]
          /\ Goto(p, "commit")
          /\ NoFault
       \/ /\ Fault
          /\ Goto(p, "release")
          /\ UNCHANGED seen
    /\ UNCHANGED <<stores, lock, todo, blocker, loaded, bm25, boots, lockLost,
                   raced>>

\* The transaction inserts and commits; a failure is logged, and the build
\* goes on as if it had not happened.
CommitRows(p) ==
    /\ place[p] = "commit"
    /\ \/ /\ rows' = [rows EXCEPT ![Head(todo[p])] =
                         (@ \ seen[p]) \cup (loaded[p] \X {p})]
          /\ NoFault
       \/ Fault /\ UNCHANGED rows
    /\ todo' = [todo EXCEPT ![p] = Tail(@)]
    /\ loaded' = [loaded EXCEPT ![p] = {}]
    /\ seen' = [seen EXCEPT ![p] = {}]
    /\ Goto(p, "next")
    /\ UNCHANGED <<md, files, upload, lock, blocker, bm25, boots, lockLost, raced>>

\* Someone's lock is gone while its holder builds.
LosesLock(k) == \E q \in Builders : Start(q) = k

\* finally: r.delete(_LOCK_KEY), whoever holds it by now; when Redis cannot be
\* reached the exception ends the start-up sequence.
Release(p) ==
    /\ place[p] = "release"
    /\ \/ /\ lock' = None
          /\ lockLost' = (lockLost \/ (lock # Start(p) /\ LosesLock(lock)))
          /\ Goto(p, "ready")
          /\ NoFault
       \/ /\ Fault
          /\ Goto(p, "failed")
          /\ UNCHANGED <<lock, lockLost>>
    /\ Returns(p)
    /\ loaded' = [loaded EXCEPT ![p] = {}]
    /\ UNCHANGED <<stores, seen, bm25, boots, raced>>

-----------------------------------------------------------------------------
\* The environment

\* _LOCK_TTL has passed since the acquisition.
Expire ==
    /\ lock # None
    /\ lock' = None
    /\ lockLost' = (lockLost \/ LosesLock(lock))
    /\ UNCHANGED <<stores, pods, faults, disturbed, raced>>

\* A pod dies, and with it the uploads in it, which may be any; an open transaction
\* is rolled back.
Crash(p) ==
    /\ place[p] # "down"
    /\ Fault
    /\ Goto(p, "down")
    /\ Returns(p)
    /\ loaded' = [loaded EXCEPT ![p] = {}]
    /\ seen' = [seen EXCEPT ![p] = {}]
    /\ bm25' = [bm25 EXCEPT ![p] = [c \in Channels |-> Unsure(None)]]
    /\ rewrite' = [rewrite EXCEPT ![p] = None]
    /\ \E lost \in SUBSET Uploading :
          upload' = [d \in Uploaded |-> IF d \in lost THEN Ended ELSE upload[d]]
    /\ UNCHANGED <<md, rows, corpus, tmp, lock, boots, lockLost, raced>>

-----------------------------------------------------------------------------
\* add_document while the pods start

\* The files of both channels are written; the chunks are then embedded.
UploadFiles(d) ==
    /\ upload[d].at = "none"
    /\ \E p \in Pods : place[p] # "down"
    /\ md' = md \cup {d}
    /\ upload' = [upload EXCEPT ![d] = [at |-> "delete", left |-> AllChannels]]
    /\ corpus' = [c \in Channels |-> Torn] /\ tmp' = corpus'
    /\ bm25' = [p \in Pods |-> corpus']
    /\ disturbed' = TRUE
    /\ raced' = IF \E q \in Pods : BuildsChannel(q) THEN raced \cup {d} ELSE raced
    /\ UNCHANGED <<rows, rewrite, lock, place, todo, blocker, loaded, seen, boots,
                   faults, lockLost>>

\* The embedding raises, before anything is deleted, or _remove_from_corpus, between
\* the deletion and the insertion.
UploadRaises(d) ==
    /\ \/ upload[d].at = "delete" /\ upload[d].left = AllChannels /\ Fault
       \/ upload[d].at = "upsert" /\ NoFault
    /\ upload' = [upload EXCEPT ![d] = Ended]
    /\ UNCHANGED <<md, rows, files, lock, pods, lockLost, raced>>

\* _delete_from_vector_store_by_source, a transaction of its own: it deletes what is
\* committed.  A failure is printed, and the upload goes on.
UploadDelete(d) ==
    /\ upload[d].at = "delete"
    /\ \/ /\ rows' = [rows EXCEPT ![UploadChannel(d)] = {r \in @ : r[1] # d}]
          /\ NoFault
          /\ UNCHANGED raced
       \/ Fault /\ raced' = raced \cup {d} /\ UNCHANGED rows
    /\ upload' = [upload EXCEPT ![d].at = "upsert"]
    /\ UNCHANGED <<md, files, lock, pods, lockLost>>

\* _upsert_to_vector_store, which inserts, and on to the next channel.
UploadUpsert(d) ==
    /\ upload[d].at = "upsert"
    /\ \/ /\ rows' = [rows EXCEPT ![UploadChannel(d)] = @ \cup {<<d, None>>}]
          /\ NoFault
       \/ Fault /\ UNCHANGED rows
    /\ upload' = [upload EXCEPT ![d] =
          IF Len(@.left) = 1 THEN Ended
          ELSE [at |-> "delete", left |-> Tail(@.left)]]
    /\ UNCHANGED <<md, files, lock, pods, lockLost, raced>>

UploadStep(d) ==
    UploadFiles(d) \/ UploadRaises(d) \/ UploadDelete(d) \/ UploadUpsert(d)

-----------------------------------------------------------------------------
\* Steps the pod takes by itself.
Step(p) ==
    \/ Boot(p) \/ Warmup(p) \/ WarmupRaises(p) \/ Check(p) \/ NoSchema(p)
    \/ Acquire(p) \/ MustWait(p) \/ WaitDone(p) \/ GiveUp(p) \/ NextChannel(p)
    \/ OpenTmp(p) \/ FillTmp(p) \/ ReplaceCorpus(p)
    \/ DeleteRows(p) \/ CommitRows(p) \/ Release(p)

Next ==
    \/ \E p \in Pods : Step(p) \/ Unlocked(p) \/ Crash(p)
    \/ Expire
    \/ \E d \in Uploaded : UploadStep(d)

\* Every call of a living pod returns, and Redis expires the key.
Fairness == WF_vars(Expire) /\ \A p \in Pods : WF_vars(Step(p))

Spec == Init /\ [][Next]_vars /\ Fairness

-----------------------------------------------------------------------------
\* As long as no builder lost its lock, and nobody built without one, no two
\* pods build at a time: crashes of a holder, expiry of a dead holder's key and
\* waiters that give up included.  So no document has two rows in a channel,
\* although replace_channel's transaction does not see what another one inserts
\* meanwhile.  The lock does not keep uploads out, nor saves and finished reports:
\* one that has written its file when a builder reads the directory, or writes it
\* before that builder's transaction, can leave the document a row of each.
OneBuilder ==
    lockLost \/
        /\ Cardinality(Builders) <= 1
        /\ \A c \in Channels : \A r1, r2 \in rows[c] :
               r1[1] = r2[1] /\ r1[1] \notin raced => r1 = r2

\* Once every pod is through, both indexes of both channels hold every
\* document, with or without the lock, as long as no call failed, no pod died
\* and nothing was uploaded meanwhile: an upload makes an empty channel look
\* ready (as a save or a report that is indexed meanwhile does), and a pod that
\* dies leaves a lock that outlives every waiter.
IndexComplete ==
    ~disturbed /\ (\A p \in Pods : place[p] = "ready") =>
        \A c \in Channels : DocsIn(rows[c]) = md /\ corpus[c] = md

\* "so other pods are never blocked permanently" (ensure_index): a pod whose
\* start-up has begun is through with it or dies, again and again as it restarts.
EveryPodStarts ==
    \A p \in Pods : []<>(place[p] \in {"ready", "failed", "down"})

\* What "System is fully ready." (RAG/app.py) and GET /status say of a pod:
\* that its searches see the index.
ReadyPodSearchesIndex ==
    \A p \in Pods : place[p] = "ready" /\ ~disturbed =>
        \A c \in Channels : bm25[p][c] = corpus[c]
=============================================================================
