----------------------------- MODULE DualIndex -----------------------------
(***************************************************************************)
(* The dual-channel index and its upkeep: incremental indexing             *)
(* (RAG/services/document_manager.py), the pgvector table                  *)
(* (RAG/services/vector_store.py), and hybrid retrieval with its cache     *)
(* (RAG/services/retrieval.py).                                            *)
(*                                                                         *)
(* A document is a source; its text is a number, drawn afresh by whoever   *)
(* writes the file.  A text is one chunk, its figures included.  An index  *)
(* operation runs in a thread of a pod and takes no lock, so that any two  *)
(* interleave at every step.  Table, files and Redis are shared by the     *)
(* pods; a pod's BM25 index and its memory cache are its own.              *)
(*                                                                         *)
(* A file that is being written is empty or partly written until it is     *)
(* closed, and stays the same file when it is renamed meanwhile.  A corpus *)
(* file with a broken line, which no reader gets past, is Torn.            *)
(***************************************************************************)
EXTENDS Integers, Sequences, FiniteSets

CONSTANTS
    Sources, Pods, Threads,
    Searching,       \* the pods whose searches are followed
    PodOf,           \* the pod each thread runs in
    Blank,           \* the texts that yield no chunk
    None,            \* no file, no entry
    Torn,            \* the content of a corpus file with a broken line
    MaxTexts,        \* bound on the operations started, drafts included
    MaxFaults        \* bound on failed calls and pod crashes together

ASSUME IndexAssumption ==
    /\ PodOf \in [Threads -> Pods]
    /\ Searching \subseteq Pods
    /\ MaxTexts \in Nat /\ MaxFaults \in Nat
    /\ Blank \subseteq 1 .. MaxTexts
    /\ None \notin 0 .. MaxTexts

Channels == {"originals", "workspace"}
BothChannels == <<"originals", "workspace">>
Texts == 0 .. MaxTexts
Kinds == {"reindex", "add", "delete"}
Steps == {"chunk", "embed", "delete", "read", "open", "fill", "replace",
          "upsert", "append", "reload", "invalidate", "unlink"}

\* What the lines of a whole corpus file say: the texts of each source.
Lines == [Sources -> Seq(Texts)]
ASSUME TornAssumption == Torn # None /\ {Torn, None} \cap Lines = {}

VARIABLES
    md,      \* md[c][s]: the text of the Markdown file of s in channel c
    vec,     \* vec[c][s]: the texts of the rows of s in channel c
    corpus,  \* corpus[c][s]: the texts of the lines of s in corpus_<c>.jsonl
    tmp,     \* tmp[c]: the content of corpus_<c>.tmp
    rewrite, \* rewrite[t]: the rewriting of a corpus file by thread t
    bm25,    \* bm25[p][c]: the corpus pod p last loaded, None if it never could
    op,      \* op[t]: the index operation thread t runs
    search,  \* search[p]: the search under way in pod p
    shared,  \* the cached answer in Redis
    local,   \* local[p]: the cached answer in the memory of pod p
    drawn, faults, \* operations and faults so far
    vecGood, corpusGood \* history: channel and source pairs, see the end

stores == <<md, vec, corpus, tmp, rewrite>>
cache  == <<search, shared, local>>
bounds == <<drawn, faults>>
good   == <<vecGood, corpusGood>>
vars   == <<stores, bm25, op, cache, bounds, good>>

\* met records with what the operation overlapped: with nothing, with one on
\* another source, with one on the same source.
Operation == [at: Steps, kind: Kinds, src: Sources, text: Texts \cup {None},
              left: {BothChannels, <<"originals">>, <<"workspace">>, <<>>},
              fault: BOOLEAN, met: {"nothing", "other", "same"}]
\* The lines a thread keeps of a corpus file and writes to the .tmp file, what that
\* file is by now, and that nobody else has written to it since it was opened.
Rewrite == [kept: Lines, file: {"none", "tmp", "corpus", "gone"}, own: BOOLEAN]
\* What says that there is none is neither.
ASSUME NoOperationAssumption == None \notin Operation /\ None \notin Rewrite

Hits  == Sources \X Texts
Entry == [hits: SUBSET Hits, tainted: BOOLEAN]

TypeOK ==
    /\ md \in [Channels -> [Sources -> Texts \cup {None}]]
    /\ vec \in [Channels -> [Sources -> Seq(Texts)]]
    /\ \A c \in Channels : corpus[c] \in Lines \cup {Torn}
    /\ \A c \in Channels : tmp[c] \in Lines \cup {Torn, None}
    /\ \A p \in Pods, c \in Channels : bm25[p][c] \in Lines \cup {None}
    /\ \A t \in Threads : op[t] = None \/ op[t] \in Operation
    /\ \A t \in Threads : rewrite[t] = None \/ rewrite[t] \in Rewrite
    /\ \A p \in Pods : {search[p], local[p]} \subseteq Entry \cup {None}
    /\ shared \in Entry \cup {None}
    /\ drawn \in 0 .. MaxTexts /\ faults \in 0 .. MaxFaults
    /\ vecGood \subseteq Channels \X Sources
    /\ corpusGood \subseteq Channels \X Sources

\* Every document is indexed with the text 0, as the start-up build leaves it.
Built == [c \in Channels |-> [s \in Sources |-> <<0>>]]
Init ==
    /\ md = [c \in Channels |-> [s \in Sources |-> 0]]
    /\ vec = Built /\ corpus = Built
    /\ tmp = [c \in Channels |-> None]
    /\ rewrite = [t \in Threads |-> None]
    /\ bm25 = [p \in Pods |-> Built]
    /\ op = [t \in Threads |-> None]
    /\ search = [p \in Pods |-> None]
    /\ shared = None
    /\ local = [p \in Pods |-> None]
    /\ drawn = 0 /\ faults = 0
    /\ vecGood = Channels \X Sources
    /\ corpusGood = Channels \X Sources

-----------------------------------------------------------------------------
\* Helpers

Chunks(text) == IF text \in Blank \cup {None} THEN <<>> ELSE <<text>>
\* A call fails, which a run does MaxFaults times in all.
Fault == faults < MaxFaults /\ faults' = faults + 1
Active == {t \in Threads : op[t] # None}
Channel(t) == Head(op[t].left)
At(t, step) == op[t] # None /\ op[t].at = step
Goto(t, step) == op' = [op EXCEPT ![t].at = step]
GotoFaulty(t, step) == op' = [op EXCEPT ![t].at = step, ![t].fault = TRUE]

Taint(e) == IF e = None THEN None ELSE [e EXCEPT !.tainted = TRUE]
TaintAll ==
    /\ shared' = Taint(shared)
    /\ local' = [p \in Pods |-> Taint(local[p])]
    /\ search' = [p \in Pods |-> Taint(search[p])]

Touched(kind) == IF kind = "reindex" THEN {"workspace"} ELSE Channels
ChannelsOf(kind) == IF kind = "reindex" THEN <<"workspace">> ELSE BothChannels

\* Thread t takes up an operation; whom it overlaps is recorded on both sides.
Worse(met, same) == IF same \/ met = "same" THEN "same" ELSE "other"
Begin(t, kind, s, step) ==
    /\ op[t] = None
    /\ op' = [u \in Threads |->
          IF u = t
          THEN [at |-> step, kind |-> kind, src |-> s, fault |-> FALSE,
                text |-> IF kind = "delete" THEN None ELSE drawn',
                left |-> ChannelsOf(kind),
                met |-> IF \E v \in Active : op[v].src = s THEN "same"
                        ELSE IF Active # {} THEN "other" ELSE "nothing"]
          ELSE IF op[u] = None THEN None
          ELSE [op[u] EXCEPT !.met = Worse(@, op[u].src = s)]]
    /\ vecGood' = vecGood \ (Touched(kind) \X {s})
    /\ corpusGood' = corpusGood \ (Touched(kind) \X {s})

\* The operation returns.
Finish(t, complete) ==
    LET o == op[t]
        clean == complete /\ ~o.fault
        pairs == Touched(o.kind) \X {o.src}
    IN /\ op' = [op EXCEPT ![t] = None]
       /\ vecGood' = IF clean /\ o.met # "same" THEN vecGood \cup pairs ELSE vecGood
       /\ corpusGood' = IF clean /\ o.met = "nothing" THEN corpusGood \cup pairs
                                                      ELSE corpusGood

\* The operation raises: nothing of it that follows is done.
Raise(t) ==
    /\ Finish(t, FALSE)
    /\ TaintAll

-----------------------------------------------------------------------------
\* Index operations: entry points

Draw == drawn < MaxTexts /\ drawn' = drawn + 1

\* A handler writes the workspace file and calls reindex_workspace_source.
Save(t, s) ==
    /\ Draw
    /\ md' = [md EXCEPT !["workspace"][s] = drawn']
    /\ Begin(t, "reindex", s, "chunk")
    /\ UNCHANGED <<vec, corpus, tmp, rewrite, bm25, cache, faults>>

\* add_document writes the files of both channels.
Upload(t, s) ==
    /\ Draw
    /\ md' = [c \in Channels |-> [md[c] EXCEPT ![s] = drawn']]
    /\ Begin(t, "add", s, "chunk")
    /\ UNCHANGED <<vec, corpus, tmp, rewrite, bm25, cache, faults>>

\* delete_document_by_source.
Delete(t, s) ==
    /\ Draw
    /\ Begin(t, "delete", s, "delete")
    /\ UNCHANGED <<stores, bm25, cache, faults>>

\* save-draft writes the workspace file and leaves the index behind.
SaveDraft(s) ==
    /\ Draw
    /\ md' = [md EXCEPT !["workspace"][s] = drawn']
    /\ op' = [u \in Threads |->
                 IF op[u] = None THEN None
                 ELSE [op[u] EXCEPT !.met = IF op[u].src = s THEN "same" ELSE @]]
    /\ vecGood' = vecGood \ {<<"workspace", s>>}
    /\ corpusGood' = corpusGood \ {<<"workspace", s>>}
    /\ UNCHANGED <<vec, corpus, tmp, rewrite, bm25, cache, faults>>

-----------------------------------------------------------------------------
\* Index operations: steps

\* The text is chunked.  reindex reads the file again, which may be gone;
\* add returns at once when there is no chunk and leaves the index as it is.
Chunk(t) ==
    /\ At(t, "chunk")
    /\ LET o == op[t]
           text == md["workspace"][o.src]
       IN \/ /\ o.kind = "reindex" /\ text # None
             /\ op' = [op EXCEPT ![t].at = "delete", ![t].text = text]
             /\ UNCHANGED <<cache, good>>
          \/ /\ o.kind = "reindex" /\ text = None
             /\ Raise(t)
          \/ /\ o.kind = "add" /\ Chunks(o.text) # <<>>
             /\ Goto(t, "embed")
             /\ UNCHANGED <<cache, good>>
          \/ /\ o.kind = "add" /\ Chunks(o.text) = <<>>
             /\ Finish(t, FALSE)
             /\ UNCHANGED cache
    /\ UNCHANGED <<stores, bm25, bounds>>

\* embed_documents: before anything is removed in add, after it in reindex.
Embed(t) ==
    /\ At(t, "embed")
    /\ \/ /\ Goto(t, IF op[t].kind = "add" THEN "delete" ELSE "upsert")
          /\ UNCHANGED <<cache, faults, good>>
       \/ Fault /\ Raise(t)
    /\ UNCHANGED <<stores, bm25, drawn>>

\* There is no connection, or the statement fails: the error is printed, the
\* pool dropped, and the operation goes on.
PostgresFails(t, next) ==
    /\ Fault
    /\ GotoFaulty(t, next)
    /\ UNCHANGED vec

\* _delete_from_vector_store_by_source.
DeleteRows(t) ==
    /\ At(t, "delete")
    /\ \/ /\ vec' = [vec EXCEPT ![Channel(t)][op[t].src] = <<>>]
          /\ Goto(t, "read")
          /\ UNCHANGED faults
       \/ PostgresFails(t, "read")
    /\ UNCHANGED <<md, corpus, tmp, rewrite, bm25, cache, drawn, good>>

\* A reader of the corpus file meets a line that is broken, or that another
\* operation is in the middle of appending.
MeetsBrokenLine(t) ==
    \/ corpus[Channel(t)] = Torn
    \/ \E u \in Threads \ {t} : At(u, "append") /\ Channel(u) = Channel(t)

\* The lines that are kept are in memory.
Keep(t, lines) ==
    /\ rewrite' = [rewrite EXCEPT ![t] = [kept |-> lines, file |-> "none", own |-> FALSE]]
    /\ Goto(t, "open")
    /\ UNCHANGED <<cache, good>>

\* Faulty variant: the lines of the source itself are kept.
ReadUnfiltered(t) ==
    /\ At(t, "read")
    /\ corpus[Channel(t)] # Torn
    /\ Keep(t, corpus[Channel(t)])
    /\ UNCHANGED <<md, vec, corpus, tmp, bm25, bounds>>

\* _remove_from_corpus: the lines of the other sources are read; json.loads
\* raises at a broken one.
ReadCorpus(t) ==
    /\ At(t, "read")
    /\ \/ /\ corpus[Channel(t)] # Torn
          /\ Keep(t, [corpus[Channel(t)] EXCEPT ![op[t].src] = <<>>])
       \/ MeetsBrokenLine(t) /\ Raise(t) /\ UNCHANGED rewrite
    /\ UNCHANGED <<md, vec, corpus, tmp, bm25, bounds>>

\* What may be in a file before the last buffer of the lines is written to it.
Partly(lines) ==
    {Torn} \cup {[s \in Sources |-> IF s \in K THEN lines[s] ELSE <<>>] :
                 K \in SUBSET {s \in Sources : lines[s] # <<>>}}

\* What the lines leave when they are written over others: these may reach
\* further, by whole lines or by the end of one.
Overlaid(lines, others) ==
    {Torn, lines} \cup
    (IF others = Torn THEN {}
     ELSE {[s \in Sources |-> IF s \in K THEN lines[s] \o others[s] ELSE lines[s]] :
             K \in SUBSET {s \in Sources : others[s] # <<>>}})

\* Thread t writes to a file of channel c: whoever else has it open for rewriting
\* is not alone any more.
WritesTo(t, c, file) ==
    [u \in Threads |->
        IF u # t /\ rewrite[u] # None /\ rewrite[u].file = file /\ Channel(u) = c
        THEN [rewrite[u] EXCEPT !.own = FALSE]
        ELSE rewrite[u]]

\* Between opening the .tmp file of channel c and renaming it.
Writing(u, c) == (At(u, "fill") \/ At(u, "replace")) /\ Channel(u) = c

\* tmp.open("w") empties the file whoever is writing it or has just written it,
\* and with that puts the lines of every source at risk.
OpenTmp(t) ==
    /\ At(t, "open")
    /\ LET c == Channel(t)
       IN /\ \E lines \in Partly(rewrite[t].kept) : tmp' = [tmp EXCEPT ![c] = lines]
          /\ rewrite' = [WritesTo(t, c, "tmp") EXCEPT ![t].file = "tmp", ![t].own = TRUE]
          /\ corpusGood' = IF \E u \in Threads \ {t} : Writing(u, c)
                           THEN corpusGood \ ({c} \X Sources) ELSE corpusGood
    /\ Goto(t, "fill")
    /\ UNCHANGED <<md, vec, corpus, bm25, cache, bounds, vecGood>>

\* The last buffer is written and the file closed: the .tmp file it opened, which
\* may be the corpus file by now, or no file of any name.
FillTmp(t) ==
    /\ At(t, "fill")
    /\ LET r == rewrite[t]
           c == Channel(t)
           found == IF r.file = "corpus" THEN corpus[c] ELSE tmp[c]
       IN /\ \E lines \in IF r.own \/ r.file = "gone" THEN {r.kept}
                           ELSE Overlaid(r.kept, found) :
              /\ tmp' = IF r.file = "tmp" THEN [tmp EXCEPT ![c] = lines] ELSE tmp
              /\ corpus' = IF r.file = "corpus" THEN [corpus EXCEPT ![c] = lines]
                                                ELSE corpus
          /\ rewrite' = [WritesTo(t, c, r.file) EXCEPT ![t] = None]
    /\ Goto(t, "replace")
    /\ UNCHANGED <<md, vec, bm25, cache, bounds, good>>

\* What follows the removal; the first definition is a faulty variant that
\* does not look whether there are chunks.
AfterRemovalUnchecked(o) ==
    CASE o.kind = "add"    -> "upsert"
      [] o.kind = "delete" -> "reload"
      [] OTHER -> "embed"
AfterRemoval(o) ==
    CASE o.kind = "add"    -> "upsert"
      [] o.kind = "delete" -> "reload"
      [] OTHER -> IF Chunks(o.text) = <<>> THEN "reload" ELSE "embed"

\* The .tmp file of channel c gets the name of the corpus file, also for those who
\* have it open.
Renamed(c) ==
    [u \in Threads |->
        IF rewrite[u] # None /\ rewrite[u].file # "none" /\ Channel(u) = c
        THEN [rewrite[u] EXCEPT !.file = IF @ = "tmp" THEN "corpus" ELSE "gone"]
        ELSE rewrite[u]]

\* Faulty variant: the rename is taken to have worked.
ReplaceUnchecked(t) ==
    /\ At(t, "replace")
    /\ corpus' = [corpus EXCEPT ![Channel(t)] = tmp[Channel(t)]]
    /\ tmp' = [tmp EXCEPT ![Channel(t)] = None]
    /\ rewrite' = Renamed(Channel(t))
    /\ Goto(t, AfterRemoval(op[t]))
    /\ UNCHANGED <<md, vec, bm25, cache, bounds, good>>

\* tmp.replace(corpus_path), whoever wrote the file last; it raises when another
\* operation has renamed the file already.
ReplaceCorpus(t) ==
    /\ At(t, "replace")
    /\ \/ /\ tmp[Channel(t)] # None
          /\ corpus' = [corpus EXCEPT ![Channel(t)] = tmp[Channel(t)]]
          /\ tmp' = [tmp EXCEPT ![Channel(t)] = None]
          /\ rewrite' = Renamed(Channel(t))
          /\ Goto(t, AfterRemoval(op[t]))
          /\ UNCHANGED <<cache, good>>
       \/ /\ tmp[Channel(t)] = None
          /\ Raise(t)
          /\ UNCHANGED <<corpus, tmp, rewrite>>
    /\ UNCHANGED <<md, vec, bm25, bounds>>

\* _upsert_to_vector_store, which inserts.
Upsert(t) ==
    /\ At(t, "upsert")
    /\ \/ /\ vec' = [vec EXCEPT ![Channel(t)][op[t].src] = Append(@, op[t].text)]
          /\ Goto(t, "append")
          /\ UNCHANGED faults
       \/ PostgresFails(t, "append")
    /\ UNCHANGED <<md, corpus, tmp, rewrite, bm25, cache, drawn, good>>

\* _append_to_corpus: nothing mends a broken line.
AppendLines(t) ==
    /\ At(t, "append")
    /\ LET c == Channel(t)
           longer == [corpus[c] EXCEPT ![op[t].src] = Append(@, op[t].text)]
       IN /\ corpus' = IF corpus[c] = Torn THEN corpus ELSE [corpus EXCEPT ![c] = longer]
          /\ rewrite' = WritesTo(t, c, "corpus")
    /\ Goto(t, "reload")
    /\ UNCHANGED <<md, vec, tmp, bm25, cache, bounds, good>>

\* get_retriever(channel).reload_corpus(), in this pod only.
Reload(t) ==
    /\ At(t, "reload")
    /\ \/ /\ corpus[Channel(t)] # Torn
          /\ bm25' = [bm25 EXCEPT ![PodOf[t]][Channel(t)] = corpus[Channel(t)]]
          /\ Goto(t, "invalidate")
          /\ UNCHANGED <<cache, good>>
       \/ MeetsBrokenLine(t) /\ Raise(t) /\ UNCHANGED bm25
    /\ UNCHANGED <<stores, bounds>>

\* Faulty variant: only the memory of the pod is cleared.
InvalidateMemoryOnly(channel, pod) ==
    /\ local' = [local EXCEPT ![pod] = None]
    /\ UNCHANGED <<search, shared, faults>>

\* invalidate_channel_cache: this pod's memory, then Redis; only answers from
\* the workspace channel are looked at here.
Invalidate(channel, pod) ==
    IF channel # "workspace" THEN UNCHANGED <<cache, faults>>
    ELSE /\ search' = [p \in Pods |-> Taint(search[p])]
         /\ local' = [p \in Pods |-> IF p = pod THEN None ELSE Taint(local[p])]
         /\ \/ shared' = None /\ UNCHANGED faults
            \/ shared' = Taint(shared) /\ Fault

\* The end of the work on one channel, and of the operation after the last.
NextChannel(t) ==
    /\ At(t, "invalidate")
    /\ Invalidate(Channel(t), PodOf[t])
    /\ LET rest == Tail(op[t].left)
       IN IF rest # <<>>
          THEN /\ op' = [op EXCEPT ![t].at = "delete", ![t].left = rest]
               /\ UNCHANGED good
          ELSE IF op[t].kind = "delete"
          THEN /\ op' = [op EXCEPT ![t].at = "unlink", ![t].left = rest]
               /\ UNCHANGED good
          ELSE Finish(t, TRUE)
    /\ UNCHANGED <<stores, bm25, drawn>>

\* _delete_artifacts.
Unlink(t) ==
    /\ At(t, "unlink")
    /\ md' = [c \in Channels |-> [md[c] EXCEPT ![op[t].src] = None]]
    /\ Finish(t, TRUE)
    /\ UNCHANGED <<vec, corpus, tmp, rewrite, bm25, cache, bounds>>

-----------------------------------------------------------------------------
\* Retrieval

\* What a BM25 index, or the rows of a channel, can answer with.
Indexed(index) == UNION {{s} \X {index[s][i] : i \in 1 .. Len(index[s])} :
                         s \in Sources}
DenseRows == Indexed(vec["workspace"])

\* _merge_candidates.
Merged(dense, sparse) == dense \cup sparse

\* _get_cached_results: nothing in Redis, or no client there, and nothing in
\* the memory of the pod.
RedisHasNone == IF shared = None THEN UNCHANGED faults ELSE Fault
Misses(p) == RedisHasNone /\ local[p] = None

\* HybridRetriever.retrieve: dense rows and the pod's BM25 candidates; a pod that
\* has no retriever makes one, which a broken corpus file prevents.
Retrieve(p) ==
    LET found == corpus["workspace"]
        index == IF bm25[p]["workspace"] = None THEN found ELSE bm25[p]["workspace"]
    IN /\ search[p] = None
       /\ Misses(p)
       /\ index # Torn
       /\ LET hits == Merged(DenseRows, Indexed(index))
          IN /\ hits # {}
             /\ search' = [search EXCEPT ![p] = [hits |-> hits, tainted |-> index # found]]
       /\ bm25' = [bm25 EXCEPT ![p]["workspace"] = index]
       /\ UNCHANGED <<stores, op, shared, local, drawn, good>>

\* _redis_set, after the reranking.
StoreShared(p) ==
    /\ shared' = search[p]
    /\ UNCHANGED <<local, faults>>

\* _cache_results: Redis, or the pod's memory when that fails.
CacheResults(p) ==
    /\ search[p] # None
    /\ \/ StoreShared(p)
       \/ /\ Fault
          /\ local' = [local EXCEPT ![p] = search[p]]
          /\ UNCHANGED shared
    /\ search' = [search EXCEPT ![p] = None]
    /\ UNCHANGED <<stores, bm25, op, drawn, good>>

\* RETRIEVAL_CACHE_TTL_SECONDS have passed.
Expire ==
    /\ \/ shared' = None /\ UNCHANGED local
       \/ \E p \in Pods : local' = [local EXCEPT ![p] = None] /\ UNCHANGED shared
    /\ UNCHANGED <<stores, bm25, op, search, bounds, good>>

\* The channels whose corpus file a pod that dies leaves with a broken line,
\* unless it had not begun to write: those it was appending to.
Appending(p) == {Channel(t) : t \in {u \in Threads : PodOf[u] = p /\ At(u, "append")}}

\* warmup_models loads the channels one after the other, up to a broken file.
Loadable(files) ==
    {c \in Channels : files[c] # Torn /\ files["originals"] # Torn}

\* A pod dies and comes back: its operations stop where they are, and
\* warmup_models loads the corpus files.
Crash(p) ==
    /\ Fault
    /\ \E broken \in SUBSET Appending(p) :
          /\ corpus' = [c \in Channels |-> IF c \in broken THEN Torn ELSE corpus[c]]
          /\ corpusGood' = corpusGood \ (broken \X Sources)
    /\ op' = [t \in Threads |-> IF PodOf[t] = p THEN None ELSE op[t]]
    /\ rewrite' = [t \in Threads |-> IF PodOf[t] = p THEN None ELSE rewrite[t]]
    /\ bm25' = [bm25 EXCEPT ![p] = [c \in Channels |->
                                       IF c \in Loadable(corpus') THEN corpus'[c] ELSE None]]
    /\ shared' = Taint(shared)
    /\ local' = [q \in Pods |-> IF q = p THEN None ELSE Taint(local[q])]
    /\ search' = [q \in Pods |-> IF q = p THEN None ELSE Taint(search[q])]
    /\ UNCHANGED <<md, vec, tmp, drawn, vecGood>>

-----------------------------------------------------------------------------
Step(t) ==
    \/ Chunk(t) \/ Embed(t) \/ DeleteRows(t)
    \/ ReadCorpus(t) \/ OpenTmp(t) \/ FillTmp(t) \/ ReplaceCorpus(t)
    \/ Upsert(t) \/ AppendLines(t) \/ Reload(t) \/ NextChannel(t) \/ Unlink(t)

Next ==
    \/ \E t \in Threads, s \in Sources : Save(t, s) \/ Upload(t, s) \/ Delete(t, s)
    \/ \E s \in Sources : SaveDraft(s)
    \/ \E t \in Threads : Step(t)
    \/ \E p \in Searching : Retrieve(p) \/ CacheResults(p)
    \/ \E p \in Pods : Crash(p)
    \/ Expire

Spec == Init /\ [][Next]_vars

-----------------------------------------------------------------------------
(***************************************************************************)
(* Properties.  document_manager promises that "Add/delete keep pgvector   *)
(* and the per-channel corpus.jsonl in sync without a full re-index".  No  *)
(* lock makes it so; the two invariants say exactly how far it goes.       *)
(***************************************************************************)

\* A source whose last operation met no failure and no other operation on the
\* SAME source has one row per chunk of the file's text in every channel it
\* touched, whatever was done to other sources meanwhile.  What failures and
\* races left behind before is healed.
VectorsInSync ==
    \A c \in Channels, s \in Sources :
        <<c, s>> \in vecGood => vec[c][s] = Chunks(md[c][s])

\* The BM25 file is rewritten as a whole, so here ANY other operation at the
\* same time may undo the work; after an operation that met none, the file has
\* the text, and later operations on other sources, overlapping or not, failing
\* or not, do not take it away, except in two ways: two of them have the one .tmp
\* file open at a time (an empty, a partial or a broken file may get the name of
\* the corpus file, whatever was in it), or a pod dies while it appends.
CorpusInSync ==
    \A c \in Channels, s \in Sources :
        <<c, s>> \in corpusGood => corpus[c] # Torn /\ corpus[c][s] = Chunks(md[c][s])

\* Once no operation is under way, a cached answer shows only what one of the
\* indexes holds, unless it is one of four: computed across an invalidation,
\* computed from a BM25 copy that lags behind the file, left in the memory of
\* another pod or out of reach in Redis, or left by an operation that raised
\* or died before its invalidation.
CacheExplained ==
    Active = {} =>
        \A e \in {shared} \cup {local[p] : p \in Pods} :
            e # None /\ ~e.tainted =>
                e.hits \subseteq DenseRows
                    \cup (IF corpus["workspace"] = Torn THEN {}
                          ELSE Indexed(corpus["workspace"]))
=============================================================================
