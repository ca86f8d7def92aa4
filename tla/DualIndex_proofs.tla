------------------------- MODULE DualIndex_proofs -------------------------
(***************************************************************************)
(* Proofs about DualIndex for every number of sources, pods, threads,      *)
(* operations and faults: the types, how far the two indexes are in sync   *)
(* with the files although no operation takes a lock, and what a cached    *)
(* answer can show once no operation is under way.                         *)
(***************************************************************************)
EXTENDS DualIndex, TLAPS

-----------------------------------------------------------------------------
\* The inductive invariant

\* The channels an operation has not finished, the one it is at included.
Rest(o) ==
    CASE o.left = BothChannels -> Channels
      [] o.left = <<"workspace">> -> {"workspace"}
      [] OTHER -> {}
DoneBy(o) == Touched(o.kind) \ Rest(o)
IsAt(o, c) == o.left # <<>> /\ c = Head(o.left)

\* What an operation can be doing where it is.
OpFits(o) ==
    /\ o.left \in {BothChannels, <<"workspace">>, <<>>}
    /\ o.at = "unlink" <=> o.left = <<>>
    /\ o.at = "unlink" => o.kind = "delete"
    /\ o.kind = "reindex" => o.left = <<"workspace">>
    /\ o.at = "chunk" => o.kind # "delete" /\ o.left = ChannelsOf(o.kind)
    /\ o.at = "embed" /\ o.kind = "add" => o.left = BothChannels
    /\ o.at \in {"embed", "upsert", "append"} => o.kind # "delete" /\ o.text \notin Blank
    /\ o.kind = "delete" <=> o.text = None /\ o.at # "chunk"
    /\ o.kind = "add" => o.text # None /\ (o.at # "chunk" => o.text \notin Blank)
StoresOK ==
    /\ md \in [Channels -> [Sources -> Texts \cup {None}]]
    /\ vec \in [Channels -> [Sources -> Seq(Texts)]]
    /\ corpus \in [Channels -> Lines \cup {Torn}]
    /\ tmp \in [Channels -> Lines \cup {Torn, None}]
CopiesOK == bm25 \in [Pods -> [Channels -> Lines \cup {None}]]
OpOK(o) == o = None \/ (o \in Operation /\ OpFits(o))
OpsOK == DOMAIN op = Threads /\ \A t \in Threads : OpOK(op[t])
\* Who keeps lines is about to write them: before opening the .tmp file or after.
RewriteFits(t) ==
    /\ rewrite[t] = None \/ rewrite[t] \in Rewrite
    /\ rewrite[t] # None => At(t, "open") \/ At(t, "fill")
    /\ At(t, "open") => rewrite[t] # None /\ rewrite[t].file = "none"
    /\ At(t, "fill") => rewrite[t] # None /\ rewrite[t].file # "none"
    /\ rewrite[t] # None /\ rewrite[t].file = "tmp" => tmp[Channel(t)] # None
RewritesOK == DOMAIN rewrite = Threads /\ \A t \in Threads : RewriteFits(t)
CacheOK ==
    /\ search \in [Pods -> Entry \cup {None}]
    /\ local \in [Pods -> Entry \cup {None}]
    /\ shared \in Entry \cup {None}
BoundsOK == drawn \in 0 .. MaxTexts /\ faults \in 0 .. MaxFaults
GoodOK == vecGood \subseteq Channels \X Sources /\ corpusGood \subseteq Channels \X Sources
TypeInv == StoresOK /\ CopiesOK /\ OpsOK /\ RewritesOK /\ CacheOK /\ BoundsOK /\ GoodOK

\* Overlaps on one source are known to both sides.
MetMutual ==
    \A t, u \in Active : t # u =>
        /\ op[t].met # "nothing"
        /\ op[t].src = op[u].src => op[t].met = "same"

\* What an operation has written is still on disk, unless it has met another
\* one on its source.
TextFits(t) ==
    op[t].met # "same" /\ op[t].kind # "delete"
        /\ (op[t].kind = "add" \/ op[t].at # "chunk") =>
            \A c \in Touched(op[t].kind) : md[c][op[t].src] = op[t].text
TextOnDisk == \A t \in Active : TextFits(t)

\* The source has what the step before this one left, in the channel the
\* operation is at, and the text in those before it.
Emptied(o) == o.at \in {"read", "open", "fill", "replace", "upsert"}
                  \/ (o.at = "embed" /\ o.kind = "reindex")
VectorsFit(t) ==
    op[t].met # "same" /\ ~op[t].fault =>
        /\ \A c \in DoneBy(op[t]) : vec[c][op[t].src] = Chunks(op[t].text)
        /\ \A c \in Channels : IsAt(op[t], c) =>
               /\ Emptied(op[t]) => vec[c][op[t].src] = <<>>
               /\ op[t].at \in {"append", "reload", "invalidate"} =>
                      vec[c][op[t].src] = Chunks(op[t].text)
VectorsFollow == \A t \in Active : VectorsFit(t)
NobodyAt(pairs) ==
    \A t \in Active : \A c \in Touched(op[t].kind) : <<c, op[t].src>> \notin pairs
OverlapInv == MetMutual /\ TextOnDisk
VectorInv == VectorsFollow /\ NobodyAt(vecGood) /\ VectorsInSync

LinesGone(o) == o.at \in {"upsert", "append"} \/ (o.at = "embed" /\ o.kind = "reindex")
CorpusFits(t) ==
    op[t].met = "nothing" =>
        /\ \A c \in DoneBy(op[t]) :
               corpus[c] # Torn /\ corpus[c][op[t].src] = Chunks(op[t].text)
        /\ \A c \in Channels : IsAt(op[t], c) =>
               /\ op[t].at \in {"open", "fill"} => rewrite[t].kept[op[t].src] = <<>>
               /\ op[t].at = "fill" => rewrite[t].file = "tmp" /\ rewrite[t].own
               /\ op[t].at = "replace" =>
                      tmp[c] # None /\ tmp[c] # Torn /\ tmp[c][op[t].src] = <<>>
               /\ LinesGone(op[t]) => corpus[c] # Torn /\ corpus[c][op[t].src] = <<>>
               /\ op[t].at \in {"reload", "invalidate"} =>
                      corpus[c] # Torn /\ corpus[c][op[t].src] = Chunks(op[t].text)
CorpusFollows == \A t \in Active : CorpusFits(t)
\* What t is going to put in the place of the corpus file of channel c has the same
\* lines for a source that counts, and the .tmp file is t's alone.
CopyFits(t, c) ==
    \A s \in Sources : <<c, s>> \in corpusGood =>
        /\ op[t].at \in {"open", "fill"} => rewrite[t].kept[s] = corpus[c][s]
        /\ op[t].at = "fill" => rewrite[t].file = "tmp" /\ rewrite[t].own
        /\ op[t].at = "replace" =>
               tmp[c] # None /\ tmp[c] # Torn /\ tmp[c][s] = corpus[c][s]
CopiesAgree == \A t \in Active, c \in Channels : IsAt(op[t], c) => CopyFits(t, c)
OneWriter ==
    \A t, u \in Active, c \in Channels : t # u /\ Writing(t, c) /\ Writing(u, c) =>
        \A s \in Sources : <<c, s>> \notin corpusGood
CorpusInv == CorpusFollows /\ NobodyAt(corpusGood) /\ CopiesAgree /\ OneWriter
                 /\ CorpusInSync

\* An operation has taken rows or lines of the workspace away and has not
\* invalidated yet.
Dirty(t) ==
    /\ t \in Active /\ IsAt(op[t], "workspace")
    /\ \/ op[t].at \in {"read", "open", "fill", "replace", "upsert", "append", "reload",
                       "invalidate"}
       \/ op[t].at = "embed" /\ op[t].kind = "reindex"
HeldLines == IF corpus["workspace"] = Torn THEN {} ELSE Indexed(corpus["workspace"])
Held == Indexed(vec["workspace"]) \cup HeldLines
Explained(e) ==
    e # None /\ ~e.tainted => e.hits \subseteq Held \/ \E t \in Threads : Dirty(t)
CacheInv == Explained(shared) /\ \A p \in Pods : Explained(local[p]) /\ Explained(search[p])

-----------------------------------------------------------------------------
\* The channels of an operation, and what changes of it in a step

LEMMA LeftFacts ==
    /\ Head(BothChannels) = "originals" /\ Tail(BothChannels) = <<"workspace">>
    /\ Head(<<"workspace">>) = "workspace" /\ Tail(<<"workspace">>) = <<>>
    /\ BothChannels # <<>> /\ <<"workspace">> # <<>> /\ BothChannels # <<"workspace">>
<1>1. Len(BothChannels) = 2 /\ BothChannels[1] = "originals" /\ BothChannels[2] = "workspace"
  BY DEF BothChannels
<1>2. Len(<<"workspace">>) = 1 /\ <<"workspace">>[1] = "workspace" /\ Len(<<>>) = 0
  OBVIOUS
<1>3. Head(BothChannels) = "originals" /\ Tail(BothChannels) = <<"workspace">>
  BY DEF BothChannels
<1>4. Head(<<"workspace">>) = "workspace" /\ Tail(<<"workspace">>) = <<>>
  OBVIOUS
<1> QED
  BY <1>1, <1>2, <1>3, <1>4

\* Where an operation is among the channels.
LEMMA RestFacts ==
    ASSUME NEW o
    PROVE  /\ o.left = BothChannels =>
                  Rest(o) = Channels /\ \A c : IsAt(o, c) <=> c = "originals"
           /\ o.left = <<"workspace">> =>
                  Rest(o) = {"workspace"} /\ \A c : IsAt(o, c) <=> c = "workspace"
           /\ o.left = <<>> => Rest(o) = {} /\ \A c : ~IsAt(o, c)
BY LeftFacts DEF Rest, IsAt

\* An operation works on the channels its kind touches.
LEMMA ChannelTouched ==
    ASSUME NEW o, OpFits(o), o.at # "unlink", o.kind \in Kinds
    PROVE  /\ Head(o.left) \in Channels /\ Head(o.left) \in Touched(o.kind)
           /\ \A c : IsAt(o, c) <=> c = Head(o.left)
           /\ Head(o.left) \notin DoneBy(o)
<1>1. o.left = BothChannels \/ o.left = <<"workspace">>
  BY DEF OpFits
<1>2. o.left = BothChannels => o.kind # "reindex"
  BY LeftFacts DEF OpFits
<1> QED
  BY <1>1, <1>2, LeftFacts, RestFacts DEF Touched, Channels, DoneBy, IsAt

\* An operation with its fields; Operation stays closed.
LEMMA MovedRecord ==
    ASSUME NEW o \in Operation, NEW to \in Steps
    PROVE  LET x == [o EXCEPT !.at = to]
               y == [o EXCEPT !.at = to, !.fault = TRUE]
           IN /\ x \in Operation /\ x.at = to /\ x.kind = o.kind /\ x.src = o.src
              /\ x.text = o.text /\ x.left = o.left /\ x.fault = o.fault /\ x.met = o.met
              /\ y \in Operation /\ y.at = to /\ y.kind = o.kind /\ y.src = o.src
              /\ y.text = o.text /\ y.left = o.left /\ y.fault = TRUE /\ y.met = o.met
BY DEF Operation

LEMMA WorseRecord ==
    ASSUME NEW o \in Operation, NEW m \in {"nothing", "other", "same"}
    PROVE  LET x == [o EXCEPT !.met = m]
           IN /\ x \in Operation /\ x.at = o.at /\ x.kind = o.kind /\ x.src = o.src
              /\ x.text = o.text /\ x.left = o.left /\ x.fault = o.fault /\ x.met = m
BY DEF Operation

\* The other threads are where they were.
OthersStay(t) == DOMAIN op' = Threads /\ \A u \in Threads \ {t} : op'[u] = op[u]
\* The operation of thread t goes on at another step ...
Keeps(x, y) == y.kind = x.kind /\ y.src = x.src /\ y.met = x.met
Moved(t, to) ==
    /\ op[t] # None /\ op'[t] # None /\ op'[t] \in Operation
    /\ op'[t].at = to /\ Keeps(op[t], op'[t]) /\ op'[t].text = op[t].text
    /\ op'[t].left = op[t].left /\ op'[t].fault = op[t].fault
    /\ OthersStay(t)
\* ... or after a call that failed.
MovedFaulty(t, to) ==
    /\ op[t] # None /\ op'[t] # None /\ op'[t] \in Operation
    /\ op'[t].at = to /\ Keeps(op[t], op'[t]) /\ op'[t].text = op[t].text
    /\ op'[t].left = op[t].left /\ op'[t].fault = TRUE
    /\ OthersStay(t)
Returned(t) == op[t] # None /\ op'[t] = None /\ OthersStay(t)

LEMMA GotoMoved ==
    ASSUME OpsOK, NEW t \in Threads, op[t] # None, NEW to \in Steps
    PROVE  /\ Goto(t, to) => Moved(t, to)
           /\ GotoFaulty(t, to) => MovedFaulty(t, to)
<1>1. op[t] \in Operation
  BY DEF OpsOK, OpOK
<1>2. ASSUME Goto(t, to)
      PROVE  Moved(t, to)
  <2> DEFINE x == [op[t] EXCEPT !.at = to]
  <2>1. op'[t] = x /\ OthersStay(t)
    BY <1>2 DEF Goto, OpsOK, OthersStay
  <2>2. /\ x \in Operation /\ x.at = to /\ x.kind = op[t].kind /\ x.src = op[t].src
        /\ x.text = op[t].text /\ x.left = op[t].left /\ x.fault = op[t].fault
        /\ x.met = op[t].met
    BY <1>1, MovedRecord
  <2> HIDE DEF x
  <2> QED
    BY <2>1, <2>2, NoOperationAssumption DEF Moved, Keeps
<1>3. ASSUME GotoFaulty(t, to)
      PROVE  MovedFaulty(t, to)
  <2> DEFINE x == [op[t] EXCEPT !.at = to, !.fault = TRUE]
  <2>1. op'[t] = x /\ OthersStay(t)
    BY <1>3 DEF GotoFaulty, OpsOK, OthersStay
  <2>2. /\ x \in Operation /\ x.at = to /\ x.kind = op[t].kind /\ x.src = op[t].src
        /\ x.text = op[t].text /\ x.left = op[t].left /\ x.fault = TRUE
        /\ x.met = op[t].met
    BY <1>1, MovedRecord
  <2> HIDE DEF x
  <2> QED
    BY <2>1, <2>2, NoOperationAssumption DEF MovedFaulty, Keeps
<1> QED
  BY <1>2, <1>3

LEMMA FinishReturned ==
    ASSUME OpsOK, NEW t \in Threads, op[t] # None, NEW complete, Finish(t, complete)
    PROVE  Returned(t)
BY DEF Finish, OpsOK, Returned, OthersStay

\* reindex has read the text.
Chunked(t) ==
    /\ op[t] # None /\ op'[t] # None /\ op'[t] \in Operation
    /\ op[t].kind = "reindex" /\ md["workspace"][op[t].src] # None
    /\ op'[t].at = "delete" /\ Keeps(op[t], op'[t])
    /\ op'[t].text = md["workspace"][op[t].src]
    /\ op'[t].left = op[t].left /\ op'[t].fault = op[t].fault
    /\ OthersStay(t)
\* What chunking comes to.
LEMMA ChunkOutcome ==
    ASSUME TypeInv, NEW t \in Threads, Chunk(t)
    PROVE  /\ op[t] # None /\ op[t] \in Operation /\ op[t].at = "chunk"
           /\ UNCHANGED <<stores, bm25, bounds>>
           /\ \/ Chunked(t) /\ UNCHANGED <<cache, good>>
              \/ Returned(t) /\ UNCHANGED good /\ TaintAll
              \/ /\ op[t].kind = "add" /\ op[t].text \notin Blank /\ Moved(t, "embed")
                 /\ UNCHANGED <<cache, good>>
              \/ Returned(t) /\ UNCHANGED <<cache, good>>
<1>0. PICK txt : txt = md["workspace"][op[t].src]
  OBVIOUS
<1>1. /\ op[t] # None /\ op[t] \in Operation /\ op[t].at = "chunk" /\ OpsOK
      /\ UNCHANGED <<stores, bm25, bounds>>
  BY DEF Chunk, At, TypeInv, OpsOK, OpOK
<1>2. CASE /\ op[t].kind = "reindex" /\ txt # None
           /\ op' = [op EXCEPT ![t].at = "delete", ![t].text = txt]
           /\ UNCHANGED <<cache, good>>
  <2> DEFINE x == [op[t] EXCEPT !.at = "delete", !.text = txt]
  <2>1. op'[t] = x /\ OthersStay(t)
    BY <1>1, <1>2 DEF OpsOK, OthersStay
  <2>2. txt \in Texts \cup {None}
    BY <1>0, <1>1 DEF TypeInv, StoresOK, Operation, Channels
  <2>3. "delete" \in Steps
    BY DEF Steps
  <2>4. /\ x \in Operation /\ x.at = "delete" /\ x.kind = op[t].kind /\ x.src = op[t].src
        /\ x.text = txt /\ x.left = op[t].left /\ x.fault = op[t].fault
        /\ x.met = op[t].met
    BY <1>1, <2>2, <2>3 DEF Operation
  <2> HIDE DEF x
  <2>5. Chunked(t)
    BY <1>0, <1>1, <1>2, <2>1, <2>4, NoOperationAssumption DEF Chunked, Keeps
  <2> QED
    BY <1>1, <1>2, <2>5
<1>3. CASE Raise(t)
  <2>1. Returned(t) /\ UNCHANGED good /\ TaintAll
    BY <1>1, <1>3, FinishReturned DEF Raise, Finish, good
  <2> QED
    BY <1>1, <2>1
<1>4. CASE op[t].kind = "add" /\ Chunks(op[t].text) # <<>> /\ Goto(t, "embed")
           /\ UNCHANGED <<cache, good>>
  <2>1. Moved(t, "embed")
    BY <1>1, <1>4, GotoMoved DEF Steps
  <2>2. op[t].text \notin Blank
    BY <1>4 DEF Chunks
  <2> QED
    BY <1>1, <1>4, <2>1, <2>2
<1>5. CASE Finish(t, FALSE) /\ UNCHANGED cache
  <2>1. Returned(t) /\ UNCHANGED good
    BY <1>1, <1>5, FinishReturned DEF Finish, good
  <2> QED
    BY <1>1, <1>5, <2>1
<1> QED
  BY <1>0, <1>2, <1>3, <1>4, <1>5 DEF Chunk

\* What the other steps come to.
LEMMA EmbedOutcome ==
    ASSUME TypeInv, NEW t \in Threads, Embed(t)
    PROVE  /\ op[t] # None /\ op[t] \in Operation /\ op[t].at = "embed"
           /\ UNCHANGED <<stores, bm25, drawn>>
           /\ \/ op[t].kind = "add" /\ Moved(t, "delete") /\ UNCHANGED <<cache, faults, good>>
              \/ op[t].kind # "add" /\ Moved(t, "upsert") /\ UNCHANGED <<cache, faults, good>>
              \/ Fault /\ Returned(t) /\ UNCHANGED good /\ TaintAll
<1>1. /\ op[t] # None /\ op[t] \in Operation /\ op[t].at = "embed" /\ OpsOK
      /\ UNCHANGED <<stores, bm25, drawn>>
  BY DEF Embed, At, TypeInv, OpsOK, OpOK
<1>2. "delete" \in Steps /\ "upsert" \in Steps
  BY DEF Steps
<1>3. CASE Fault /\ Raise(t)
  <2>1. Returned(t) /\ UNCHANGED good /\ TaintAll
    BY <1>1, <1>3, FinishReturned DEF Raise, Finish, good
  <2> QED
    BY <1>1, <1>3, <2>1
<1>4. CASE /\ Goto(t, IF op[t].kind = "add" THEN "delete" ELSE "upsert")
           /\ UNCHANGED <<cache, faults, good>>
  BY <1>1, <1>2, <1>4, GotoMoved
<1> QED
  BY <1>3, <1>4 DEF Embed

LEMMA DeleteRowsOutcome ==
    ASSUME TypeInv, NEW t \in Threads, DeleteRows(t)
    PROVE  /\ op[t] # None /\ op[t] \in Operation /\ op[t].at = "delete"
           /\ UNCHANGED <<md, corpus, tmp, rewrite, bm25, cache, drawn, good>>
           /\ \/ /\ vec' = [vec EXCEPT ![Channel(t)][op[t].src] = <<>>]
                 /\ Moved(t, "read") /\ UNCHANGED faults
              \/ Fault /\ MovedFaulty(t, "read") /\ UNCHANGED vec
<1>1. op[t] # None /\ op[t] \in Operation /\ op[t].at = "delete" /\ OpsOK
  BY DEF DeleteRows, At, TypeInv, OpsOK, OpOK
<1>2. "read" \in Steps
  BY DEF Steps
<1> QED
  BY <1>1, <1>2, GotoMoved DEF DeleteRows, PostgresFails

LEMMA ReadOutcome ==
    ASSUME TypeInv, NEW t \in Threads, ReadCorpus(t)
    PROVE  /\ op[t] # None /\ op[t] \in Operation /\ op[t].at = "read"
           /\ UNCHANGED <<md, vec, corpus, tmp, bm25, bounds>>
           /\ \/ /\ corpus[Channel(t)] # Torn
                 /\ rewrite' = [rewrite EXCEPT ![t] =
                        [kept |-> [corpus[Channel(t)] EXCEPT ![op[t].src] = <<>>],
                         file |-> "none", own |-> FALSE]]
                 /\ Moved(t, "open") /\ UNCHANGED <<cache, good>>
              \/ Returned(t) /\ UNCHANGED <<rewrite, good>> /\ TaintAll
<1>1. /\ op[t] # None /\ op[t] \in Operation /\ op[t].at = "read" /\ OpsOK
      /\ UNCHANGED <<md, vec, corpus, tmp, bm25, bounds>>
  BY DEF ReadCorpus, At, TypeInv, OpsOK, OpOK
<1>2. CASE Raise(t) /\ UNCHANGED rewrite
  <2>1. Returned(t) /\ UNCHANGED good /\ TaintAll
    BY <1>1, <1>2, FinishReturned DEF Raise, Finish, good
  <2> QED
    BY <1>1, <1>2, <2>1
<1>3. CASE corpus[Channel(t)] # Torn
           /\ Keep(t, [corpus[Channel(t)] EXCEPT ![op[t].src] = <<>>])
  <2>1. "open" \in Steps
    BY DEF Steps
  <2>2. Moved(t, "open")
    BY <1>1, <1>3, <2>1, GotoMoved DEF Keep
  <2> QED
    BY <1>1, <1>3, <2>2 DEF Keep
<1> QED
  BY <1>2, <1>3 DEF ReadCorpus

LEMMA OpenOutcome ==
    ASSUME TypeInv, NEW t \in Threads, OpenTmp(t)
    PROVE  /\ op[t] # None /\ op[t] \in Operation /\ op[t].at = "open"
           /\ UNCHANGED <<md, vec, corpus, bm25, cache, bounds, vecGood>>
           /\ \E lines \in Partly(rewrite[t].kept) :
                  tmp' = [tmp EXCEPT ![Channel(t)] = lines]
           /\ rewrite' = [WritesTo(t, Channel(t), "tmp") EXCEPT ![t].file = "tmp",
                                                               ![t].own = TRUE]
           /\ corpusGood' = IF \E u \in Threads \ {t} : Writing(u, Channel(t))
                            THEN corpusGood \ ({Channel(t)} \X Sources) ELSE corpusGood
           /\ Moved(t, "fill")
<1>1. op[t] # None /\ op[t] \in Operation /\ op[t].at = "open" /\ OpsOK
  BY DEF OpenTmp, At, TypeInv, OpsOK, OpOK
<1>2. "fill" \in Steps
  BY DEF Steps
<1>3. Moved(t, "fill")
  BY <1>1, <1>2, GotoMoved DEF OpenTmp
<1> QED
  BY <1>1, <1>3 DEF OpenTmp

LEMMA FillOutcome ==
    ASSUME TypeInv, NEW t \in Threads, FillTmp(t)
    PROVE  /\ op[t] # None /\ op[t] \in Operation /\ op[t].at = "fill"
           /\ UNCHANGED <<md, vec, bm25, cache, bounds, good>>
           /\ rewrite' = [WritesTo(t, Channel(t), rewrite[t].file) EXCEPT ![t] = None]
           /\ Moved(t, "replace")
<1>1. op[t] # None /\ op[t] \in Operation /\ op[t].at = "fill" /\ OpsOK
  BY DEF FillTmp, At, TypeInv, OpsOK, OpOK
<1>2. "replace" \in Steps
  BY DEF Steps
<1>3. Moved(t, "replace")
  BY <1>1, <1>2, GotoMoved DEF FillTmp
<1> QED
  BY <1>1, <1>3 DEF FillTmp

\* After the removal: delete reloads; the others embed or insert what they
\* have, unless there is no chunk.
LEMMA AfterRemovalFacts ==
    ASSUME NEW o \in Operation
    PROVE  /\ AfterRemoval(o) \in Steps
           /\ AfterRemoval(o) \in {"upsert", "reload", "embed"}
           /\ AfterRemoval(o) = "upsert" <=> o.kind = "add"
           /\ AfterRemoval(o) = "embed" <=>
                  o.kind = "reindex" /\ o.text \notin Blank \cup {None}
           /\ AfterRemoval(o) = "reload" =>
                  o.kind = "delete" \/ o.text \in Blank \cup {None}
<1>1. o.kind \in {"reindex", "add", "delete"}
  BY DEF Operation, Kinds
<1>2. Chunks(o.text) = <<>> <=> o.text \in Blank \cup {None}
  BY DEF Chunks
<1> QED
  BY <1>1, <1>2 DEF AfterRemoval, Steps

LEMMA ReplaceOutcome ==
    ASSUME TypeInv, NEW t \in Threads, ReplaceCorpus(t)
    PROVE  /\ op[t] # None /\ op[t] \in Operation /\ op[t].at = "replace"
           /\ UNCHANGED <<md, vec, bm25, bounds>>
           /\ \/ /\ tmp[Channel(t)] # None
                 /\ corpus' = [corpus EXCEPT ![Channel(t)] = tmp[Channel(t)]]
                 /\ tmp' = [tmp EXCEPT ![Channel(t)] = None]
                 /\ rewrite' = Renamed(Channel(t))
                 /\ Moved(t, AfterRemoval(op[t]))
                 /\ UNCHANGED <<cache, good>>
              \/ Returned(t) /\ UNCHANGED <<corpus, tmp, rewrite, good>> /\ TaintAll
<1>1. op[t] # None /\ op[t] \in Operation /\ op[t].at = "replace" /\ OpsOK
  BY DEF ReplaceCorpus, At, TypeInv, OpsOK, OpOK
<1>2. CASE Raise(t) /\ UNCHANGED <<corpus, tmp, rewrite>>
  <2>1. Returned(t) /\ UNCHANGED good /\ TaintAll
    BY <1>1, <1>2, FinishReturned DEF Raise, Finish, good
  <2> QED
    BY <1>1, <1>2, <2>1 DEF ReplaceCorpus
<1>3. CASE /\ tmp[Channel(t)] # None
           /\ corpus' = [corpus EXCEPT ![Channel(t)] = tmp[Channel(t)]]
           /\ tmp' = [tmp EXCEPT ![Channel(t)] = None]
           /\ rewrite' = Renamed(Channel(t))
           /\ Goto(t, AfterRemoval(op[t]))
           /\ UNCHANGED <<cache, good>>
  <2>1. Moved(t, AfterRemoval(op[t]))
    BY <1>1, <1>3, GotoMoved, AfterRemovalFacts
  <2> QED
    BY <1>1, <1>3, <2>1 DEF ReplaceCorpus
<1> QED
  BY <1>2, <1>3 DEF ReplaceCorpus

LEMMA UpsertOutcome ==
    ASSUME TypeInv, NEW t \in Threads, Upsert(t)
    PROVE  /\ op[t] # None /\ op[t] \in Operation /\ op[t].at = "upsert"
           /\ UNCHANGED <<md, corpus, tmp, rewrite, bm25, cache, drawn, good>>
           /\ \/ /\ vec' = [vec EXCEPT ![Channel(t)][op[t].src] = Append(@, op[t].text)]
                 /\ Moved(t, "append") /\ UNCHANGED faults
              \/ Fault /\ MovedFaulty(t, "append") /\ UNCHANGED vec
<1>1. op[t] # None /\ op[t] \in Operation /\ op[t].at = "upsert" /\ OpsOK
  BY DEF Upsert, At, TypeInv, OpsOK, OpOK
<1>2. "append" \in Steps
  BY DEF Steps
<1> QED
  BY <1>1, <1>2, GotoMoved DEF Upsert, PostgresFails

LEMMA AppendOutcome ==
    ASSUME TypeInv, NEW t \in Threads, AppendLines(t)
    PROVE  /\ op[t] # None /\ op[t] \in Operation /\ op[t].at = "append"
           /\ UNCHANGED <<md, vec, tmp, bm25, cache, bounds, good>>
           /\ \E longer :
                  /\ longer = [corpus[Channel(t)] EXCEPT ![op[t].src] =
                                  Append(@, op[t].text)]
                  /\ corpus' = IF corpus[Channel(t)] = Torn THEN corpus
                               ELSE [corpus EXCEPT ![Channel(t)] = longer]
           /\ rewrite' = WritesTo(t, Channel(t), "corpus")
           /\ Moved(t, "reload")
<1>1. op[t] # None /\ op[t] \in Operation /\ op[t].at = "append" /\ OpsOK
  BY DEF AppendLines, At, TypeInv, OpsOK, OpOK
<1>2. "reload" \in Steps
  BY DEF Steps
<1>3. \E longer :
          /\ longer = [corpus[Channel(t)] EXCEPT ![op[t].src] = Append(@, op[t].text)]
          /\ corpus' = IF corpus[Channel(t)] = Torn THEN corpus
                       ELSE [corpus EXCEPT ![Channel(t)] = longer]
  <2> WITNESS [corpus[Channel(t)] EXCEPT ![op[t].src] = Append(@, op[t].text)]
  <2> QED
    BY DEF AppendLines
<1>4. Moved(t, "reload")
  BY <1>1, <1>2, GotoMoved DEF AppendLines
<1>5. /\ UNCHANGED <<md, vec, tmp, bm25, cache, bounds, good>>
      /\ rewrite' = WritesTo(t, Channel(t), "corpus")
  BY DEF AppendLines
<1> QED
  BY <1>1, <1>3, <1>4, <1>5

LEMMA ReloadOutcome ==
    ASSUME TypeInv, NEW t \in Threads, Reload(t)
    PROVE  /\ op[t] # None /\ op[t] \in Operation /\ op[t].at = "reload"
           /\ UNCHANGED <<stores, bounds>>
           /\ \/ /\ corpus[Channel(t)] # Torn
                 /\ bm25' = [bm25 EXCEPT ![PodOf[t]][Channel(t)] = corpus[Channel(t)]]
                 /\ Moved(t, "invalidate") /\ UNCHANGED <<cache, good>>
              \/ Returned(t) /\ UNCHANGED <<bm25, good>> /\ TaintAll
<1>1. /\ op[t] # None /\ op[t] \in Operation /\ op[t].at = "reload" /\ OpsOK
      /\ UNCHANGED <<stores, bounds>>
  BY DEF Reload, At, TypeInv, OpsOK, OpOK
<1>2. "invalidate" \in Steps
  BY DEF Steps
<1>3. CASE Raise(t) /\ UNCHANGED bm25
  <2>1. Returned(t) /\ UNCHANGED good /\ TaintAll
    BY <1>1, <1>3, FinishReturned DEF Raise, Finish, good
  <2> QED
    BY <1>1, <1>3, <2>1
<1>4. CASE /\ corpus[Channel(t)] # Torn
           /\ bm25' = [bm25 EXCEPT ![PodOf[t]][Channel(t)] = corpus[Channel(t)]]
           /\ Goto(t, "invalidate") /\ UNCHANGED <<cache, good>>
  BY <1>1, <1>2, <1>4, GotoMoved
<1> QED
  BY <1>3, <1>4 DEF Reload

\* On to the next channel, or behind the last.
Advanced(t, to, rest) ==
    /\ op[t] # None /\ op'[t] # None /\ op'[t] \in Operation
    /\ op'[t].at = to /\ Keeps(op[t], op'[t]) /\ op'[t].text = op[t].text
    /\ op'[t].left = rest /\ op'[t].fault = op[t].fault
    /\ OthersStay(t)
LEMMA AdvanceAdvanced ==
    ASSUME OpsOK, NEW t \in Threads, op[t] # None, NEW to \in {"delete", "unlink"},
           NEW rest \in {<<"workspace">>, <<>>},
           op' = [op EXCEPT ![t].at = to, ![t].left = rest]
    PROVE  Advanced(t, to, rest)
<1>1. op[t] \in Operation
  BY DEF OpsOK, OpOK
<1> DEFINE x == [op[t] EXCEPT !.at = to, !.left = rest]
<1>2. op'[t] = x /\ OthersStay(t)
  BY DEF OpsOK, OthersStay
<1>3. /\ x \in Operation /\ x.at = to /\ x.kind = op[t].kind /\ x.src = op[t].src
      /\ x.text = op[t].text /\ x.left = rest /\ x.fault = op[t].fault
      /\ x.met = op[t].met
  BY <1>1 DEF Operation, Steps
<1> HIDE DEF x
<1> QED
  BY <1>2, <1>3, NoOperationAssumption DEF Advanced, Keeps

LEMMA NextChannelOutcome ==
    ASSUME TypeInv, NEW t \in Threads, NextChannel(t)
    PROVE  /\ op[t] # None /\ op[t] \in Operation /\ op[t].at = "invalidate"
           /\ UNCHANGED <<stores, bm25, drawn>>
           /\ Invalidate(Channel(t), PodOf[t])
           /\ \/ /\ op[t].left = BothChannels /\ Advanced(t, "delete", <<"workspace">>)
                 /\ UNCHANGED good
              \/ /\ op[t].left = <<"workspace">> /\ op[t].kind = "delete"
                 /\ Advanced(t, "unlink", <<>>) /\ UNCHANGED good
              \/ /\ op[t].left = <<"workspace">> /\ op[t].kind # "delete"
                 /\ Finish(t, TRUE) /\ Returned(t)
<1>1. /\ op[t] # None /\ op[t] \in Operation /\ op[t].at = "invalidate" /\ OpsOK
      /\ OpFits(op[t])
      /\ UNCHANGED <<stores, bm25, drawn>> /\ Invalidate(Channel(t), PodOf[t])
  BY DEF NextChannel, At, TypeInv, OpsOK, OpOK
<1>2. op[t].left = BothChannels \/ op[t].left = <<"workspace">>
  BY <1>1 DEF OpFits
<1>3. CASE op[t].left = BothChannels
  <2>1. Tail(op[t].left) = <<"workspace">> /\ Tail(op[t].left) # <<>>
    BY <1>3, LeftFacts
  <2>2. op' = [op EXCEPT ![t].at = "delete", ![t].left = <<"workspace">>] /\ UNCHANGED good
    BY <2>1 DEF NextChannel
  <2> QED
    BY <1>1, <1>3, <2>2, AdvanceAdvanced
<1>4. CASE op[t].left = <<"workspace">>
  <2>1. Tail(op[t].left) = <<>>
    BY <1>4, LeftFacts
  <2>2. CASE op[t].kind = "delete"
    <3>1. op' = [op EXCEPT ![t].at = "unlink", ![t].left = <<>>] /\ UNCHANGED good
      BY <2>1, <2>2 DEF NextChannel
    <3> QED
      BY <1>1, <1>4, <2>2, <3>1, AdvanceAdvanced
  <2>3. CASE op[t].kind # "delete"
    <3>1. Finish(t, TRUE)
      BY <2>1, <2>3 DEF NextChannel
    <3> QED
      BY <1>1, <1>4, <2>3, <3>1, FinishReturned
  <2> QED
    BY <2>2, <2>3
<1> QED
  BY <1>2, <1>3, <1>4

LEMMA UnlinkOutcome ==
    ASSUME TypeInv, NEW t \in Threads, Unlink(t)
    PROVE  /\ op[t] # None /\ op[t] \in Operation /\ op[t].at = "unlink"
           /\ UNCHANGED <<vec, corpus, tmp, rewrite, bm25, cache, bounds>>
           /\ md' = [c \in Channels |-> [md[c] EXCEPT ![op[t].src] = None]]
           /\ Finish(t, TRUE) /\ Returned(t)
<1>1. op[t] # None /\ op[t] \in Operation /\ op[t].at = "unlink" /\ OpsOK
  BY DEF Unlink, At, TypeInv, OpsOK, OpOK
<1> QED
  BY <1>1, FinishReturned DEF Unlink

\* A thread that takes no step: its operation, if it is not gone, is where it
\* was, and may have met another one.
Stands(u) ==
    op'[u] # None =>
        /\ op[u] # None
        /\ op'[u].at = op[u].at /\ op'[u].kind = op[u].kind /\ op'[u].src = op[u].src
        /\ op'[u].text = op[u].text /\ op'[u].left = op[u].left
        /\ op'[u].fault = op[u].fault
        /\ op'[u].met # "same" => op[u].met # "same"
        /\ op'[u].met = "nothing" => op[u].met = "nothing"

\* It has met the operation on source s that thread t begins.
Meets(u, t, s) ==
    op'[u] # None =>
        /\ op'[u].met # "nothing" /\ op'[t].met # "nothing"
        /\ op'[u].src = s => op'[u].met = "same" /\ op'[t].met = "same"
Begun(t, kind, s, step) ==
    /\ op[t] = None /\ op'[t] # None /\ op'[t] \in Operation
    /\ op'[t].at = step /\ op'[t].kind = kind /\ op'[t].src = s
    /\ op'[t].left = ChannelsOf(kind)
    /\ op'[t].text = IF kind = "delete" THEN None ELSE drawn'
    /\ DOMAIN op' = Threads
    /\ \A u \in Threads \ {t} :
           /\ Stands(u) /\ Meets(u, t, s) /\ (op'[u] = None \/ op'[u] \in Operation)
           /\ op[u] # None => op'[u] # None

LEMMA StandsWorse ==
    ASSUME NEW u, op[u] \in Operation, NEW m \in {"nothing", "other", "same"},
           op'[u] = [op[u] EXCEPT !.met = m],
           m # "same" => op[u].met # "same", m = "nothing" => op[u].met = "nothing"
    PROVE  Stands(u) /\ op'[u] # None /\ op'[u] \in Operation /\ op'[u].met = m
               /\ op'[u].src = op[u].src
<1> DEFINE x == [op[u] EXCEPT !.met = m]
<1>1. /\ x \in Operation /\ x.at = op[u].at /\ x.kind = op[u].kind /\ x.src = op[u].src
      /\ x.text = op[u].text /\ x.left = op[u].left /\ x.fault = op[u].fault /\ x.met = m
  BY WorseRecord
<1>2. op'[u] = x /\ op[u] # None
  BY NoOperationAssumption
<1> HIDE DEF x
<1> QED
  BY <1>1, <1>2, NoOperationAssumption DEF Stands

LEMMA BeginBegun ==
    ASSUME OpsOK, NEW t \in Threads, NEW kind \in Kinds, NEW s \in Sources,
           NEW step \in {"chunk", "delete"}, drawn' \in Texts, Begin(t, kind, s, step)
    PROVE  Begun(t, kind, s, step)
<1>1. PICK m : m = IF \E v \in Active : op[v].src = s THEN "same"
                   ELSE IF Active # {} THEN "other" ELSE "nothing"
  OBVIOUS
<1>2. PICK txt : txt = IF kind = "delete" THEN None ELSE drawn'
  OBVIOUS
<1> DEFINE x == [at |-> step, kind |-> kind, src |-> s, fault |-> FALSE,
                 text |-> txt, left |-> ChannelsOf(kind), met |-> m]
<1>3. op[t] = None /\ op'[t] = x /\ DOMAIN op' = Threads
  BY <1>1, <1>2 DEF Begin
<1>4. /\ x.at = step /\ x.kind = kind /\ x.src = s /\ x.left = ChannelsOf(kind)
      /\ x.text = txt /\ x.met = m
  OBVIOUS
<1>5. x \in Operation
  <2>1. m \in {"nothing", "other", "same"} /\ txt \in Texts \cup {None}
    BY <1>1, <1>2
  <2>2. ChannelsOf(kind) \in {BothChannels, <<"originals">>, <<"workspace">>, <<>>}
    BY DEF ChannelsOf
  <2>3. step \in Steps
    BY DEF Steps
  <2> QED
    BY <2>1, <2>2, <2>3 DEF Operation
<1> HIDE DEF x
<1>6. op'[t] # None
  BY <1>3, <1>5, NoOperationAssumption
<1>7. ASSUME NEW u \in Threads, u # t
      PROVE  /\ Stands(u) /\ Meets(u, t, s) /\ (op'[u] = None \/ op'[u] \in Operation)
             /\ op[u] # None => op'[u] # None
  <2>1. CASE op[u] = None
    <3>1. op'[u] = None
      BY <1>7, <2>1 DEF Begin
    <3> QED
      BY <2>1, <3>1 DEF Stands, Meets
  <2>2. CASE op[u] # None
    <3>1. PICK w : w = Worse(op[u].met, op[u].src = s)
      OBVIOUS
    <3>2. op'[u] = [op[u] EXCEPT !.met = w]
      BY <1>7, <2>2, <3>1 DEF Begin
    <3>3. op[u] \in Operation
      BY <2>2 DEF OpsOK, OpOK
    <3>4. /\ w \in {"other", "same"}
          /\ op[u].met = "same" => w = "same"
          /\ op[u].src = s => w = "same"
      BY <3>1 DEF Worse
    <3>5. Stands(u) /\ op'[u] # None /\ op'[u] \in Operation /\ op'[u].met = w
          /\ op'[u].src = op[u].src
      BY <3>2, <3>3, <3>4, StandsWorse
    <3>6. m # "nothing" /\ (op[u].src = s => m = "same")
      BY <1>1, <2>2 DEF Active
    <3>7. op'[t].met = m
      BY <1>3, <1>4
    <3> QED
      BY <3>4, <3>5, <3>6, <3>7 DEF Meets
  <2> QED
    BY <2>1, <2>2
<1> QED
  BY <1>2, <1>3, <1>4, <1>5, <1>6, <1>7 DEF Begun

\* save-draft is no operation, and counts as one on its source for the others.
Drafted(s) ==
    /\ DOMAIN op' = Threads
    /\ \A u \in Threads :
           /\ Stands(u) /\ (op'[u] = None \/ op'[u] \in Operation)
           /\ op'[u] # None /\ op'[u].src = s => op'[u].met = "same"
           /\ op[u] # None => op'[u] # None
LEMMA DraftDrafted ==
    ASSUME OpsOK, NEW s \in Sources, SaveDraft(s)
    PROVE  Drafted(s)
<1>1. DOMAIN op' = Threads
  BY DEF SaveDraft
<1>2. ASSUME NEW u \in Threads
      PROVE  /\ Stands(u) /\ (op'[u] = None \/ op'[u] \in Operation)
             /\ op'[u] # None /\ op'[u].src = s => op'[u].met = "same"
             /\ op[u] # None => op'[u] # None
  <2>1. CASE op[u] = None
    <3>1. op'[u] = None
      BY <2>1 DEF SaveDraft
    <3> QED
      BY <2>1, <3>1 DEF Stands
  <2>2. CASE op[u] # None
    <3>1. PICK w : w = IF op[u].src = s THEN "same" ELSE op[u].met
      OBVIOUS
    <3>2. op'[u] = [op[u] EXCEPT !.met = w]
      BY <2>2, <3>1 DEF SaveDraft
    <3>3. op[u] \in Operation
      BY <2>2 DEF OpsOK, OpOK
    <3>4. /\ w \in {"nothing", "other", "same"}
          /\ op[u].met = "same" => w = "same"
          /\ w = "nothing" => op[u].met = "nothing"
          /\ op[u].src = s => w = "same"
      BY <3>1, <3>3 DEF Operation
    <3>5. Stands(u) /\ op'[u] # None /\ op'[u] \in Operation /\ op'[u].met = w
          /\ op'[u].src = op[u].src
      BY <3>2, <3>3, <3>4, StandsWorse
    <3> QED
      BY <3>4, <3>5
  <2> QED
    BY <2>1, <2>2
<1> QED
  BY <1>1, <1>2 DEF Drafted

LEMMA CrashStands ==
    ASSUME OpsOK, NEW p \in Pods, Crash(p)
    PROVE  /\ DOMAIN op' = Threads
           /\ \A u \in Threads : Stands(u) /\ (op'[u] = None \/ op'[u] = op[u])
<1>1. /\ DOMAIN op' = Threads
      /\ \A u \in Threads : op'[u] = None \/ op'[u] = op[u]
  BY DEF Crash
<1> QED
  BY <1>1 DEF Stands

LEMMA OthersStand ==
    ASSUME NEW t \in Threads, OthersStay(t)
    PROVE  \A u \in Threads \ {t} : Stands(u)
BY DEF OthersStay, Stands

LEMMA AllStand ==
    ASSUME UNCHANGED op
    PROVE  \A u \in Threads : Stands(u)
BY DEF Stands

-----------------------------------------------------------------------------
\* Type correctness

LEMMA InitTypeInv == Init => TypeInv
<1> SUFFICES ASSUME Init
             PROVE  TypeInv
  OBVIOUS
<1>1. 0 \in Texts /\ <<0>> \in Seq(Texts)
  BY IndexAssumption DEF Texts
<1>2. Built \in [Channels -> [Sources -> Seq(Texts)]] /\ Built \in [Channels -> Lines]
  BY <1>1 DEF Built, Lines
<1>3. StoresOK
  BY <1>1, <1>2 DEF Init, StoresOK
<1>4. CopiesOK
  BY <1>2 DEF Init, CopiesOK
<1>5. OpsOK /\ RewritesOK
  BY DEF Init, OpsOK, OpOK, RewritesOK, RewriteFits, At
<1>6. CacheOK
  BY DEF Init, CacheOK
<1>7. BoundsOK
  BY IndexAssumption DEF Init, BoundsOK
<1>8. GoodOK
  BY DEF Init, GoodOK
<1> QED
  BY <1>3, <1>4, <1>5, <1>6, <1>7, <1>8 DEF TypeInv

\* A table of a source in a channel, with one entry changed.
LEMMA Updated ==
    ASSUME NEW T, NEW f \in [Channels -> [Sources -> T]],
           NEW c0 \in Channels, NEW s0 \in Sources, NEW x \in T, NEW g,
           g = [f EXCEPT ![c0][s0] = x]
    PROVE  /\ g \in [Channels -> [Sources -> T]]
           /\ g[c0][s0] = x
           /\ \A c \in Channels, s \in Sources : c # c0 \/ s # s0 => g[c][s] = f[c][s]
<1>1. PICK h : h = [f[c0] EXCEPT ![s0] = x]
  OBVIOUS
<1>2. /\ h \in [Sources -> T] /\ h[s0] = x
      /\ \A s \in Sources : s # s0 => h[s] = f[c0][s]
  BY <1>1
<1>3. g = [f EXCEPT ![c0] = h]
  BY <1>1
<1>4. g \in [Channels -> [Sources -> T]] /\ g[c0] = h
      /\ \A c \in Channels : c # c0 => g[c] = f[c]
  BY <1>2, <1>3
<1> QED
  BY <1>2, <1>4

\* The text an operation inserts is one.
LEMMA InsertedText ==
    ASSUME NEW o \in Operation, OpFits(o), o.at \in {"upsert", "append"}
    PROVE  o.text \in Texts /\ o.text \notin Blank \cup {None} /\ o.src \in Sources
               /\ Head(o.left) \in Channels
<1>1. o.kind # "delete" /\ o.text # None /\ o.text \notin Blank /\ o.at # "unlink"
  BY DEF OpFits
<1>2. o.text \in Texts \cup {None} /\ o.src \in Sources /\ o.kind \in Kinds
  BY DEF Operation
<1> QED
  BY <1>1, <1>2, ChannelTouched

LEMMA NewText ==
    ASSUME BoundsOK, Draw
    PROVE  drawn' \in Texts /\ drawn' # None /\ drawn' \in 0 .. MaxTexts
BY IndexAssumption DEF BoundsOK, Draw, Texts

\* Who writes a .tmp file has lines to write to it.
LEMMA KeptLines ==
    ASSUME TypeInv, NEW t \in Threads
    PROVE  /\ At(t, "open") \/ At(t, "fill") => rewrite[t] \in Rewrite
           /\ rewrite[t] # None => rewrite[t].kept \in Lines
           /\ op[t] # None /\ op[t].at \in {"open", "fill"} => rewrite[t].kept \in Lines
<1>1. RewriteFits(t)
  BY DEF TypeInv, RewritesOK
<1> QED
  BY <1>1 DEF RewriteFits, Rewrite, At

\* What gets into a file is lines, or no reader gets past it.
LEMMA FileLines ==
    ASSUME NEW lines \in Lines
    PROVE  /\ \A x \in Partly(lines) : x \in Lines \cup {Torn}
           /\ \A others \in Lines \cup {Torn} :
                  \A x \in Overlaid(lines, others) : x \in Lines \cup {Torn}
<1>1. ASSUME NEW x \in Partly(lines)
      PROVE  x \in Lines \cup {Torn}
  <2>1. CASE x = Torn
    BY <2>1
  <2>2. ASSUME NEW K, x = [s \in Sources |-> IF s \in K THEN lines[s] ELSE <<>>]
        PROVE  x \in Lines
    <3>1. <<>> \in Seq(Texts)
      OBVIOUS
    <3> QED
      BY <2>2, <3>1 DEF Lines
  <2> QED
    BY <2>1, <2>2 DEF Partly
<1>2. ASSUME NEW others \in Lines \cup {Torn}, NEW x \in Overlaid(lines, others)
      PROVE  x \in Lines \cup {Torn}
  <2>1. CASE x \in {Torn, lines}
    BY <2>1
  <2>2. ASSUME NEW K, others # Torn,
               x = [s \in Sources |-> IF s \in K THEN lines[s] \o others[s] ELSE lines[s]]
        PROVE  x \in Lines
    <3>1. others \in Lines
      BY <2>2
    <3>2. \A s \in Sources : lines[s] \in Seq(Texts) /\ lines[s] \o others[s] \in Seq(Texts)
      BY <3>1 DEF Lines
    <3> QED
      BY <2>2, <3>2 DEF Lines
  <2> QED
    BY <2>1, <2>2 DEF Overlaid
<1> QED
  BY <1>1, <1>2

LEMMA FillLines ==
    ASSUME TypeInv, NEW t \in Threads, FillTmp(t)
    PROVE  \E c \in Channels, lines \in Lines \cup {Torn} :
               /\ c = Channel(t)
               /\ tmp' = IF rewrite[t].file = "tmp" THEN [tmp EXCEPT ![c] = lines] ELSE tmp
               /\ corpus' = IF rewrite[t].file = "corpus" THEN [corpus EXCEPT ![c] = lines]
                                                         ELSE corpus
               /\ rewrite[t].own => lines = rewrite[t].kept
<1>1. /\ op[t] # None /\ op[t] \in Operation /\ op[t].at = "fill" /\ OpFits(op[t])
      /\ op[t].kind \in Kinds /\ RewriteFits(t) /\ StoresOK
  BY FillOutcome DEF TypeInv, OpsOK, OpOK, Operation, RewritesOK
<1>2. Channel(t) \in Channels /\ rewrite[t].kept \in Lines
  BY <1>1, ChannelTouched, KeptLines DEF Channel
<1>3. PICK found : found = IF rewrite[t].file = "corpus" THEN corpus[Channel(t)]
                                                         ELSE tmp[Channel(t)]
  OBVIOUS
<1>4. PICK lines \in IF rewrite[t].own \/ rewrite[t].file = "gone" THEN {rewrite[t].kept}
                     ELSE Overlaid(rewrite[t].kept, found) :
          /\ tmp' = IF rewrite[t].file = "tmp" THEN [tmp EXCEPT ![Channel(t)] = lines]
                                               ELSE tmp
          /\ corpus' = IF rewrite[t].file = "corpus"
                       THEN [corpus EXCEPT ![Channel(t)] = lines] ELSE corpus
  BY <1>3 DEF FillTmp
<1>5. rewrite[t].file \in {"tmp", "corpus", "gone"}
  BY <1>1 DEF RewriteFits, Rewrite, At
<1>6. rewrite[t].file # "gone" => found \in Lines \cup {Torn}
  <2>1. corpus[Channel(t)] \in Lines \cup {Torn}
    BY <1>1, <1>2 DEF StoresOK
  <2>2. tmp[Channel(t)] \in Lines \cup {Torn, None}
    BY <1>1, <1>2 DEF StoresOK
  <2>3. rewrite[t].file = "tmp" => tmp[Channel(t)] # None
    BY <1>1 DEF RewriteFits, At
  <2> QED
    BY <1>3, <1>5, <2>1, <2>2, <2>3
<1>7. lines \in Lines \cup {Torn}
  BY <1>2, <1>4, <1>6, FileLines
<1> QED
  BY <1>2, <1>4, <1>7

LEMMA StepStoresOK ==
    ASSUME TypeInv, NEW t \in Threads, Step(t)
    PROVE  StoresOK'
<1>0. StoresOK /\ OpsOK
  BY DEF TypeInv
<1>1. op[t] # None => op[t] \in Operation /\ OpFits(op[t]) /\ op[t].src \in Sources
                          /\ op[t].kind \in Kinds
  BY <1>0 DEF OpsOK, OpOK, Operation
<1>2. CASE UNCHANGED stores
  BY <1>0, <1>2 DEF StoresOK, stores
<1>3. CASE DeleteRows(t)
  <2>1. op[t] # None /\ Channel(t) \in Channels
    BY <1>1, <1>3, DeleteRowsOutcome, ChannelTouched DEF Channel
  <2>2. vec' = [vec EXCEPT ![Channel(t)][op[t].src] = <<>>] \/ vec' = vec
    BY <1>3, DeleteRowsOutcome
  <2>3. <<>> \in Seq(Texts)
    OBVIOUS
  <2>4. vec' \in [Channels -> [Sources -> Seq(Texts)]]
    <3>1. PICK x \in Seq(Texts) : x = <<>>
      BY <2>3
    <3>2. vec \in [Channels -> [Sources -> Seq(Texts)]] /\ op[t].src \in Sources
      BY <1>0, <1>1, <2>1 DEF StoresOK
    <3>3. CASE vec' = [vec EXCEPT ![Channel(t)][op[t].src] = x]
      BY <2>1, <3>2, <3>3, Updated
    <3> QED
      BY <2>2, <3>1, <3>2, <3>3
  <2> QED
    BY <1>0, <1>3, <2>4, DeleteRowsOutcome DEF StoresOK
<1>4. CASE OpenTmp(t)
  <2>1. op[t] # None /\ Channel(t) \in Channels /\ rewrite[t].kept \in Lines
    BY <1>1, <1>4, OpenOutcome, ChannelTouched, KeptLines DEF Channel
  <2>2. PICK lines \in Partly(rewrite[t].kept) : tmp' = [tmp EXCEPT ![Channel(t)] = lines]
    BY <1>4, OpenOutcome
  <2>3. lines \in Lines \cup {Torn}
    BY <2>1, FileLines
  <2>4. tmp' \in [Channels -> Lines \cup {Torn, None}]
    BY <1>0, <2>2, <2>3 DEF StoresOK
  <2> QED
    BY <1>0, <1>4, <2>4, OpenOutcome DEF StoresOK
<1>5. CASE FillTmp(t)
  <2>1. PICK c \in Channels, lines \in Lines \cup {Torn} :
            /\ tmp' = IF rewrite[t].file = "tmp" THEN [tmp EXCEPT ![c] = lines] ELSE tmp
            /\ corpus' = IF rewrite[t].file = "corpus" THEN [corpus EXCEPT ![c] = lines]
                                                      ELSE corpus
    BY <1>5, FillLines
  <2>2. tmp' \in [Channels -> Lines \cup {Torn, None}]
    BY <1>0, <2>1 DEF StoresOK
  <2>3. corpus' \in [Channels -> Lines \cup {Torn}]
    BY <1>0, <2>1 DEF StoresOK
  <2> QED
    BY <1>0, <1>5, <2>2, <2>3, FillOutcome DEF StoresOK
<1>10. CASE ReplaceCorpus(t)
  <2>1. op[t] # None /\ Channel(t) \in Channels
    BY <1>1, <1>10, ReplaceOutcome, ChannelTouched DEF Channel
  <2>2. CASE UNCHANGED <<corpus, tmp>>
    BY <1>0, <1>10, <2>2, ReplaceOutcome DEF StoresOK
  <2>3. CASE /\ tmp[Channel(t)] # None
             /\ corpus' = [corpus EXCEPT ![Channel(t)] = tmp[Channel(t)]]
             /\ tmp' = [tmp EXCEPT ![Channel(t)] = None]
    <3>1. corpus' \in [Channels -> Lines \cup {Torn}]
      BY <1>0, <2>1, <2>3 DEF StoresOK
    <3>2. tmp' \in [Channels -> Lines \cup {Torn, None}]
      BY <1>0, <2>1, <2>3 DEF StoresOK
    <3> QED
      BY <1>0, <1>10, <3>1, <3>2, ReplaceOutcome DEF StoresOK
  <2> QED
    BY <1>10, <2>2, <2>3, ReplaceOutcome
<1>6. CASE Upsert(t)
  <2>1. /\ op[t] # None /\ op[t].src \in Sources /\ op[t].text \in Texts
        /\ Channel(t) \in Channels
    BY <1>1, <1>6, UpsertOutcome, InsertedText DEF Channel
  <2>2. Append(vec[Channel(t)][op[t].src], op[t].text) \in Seq(Texts)
    BY <1>0, <2>1 DEF StoresOK
  <2>3. \/ vec' = [vec EXCEPT ![Channel(t)][op[t].src] =
                       Append(vec[Channel(t)][op[t].src], op[t].text)]
        \/ vec' = vec
    BY <1>6, UpsertOutcome
  <2>4. vec' \in [Channels -> [Sources -> Seq(Texts)]]
    <3>1. PICK x \in Seq(Texts) : x = Append(vec[Channel(t)][op[t].src], op[t].text)
      BY <2>2
    <3>2. vec \in [Channels -> [Sources -> Seq(Texts)]]
      BY <1>0 DEF StoresOK
    <3>3. CASE vec' = [vec EXCEPT ![Channel(t)][op[t].src] = x]
      BY <2>1, <3>2, <3>3, Updated
    <3> QED
      BY <2>3, <3>1, <3>2, <3>3
  <2> QED
    BY <1>0, <1>6, <2>4, UpsertOutcome DEF StoresOK
<1>7. CASE AppendLines(t)
  <2>1. /\ op[t] # None /\ op[t].src \in Sources /\ op[t].text \in Texts
        /\ Channel(t) \in Channels
    BY <1>1, <1>7, AppendOutcome, InsertedText DEF Channel
  <2>2. PICK f : f = corpus[Channel(t)]
    OBVIOUS
  <2>3. PICK g : /\ g = [f EXCEPT ![op[t].src] = Append(@, op[t].text)]
                 /\ corpus' = IF f = Torn THEN corpus ELSE [corpus EXCEPT ![Channel(t)] = g]
    BY <1>7, <2>2, AppendOutcome
  <2>4. f # Torn => g \in Lines
    <3>1. f \in Lines \cup {Torn}
      BY <1>0, <2>1, <2>2 DEF StoresOK
    <3>2. f # Torn => Append(f[op[t].src], op[t].text) \in Seq(Texts)
      BY <2>1, <3>1 DEF Lines
    <3> QED
      BY <2>1, <2>3, <3>1, <3>2 DEF Lines
  <2>6. corpus' \in [Channels -> Lines \cup {Torn}]
    BY <1>0, <2>1, <2>3, <2>4 DEF StoresOK
  <2> QED
    BY <1>0, <1>7, <2>6, AppendOutcome DEF StoresOK
<1>8. CASE Unlink(t)
  <2>1. op[t] # None /\ md' = [c \in Channels |-> [md[c] EXCEPT ![op[t].src] = None]]
    BY <1>8, UnlinkOutcome
  <2>2. md' \in [Channels -> [Sources -> Texts \cup {None}]]
    BY <1>0, <2>1 DEF StoresOK
  <2> QED
    BY <1>0, <1>8, <2>2, UnlinkOutcome DEF StoresOK
<1>9. CASE Chunk(t) \/ Embed(t) \/ Reload(t) \/ NextChannel(t)
  BY <1>2, <1>9, ChunkOutcome, EmbedOutcome, ReloadOutcome, NextChannelOutcome
<1>11. CASE ReadCorpus(t)
  BY <1>0, <1>11, ReadOutcome DEF StoresOK
<1> QED
  BY <1>3, <1>4, <1>5, <1>6, <1>7, <1>8, <1>9, <1>10, <1>11 DEF Step

LEMMA NextStoresOK == TypeInv /\ [Next]_vars => StoresOK'
<1> SUFFICES ASSUME TypeInv, [Next]_vars
             PROVE  StoresOK'
  OBVIOUS
<1>0. StoresOK /\ BoundsOK
  BY DEF TypeInv
<1>1. CASE UNCHANGED stores
  BY <1>0, <1>1 DEF StoresOK, stores
<1>2. ASSUME NEW s \in Sources, Draw, UNCHANGED <<vec, corpus, tmp>>,
             \/ md' = [md EXCEPT !["workspace"][s] = drawn']
             \/ md' = [c \in Channels |-> [md[c] EXCEPT ![s] = drawn']]
      PROVE  StoresOK'
  <2>1. drawn' \in Texts
    BY <1>0, <1>2, NewText
  <2>2. CASE md' = [md EXCEPT !["workspace"][s] = drawn']
    <3>1. PICK x : x = drawn'
      OBVIOUS
    <3>2. "workspace" \in Channels /\ x \in Texts \cup {None}
      BY <2>1, <3>1 DEF Channels
    <3>3. md' = [md EXCEPT !["workspace"][s] = x]
      BY <2>2, <3>1
    <3>4. md' \in [Channels -> [Sources -> Texts \cup {None}]]
      BY <1>0, <3>2, <3>3, Updated DEF StoresOK
    <3> QED
      BY <1>0, <1>2, <3>4 DEF StoresOK
  <2>3. CASE md' = [c \in Channels |-> [md[c] EXCEPT ![s] = drawn']]
    <3>1. md' \in [Channels -> [Sources -> Texts \cup {None}]]
      BY <1>0, <2>1, <2>3 DEF StoresOK
    <3> QED
      BY <1>0, <1>2, <3>1 DEF StoresOK
  <2> QED
    BY <1>2, <2>2, <2>3
<1>3. ASSUME NEW t \in Threads, NEW s \in Sources, Save(t, s) \/ Upload(t, s) \/ Delete(t, s)
      PROVE  StoresOK'
  BY <1>1, <1>2, <1>3 DEF Save, Upload, Delete
<1>4. ASSUME NEW s \in Sources, SaveDraft(s)
      PROVE  StoresOK'
  BY <1>2, <1>4 DEF SaveDraft
<1>5. ASSUME NEW p \in Pods, Retrieve(p) \/ CacheResults(p)
      PROVE  StoresOK'
  BY <1>1, <1>5 DEF Retrieve, CacheResults
<1>8. ASSUME NEW p \in Pods, Crash(p)
      PROVE  StoresOK'
  BY <1>0, <1>8 DEF Crash, StoresOK
<1>6. CASE Expire
  BY <1>1, <1>6 DEF Expire
<1>7. CASE UNCHANGED vars
  BY <1>1, <1>7 DEF vars
<1> QED
  BY <1>3, <1>4, <1>5, <1>6, <1>7, <1>8, StepStoresOK, IndexAssumption DEF Next

LEMMA NextCopiesOK == TypeInv /\ [Next]_vars => CopiesOK'
<1> SUFFICES ASSUME TypeInv, [Next]_vars
             PROVE  CopiesOK'
  OBVIOUS
<1>0. CopiesOK /\ StoresOK /\ OpsOK
  BY DEF TypeInv
<1>1. CASE UNCHANGED bm25
  BY <1>0, <1>1 DEF CopiesOK
<1>10. ASSUME NEW p \in Pods, NEW c \in Channels, NEW x \in Lines,
              bm25' = [bm25 EXCEPT ![p][c] = x]
       PROVE  CopiesOK'
  <2>1. PICK h : h = [bm25[p] EXCEPT ![c] = x]
    OBVIOUS
  <2>2. h \in [Channels -> Lines \cup {None}]
    BY <1>0, <2>1 DEF CopiesOK
  <2>3. bm25' = [bm25 EXCEPT ![p] = h]
    BY <1>10, <2>1
  <2> QED
    BY <1>0, <2>2, <2>3 DEF CopiesOK
<1>2. ASSUME NEW t \in Threads, Step(t), ~Reload(t)
      PROVE  UNCHANGED bm25
  BY <1>2, ChunkOutcome, EmbedOutcome, DeleteRowsOutcome, ReadOutcome, OpenOutcome,
     FillOutcome, ReplaceOutcome, UpsertOutcome, AppendOutcome, NextChannelOutcome,
     UnlinkOutcome DEF Step
<1>3. ASSUME NEW t \in Threads, Reload(t)
      PROVE  CopiesOK'
  <2>1. op[t] # None /\ op[t] \in Operation /\ op[t].at = "reload" /\ OpFits(op[t])
        /\ op[t].kind \in Kinds
    BY <1>0, <1>3, ReloadOutcome DEF OpsOK, OpOK, Operation
  <2>2. PICK p \in Pods, c \in Channels : p = PodOf[t] /\ c = Channel(t)
    BY <2>1, ChannelTouched, IndexAssumption DEF Channel
  <2>3. CASE corpus[c] # Torn /\ bm25' = [bm25 EXCEPT ![p][c] = corpus[c]]
    <3>1. corpus[c] \in Lines
      BY <1>0, <2>3 DEF StoresOK
    <3>2. PICK x \in Lines : x = corpus[c]
      BY <3>1
    <3> QED
      BY <1>10, <2>3, <3>2
  <2> QED
    BY <1>1, <1>3, <2>2, <2>3, ReloadOutcome
<1>4. ASSUME NEW p \in Pods, Crash(p)
      PROVE  CopiesOK'
  <2>1. corpus' \in [Channels -> Lines \cup {Torn}]
    BY <1>0, <1>4 DEF Crash, StoresOK
  <2>2. PICK h : h = [c \in Channels |-> IF c \in Loadable(corpus') THEN corpus'[c] ELSE None]
    OBVIOUS
  <2>3. h \in [Channels -> Lines \cup {None}]
    BY <2>1, <2>2 DEF Loadable
  <2>4. bm25' = [bm25 EXCEPT ![p] = h]
    BY <1>4, <2>2 DEF Crash
  <2> QED
    BY <1>0, <2>3, <2>4 DEF CopiesOK
<1>5. ASSUME NEW t \in Threads, NEW s \in Sources, Save(t, s) \/ Upload(t, s) \/ Delete(t, s)
      PROVE  CopiesOK'
  BY <1>1, <1>5 DEF Save, Upload, Delete
<1>6. ASSUME NEW s \in Sources, SaveDraft(s)
      PROVE  CopiesOK'
  BY <1>1, <1>6 DEF SaveDraft
<1>7. ASSUME NEW p \in Pods, CacheResults(p)
      PROVE  CopiesOK'
  BY <1>1, <1>7 DEF CacheResults
<1>11. ASSUME NEW p \in Pods, Retrieve(p)
       PROVE  CopiesOK'
  <2>1. PICK index : /\ index = IF bm25[p]["workspace"] = None THEN corpus["workspace"]
                                ELSE bm25[p]["workspace"]
                     /\ index # Torn
                     /\ bm25' = [bm25 EXCEPT ![p]["workspace"] = index]
    BY <1>11 DEF Retrieve
  <2>2. "workspace" \in Channels
    BY DEF Channels
  <2>3. index \in Lines
    BY <1>0, <2>1, <2>2 DEF CopiesOK, StoresOK
  <2> QED
    BY <1>10, <2>1, <2>2, <2>3
<1>8. CASE Expire
  BY <1>1, <1>8 DEF Expire
<1>9. CASE UNCHANGED vars
  BY <1>1, <1>9 DEF vars
<1> QED
  BY <1>1, <1>2, <1>3, <1>4, <1>5, <1>6, <1>7, <1>8, <1>9, <1>11, IndexAssumption DEF Next

\* What thread t does next is an operation again, and the others' are.
LEMMA OpsOKStep ==
    ASSUME OpsOK, NEW t \in Threads, OthersStay(t),
           op'[t] # None => op'[t] \in Operation /\ OpFits(op'[t])
    PROVE  OpsOK'
<1>1. \A u \in Threads : OpOK(op'[u])
  BY DEF OpsOK, OpOK, OthersStay
<1> QED
  BY <1>1 DEF OpsOK, OpOK, OthersStay, OpFits

LEMMA StepOpsOK ==
    ASSUME TypeInv, NEW t \in Threads, Step(t)
    PROVE  OpsOK'
<1>0. OpsOK
  BY DEF TypeInv
<1>1. op[t] # None => op[t] \in Operation /\ OpFits(op[t]) /\ op[t].kind \in Kinds
  BY <1>0 DEF OpsOK, OpOK, Operation
<1>2. CASE Returned(t)
  BY <1>0, <1>2, OpsOKStep DEF Returned
<1>3. CASE Chunk(t) /\ Chunked(t)
  <2>1. /\ op[t] # None /\ op'[t] \in Operation /\ OthersStay(t) /\ op[t].at = "chunk"
        /\ op'[t].at = "delete" /\ op'[t].kind = "reindex" /\ op[t].kind = "reindex"
        /\ op'[t].left = op[t].left /\ op'[t].text # None
    BY <1>3, ChunkOutcome DEF Chunked, Keeps
  <2>2. OpFits(op'[t])
    BY <1>1, <2>1, LeftFacts DEF OpFits
  <2> QED
    BY <1>0, <2>1, <2>2, OpsOKStep
<1>4. ASSUME NEW to \in Steps, Moved(t, to) \/ MovedFaulty(t, to),
             OpFits(op[t]) /\ op[t] \in Operation =>
                 /\ op[t].left # <<>> /\ to \notin {"chunk", "unlink"}
                 /\ op[t].at = "chunk" => op[t].kind = "add"
                 /\ to = "embed" /\ op[t].kind = "add" => op[t].left = BothChannels
                 /\ to \in {"embed", "upsert", "append"} =>
                        op[t].kind # "delete" /\ op[t].text \notin Blank
                 /\ op[t].kind = "add" => op[t].text # None /\ op[t].text \notin Blank
      PROVE  OpsOK'
  <2>1. /\ op[t] # None /\ op'[t] \in Operation /\ OthersStay(t)
        /\ op'[t].at = to /\ op'[t].kind = op[t].kind
        /\ op'[t].left = op[t].left /\ op'[t].text = op[t].text
    BY <1>4 DEF Moved, MovedFaulty, Keeps
  <2>2. op[t].kind = "delete" <=> op[t].text = None
    BY <1>1, <1>4, <2>1 DEF OpFits
  <2>3. OpFits(op'[t])
    BY <1>1, <1>4, <2>1, <2>2 DEF OpFits
  <2> QED
    BY <1>0, <2>1, <2>3, OpsOKStep
<1>5. CASE Chunk(t) /\ ~Chunked(t) /\ ~Returned(t)
  <2>1. op[t].at = "chunk" /\ op[t].kind = "add" /\ op[t].text \notin Blank
        /\ Moved(t, "embed") /\ op[t] # None
    BY <1>5, ChunkOutcome
  <2>2. op[t].left = BothChannels
    BY <1>1, <2>1 DEF OpFits, ChannelsOf
  <2>3. "embed" \in Steps
    BY DEF Steps
  <2> QED
    BY <1>1, <1>4, <2>1, <2>2, <2>3, LeftFacts DEF OpFits
<1>6. CASE Embed(t) /\ ~Returned(t)
  <2>1. /\ op[t] # None /\ op[t].at = "embed"
        /\ \/ op[t].kind = "add" /\ Moved(t, "delete")
           \/ Moved(t, "upsert")
    BY <1>6, EmbedOutcome
  <2>2. "delete" \in Steps /\ "upsert" \in Steps
    BY DEF Steps
  <2> QED
    BY <1>1, <1>4, <2>1, <2>2 DEF OpFits
<1>7. CASE /\ ~Returned(t)
           /\ \/ DeleteRows(t) \/ ReadCorpus(t) \/ OpenTmp(t) \/ FillTmp(t)
              \/ Upsert(t) \/ AppendLines(t) \/ Reload(t)
  <2>1. /\ op[t] # None
        /\ \/ op[t].at = "delete" /\ (Moved(t, "read") \/ MovedFaulty(t, "read"))
           \/ op[t].at = "read" /\ Moved(t, "open")
           \/ op[t].at = "open" /\ Moved(t, "fill")
           \/ op[t].at = "fill" /\ Moved(t, "replace")
           \/ op[t].at = "upsert" /\ (Moved(t, "append") \/ MovedFaulty(t, "append"))
           \/ op[t].at = "append" /\ Moved(t, "reload")
           \/ op[t].at = "reload" /\ Moved(t, "invalidate")
    BY <1>7, DeleteRowsOutcome, ReadOutcome, OpenOutcome, FillOutcome, UpsertOutcome,
       AppendOutcome, ReloadOutcome
  <2>2. {"read", "open", "fill", "replace", "append", "reload", "invalidate"} \subseteq Steps
    BY DEF Steps
  <2> QED
    BY <1>1, <1>4, <2>1, <2>2 DEF OpFits
<1>8. CASE ReplaceCorpus(t) /\ ~Returned(t)
  <2>1. op[t] # None /\ op[t].at = "replace" /\ Moved(t, AfterRemoval(op[t]))
    BY <1>8, ReplaceOutcome
  <2>2. PICK to \in Steps : to = AfterRemoval(op[t])
    BY <1>1, <2>1, AfterRemovalFacts
  <2>3. /\ to \in {"upsert", "reload", "embed"}
        /\ to = "upsert" <=> op[t].kind = "add"
        /\ to = "embed" <=> op[t].kind = "reindex" /\ op[t].text \notin Blank \cup {None}
    BY <1>1, <2>1, <2>2, AfterRemovalFacts
  <2>4. Moved(t, to)
    BY <2>1, <2>2
  <2> QED
    BY <1>1, <1>4, <2>1, <2>3, <2>4 DEF OpFits
<1>9. CASE NextChannel(t) /\ ~Returned(t)
  <2>1. /\ op[t] # None /\ op[t].at = "invalidate"
        /\ \/ op[t].left = BothChannels /\ Advanced(t, "delete", <<"workspace">>)
           \/ op[t].kind = "delete" /\ Advanced(t, "unlink", <<>>)
    BY <1>9, NextChannelOutcome
  <2>2. /\ op'[t] \in Operation /\ OthersStay(t)
        /\ op'[t].kind = op[t].kind /\ op'[t].text = op[t].text
    BY <2>1 DEF Advanced, Keeps
  <2>3. OpFits(op'[t])
    <3>1. CASE op[t].left = BothChannels /\ Advanced(t, "delete", <<"workspace">>)
      <4>1. op'[t].at = "delete" /\ op'[t].left = <<"workspace">>
        BY <3>1 DEF Advanced
      <4> QED
        BY <1>1, <2>1, <2>2, <3>1, <4>1, LeftFacts DEF OpFits
    <3>2. CASE op[t].kind = "delete" /\ Advanced(t, "unlink", <<>>)
      <4>1. op'[t].at = "unlink" /\ op'[t].left = <<>>
        BY <3>2 DEF Advanced
      <4> QED
        BY <1>1, <2>1, <2>2, <3>2, <4>1, LeftFacts DEF OpFits
    <3> QED
      BY <2>1, <3>1, <3>2
  <2> QED
    BY <1>0, <2>2, <2>3, OpsOKStep
<1>10. CASE Unlink(t)
  BY <1>2, <1>10, UnlinkOutcome
<1> QED
  BY <1>2, <1>3, <1>5, <1>6, <1>7, <1>8, <1>9, <1>10 DEF Step

LEMMA BegunOpsOK ==
    ASSUME OpsOK, BoundsOK, NEW t \in Threads, NEW kind \in Kinds, NEW s \in Sources, Draw,
           NEW step, step = (IF kind = "delete" THEN "delete" ELSE "chunk"),
           Begin(t, kind, s, step)
    PROVE  OpsOK'
<1>1. drawn' \in Texts /\ drawn' # None
  BY NewText
<1>2. Begun(t, kind, s, step)
  BY <1>1, BeginBegun
<1>3. kind = "reindex" => ChannelsOf(kind) = <<"workspace">>
  BY DEF ChannelsOf
<1>4. kind # "reindex" => ChannelsOf(kind) = BothChannels
  BY DEF ChannelsOf
<1>5. OpFits(op'[t])
  BY <1>1, <1>2, <1>3, <1>4, LeftFacts DEF Begun, OpFits, Kinds
<1>6. ASSUME NEW u \in Threads, u # t, op'[u] # None
      PROVE  op'[u] \in Operation /\ OpFits(op'[u])
  BY <1>2, <1>6 DEF Begun, Stands, OpsOK, OpOK, OpFits
<1> QED
  BY <1>2, <1>5, <1>6 DEF OpsOK, OpOK, Begun, OpFits

LEMMA NextOpsOK == TypeInv /\ [Next]_vars => OpsOK'
<1> SUFFICES ASSUME TypeInv, [Next]_vars
             PROVE  OpsOK'
  OBVIOUS
<1>0. OpsOK /\ BoundsOK
  BY DEF TypeInv
<1>1. ASSUME NEW t \in Threads, NEW s \in Sources, Save(t, s) \/ Upload(t, s) \/ Delete(t, s)
      PROVE  OpsOK'
  BY <1>0, <1>1, BegunOpsOK DEF Save, Upload, Delete, Kinds
<1>2. ASSUME NEW s \in Sources, SaveDraft(s)
      PROVE  OpsOK'
  <2>1. Drafted(s)
    BY <1>0, <1>2, DraftDrafted
  <2>2. ASSUME NEW u \in Threads, op'[u] # None
        PROVE  op'[u] \in Operation /\ OpFits(op'[u])
    BY <1>0, <2>1, <2>2 DEF Drafted, Stands, OpsOK, OpOK, OpFits
  <2> QED
    BY <2>1, <2>2 DEF OpsOK, OpOK, Drafted, OpFits
<1>3. ASSUME NEW p \in Pods, Crash(p)
      PROVE  OpsOK'
  BY <1>0, <1>3, CrashStands DEF OpsOK, OpOK, OpFits
<1>4. CASE UNCHANGED op
  BY <1>0, <1>4 DEF OpsOK, OpOK, OpFits
<1>5. ASSUME NEW p \in Pods, Retrieve(p) \/ CacheResults(p)
      PROVE  OpsOK'
  BY <1>4, <1>5 DEF Retrieve, CacheResults
<1>6. CASE Expire
  BY <1>4, <1>6 DEF Expire
<1>7. CASE UNCHANGED vars
  BY <1>4, <1>7 DEF vars
<1> QED
  BY <1>1, <1>2, <1>3, <1>5, <1>6, <1>7, StepOpsOK, IndexAssumption DEF Next

LEMMA TaintFacts ==
    ASSUME NEW e \in Entry \cup {None}
    PROVE  /\ Taint(e) \in Entry \cup {None}
           /\ Taint(e) = None \/ Taint(e).tainted
<1>1. CASE e = None
  BY <1>1 DEF Taint
<1>2. CASE e # None
  <2>1. e \in Entry /\ Taint(e) = [e EXCEPT !.tainted = TRUE]
    BY <1>2 DEF Taint
  <2> QED
    BY <2>1 DEF Entry
<1> QED
  BY <1>1, <1>2

LEMMA IndexedHits ==
    ASSUME NEW index \in [Sources -> Seq(Texts)]
    PROVE  Indexed(index) \subseteq Hits
<1>1. \A s \in Sources : \A i \in 1 .. Len(index[s]) : index[s][i] \in Texts
  OBVIOUS
<1> QED
  BY <1>1 DEF Indexed, Hits

\* What the steps do with the cached answers: nothing, or Redis and the pods
\* lose some and taint the others, or invalidate.
Replaced(old, new) == new = old \/ new = None \/ new = Taint(old)
LEMMA ReplacedOK ==
    ASSUME CacheOK, DOMAIN search' = Pods, DOMAIN local' = Pods,
           Replaced(shared, shared'),
           \A p \in Pods : Replaced(search[p], search'[p]) /\ Replaced(local[p], local'[p]),
           search' = [p \in Pods |-> search'[p]], local' = [p \in Pods |-> local'[p]]
    PROVE  CacheOK'
<1>1. ASSUME NEW old \in Entry \cup {None}, NEW new, Replaced(old, new)
      PROVE  new \in Entry \cup {None}
  BY <1>1, TaintFacts DEF Replaced
<1>2. shared' \in Entry \cup {None}
  BY <1>1 DEF CacheOK
<1>3. \A p \in Pods : search'[p] \in Entry \cup {None} /\ local'[p] \in Entry \cup {None}
  BY <1>1 DEF CacheOK
<1>4. search' \in [Pods -> Entry \cup {None}]
  BY <1>3
<1>5. local' \in [Pods -> Entry \cup {None}]
  BY <1>3
<1> QED
  BY <1>2, <1>4, <1>5 DEF CacheOK

LEMMA InvalidateOK ==
    ASSUME CacheOK, NEW channel, NEW pod, Invalidate(channel, pod)
    PROVE  CacheOK'
<1>1. CASE channel # "workspace"
  BY <1>1 DEF Invalidate, cache, CacheOK
<1>2. CASE channel = "workspace"
  <2>1. /\ search' = [p \in Pods |-> Taint(search[p])]
        /\ local' = [p \in Pods |-> IF p = pod THEN None ELSE Taint(local[p])]
        /\ shared' = None \/ shared' = Taint(shared)
    BY <1>2 DEF Invalidate
  <2> QED
    BY <2>1, ReplacedOK DEF Replaced
<1> QED
  BY <1>1, <1>2

\* What a search computes, from the index of its pod or from the file.
LEMMA RetrieveOutcome ==
    ASSUME NEW p \in Pods, Retrieve(p)
    PROVE  \E index :
               /\ index = IF bm25[p]["workspace"] = None THEN corpus["workspace"]
                                                         ELSE bm25[p]["workspace"]
               /\ index # Torn
               /\ search' = [search EXCEPT ![p] =
                      [hits |-> Merged(DenseRows, Indexed(index)),
                       tainted |-> index # corpus["workspace"]]]
               /\ bm25' = [bm25 EXCEPT ![p]["workspace"] = index]
               /\ UNCHANGED <<stores, op, shared, local, drawn, good>>
<1> WITNESS IF bm25[p]["workspace"] = None THEN corpus["workspace"]
                                           ELSE bm25[p]["workspace"]
<1> QED
  BY DEF Retrieve

LEMMA NextCacheOK == TypeInv /\ [Next]_vars => CacheOK'
<1> SUFFICES ASSUME TypeInv, [Next]_vars
             PROVE  CacheOK'
  OBVIOUS
<1>0. CacheOK /\ StoresOK /\ CopiesOK
  BY DEF TypeInv
<1>1. CASE UNCHANGED cache
  BY <1>0, <1>1 DEF cache, CacheOK
<1>2. CASE TaintAll
  BY <1>0, <1>2, ReplacedOK DEF TaintAll, Replaced
<1>3. ASSUME NEW t \in Threads, Step(t)
      PROVE  CacheOK'
  <2>1. CASE NextChannel(t)
    BY <1>0, <2>1, InvalidateOK, NextChannelOutcome
  <2>2. CASE ~NextChannel(t)
    <3>1. UNCHANGED cache \/ TaintAll
      BY <1>3, <2>2, ChunkOutcome, EmbedOutcome, DeleteRowsOutcome, ReadOutcome,
         OpenOutcome, FillOutcome,
         ReplaceOutcome, UpsertOutcome, AppendOutcome, ReloadOutcome, UnlinkOutcome DEF Step
    <3> QED
      BY <1>1, <1>2, <3>1
  <2> QED
    BY <2>1, <2>2
<1>4. ASSUME NEW p \in Pods, Retrieve(p)
      PROVE  CacheOK'
  <2>1. PICK index : /\ index = IF bm25[p]["workspace"] = None THEN corpus["workspace"]
                                ELSE bm25[p]["workspace"]
                     /\ index # Torn
                     /\ search' = [search EXCEPT ![p] =
                           [hits |-> Merged(DenseRows, Indexed(index)),
                            tainted |-> index # corpus["workspace"]]]
                     /\ UNCHANGED <<shared, local>>
    BY <1>4, RetrieveOutcome
  <2>2. PICK hits : hits = Merged(DenseRows, Indexed(index))
    OBVIOUS
  <2>3. PICK lag \in BOOLEAN : lag = (index # corpus["workspace"])
    OBVIOUS
  <2>4. vec["workspace"] \in [Sources -> Seq(Texts)] /\ index \in [Sources -> Seq(Texts)]
    BY <1>0, <2>1 DEF StoresOK, CopiesOK, Channels, Lines
  <2>5. hits \in SUBSET Hits
    BY <2>2, <2>4, IndexedHits DEF Merged, DenseRows
  <2>6. PICK e \in Entry : e = [hits |-> hits, tainted |-> lag]
    BY <2>3, <2>5 DEF Entry
  <2>7. search' = [search EXCEPT ![p] = e] /\ UNCHANGED <<shared, local>>
    BY <2>1, <2>2, <2>3, <2>6
  <2> QED
    BY <1>0, <2>7 DEF CacheOK
<1>5. ASSUME NEW p \in Pods, CacheResults(p)
      PROVE  CacheOK'
  BY <1>0, <1>5 DEF CacheResults, StoreShared, CacheOK
<1>6. ASSUME NEW p \in Pods, Crash(p)
      PROVE  CacheOK'
  <2>1. /\ search' = [q \in Pods |-> IF q = p THEN None ELSE Taint(search[q])]
        /\ local' = [q \in Pods |-> IF q = p THEN None ELSE Taint(local[q])]
        /\ shared' = Taint(shared)
    BY <1>6 DEF Crash
  <2> QED
    BY <1>0, <2>1, ReplacedOK DEF Replaced
<1>7. CASE Expire
  BY <1>0, <1>7 DEF Expire, CacheOK
<1>8. ASSUME NEW t \in Threads, NEW s \in Sources, Save(t, s) \/ Upload(t, s) \/ Delete(t, s)
      PROVE  CacheOK'
  BY <1>1, <1>8 DEF Save, Upload, Delete
<1>9. ASSUME NEW s \in Sources, SaveDraft(s)
      PROVE  CacheOK'
  BY <1>1, <1>9 DEF SaveDraft
<1>10. CASE UNCHANGED vars
  BY <1>1, <1>10 DEF vars
<1> QED
  BY <1>3, <1>4, <1>5, <1>6, <1>7, <1>8, <1>9, <1>10, IndexAssumption DEF Next

LEMMA NextBoundsOK == TypeInv /\ [Next]_vars => BoundsOK'
<1> SUFFICES ASSUME TypeInv, [Next]_vars
             PROVE  BoundsOK'
  OBVIOUS
<1>0. BoundsOK
  BY DEF TypeInv
<1>1. ASSUME drawn' = drawn \/ Draw, faults' = faults \/ Fault
      PROVE  BoundsOK'
  BY <1>0, <1>1, IndexAssumption DEF BoundsOK, Draw, Fault
<1>2. ASSUME NEW t \in Threads, Step(t)
      PROVE  BoundsOK'
  <2>1. CASE NextChannel(t)
    <3>1. drawn' = drawn /\ (faults' = faults \/ Fault)
      BY <2>1, NextChannelOutcome DEF Invalidate
    <3> QED
      BY <1>1, <3>1
  <2>2. CASE ~NextChannel(t)
    <3>1. drawn' = drawn /\ (faults' = faults \/ Fault)
      BY <1>2, <2>2, ChunkOutcome, EmbedOutcome, DeleteRowsOutcome, ReadOutcome,
         OpenOutcome, FillOutcome,
         ReplaceOutcome, UpsertOutcome, AppendOutcome, ReloadOutcome, UnlinkOutcome
         DEF Step, bounds
    <3> QED
      BY <1>1, <3>1
  <2> QED
    BY <2>1, <2>2
<1>3. ASSUME NEW t \in Threads, NEW s \in Sources, Save(t, s) \/ Upload(t, s) \/ Delete(t, s)
      PROVE  BoundsOK'
  BY <1>1, <1>3 DEF Save, Upload, Delete
<1>4. ASSUME NEW s \in Sources, SaveDraft(s)
      PROVE  BoundsOK'
  BY <1>1, <1>4 DEF SaveDraft
<1>5. ASSUME NEW p \in Pods, Retrieve(p) \/ CacheResults(p) \/ Crash(p)
      PROVE  BoundsOK'
  BY <1>1, <1>5 DEF Retrieve, CacheResults, Crash, Misses, RedisHasNone, StoreShared
<1>6. CASE Expire
  BY <1>1, <1>6 DEF Expire, bounds
<1>7. CASE UNCHANGED vars
  BY <1>1, <1>7 DEF vars, bounds
<1> QED
  BY <1>2, <1>3, <1>4, <1>5, <1>6, <1>7, IndexAssumption DEF Next

\* The pairs an operation of its kind adds when it ends well.
Pairs(t) == Touched(op[t].kind) \X {op[t].src}
LEMMA FinishGood ==
    ASSUME NEW t \in Threads, Finish(t, TRUE)
    PROVE  /\ \/ vecGood' = vecGood
              \/ /\ vecGood' = vecGood \cup Pairs(t)
                 /\ ~op[t].fault /\ op[t].met # "same"
           /\ \/ corpusGood' = corpusGood
              \/ /\ corpusGood' = corpusGood \cup Pairs(t)
                 /\ op[t].met = "nothing"
BY DEF Finish, Pairs

\* What a step does to the pairs that count as in sync.
LEMMA StepGood ==
    ASSUME TypeInv, NEW t \in Threads, Step(t)
    PROVE  \/ UNCHANGED good
           \/ OpenTmp(t) /\ vecGood' = vecGood /\ corpusGood' \subseteq corpusGood
           \/ Finish(t, TRUE) /\ (NextChannel(t) \/ Unlink(t)) /\ Returned(t)
<1>1. CASE OpenTmp(t)
  BY <1>1, OpenOutcome
<1>2. CASE ~OpenTmp(t)
  BY <1>2, ChunkOutcome, EmbedOutcome, DeleteRowsOutcome, ReadOutcome, FillOutcome,
     ReplaceOutcome, UpsertOutcome, AppendOutcome, ReloadOutcome, NextChannelOutcome,
     UnlinkOutcome DEF Step, good
<1> QED
  BY <1>1, <1>2

LEMMA NextGoodOK == TypeInv /\ [Next]_vars => GoodOK'
<1> SUFFICES ASSUME TypeInv, [Next]_vars
             PROVE  GoodOK'
  OBVIOUS
<1>0. GoodOK /\ OpsOK
  BY DEF TypeInv
<1>1. ASSUME vecGood' \subseteq vecGood, corpusGood' \subseteq corpusGood
      PROVE  GoodOK'
  BY <1>0, <1>1 DEF GoodOK
<1>2. ASSUME NEW t \in Threads, Step(t)
      PROVE  GoodOK'
  <2>1. CASE UNCHANGED good
    BY <1>1, <2>1 DEF good
  <2>2. CASE Finish(t, TRUE) /\ Returned(t)
    <3>1. op[t] \in Operation
      BY <1>0, <2>2 DEF OpsOK, OpOK, Returned
    <3>2. Pairs(t) \subseteq Channels \X Sources
      BY <3>1 DEF Pairs, Touched, Channels, Operation
    <3> QED
      BY <1>0, <2>2, <3>2, FinishGood DEF GoodOK
  <2>3. CASE vecGood' = vecGood /\ corpusGood' \subseteq corpusGood
    BY <1>1, <2>3
  <2> QED
    BY <1>2, <2>1, <2>2, <2>3, StepGood
<1>3. ASSUME NEW t \in Threads, NEW s \in Sources, Save(t, s) \/ Upload(t, s) \/ Delete(t, s)
      PROVE  GoodOK'
  BY <1>1, <1>3 DEF Save, Upload, Delete, Begin
<1>4. ASSUME NEW s \in Sources, SaveDraft(s)
      PROVE  GoodOK'
  BY <1>1, <1>4 DEF SaveDraft
<1>5. ASSUME NEW p \in Pods, Retrieve(p) \/ CacheResults(p) \/ Crash(p)
      PROVE  GoodOK'
  BY <1>1, <1>5 DEF Retrieve, CacheResults, Crash, good
<1>6. CASE Expire
  BY <1>1, <1>6 DEF Expire, good
<1>7. CASE UNCHANGED vars
  BY <1>1, <1>7 DEF vars, good
<1> QED
  BY <1>2, <1>3, <1>4, <1>5, <1>6, <1>7, IndexAssumption DEF Next

\* The rewritings: of the step's own thread, and of the others, which at most learn
\* that they are not alone or that their file has another name by now.
LEMMA RewriteRecord ==
    ASSUME NEW r \in Rewrite, NEW file \in {"none", "tmp", "corpus", "gone"}
    PROVE  LET x == [r EXCEPT !.own = FALSE]
               y == [r EXCEPT !.file = file]
               z == [[r EXCEPT !.file = file] EXCEPT !.own = TRUE]
           IN /\ x \in Rewrite /\ x.kept = r.kept /\ x.file = r.file
              /\ y \in Rewrite /\ y.kept = r.kept /\ y.file = file /\ y.own = r.own
              /\ z \in Rewrite /\ z.kept = r.kept /\ z.file = file /\ z.own = TRUE
BY DEF Rewrite

SameRewrite(x, y) ==
    /\ x = None => y = None
    /\ x # None => /\ y \in Rewrite /\ y # None /\ y.kept = x.kept
                   /\ y.file = "none" <=> x.file = "none"
                   /\ y.file = "tmp" => x.file = "tmp"

LEMMA WritesToFacts ==
    ASSUME TypeInv, NEW t \in Threads, NEW c, NEW file, NEW u \in Threads
    PROVE  /\ DOMAIN WritesTo(t, c, file) = Threads
           /\ WritesTo(t, c, file)[t] = rewrite[t]
           /\ SameRewrite(rewrite[u], WritesTo(t, c, file)[u])
           /\ WritesTo(t, c, file)[u] # rewrite[u] =>
                  rewrite[u] # None /\ rewrite[u].file = file /\ Channel(u) = c
<1>1. rewrite[u] = None \/ rewrite[u] \in Rewrite
  BY DEF TypeInv, RewritesOK, RewriteFits
<1>2. /\ DOMAIN WritesTo(t, c, file) = Threads
      /\ WritesTo(t, c, file)[t] = rewrite[t]
  BY DEF WritesTo
<1>3. CASE u # t /\ rewrite[u] # None /\ rewrite[u].file = file /\ Channel(u) = c
  <2>1. WritesTo(t, c, file)[u] = [rewrite[u] EXCEPT !.own = FALSE]
    BY <1>3 DEF WritesTo
  <2>2. PICK x : x = [rewrite[u] EXCEPT !.own = FALSE]
    OBVIOUS
  <2>3. x \in Rewrite /\ x.kept = rewrite[u].kept /\ x.file = rewrite[u].file
    BY <1>1, <1>3, <2>2, RewriteRecord
  <2>4. SameRewrite(rewrite[u], x)
    BY <1>3, <2>3, NoOperationAssumption DEF SameRewrite
  <2> QED
    BY <1>2, <1>3, <2>1, <2>2, <2>4
<1>4. CASE ~(u # t /\ rewrite[u] # None /\ rewrite[u].file = file /\ Channel(u) = c)
  <2>1. WritesTo(t, c, file)[u] = rewrite[u]
    BY <1>4 DEF WritesTo
  <2>2. SameRewrite(rewrite[u], rewrite[u])
    BY <1>1 DEF SameRewrite
  <2> QED
    BY <1>2, <2>1, <2>2
<1> QED
  BY <1>3, <1>4

LEMMA RenamedFacts ==
    ASSUME TypeInv, NEW c, NEW u \in Threads
    PROVE  /\ DOMAIN Renamed(c) = Threads
           /\ SameRewrite(rewrite[u], Renamed(c)[u])
           /\ Renamed(c)[u] # rewrite[u] =>
                  rewrite[u] # None /\ rewrite[u].file # "none" /\ Channel(u) = c
           /\ Renamed(c)[u] # None /\ Channel(u) = c => Renamed(c)[u].file # "tmp"
<1>1. rewrite[u] = None \/ rewrite[u] \in Rewrite
  BY DEF TypeInv, RewritesOK, RewriteFits
<1>2. DOMAIN Renamed(c) = Threads
  BY DEF Renamed
<1>3. CASE rewrite[u] # None /\ rewrite[u].file # "none" /\ Channel(u) = c
  <2>1. PICK file \in {"corpus", "gone"} :
            file = IF rewrite[u].file = "tmp" THEN "corpus" ELSE "gone"
    OBVIOUS
  <2>2. Renamed(c)[u] = [rewrite[u] EXCEPT !.file = file]
    BY <1>3, <2>1 DEF Renamed
  <2>3. PICK x : x = [rewrite[u] EXCEPT !.file = file]
    OBVIOUS
  <2>4. x \in Rewrite /\ x.kept = rewrite[u].kept /\ x.file = file
    BY <1>1, <1>3, <2>1, <2>3 DEF Rewrite
  <2>5. SameRewrite(rewrite[u], x) /\ x.file # "tmp"
    BY <1>3, <2>1, <2>4, NoOperationAssumption DEF SameRewrite
  <2> QED
    BY <1>2, <1>3, <2>2, <2>3, <2>5
<1>4. CASE ~(rewrite[u] # None /\ rewrite[u].file # "none" /\ Channel(u) = c)
  <2>1. Renamed(c)[u] = rewrite[u]
    BY <1>4 DEF Renamed
  <2>2. SameRewrite(rewrite[u], rewrite[u])
    BY <1>1 DEF SameRewrite
  <2> QED
    BY <1>2, <1>4, <2>1, <2>2
<1> QED
  BY <1>3, <1>4

\* What a step does to the rewriting of its own thread.
LEMMA OwnRewrite ==
    ASSUME TypeInv, NEW t \in Threads, Step(t)
    PROVE  /\ DOMAIN rewrite' = Threads
           /\ op[t].at = "open" =>
                  /\ rewrite'[t] \in Rewrite /\ rewrite'[t] # None
                  /\ rewrite'[t].kept = rewrite[t].kept
                  /\ rewrite'[t].file = "tmp" /\ rewrite'[t].own
           /\ op[t].at = "fill" => rewrite'[t] = None
           /\ op[t].at = "read" /\ op'[t] # None =>
                  /\ corpus[Channel(t)] # Torn
                  /\ rewrite'[t] =
                         [kept |-> [corpus[Channel(t)] EXCEPT ![op[t].src] = <<>>],
                          file |-> "none", own |-> FALSE]
           /\ op[t].at \notin {"open", "fill"} /\ (op[t].at # "read" \/ op'[t] = None) =>
                  rewrite'[t] = None
<1>0. RewriteFits(t) /\ DOMAIN rewrite = Threads
  BY DEF TypeInv, RewritesOK
<1>1. op[t] # None /\ op[t].at \notin {"open", "fill"} => rewrite[t] = None
  BY <1>0 DEF RewriteFits, At
<1>2. CASE OpenTmp(t)
  <2>1. PICK f : f = WritesTo(t, Channel(t), "tmp")
    OBVIOUS
  <2>2. DOMAIN f = Threads /\ f[t] = rewrite[t]
    BY <2>1, WritesToFacts
  <2>3. rewrite' = [f EXCEPT ![t].file = "tmp", ![t].own = TRUE] /\ op[t].at = "open"
    BY <1>2, <2>1, OpenOutcome
  <2>4. rewrite[t] \in Rewrite
    BY <1>2, KeptLines DEF OpenTmp
  <2>5. PICK z : z = [[rewrite[t] EXCEPT !.file = "tmp"] EXCEPT !.own = TRUE]
    OBVIOUS
  <2>6. z \in Rewrite /\ z.kept = rewrite[t].kept /\ z.file = "tmp" /\ z.own = TRUE
    BY <2>4, <2>5, RewriteRecord
  <2>7. rewrite'[t] = z /\ DOMAIN rewrite' = Threads
    BY <2>2, <2>3, <2>5
  <2> QED
    BY <2>3, <2>6, <2>7, NoOperationAssumption
<1>3. CASE FillTmp(t)
  <2>1. DOMAIN WritesTo(t, Channel(t), rewrite[t].file) = Threads
    BY WritesToFacts
  <2>2. rewrite' = [WritesTo(t, Channel(t), rewrite[t].file) EXCEPT ![t] = None]
        /\ op[t].at = "fill"
    BY <1>3, FillOutcome
  <2> QED
    BY <2>1, <2>2
<1>4. CASE ReadCorpus(t)
  <2>1. rewrite[t] = None
    BY <1>1, <1>4, ReadOutcome
  <2> QED
    BY <1>0, <1>4, <2>1, ReadOutcome DEF Returned, Moved
<1>5. CASE ReplaceCorpus(t)
  <2>1. rewrite[t] = None /\ op[t].at = "replace"
    BY <1>1, <1>5, ReplaceOutcome
  <2>2. SameRewrite(rewrite[t], Renamed(Channel(t))[t])
        /\ DOMAIN Renamed(Channel(t)) = Threads
    BY RenamedFacts
  <2>3. rewrite' = rewrite \/ rewrite' = Renamed(Channel(t))
    BY <1>5, ReplaceOutcome
  <2> QED
    BY <1>0, <2>1, <2>2, <2>3 DEF SameRewrite
<1>6. CASE AppendLines(t)
  <2>1. rewrite[t] = None /\ op[t].at = "append"
    BY <1>1, <1>6, AppendOutcome
  <2>2. rewrite' = WritesTo(t, Channel(t), "corpus")
    BY <1>6, AppendOutcome
  <2>3. DOMAIN rewrite' = Threads /\ rewrite'[t] = rewrite[t]
    BY <2>2, WritesToFacts
  <2> QED
    BY <2>1, <2>3
<1>7. CASE Chunk(t) \/ Embed(t) \/ DeleteRows(t) \/ Upsert(t) \/ Reload(t)
               \/ NextChannel(t) \/ Unlink(t)
  <2>1. op[t] # None /\ op[t].at \notin {"open", "fill", "read"} /\ rewrite' = rewrite
    BY <1>7, ChunkOutcome, EmbedOutcome, DeleteRowsOutcome, UpsertOutcome, ReloadOutcome,
       NextChannelOutcome, UnlinkOutcome DEF stores
  <2> QED
    BY <1>0, <1>1, <2>1
<1> QED
  BY <1>2, <1>3, <1>4, <1>5, <1>6, <1>7 DEF Step

LEMMA OthersRewrite ==
    ASSUME TypeInv, NEW t \in Threads, Step(t), NEW u \in Threads, u # t
    PROVE  /\ SameRewrite(rewrite[u], rewrite'[u])
           /\ rewrite'[u] # rewrite[u] =>
                  /\ rewrite[u] # None /\ Channel(u) = Channel(t)
                  /\ \/ rewrite[u].file = "corpus"
                     \/ op[t].at = "open" /\ rewrite[u].file = "tmp"
                     \/ op[t].at = "fill"
                     \/ op[t].at = "replace" /\ rewrite[u].file # "none"
<1>0. rewrite[u] = None \/ rewrite[u] \in Rewrite
  BY DEF TypeInv, RewritesOK, RewriteFits
<1>1. SameRewrite(rewrite[u], rewrite[u])
  BY <1>0 DEF SameRewrite
<1>2. CASE OpenTmp(t)
  <2>1. PICK f : f = WritesTo(t, Channel(t), "tmp")
    OBVIOUS
  <2>2. rewrite' = [f EXCEPT ![t].file = "tmp", ![t].own = TRUE] /\ op[t].at = "open"
    BY <1>2, <2>1, OpenOutcome
  <2>3. rewrite'[u] = f[u]
    BY <2>1, <2>2, WritesToFacts
  <2> QED
    BY <2>1, <2>2, <2>3, WritesToFacts
<1>3. CASE FillTmp(t)
  <2>1. PICK file, f : file = rewrite[t].file /\ f = WritesTo(t, Channel(t), file)
    OBVIOUS
  <2>2. rewrite' = [f EXCEPT ![t] = None] /\ op[t].at = "fill"
    BY <1>3, <2>1, FillOutcome
  <2>3. rewrite'[u] = f[u]
    BY <2>1, <2>2, WritesToFacts
  <2> QED
    BY <2>1, <2>2, <2>3, WritesToFacts
<1>4. CASE ReadCorpus(t)
  <2>1. rewrite'[u] = rewrite[u]
    BY <1>4, ReadOutcome DEF TypeInv, RewritesOK
  <2> QED
    BY <1>1, <2>1
<1>5. CASE ReplaceCorpus(t)
  <2>1. op[t].at = "replace" /\ (rewrite' = rewrite \/ rewrite' = Renamed(Channel(t)))
    BY <1>5, ReplaceOutcome
  <2> QED
    BY <1>1, <2>1, RenamedFacts
<1>6. CASE AppendLines(t)
  <2>1. rewrite' = WritesTo(t, Channel(t), "corpus")
    BY <1>6, AppendOutcome
  <2> QED
    BY <2>1, WritesToFacts
<1>7. CASE Chunk(t) \/ Embed(t) \/ DeleteRows(t) \/ Upsert(t) \/ Reload(t)
               \/ NextChannel(t) \/ Unlink(t)
  <2>1. rewrite' = rewrite
    BY <1>7, ChunkOutcome, EmbedOutcome, DeleteRowsOutcome, UpsertOutcome, ReloadOutcome,
       NextChannelOutcome, UnlinkOutcome DEF stores
  <2> QED
    BY <1>1, <2>1
<1> QED
  BY <1>2, <1>3, <1>4, <1>5, <1>6, <1>7 DEF Step

\* A .tmp file that is there stays, unless it gets the name of the corpus file.
LEMMA TmpStays ==
    ASSUME TypeInv, NEW t \in Threads, Step(t), NEW u \in Threads, u # t,
           rewrite'[u] # None, rewrite'[u].file = "tmp", Channel(u) \in Channels,
           tmp[Channel(u)] # None
    PROVE  tmp'[Channel(u)] # None
<1>1. StoresOK
  BY DEF TypeInv
<1>2. \A lines \in Lines \cup {Torn} : lines # None
  BY TornAssumption
<1>3. CASE OpenTmp(t)
  <2>1. op[t] # None /\ rewrite[t].kept \in Lines
    BY <1>3, OpenOutcome, KeptLines
  <2>2. PICK lines \in Partly(rewrite[t].kept) : tmp' = [tmp EXCEPT ![Channel(t)] = lines]
    BY <1>3, OpenOutcome
  <2>3. lines # None
    BY <1>2, <2>1, FileLines
  <2> QED
    BY <1>1, <2>2, <2>3 DEF StoresOK
<1>4. CASE FillTmp(t)
  <2>1. PICK c \in Channels, lines \in Lines \cup {Torn} :
            tmp' = IF rewrite[t].file = "tmp" THEN [tmp EXCEPT ![c] = lines] ELSE tmp
    BY <1>4, FillLines
  <2> QED
    BY <1>1, <1>2, <2>1 DEF StoresOK
<1>5. CASE ReplaceCorpus(t)
  <2>1. CASE UNCHANGED tmp
    BY <2>1
  <2>2. CASE /\ tmp' = [tmp EXCEPT ![Channel(t)] = None]
             /\ rewrite' = Renamed(Channel(t))
    <3>1. Channel(u) # Channel(t)
      BY <2>2, RenamedFacts
    <3> QED
      BY <1>1, <2>2, <3>1 DEF StoresOK
  <2> QED
    BY <1>5, <2>1, <2>2, ReplaceOutcome
<1>6. CASE Chunk(t) \/ Embed(t) \/ DeleteRows(t) \/ ReadCorpus(t) \/ Upsert(t)
               \/ AppendLines(t) \/ Reload(t) \/ NextChannel(t) \/ Unlink(t)
  BY <1>6, ChunkOutcome, EmbedOutcome, DeleteRowsOutcome, ReadOutcome, UpsertOutcome,
     AppendOutcome, ReloadOutcome, NextChannelOutcome, UnlinkOutcome DEF stores
<1> QED
  BY <1>3, <1>4, <1>5, <1>6 DEF Step

LEMMA StandRewrite ==
    ASSUME TypeInv, NEW u \in Threads, Stands(u), op'[u] # None \/ rewrite'[u] = None,
           rewrite'[u] = None \/ SameRewrite(rewrite[u], rewrite'[u]),
           op'[u] # None => SameRewrite(rewrite[u], rewrite'[u]),
           rewrite'[u] # None /\ rewrite'[u].file = "tmp" /\ Channel(u) \in Channels
               /\ tmp[Channel(u)] # None => tmp'[Channel(u)] # None
    PROVE  RewriteFits(u)'
<1>1. RewriteFits(u) /\ OpOK(op[u])
  BY DEF TypeInv, RewritesOK, OpsOK
<1>2. CASE op'[u] = None
  BY <1>2 DEF RewriteFits, At
<1>3. CASE op'[u] # None
  <2>1. /\ op[u] # None /\ op'[u].at = op[u].at /\ op'[u].left = op[u].left
        /\ SameRewrite(rewrite[u], rewrite'[u])
    BY <1>3 DEF Stands
  <2>2. Channel(u)' = Channel(u)
    BY <2>1 DEF Channel
  <2>3. rewrite[u] # None => Channel(u) \in Channels
    <3>1. rewrite[u] # None => op[u].at # "unlink"
      BY <1>1 DEF RewriteFits, At
    <3>2. OpFits(op[u]) /\ op[u].kind \in Kinds
      BY <1>1, <2>1 DEF OpOK, Operation
    <3> QED
      BY <3>1, <3>2, ChannelTouched DEF Channel
  <2>4. rewrite'[u] # None /\ rewrite'[u].file = "tmp" => tmp'[Channel(u)] # None
    BY <1>1, <2>1, <2>3 DEF RewriteFits, SameRewrite
  <2>5. (At(u, "open") <=> At(u, "open")') /\ (At(u, "fill") <=> At(u, "fill")')
    BY <1>3, <2>1 DEF At
  <2> QED
    BY <1>1, <2>1, <2>2, <2>4, <2>5 DEF RewriteFits, SameRewrite
<1> QED
  BY <1>2, <1>3

\* Which step it is.
LEMMA StepAt ==
    ASSUME NEW t \in Threads, Step(t)
    PROVE  /\ op[t].at = "read" => ReadCorpus(t)
           /\ op[t].at = "open" => OpenTmp(t)
           /\ op[t].at = "fill" => FillTmp(t)
           /\ op[t].at = "replace" => ReplaceCorpus(t)
           /\ op[t].at = "append" => AppendLines(t)
<1>1. /\ Chunk(t) => op[t].at = "chunk"
      /\ Embed(t) => op[t].at = "embed"
      /\ DeleteRows(t) => op[t].at = "delete"
  BY DEF Chunk, Embed, DeleteRows, At
<1>2. /\ ReadCorpus(t) => op[t].at = "read"
      /\ OpenTmp(t) => op[t].at = "open"
      /\ FillTmp(t) => op[t].at = "fill"
  BY DEF ReadCorpus, OpenTmp, FillTmp, At
<1>3. /\ ReplaceCorpus(t) => op[t].at = "replace"
      /\ Upsert(t) => op[t].at = "upsert"
      /\ AppendLines(t) => op[t].at = "append"
  BY DEF ReplaceCorpus, Upsert, AppendLines, At
<1>4. /\ Reload(t) => op[t].at = "reload"
      /\ NextChannel(t) => op[t].at = "invalidate"
      /\ Unlink(t) => op[t].at = "unlink"
  BY DEF Reload, NextChannel, Unlink, At
<1> QED
  BY <1>1, <1>2, <1>3, <1>4 DEF Step

\* Where a step that reads, opens and fills goes.
LEMMA StepTo ==
    ASSUME TypeInv, NEW t \in Threads, Step(t)
    PROVE  /\ op[t] # None /\ op[t] \in Operation /\ OthersStay(t)
           /\ op'[t] # None => op'[t] \in Operation /\ Keeps(op[t], op'[t])
           /\ op'[t] # None /\ op[t].at = "read" => op'[t].at = "open"
           /\ op'[t] # None /\ op[t].at = "open" => op'[t].at = "fill"
           /\ op'[t] # None /\ op[t].at = "fill" => op'[t].at = "replace"
           /\ op[t].at \in {"open", "fill"} => op'[t] # None
           /\ op'[t] # None /\ op[t].at \in {"read", "open", "fill"} =>
                  op'[t].left = op[t].left /\ op'[t].text = op[t].text
           /\ op'[t] # None /\ op[t].at \notin {"read", "open", "fill"} =>
                  op'[t].at \notin {"open", "fill", "replace"}
<1>1. CASE Chunk(t)
  BY <1>1, ChunkOutcome DEF Chunked, Moved, Returned
<1>2. CASE Embed(t)
  BY <1>2, EmbedOutcome DEF Moved, Returned
<1>3. CASE DeleteRows(t)
  BY <1>3, DeleteRowsOutcome DEF Moved, MovedFaulty, Keeps
<1>4. CASE ReadCorpus(t)
  BY <1>4, ReadOutcome DEF Moved, Returned
<1>5. CASE OpenTmp(t)
  BY <1>5, OpenOutcome DEF Moved
<1>6. CASE FillTmp(t)
  BY <1>6, FillOutcome DEF Moved
<1>7. CASE ReplaceCorpus(t)
  BY <1>7, ReplaceOutcome, AfterRemovalFacts DEF Moved, Returned
<1>8. CASE Upsert(t)
  BY <1>8, UpsertOutcome DEF Moved, MovedFaulty, Keeps
<1>9. CASE AppendLines(t)
  BY <1>9, AppendOutcome DEF Moved
<1>10. CASE Reload(t)
  BY <1>10, ReloadOutcome DEF Moved, Returned
<1>11. CASE NextChannel(t)
  BY <1>11, NextChannelOutcome DEF Advanced, Returned
<1>12. CASE Unlink(t)
  BY <1>12, UnlinkOutcome DEF Returned
<1> QED
  BY <1>1, <1>2, <1>3, <1>4, <1>5, <1>6, <1>7, <1>8, <1>9, <1>10, <1>11, <1>12 DEF Step

LEMMA StepRewritesOK ==
    ASSUME TypeInv, NEW t \in Threads, Step(t)
    PROVE  RewritesOK'
<1>0. op[t] # None /\ OthersStay(t) /\ DOMAIN rewrite' = Threads
  BY StepTo, OwnRewrite
<1>1. ASSUME NEW u \in Threads, u # t
      PROVE  RewriteFits(u)'
  <2>1. Stands(u) /\ op'[u] = op[u]
    BY <1>0, <1>1, OthersStand DEF OthersStay
  <2>2. SameRewrite(rewrite[u], rewrite'[u])
    BY <1>1, OthersRewrite
  <2>3. RewriteFits(u)
    BY DEF TypeInv, RewritesOK
  <2>4. op'[u] # None \/ rewrite'[u] = None
    BY <2>1, <2>2, <2>3 DEF RewriteFits, At, SameRewrite
  <2>5. rewrite'[u] # None /\ rewrite'[u].file = "tmp" /\ Channel(u) \in Channels
            /\ tmp[Channel(u)] # None => tmp'[Channel(u)] # None
    BY <1>1, TmpStays
  <2> QED
    BY <2>1, <2>2, <2>4, <2>5, StandRewrite
<1>2. RewriteFits(t)'
  <2>0. op[t] \in Operation /\ OpFits(op[t]) /\ op[t].kind \in Kinds
    BY <1>0 DEF TypeInv, OpsOK, OpOK, Operation
  <2>1. CASE op[t].at = "open"
    <3>1. op'[t] # None /\ op'[t].at = "fill" /\ op'[t].left = op[t].left
      BY <2>1, StepTo
    <3>2. /\ rewrite'[t] \in Rewrite /\ rewrite'[t] # None /\ rewrite'[t].file = "tmp"
      BY <2>1, OwnRewrite
    <3>3. OpenTmp(t)
      BY <2>1, StepAt
    <3>4. Channel(t) \in Channels /\ rewrite[t].kept \in Lines
      BY <1>0, <2>0, <2>1, ChannelTouched, KeptLines DEF Channel
    <3>5. PICK lines \in Partly(rewrite[t].kept) :
              tmp' = [tmp EXCEPT ![Channel(t)] = lines]
      BY <3>3, OpenOutcome
    <3>6. lines # None
      BY <3>4, TornAssumption, FileLines
    <3>7. tmp'[Channel(t)] # None
      BY <3>4, <3>5, <3>6 DEF TypeInv, StoresOK
    <3>8. Channel(t)' = Channel(t)
      BY <3>1 DEF Channel
    <3> QED
      BY <3>1, <3>2, <3>7, <3>8 DEF RewriteFits, At
  <2>2. CASE op[t].at = "fill"
    BY <2>2, StepTo, OwnRewrite DEF RewriteFits, At
  <2>3. CASE op[t].at = "read" /\ op'[t] # None
    <3>1. op'[t].at = "open" /\ corpus[Channel(t)] # Torn
          /\ rewrite'[t] = [kept |-> [corpus[Channel(t)] EXCEPT ![op[t].src] = <<>>],
                            file |-> "none", own |-> FALSE]
      BY <2>3, StepTo, OwnRewrite
    <3>2. Channel(t) \in Channels
      BY <1>0, <2>0, <2>3, ChannelTouched DEF Channel
    <3>3. PICK f : f = corpus[Channel(t)]
      OBVIOUS
    <3>4. f \in Lines
      BY <3>1, <3>2, <3>3 DEF TypeInv, StoresOK
    <3>5. PICK k : k = [f EXCEPT ![op[t].src] = <<>>]
      OBVIOUS
    <3>6. k \in Lines
      <4>1. <<>> \in Seq(Texts)
        OBVIOUS
      <4> QED
        BY <3>4, <3>5, <4>1 DEF Lines
    <3>7. rewrite'[t] = [kept |-> k, file |-> "none", own |-> FALSE]
      BY <3>1, <3>3, <3>5
    <3>8. rewrite'[t] \in Rewrite /\ rewrite'[t].file = "none"
      BY <3>6, <3>7 DEF Rewrite
    <3> QED
      BY <2>3, <3>1, <3>8, NoOperationAssumption DEF RewriteFits, At
  <2>4. CASE op[t].at \notin {"open", "fill"} /\ (op[t].at # "read" \/ op'[t] = None)
    <3>1. rewrite'[t] = None
      BY <2>4, OwnRewrite
    <3>2. op'[t] # None => op'[t].at \notin {"open", "fill"}
      BY <2>4, StepTo
    <3> QED
      BY <3>1, <3>2 DEF RewriteFits, At
  <2> QED
    BY <2>1, <2>2, <2>3, <2>4
<1> QED
  BY <1>0, <1>1, <1>2 DEF RewritesOK

LEMMA NextRewritesOK == TypeInv /\ [Next]_vars => RewritesOK'
<1> SUFFICES ASSUME TypeInv, [Next]_vars
             PROVE  RewritesOK'
  OBVIOUS
<1>0. RewritesOK /\ OpsOK /\ BoundsOK
  BY DEF TypeInv
<1>1. CASE UNCHANGED <<op, rewrite, tmp>>
  BY <1>0, <1>1 DEF RewritesOK, RewriteFits, At, Channel
<1>2. ASSUME UNCHANGED <<tmp, rewrite>>, \A u \in Threads : Stands(u) \/ op[u] = None,
             \A u \in Threads : op[u] # None => op'[u] # None,
             \A u \in Threads : op[u] = None /\ op'[u] # None =>
                 op'[u].at \in {"chunk", "delete"}
      PROVE  RewritesOK'
  <2>1. ASSUME NEW u \in Threads
        PROVE  RewriteFits(u)'
    <3>1. RewriteFits(u)
      BY <1>0 DEF RewritesOK
    <3>2. CASE op[u] = None
      BY <1>2, <3>1, <3>2 DEF RewriteFits, At
    <3>3. CASE op[u] # None
      <4>1. SameRewrite(rewrite[u], rewrite'[u])
        BY <1>2, <3>1 DEF SameRewrite, RewriteFits
      <4> QED
        BY <1>2, <3>3, <4>1, StandRewrite
    <3> QED
      BY <3>2, <3>3
  <2> QED
    BY <1>0, <1>2, <2>1 DEF RewritesOK
<1>3. ASSUME NEW t \in Threads, NEW s \in Sources, Save(t, s) \/ Upload(t, s) \/ Delete(t, s)
      PROVE  RewritesOK'
  <2>1. UNCHANGED <<tmp, rewrite>> /\ Draw
    BY <1>3 DEF Save, Upload, Delete, stores
  <2>2. PICK kind \in Kinds, step \in {"chunk", "delete"} : Begin(t, kind, s, step)
    BY <1>3 DEF Save, Upload, Delete, Kinds
  <2>3. Begun(t, kind, s, step)
    BY <1>0, <2>1, <2>2, NewText, BeginBegun
  <2>4. \A u \in Threads : Stands(u) \/ op[u] = None
    BY <2>3 DEF Begun
  <2>5. \A u \in Threads : op[u] # None => op'[u] # None
    BY <2>3 DEF Begun
  <2>6. \A u \in Threads : op[u] = None /\ op'[u] # None => op'[u].at \in {"chunk", "delete"}
    BY <2>2, <2>3 DEF Begun, Stands
  <2> QED
    BY <1>2, <2>1, <2>4, <2>5, <2>6
<1>4. ASSUME NEW s \in Sources, SaveDraft(s)
      PROVE  RewritesOK'
  <2>1. UNCHANGED <<tmp, rewrite>> /\ Drafted(s)
    BY <1>0, <1>4, DraftDrafted DEF SaveDraft
  <2> QED
    BY <1>2, <2>1 DEF Drafted, Stands
<1>5. ASSUME NEW t \in Threads, Step(t)
      PROVE  RewritesOK'
  BY <1>5, StepRewritesOK
<1>6. ASSUME NEW p \in Pods, Crash(p)
      PROVE  RewritesOK'
  <2>1. /\ rewrite' = [t \in Threads |-> IF PodOf[t] = p THEN None ELSE rewrite[t]]
        /\ op' = [t \in Threads |-> IF PodOf[t] = p THEN None ELSE op[t]]
        /\ UNCHANGED tmp
    BY <1>6 DEF Crash
  <2> QED
    BY <1>0, <2>1 DEF RewritesOK, RewriteFits, At, Channel
<1>7. CASE (\E p \in Searching : Retrieve(p) \/ CacheResults(p)) \/ Expire
  BY <1>1, <1>7 DEF Retrieve, CacheResults, Expire, stores
<1> QED
  BY <1>1, <1>3, <1>4, <1>5, <1>6, <1>7 DEF Next, vars, stores

LEMMA NextTypeInv == TypeInv /\ [Next]_vars => TypeInv'
BY NextStoresOK, NextCopiesOK, NextOpsOK, NextRewritesOK, NextCacheOK, NextBoundsOK, NextGoodOK DEF TypeInv

LEMMA TypeInvariant == Spec => []TypeInv
<1>1. QED
  BY InitTypeInv, NextTypeInv, PTL DEF Spec

LEMMA TypeInvTypeOK == TypeInv => TypeOK
BY DEF TypeInv, TypeOK, StoresOK, CopiesOK, OpsOK, OpOK, RewritesOK, RewriteFits, CacheOK,
   BoundsOK, GoodOK

\* Every variable keeps its type: an operation that inserts has a text to
\* insert, in one of the channels of its kind (document_manager).
THEOREM IndexTypeCorrect == Spec => []TypeOK
<1>1. QED
  BY TypeInvariant, TypeInvTypeOK, PTL

-----------------------------------------------------------------------------
\* Overlaps are known, and what nobody else has touched is still on disk

\* A step of t leaves the other operations alone, and its own is on the same
\* source as before.
LEMMA StepKeeps ==
    ASSUME TypeInv, NEW t \in Threads, Step(t)
    PROVE  /\ op[t] # None /\ op[t] \in Operation /\ OpFits(op[t])
           /\ OthersStay(t)
           /\ op'[t] = None \/ Keeps(op[t], op'[t])
<1>1. /\ op[t] # None /\ OthersStay(t)
      /\ op'[t] = None \/ Keeps(op[t], op'[t])
  <2> USE DEF Moved, MovedFaulty, Advanced, Returned, Chunked
  <2>1. CASE Chunk(t) \/ Embed(t) \/ DeleteRows(t)
    BY <2>1, ChunkOutcome, EmbedOutcome, DeleteRowsOutcome
  <2>2. CASE ReadCorpus(t) \/ OpenTmp(t) \/ FillTmp(t) \/ ReplaceCorpus(t) \/ Upsert(t) \/ AppendLines(t)
    BY <2>2, ReadOutcome, OpenOutcome, FillOutcome, ReplaceOutcome, UpsertOutcome, AppendOutcome
  <2>3. CASE Reload(t) \/ NextChannel(t) \/ Unlink(t)
    BY <2>3, ReloadOutcome, NextChannelOutcome, UnlinkOutcome
  <2> QED
    BY <2>1, <2>2, <2>3 DEF Step
<1> QED
  BY <1>1 DEF TypeInv, OpsOK, OpOK

LEMMA StandMutual ==
    ASSUME MetMutual, NEW t \in Threads, NEW u \in Threads, t # u,
           Stands(t), Stands(u), op'[t] # None, op'[u] # None
    PROVE  /\ op'[t].met # "nothing"
           /\ op'[t].src = op'[u].src => op'[t].met = "same"
<1>1. op[t].met # "nothing" /\ (op[t].src = op[u].src => op[t].met = "same")
  BY DEF MetMutual, Active, Stands
<1> QED
  BY <1>1 DEF Stands

LEMMA StandText ==
    ASSUME NEW u \in Threads, u \in Active => TextFits(u), Stands(u), op'[u] # None,
           op'[u].met # "same" =>
               \A c \in Touched(op[u].kind) : md'[c][op[u].src] = md[c][op[u].src]
    PROVE  TextFits(u)'
BY DEF Stands, TextFits, Active

LEMMA StepOverlap ==
    ASSUME TypeInv, OverlapInv, NEW t \in Threads, Step(t)
    PROVE  OverlapInv'
<1>1. /\ op[t] # None /\ OthersStay(t) /\ op[t] \in Operation /\ OpFits(op[t])
      /\ op'[t] = None \/ Keeps(op[t], op'[t])
  BY StepKeeps
<1>2. \A u \in Threads \ {t} : Stands(u)
  BY <1>1, OthersStand
<1>3. MetMutual'
  <2> SUFFICES ASSUME NEW u \in Threads, NEW v \in Threads, op'[u] # None, op'[v] # None,
                      u # v
               PROVE  /\ op'[u].met # "nothing"
                      /\ op'[u].src = op'[v].src => op'[u].met = "same"
    BY DEF MetMutual, Active
  <2>1. op[u] # None /\ Keeps(op[u], op'[u]) /\ op[v] # None /\ Keeps(op[v], op'[v])
    BY <1>1 DEF OthersStay, Keeps
  <2> QED
    BY <2>1 DEF OverlapInv, MetMutual, Active, Keeps
<1>4. md' = md \/ (op'[t] = None /\ \A u \in Threads \ {t} :
                       op'[u] # None /\ op'[u].met # "same" =>
                       \A c \in Touched(op[u].kind) : md'[c][op[u].src] = md[c][op[u].src])
  <2>1. CASE ~Unlink(t)
    BY <2>1, ChunkOutcome, EmbedOutcome, DeleteRowsOutcome, ReadOutcome, OpenOutcome, FillOutcome,
       ReplaceOutcome,
       UpsertOutcome, AppendOutcome, ReloadOutcome, NextChannelOutcome DEF Step, stores
  <2>2. CASE Unlink(t)
    <3>1. op'[t] = None /\ md' = [c \in Channels |-> [md[c] EXCEPT ![op[t].src] = None]]
      BY <2>2, UnlinkOutcome DEF Returned
    <3>2. ASSUME NEW u \in Threads \ {t}, op'[u] # None, op'[u].met # "same",
                 NEW c \in Touched(op[u].kind)
          PROVE  md'[c][op[u].src] = md[c][op[u].src]
      <4>1. op[u] # None /\ op[u].met # "same"
        BY <1>1, <3>2 DEF OthersStay
      <4>2. op[u].src # op[t].src
        BY <1>1, <4>1 DEF OverlapInv, MetMutual, Active
      <4>3. c \in Channels
        BY DEF Touched, Channels
      <4>4. md[c] \in [Sources -> Texts \cup {None}] /\ op[u].src \in Sources
        BY <4>1, <4>3 DEF TypeInv, StoresOK, OpsOK, OpOK, Operation
      <4> QED
        BY <3>1, <4>2, <4>3, <4>4
    <3> QED
      BY <3>1, <3>2
  <2> QED
    BY <2>1, <2>2
<1>5. ASSUME NEW u \in Threads, u # t, op'[u] # None
      PROVE  TextFits(u)'
  <2>1. u \in Active => TextFits(u)
    BY DEF OverlapInv, TextOnDisk
  <2> QED
    BY <1>2, <1>4, <1>5, <2>1, StandText
<1>6. ASSUME op'[t] # None
      PROVE  TextFits(t)'
  <2>1. TextFits(t) /\ md' = md
    BY <1>1, <1>4, <1>6 DEF OverlapInv, TextOnDisk, Active
  <2>2. CASE Chunked(t)
    BY <2>1, <2>2 DEF Chunked, Keeps, TextFits, Touched
  <2>3. CASE ~Chunked(t)
    <3>1. op'[t].text = op[t].text /\ (op[t].at = "chunk" => op[t].kind = "add")
      <4> USE DEF Moved, MovedFaulty, Advanced, Returned
      <4>1. CASE Chunk(t) \/ Embed(t) \/ DeleteRows(t)
        BY <1>6, <2>3, <4>1, ChunkOutcome, EmbedOutcome, DeleteRowsOutcome
      <4>2. CASE ReadCorpus(t) \/ OpenTmp(t) \/ FillTmp(t) \/ ReplaceCorpus(t) \/ Upsert(t) \/ AppendLines(t)
        BY <1>6, <4>2, ReadOutcome, OpenOutcome, FillOutcome, ReplaceOutcome, UpsertOutcome, AppendOutcome
      <4>3. CASE Reload(t) \/ NextChannel(t) \/ Unlink(t)
        BY <1>6, <4>3, ReloadOutcome, NextChannelOutcome, UnlinkOutcome
      <4> QED
        BY <4>1, <4>2, <4>3 DEF Step
    <3> QED
      BY <1>1, <1>6, <2>1, <3>1 DEF Keeps, TextFits
  <2> QED
    BY <2>2, <2>3
<1>7. TextOnDisk'
  BY <1>5, <1>6 DEF TextOnDisk, Active
<1> QED
  BY <1>3, <1>7 DEF OverlapInv

\* A new operation, and its file written in the channels it touches.
LEMMA BegunOverlap ==
    ASSUME TypeInv, OverlapInv, NEW t \in Threads, NEW kind \in Kinds, NEW s \in Sources,
           NEW step, Begun(t, kind, s, step), Draw,
           kind = "add" => \A c \in Channels : md'[c][s] = drawn',
           kind = "reindex" => step = "chunk",
           \A c \in Channels, r \in Sources : r # s => md'[c][r] = md[c][r]
    PROVE  OverlapInv'
<1>1. ASSUME NEW u \in Threads, u # t, op'[u] # None
      PROVE  Stands(u) /\ Meets(u, t, s)
  BY <1>1 DEF Begun
<1>2. MetMutual'
  <2> SUFFICES ASSUME NEW u \in Threads, NEW v \in Threads, op'[u] # None, op'[v] # None,
                      u # v
               PROVE  /\ op'[u].met # "nothing"
                      /\ op'[u].src = op'[v].src => op'[u].met = "same"
    BY DEF MetMutual, Active
  <2>0. op'[t].src = s
    BY DEF Begun
  <2>1. CASE u = t
    BY <1>1, <2>0, <2>1 DEF Meets
  <2>2. CASE v = t
    BY <1>1, <2>0, <2>2 DEF Meets
  <2>3. CASE u # t /\ v # t
    BY <1>1, <2>3, StandMutual DEF OverlapInv
  <2> QED
    BY <2>1, <2>2, <2>3
<1>3. ASSUME NEW u \in Threads, u # t, op'[u] # None
      PROVE  TextFits(u)'
  <2>1. op[u] # None /\ op[u].src \in Sources
    BY <1>1, <1>3 DEF Stands, TypeInv, OpsOK, OpOK, Operation
  <2>2. op'[u].met # "same" => op[u].src # s
    BY <1>1, <1>3 DEF Meets, Stands
  <2>3. u \in Active => TextFits(u)
    BY DEF OverlapInv, TextOnDisk
  <2>4. Touched(op[u].kind) \subseteq Channels
    BY DEF Touched, Channels
  <2> QED
    BY <1>1, <1>3, <2>1, <2>2, <2>3, <2>4, StandText
<1>4. TextFits(t)'
  BY DEF Begun, TextFits, Kinds, Touched
<1> QED
  BY <1>2, <1>3, <1>4 DEF OverlapInv, TextOnDisk, Active

LEMMA DraftedOverlap ==
    ASSUME TypeInv, OverlapInv, NEW s \in Sources, Drafted(s),
           \A c \in Channels, r \in Sources : r # s => md'[c][r] = md[c][r]
    PROVE  OverlapInv'
<1>1. MetMutual'
  <2> SUFFICES ASSUME NEW u \in Threads, NEW v \in Threads, op'[u] # None, op'[v] # None,
                      u # v
               PROVE  /\ op'[u].met # "nothing"
                      /\ op'[u].src = op'[v].src => op'[u].met = "same"
    BY DEF MetMutual, Active
  <2> QED
    BY StandMutual DEF Drafted, OverlapInv
<1>2. ASSUME NEW u \in Threads, op'[u] # None
      PROVE  TextFits(u)'
  <2>1. Stands(u) /\ op[u] # None /\ op[u].src \in Sources
    BY <1>2 DEF Drafted, Stands, TypeInv, OpsOK, OpOK, Operation
  <2>2. op'[u].met # "same" => op[u].src # s
    BY <1>2, <2>1 DEF Drafted, Stands
  <2>3. u \in Active => TextFits(u)
    BY DEF OverlapInv, TextOnDisk
  <2>4. Touched(op[u].kind) \subseteq Channels
    BY DEF Touched, Channels
  <2> QED
    BY <1>2, <2>1, <2>2, <2>3, <2>4, StandText
<1> QED
  BY <1>1, <1>2 DEF OverlapInv, TextOnDisk, Active

\* Nothing happens to the files, and operations only disappear.
LEMMA StandOverlap ==
    ASSUME OverlapInv, md' = md, \A u \in Threads : Stands(u)
    PROVE  OverlapInv'
<1>1. MetMutual'
  <2> SUFFICES ASSUME NEW u \in Threads, NEW v \in Threads, op'[u] # None, op'[v] # None,
                      u # v
               PROVE  /\ op'[u].met # "nothing"
                      /\ op'[u].src = op'[v].src => op'[u].met = "same"
    BY DEF MetMutual, Active
  <2> QED
    BY StandMutual DEF OverlapInv
<1>2. ASSUME NEW u \in Threads, op'[u] # None
      PROVE  TextFits(u)'
  <2>1. u \in Active => TextFits(u)
    BY DEF OverlapInv, TextOnDisk
  <2> QED
    BY <1>2, <2>1, StandText
<1> QED
  BY <1>1, <1>2 DEF OverlapInv, TextOnDisk, Active

\* What the handlers that begin an operation do, and save-draft.
LEMMA EntryFacts ==
    ASSUME TypeInv, NEW t \in Threads, NEW s \in Sources,
           Save(t, s) \/ Upload(t, s) \/ Delete(t, s)
    PROVE  \E kind \in Kinds, step \in {"chunk", "delete"} :
               /\ Draw /\ Begun(t, kind, s, step) /\ Begin(t, kind, s, step)
               /\ UNCHANGED <<vec, corpus, tmp, rewrite, cache>>
               /\ kind = "add" => \A c \in Channels : md'[c][s] = drawn'
               /\ kind = "reindex" => step = "chunk"
               /\ \A c \in Channels, r \in Sources :
                      r # s \/ c \notin Touched(kind) => md'[c][r] = md[c][r]
<1>0. OpsOK /\ BoundsOK /\ StoresOK /\ "workspace" \in Channels
  BY DEF TypeInv, Channels
<1>1. CASE Save(t, s)
  <2>1. Draw /\ Begin(t, "reindex", s, "chunk") /\ UNCHANGED <<vec, corpus, tmp, rewrite, cache>>
    BY <1>1 DEF Save
  <2>2. PICK x \in Texts \cup {None} : x = drawn'
    BY <1>0, <2>1, NewText
  <2>3. Begun(t, "reindex", s, "chunk")
    BY <1>0, <2>1, NewText, BeginBegun DEF Kinds
  <2>4. md' = [md EXCEPT !["workspace"][s] = x]
    BY <1>1, <2>2 DEF Save
  <2>5. \A c \in Channels, r \in Sources :
            c # "workspace" \/ r # s => md'[c][r] = md[c][r]
    BY <1>0, <2>4, Updated DEF StoresOK
  <2>6. "reindex" \in Kinds /\ "reindex" # "add" /\ Touched("reindex") = {"workspace"}
    BY DEF Kinds, Touched
  <2> QED
    BY <2>1, <2>3, <2>5, <2>6
<1>2. CASE Upload(t, s)
  <2>1. Draw /\ Begin(t, "add", s, "chunk") /\ UNCHANGED <<vec, corpus, tmp, rewrite, cache>>
    BY <1>2 DEF Upload
  <2>2. Begun(t, "add", s, "chunk")
    BY <1>0, <2>1, NewText, BeginBegun DEF Kinds
  <2>3. md' = [c \in Channels |-> [md[c] EXCEPT ![s] = drawn']]
    BY <1>2 DEF Upload
  <2>4. /\ \A c \in Channels : md'[c][s] = drawn'
        /\ \A c \in Channels, r \in Sources : r # s => md'[c][r] = md[c][r]
    BY <1>0, <2>3 DEF StoresOK
  <2>5. "add" \in Kinds /\ "add" # "reindex" /\ Touched("add") = Channels
    BY DEF Kinds, Touched
  <2> QED
    BY <2>1, <2>2, <2>4, <2>5
<1>3. CASE Delete(t, s)
  <2>1. /\ Draw /\ Begin(t, "delete", s, "delete")
        /\ UNCHANGED <<md, vec, corpus, tmp, rewrite, cache>>
    BY <1>3 DEF Delete, stores
  <2>2. Begun(t, "delete", s, "delete")
    BY <1>0, <2>1, NewText, BeginBegun DEF Kinds
  <2>3. "delete" \in Kinds /\ "delete" # "reindex" /\ "delete" # "add"
    BY DEF Kinds
  <2> QED
    BY <2>1, <2>2, <2>3
<1> QED
  BY <1>1, <1>2, <1>3

LEMMA DraftFacts ==
    ASSUME TypeInv, NEW s \in Sources, SaveDraft(s)
    PROVE  /\ Drafted(s) /\ UNCHANGED <<vec, corpus, tmp, rewrite, cache>>
           /\ \A c \in Channels, r \in Sources :
                  r # s \/ c # "workspace" => md'[c][r] = md[c][r]
<1>0. OpsOK /\ BoundsOK /\ StoresOK /\ "workspace" \in Channels /\ Draw
  BY DEF TypeInv, Channels, SaveDraft
<1>1. PICK x \in Texts \cup {None} : x = drawn'
  BY <1>0, NewText
<1>2. md' = [md EXCEPT !["workspace"][s] = x] /\ UNCHANGED <<vec, corpus, tmp, rewrite, cache>>
  BY <1>1 DEF SaveDraft
<1>3. \A c \in Channels, r \in Sources :
          c # "workspace" \/ r # s => md'[c][r] = md[c][r]
  BY <1>0, <1>2, Updated DEF StoresOK
<1> QED
  BY <1>0, <1>2, <1>3, DraftDrafted

\* Steps of nobody's operation: searches, expiry and crashes.
Passive == (\E p \in Pods : Retrieve(p) \/ CacheResults(p) \/ Crash(p)) \/ Expire
               \/ UNCHANGED vars
LEMMA PassiveFacts ==
    ASSUME TypeInv, Passive
    PROVE  /\ UNCHANGED <<md, vec, tmp, vecGood>>
           /\ \A u \in Threads : Stands(u)
           /\ UNCHANGED <<corpus, rewrite, corpusGood, op>> \/ \E p \in Pods : Crash(p)
<1>0. OpsOK
  BY DEF TypeInv
<1>1. ASSUME NEW p \in Pods, Retrieve(p) \/ CacheResults(p)
      PROVE  UNCHANGED <<stores, good, op>>
  BY <1>1 DEF Retrieve, CacheResults
<1>2. ASSUME NEW p \in Pods, Crash(p)
      PROVE  UNCHANGED <<md, vec, tmp, vecGood>> /\ \A u \in Threads : Stands(u)
  BY <1>0, <1>2, CrashStands DEF Crash
<1>3. CASE Expire
  BY <1>3, AllStand DEF Expire, stores, good
<1>4. CASE UNCHANGED vars
  BY <1>4, AllStand DEF vars, stores, good
<1> QED
  BY <1>1, <1>2, <1>3, <1>4, AllStand DEF Passive, stores, good

LEMMA NextSplit ==
    ASSUME [Next]_vars
    PROVE  \/ \E t \in Threads, s \in Sources : Save(t, s) \/ Upload(t, s) \/ Delete(t, s)
           \/ \E s \in Sources : SaveDraft(s)
           \/ \E t \in Threads : Step(t)
           \/ Passive
BY IndexAssumption DEF Next, Passive

LEMMA InitOverlap == Init => OverlapInv
BY DEF Init, OverlapInv, MetMutual, TextOnDisk, Active

LEMMA NextOverlap == TypeInv /\ OverlapInv /\ [Next]_vars => OverlapInv'
<1> SUFFICES ASSUME TypeInv, OverlapInv, [Next]_vars
             PROVE  OverlapInv'
  OBVIOUS
<1>1. ASSUME NEW t \in Threads, NEW s \in Sources, Save(t, s) \/ Upload(t, s) \/ Delete(t, s)
      PROVE  OverlapInv'
  BY <1>1, EntryFacts, BegunOverlap
<1>2. ASSUME NEW s \in Sources, SaveDraft(s)
      PROVE  OverlapInv'
  BY <1>2, DraftFacts, DraftedOverlap
<1>3. CASE Passive
  BY <1>3, PassiveFacts, StandOverlap DEF stores
<1> QED
  BY <1>1, <1>2, <1>3, NextSplit, StepOverlap

LEMMA OverlapInvariant == Spec => []OverlapInv
<1>1. QED
  BY InitOverlap, NextOverlap, TypeInvariant, PTL DEF Spec

-----------------------------------------------------------------------------
\* The vectors in sync

LEMMA ChunksFacts ==
    ASSUME NEW text
    PROVE  /\ text \in Blank \cup {None} => Chunks(text) = <<>>
           /\ text \notin Blank \cup {None} => Chunks(text) = Append(<<>>, text)
<1>1. Append(<<>>, text) = <<text>>
  OBVIOUS
<1> QED
  BY <1>1 DEF Chunks

\* Of the rows and the files a step writes at most those of its own source, in
\* a channel of its kind; of the rows, in the channel it is at.
LEMMA StepWrites ==
    ASSUME TypeInv, NEW t \in Threads, Step(t)
    PROVE  /\ \A c \in Channels, s \in Sources :
                  c \notin Touched(op[t].kind) \/ s # op[t].src =>
                      vec'[c][s] = vec[c][s] /\ md'[c][s] = md[c][s]
           /\ \A c \in Channels : ~IsAt(op[t], c) =>
                  vec'[c][op[t].src] = vec[c][op[t].src]
           /\ md' = md \/ Unlink(t)
<1>0. /\ op[t] # None /\ op[t] \in Operation /\ OpFits(op[t])
      /\ op[t].kind \in Kinds /\ op[t].src \in Sources /\ StoresOK
  BY StepKeeps DEF TypeInv, Operation
<1>1. CASE Unlink(t)
  <2>1. /\ vec' = vec /\ md' = [c \in Channels |-> [md[c] EXCEPT ![op[t].src] = None]]
        /\ op[t].at = "unlink"
    BY <1>1, UnlinkOutcome
  <2>2. Touched(op[t].kind) = Channels
    BY <1>0, <2>1 DEF OpFits, Touched
  <2>3. \A c \in Channels, s \in Sources : s # op[t].src => md'[c][s] = md[c][s]
    BY <1>0, <2>1 DEF StoresOK
  <2> QED
    BY <1>1, <2>1, <2>2, <2>3
<1>2. CASE DeleteRows(t) \/ Upsert(t)
  <2>1. /\ md' = md /\ op[t].at \in {"delete", "upsert"}
        /\ \/ vec' = vec
           \/ vec' = [vec EXCEPT ![Channel(t)][op[t].src] = <<>>]
           \/ op[t].at = "upsert" /\ vec' = [vec EXCEPT ![Channel(t)][op[t].src] =
                          Append(vec[Channel(t)][op[t].src], op[t].text)]
    BY <1>2, DeleteRowsOutcome, UpsertOutcome
  <2>2. PICK c0 \in Channels : c0 = Channel(t)
    BY <1>0, <2>1, ChannelTouched DEF Channel
  <2>3. c0 \in Touched(op[t].kind) /\ \A c : IsAt(op[t], c) <=> c = c0
    BY <1>0, <2>1, <2>2, ChannelTouched DEF Channel
  <2>4. vec \in [Channels -> [Sources -> Seq(Texts)]]
    BY <1>0 DEF StoresOK
  <2>5. vec' = vec \/ \E x \in Seq(Texts) : vec' = [vec EXCEPT ![c0][op[t].src] = x]
    <3>1. <<>> \in Seq(Texts)
      OBVIOUS
    <3>2. CASE vec' = [vec EXCEPT ![Channel(t)][op[t].src] = <<>>]
      BY <2>2, <3>1, <3>2
    <3>3. CASE op[t].at = "upsert" /\ vec' = [vec EXCEPT ![Channel(t)][op[t].src] =
                          Append(vec[Channel(t)][op[t].src], op[t].text)]
      <4>1. op[t].text \in Texts
        BY <1>0, <3>3, InsertedText
      <4>2. Append(vec[c0][op[t].src], op[t].text) \in Seq(Texts)
        BY <1>0, <2>4, <4>1
      <4> QED
        BY <2>2, <3>3, <4>2
    <3> QED
      BY <2>1, <3>2, <3>3
  <2>6. \A c \in Channels, s \in Sources : c # c0 \/ s # op[t].src => vec'[c][s] = vec[c][s]
    <3>1. CASE vec' = vec
      BY <3>1
    <3>2. ASSUME NEW x \in Seq(Texts), vec' = [vec EXCEPT ![c0][op[t].src] = x]
          PROVE  \A c \in Channels, s \in Sources :
                     c # c0 \/ s # op[t].src => vec'[c][s] = vec[c][s]
      BY <1>0, <2>4, <3>2, Updated
    <3> QED
      BY <2>5, <3>1, <3>2
  <2> QED
    BY <1>0, <2>1, <2>3, <2>6
<1>3. CASE ~Unlink(t) /\ ~DeleteRows(t) /\ ~Upsert(t)
  <2>1. vec' = vec /\ md' = md
    BY <1>3, ChunkOutcome, EmbedOutcome, ReadOutcome, OpenOutcome, FillOutcome, ReplaceOutcome, AppendOutcome,
       ReloadOutcome, NextChannelOutcome DEF Step, stores
  <2> QED
    BY <2>1
<1> QED
  BY <1>1, <1>2, <1>3

LEMMA StandVectors ==
    ASSUME NEW u \in Threads, u \in Active => VectorsFit(u), Stands(u), op'[u] # None,
           op'[u].met # "same" =>
               \A c \in Channels : vec'[c][op[u].src] = vec[c][op[u].src]
    PROVE  VectorsFit(u)'
<1>1. /\ op[u] # None /\ VectorsFit(u)
      /\ op'[u].at = op[u].at /\ op'[u].kind = op[u].kind /\ op'[u].src = op[u].src
      /\ op'[u].text = op[u].text /\ op'[u].left = op[u].left /\ op'[u].fault = op[u].fault
      /\ op'[u].met # "same" => op[u].met # "same"
  BY DEF Stands, Active
<1>2. /\ DoneBy(op'[u]) = DoneBy(op[u]) /\ DoneBy(op[u]) \subseteq Channels
      /\ Emptied(op'[u]) = Emptied(op[u])
      /\ \A c : IsAt(op'[u], c) = IsAt(op[u], c)
  BY <1>1 DEF DoneBy, Rest, Touched, Channels, Emptied, IsAt
<1> QED
  BY <1>1, <1>2 DEF VectorsFit

\* The operation goes on in its channel: the ones before are not written, and
\* it leaves what the next step relies on.
LEMMA MoveVectors ==
    ASSUME NEW t \in Threads, NEW to, VectorsFit(t), Moved(t, to), OpFits(op[t]),
           op[t].at # "unlink", op[t].kind \in Kinds,
           \A c \in Channels : ~IsAt(op[t], c) =>
               vec'[c][op[t].src] = vec[c][op[t].src],
           op[t].met # "same" /\ ~op[t].fault =>
               \A c \in Channels : IsAt(op[t], c) =>
                   /\ Emptied(op'[t]) => vec'[c][op[t].src] = <<>>
                   /\ to \in {"append", "reload", "invalidate"} =>
                          vec'[c][op[t].src] = Chunks(op[t].text)
    PROVE  VectorsFit(t)'
<1>1. /\ op'[t].at = to /\ op'[t].kind = op[t].kind /\ op'[t].src = op[t].src
      /\ op'[t].text = op[t].text /\ op'[t].left = op[t].left /\ op'[t].fault = op[t].fault
      /\ op'[t].met = op[t].met
  BY DEF Moved, Keeps
<1>2. /\ DoneBy(op'[t]) = DoneBy(op[t]) /\ DoneBy(op[t]) \subseteq Channels
      /\ \A c : IsAt(op'[t], c) = IsAt(op[t], c)
  BY <1>1 DEF DoneBy, Rest, Touched, Channels, IsAt
<1>3. \A c \in DoneBy(op[t]) : ~IsAt(op[t], c)
  BY ChannelTouched
<1> QED
  BY <1>1, <1>2, <1>3 DEF VectorsFit

LEMMA StepVectorsFit ==
    ASSUME TypeInv, NEW t \in Threads, VectorsFit(t), Step(t), op'[t] # None
    PROVE  VectorsFit(t)'
<1>0. /\ op[t] # None /\ op[t] \in Operation /\ OpFits(op[t])
      /\ op[t].kind \in Kinds /\ op[t].src \in Sources /\ StoresOK
  BY StepKeeps DEF TypeInv, Operation
<1>1. /\ \A c \in Channels : ~IsAt(op[t], c) => vec'[c][op[t].src] = vec[c][op[t].src]
  BY StepWrites
<1>2. ASSUME NEW to, MovedFaulty(t, to)
      PROVE  VectorsFit(t)'
  BY <1>2 DEF MovedFaulty, VectorsFit
<1>3. CASE Chunk(t)
  <2>1. op[t].at = "chunk" /\ op'[t].kind = op[t].kind /\ op'[t].left = op[t].left
        /\ (op'[t].at = "delete" \/ (op'[t].at = "embed" /\ op'[t].kind = "add"))
    BY <1>3, ChunkOutcome DEF Chunked, Moved, Returned, Keeps
  <2>2. op'[t].left = ChannelsOf(op'[t].kind)
    BY <1>0, <2>1 DEF OpFits
  <2>3. DoneBy(op'[t]) = {}
    BY <2>2, RestFacts DEF DoneBy, ChannelsOf, Touched
  <2>4. ~Emptied(op'[t]) /\ op'[t].at \notin {"append", "reload", "invalidate"}
    BY <2>1 DEF Emptied
  <2> QED
    BY <2>3, <2>4 DEF VectorsFit
<1>4. CASE Embed(t)
  <2>1. /\ op[t].at = "embed" /\ op[t].kind # "delete" /\ vec' = vec
        /\ \/ op[t].kind = "add" /\ Moved(t, "delete")
           \/ op[t].kind # "add" /\ Moved(t, "upsert")
    BY <1>0, <1>4, EmbedOutcome DEF Returned, OpFits, stores
  <2>2. CASE op[t].kind = "add" /\ Moved(t, "delete")
    <3>1. ~Emptied(op'[t])
      BY <2>2 DEF Moved, Emptied
    <3> QED
      BY <1>0, <1>1, <2>1, <2>2, <3>1, MoveVectors
  <2>3. CASE op[t].kind # "add" /\ Moved(t, "upsert")
    <3>1. Emptied(op[t])
      BY <1>0, <2>1, <2>3 DEF Emptied, Kinds
    <3> QED
      BY <1>0, <1>1, <2>1, <2>3, <3>1, MoveVectors DEF VectorsFit
  <2> QED
    BY <2>1, <2>2, <2>3
<1>5. CASE DeleteRows(t)
  <2>1. /\ op[t].at = "delete"
        /\ \/ /\ vec' = [vec EXCEPT ![Channel(t)][op[t].src] = <<>>]
              /\ Moved(t, "read")
           \/ MovedFaulty(t, "read")
    BY <1>5, DeleteRowsOutcome
  <2>2. PICK c0 \in Channels : c0 = Channel(t)
    BY <1>0, <2>1, ChannelTouched DEF Channel
  <2>3. \A c : IsAt(op[t], c) <=> c = c0
    BY <1>0, <2>1, <2>2, ChannelTouched DEF Channel
  <2>4. CASE /\ vec' = [vec EXCEPT ![Channel(t)][op[t].src] = <<>>]
             /\ Moved(t, "read")
    <3>0. <<>> \in Seq(Texts)
      OBVIOUS
    <3>1. PICK x \in Seq(Texts) : x = <<>>
      BY <3>0
    <3>2. vec'[c0][op[t].src] = x
      <4>1. vec \in [Channels -> [Sources -> Seq(Texts)]]
        BY <1>0 DEF StoresOK
      <4>2. vec' = [vec EXCEPT ![c0][op[t].src] = x]
        BY <2>2, <2>4, <3>1
      <4> QED
        BY <1>0, <4>1, <4>2, Updated
    <3> QED
      BY <1>0, <1>1, <2>1, <2>3, <2>4, <3>1, <3>2, MoveVectors
  <2> QED
    BY <1>2, <2>1, <2>4
<1>6. CASE ReadCorpus(t) \/ OpenTmp(t) \/ FillTmp(t)
  <2>1. PICK to \in {"open", "fill", "replace"} :
            op[t].at \in {"read", "open", "fill"} /\ vec' = vec /\ Moved(t, to)
    BY <1>6, ReadOutcome, OpenOutcome, FillOutcome DEF Returned
  <2>2. Emptied(op[t])
    BY <2>1 DEF Emptied
  <2> QED
    BY <1>0, <1>1, <2>1, <2>2, MoveVectors DEF VectorsFit
<1>7. CASE ReplaceCorpus(t)
  <2>1. op[t].at = "replace" /\ vec' = vec /\ Moved(t, AfterRemoval(op[t]))
    BY <1>7, ReplaceOutcome DEF Returned
  <2>2. Emptied(op[t])
    BY <2>1 DEF Emptied
  <2>3. PICK to : to = AfterRemoval(op[t])
    OBVIOUS
  <2>4. /\ to \in {"upsert", "reload", "embed"}
        /\ to = "reload" => op[t].kind = "delete" \/ op[t].text \in Blank \cup {None}
    BY <1>0, <2>3, AfterRemovalFacts
  <2>5. to = "reload" => Chunks(op[t].text) = <<>>
    BY <1>0, <2>1, <2>4, ChunksFacts DEF OpFits
  <2> QED
    BY <1>0, <1>1, <2>1, <2>2, <2>3, <2>4, <2>5, MoveVectors DEF VectorsFit
<1>8. CASE Upsert(t)
  <2>1. /\ op[t].at = "upsert"
        /\ \/ /\ vec' = [vec EXCEPT ![Channel(t)][op[t].src] =
                            Append(vec[Channel(t)][op[t].src], op[t].text)]
              /\ Moved(t, "append")
           \/ MovedFaulty(t, "append")
    BY <1>8, UpsertOutcome
  <2>2. PICK c0 \in Channels : c0 = Channel(t)
    BY <1>0, <2>1, ChannelTouched DEF Channel
  <2>3. \A c : IsAt(op[t], c) <=> c = c0
    BY <1>0, <2>1, <2>2, ChannelTouched DEF Channel
  <2>4. CASE /\ vec' = [vec EXCEPT ![Channel(t)][op[t].src] =
                           Append(vec[Channel(t)][op[t].src], op[t].text)]
             /\ Moved(t, "append")
    <3>1. op[t].text \in Texts /\ op[t].text \notin Blank \cup {None}
      BY <1>0, <2>1, InsertedText
    <3>2. vec \in [Channels -> [Sources -> Seq(Texts)]]
      BY <1>0 DEF StoresOK
    <3>3. PICK x \in Seq(Texts) : x = Append(vec[c0][op[t].src], op[t].text)
      <4>1. Append(vec[c0][op[t].src], op[t].text) \in Seq(Texts)
        BY <1>0, <3>1, <3>2
      <4> QED
        BY <4>1
    <3>4. vec'[c0][op[t].src] = x
      <4>1. vec' = [vec EXCEPT ![c0][op[t].src] = x]
        BY <2>2, <2>4, <3>3
      <4> QED
        BY <1>0, <3>2, <4>1, Updated
    <3>5. op[t].met # "same" /\ ~op[t].fault => vec[c0][op[t].src] = <<>>
      BY <2>1, <2>3 DEF VectorsFit, Emptied
    <3>6. op[t].met # "same" /\ ~op[t].fault => vec'[c0][op[t].src] = Chunks(op[t].text)
      BY <3>1, <3>3, <3>4, <3>5, ChunksFacts
    <3>7. ~Emptied(op'[t])
      BY <2>4 DEF Moved, Emptied
    <3> QED
      BY <1>0, <1>1, <2>1, <2>3, <2>4, <3>6, <3>7, MoveVectors
  <2> QED
    BY <1>2, <2>1, <2>4
<1>9. CASE AppendLines(t) \/ Reload(t)
  <2>1. /\ op[t].at \in {"append", "reload"} /\ vec' = vec
        /\ Moved(t, "reload") \/ Moved(t, "invalidate")
    BY <1>9, AppendOutcome, ReloadOutcome DEF stores, Returned
  <2>2. ~Emptied(op'[t])
    BY <2>1 DEF Moved, Emptied
  <2> QED
    BY <1>0, <1>1, <2>1, <2>2, MoveVectors DEF VectorsFit
<1>10. CASE NextChannel(t)
  <2>1. /\ op[t].at = "invalidate" /\ vec' = vec
        /\ \/ op[t].left = BothChannels /\ Advanced(t, "delete", <<"workspace">>)
           \/ /\ op[t].left = <<"workspace">> /\ op[t].kind = "delete"
              /\ Advanced(t, "unlink", <<>>)
    BY <1>10, NextChannelOutcome DEF Returned, stores
  <2>2. \A c \in Channels : op[t].met # "same" /\ ~op[t].fault =>
            (c \in DoneBy(op[t]) \/ IsAt(op[t], c) => vec[c][op[t].src] = Chunks(op[t].text))
    BY <2>1 DEF VectorsFit
  <2>3. \A c \in DoneBy(op'[t]) : c \in DoneBy(op[t]) \/ IsAt(op[t], c)
    <3>1. op'[t].kind = op[t].kind
      BY <2>1 DEF Advanced, Keeps
    <3>2. CASE op[t].left = BothChannels /\ Advanced(t, "delete", <<"workspace">>)
      <4>1. op'[t].left = <<"workspace">>
        BY <3>2 DEF Advanced
      <4> QED
        BY <3>1, <3>2, <4>1, RestFacts DEF DoneBy, Touched, Channels
    <3>3. CASE op[t].left = <<"workspace">> /\ Advanced(t, "unlink", <<>>)
      <4>1. op'[t].left = <<>>
        BY <3>3 DEF Advanced
      <4> QED
        BY <3>1, <3>3, <4>1, RestFacts DEF DoneBy, Touched, Channels
    <3> QED
      BY <2>1, <3>2, <3>3
  <2>4. /\ op'[t].src = op[t].src /\ op'[t].text = op[t].text /\ op'[t].met = op[t].met
        /\ op'[t].fault = op[t].fault /\ op'[t].at \in {"delete", "unlink"}
    BY <2>1 DEF Advanced, Keeps
  <2>5. DoneBy(op'[t]) \subseteq Channels
    BY DEF DoneBy, Touched, Channels
  <2>6. ~Emptied(op'[t]) /\ op'[t].at \notin {"append", "reload", "invalidate"}
    BY <2>4 DEF Emptied
  <2> QED
    BY <2>1, <2>2, <2>3, <2>4, <2>5, <2>6 DEF VectorsFit
<1>11. CASE Unlink(t)
  BY <1>11, UnlinkOutcome DEF Returned
<1> QED
  BY <1>3, <1>4, <1>5, <1>6, <1>7, <1>8, <1>9, <1>10, <1>11 DEF Step

\* An operation that ends well leaves its pairs in sync.
LEMMA FinishedVectors ==
    ASSUME TypeInv, NEW t \in Threads, VectorsFit(t), TextFits(t),
           NextChannel(t) \/ Unlink(t), op'[t] = None,
           op[t].met # "same", ~op[t].fault, NEW c \in Touched(op[t].kind)
    PROVE  vec'[c][op[t].src] = Chunks(md'[c][op[t].src])
<1>0. /\ op[t] # None /\ op[t] \in Operation /\ OpFits(op[t])
      /\ op[t].kind \in Kinds /\ op[t].src \in Sources /\ StoresOK /\ c \in Channels
  BY StepKeeps DEF TypeInv, Operation, Step, Touched, Channels
<1>1. CASE NextChannel(t)
  <2>1. /\ op[t].at = "invalidate" /\ vec' = vec /\ md' = md
        /\ op[t].left = <<"workspace">> /\ op[t].kind # "delete"
    BY <1>1, NextChannelOutcome DEF Advanced, stores
  <2>2. c \in DoneBy(op[t]) \/ IsAt(op[t], c)
    BY <2>1, RestFacts DEF DoneBy
  <2>3. vec[c][op[t].src] = Chunks(op[t].text)
    BY <1>0, <2>1, <2>2 DEF VectorsFit
  <2>4. md[c][op[t].src] = op[t].text
    BY <2>1 DEF TextFits
  <2> QED
    BY <2>1, <2>3, <2>4
<1>2. CASE Unlink(t)
  <2>1. /\ op[t].at = "unlink" /\ vec' = vec
        /\ md' = [d \in Channels |-> [md[d] EXCEPT ![op[t].src] = None]]
    BY <1>2, UnlinkOutcome
  <2>2. md'[c][op[t].src] = None
    BY <1>0, <2>1 DEF StoresOK
  <2>3. op[t].left = <<>> /\ op[t].text = None
    BY <1>0, <2>1 DEF OpFits
  <2>4. c \in DoneBy(op[t])
    BY <2>3, RestFacts DEF DoneBy
  <2> QED
    BY <2>1, <2>2, <2>3, <2>4 DEF VectorsFit
<1> QED
  BY <1>1, <1>2

\* Nobody is at the pairs that count as in sync, when some are added at most
\* for the operation that ends.
LEMMA NobodyStep ==
    ASSUME NEW pairs, NEW pairs2, NobodyAt(pairs), MetMutual, NEW t \in Threads,
           op[t] # None, OthersStay(t), op'[t] = None \/ Keeps(op[t], op'[t]),
           \/ pairs2 \subseteq pairs
           \/ pairs2 = pairs \cup Pairs(t) /\ op[t].met # "same" /\ op'[t] = None
    PROVE  \A u \in Active' : \A c \in Touched(op'[u].kind) : <<c, op'[u].src>> \notin pairs2
<1> SUFFICES ASSUME NEW u \in Threads, op'[u] # None, NEW c \in Touched(op'[u].kind)
             PROVE  <<c, op'[u].src>> \notin pairs2
  BY DEF Active
<1>1. op[u] # None /\ op'[u].kind = op[u].kind /\ op'[u].src = op[u].src
  BY DEF OthersStay, Keeps
<1>2. <<c, op'[u].src>> \notin pairs
  BY <1>1 DEF NobodyAt, Active
<1>3. CASE pairs2 = pairs \cup Pairs(t) /\ op[t].met # "same" /\ op'[t] = None
  <2>1. op[u].src # op[t].src
    BY <1>1, <1>3 DEF MetMutual, Active
  <2>2. <<c, op'[u].src>> \notin Pairs(t)
    BY <1>1, <2>1 DEF Pairs
  <2> QED
    BY <1>2, <1>3, <2>2
<1> QED
  BY <1>2, <1>3

LEMMA StepVectors ==
    ASSUME TypeInv, OverlapInv, VectorInv, NEW t \in Threads, Step(t)
    PROVE  VectorInv'
<1>0. /\ op[t] # None /\ op[t] \in Operation /\ OpFits(op[t]) /\ OthersStay(t)
      /\ op'[t] = None \/ Keeps(op[t], op'[t])
  BY StepKeeps
<1>1. VectorsFit(t) /\ TextFits(t)
  BY <1>0 DEF VectorInv, VectorsFollow, OverlapInv, TextOnDisk, Active
<1>2. op'[t] # None => VectorsFit(t)'
  BY <1>1, StepVectorsFit
<1>3. ASSUME NEW u \in Threads, u # t, op'[u] # None
      PROVE  VectorsFit(u)'
  <2>1. Stands(u) /\ op[u] # None
    BY <1>0, <1>3, OthersStand DEF Stands
  <2>2. op[u].src \in Sources
    BY <2>1 DEF TypeInv, OpsOK, OpOK, Operation
  <2>3. op'[u].met # "same" => op[u].src # op[t].src
    BY <1>0, <1>3, <2>1 DEF Stands, OverlapInv, MetMutual, Active
  <2>4. op'[u].met # "same" => \A c \in Channels : vec'[c][op[u].src] = vec[c][op[u].src]
    BY <2>2, <2>3, StepWrites
  <2>5. u \in Active => VectorsFit(u)
    BY DEF VectorInv, VectorsFollow
  <2> QED
    BY <1>3, <2>1, <2>4, <2>5, StandVectors
<1>4. \/ vecGood' = vecGood
      \/ /\ vecGood' = vecGood \cup Pairs(t) /\ op[t].met # "same" /\ ~op[t].fault
         /\ op'[t] = None /\ (NextChannel(t) \/ Unlink(t))
  BY StepGood, FinishGood DEF good, Returned
<1>5. \A u \in Active' : \A c \in Touched(op'[u].kind) : <<c, op'[u].src>> \notin vecGood'
  <2>1. NobodyAt(vecGood) /\ MetMutual
    BY DEF VectorInv, OverlapInv
  <2>2. PICK pairs2 : pairs2 = vecGood'
    OBVIOUS
  <2> QED
    BY <1>0, <1>4, <2>1, <2>2, NobodyStep
<1>6. ASSUME NEW c \in Channels, NEW s \in Sources, <<c, s>> \in vecGood'
      PROVE  vec'[c][s] = Chunks(md'[c][s])
  <2>1. CASE <<c, s>> \in vecGood
    <3>1. c \notin Touched(op[t].kind) \/ s # op[t].src
      BY <1>0, <2>1 DEF VectorInv, NobodyAt, Active
    <3> QED
      BY <2>1, <3>1, StepWrites DEF VectorInv, VectorsInSync
  <2>2. CASE <<c, s>> \notin vecGood
    <3>1. /\ <<c, s>> \in Pairs(t) /\ op[t].met # "same" /\ ~op[t].fault
          /\ op'[t] = None /\ (NextChannel(t) \/ Unlink(t))
      BY <1>4, <1>6, <2>2
    <3>2. c \in Touched(op[t].kind) /\ s = op[t].src
      BY <3>1 DEF Pairs
    <3> QED
      BY <1>1, <3>1, <3>2, FinishedVectors
  <2> QED
    BY <2>1, <2>2
<1> QED
  BY <1>2, <1>3, <1>5, <1>6 DEF VectorInv, VectorsFollow, NobodyAt, VectorsInSync, Active

\* A new operation has done nothing yet, and its source no longer counts.
LEMMA EntryVectors ==
    ASSUME TypeInv, OverlapInv, VectorInv, NEW t \in Threads, NEW s \in Sources,
           Save(t, s) \/ Upload(t, s) \/ Delete(t, s)
    PROVE  VectorInv'
<1>1. PICK kind \in Kinds, step \in {"chunk", "delete"} :
          /\ Draw /\ Begun(t, kind, s, step) /\ Begin(t, kind, s, step)
          /\ UNCHANGED <<vec, corpus, tmp, rewrite, cache>>
          /\ kind = "reindex" => step = "chunk"
          /\ \A c \in Channels, r \in Sources :
                 r # s \/ c \notin Touched(kind) => md'[c][r] = md[c][r]
  BY EntryFacts
<1>2. vecGood' = vecGood \ (Touched(kind) \X {s})
  BY <1>1 DEF Begin
<1>3. VectorsFit(t)'
  <2>1. /\ op'[t].at \in {"chunk", "delete"} /\ op'[t].kind = kind
        /\ op'[t].left = ChannelsOf(kind)
    BY <1>1 DEF Begun
  <2>2. DoneBy(op'[t]) = {}
    BY <2>1, RestFacts DEF DoneBy, ChannelsOf, Touched
  <2>3. ~Emptied(op'[t]) /\ op'[t].at \notin {"append", "reload", "invalidate"}
    BY <2>1 DEF Emptied
  <2> QED
    BY <2>2, <2>3 DEF VectorsFit
<1>4. ASSUME NEW u \in Threads, u # t, op'[u] # None
      PROVE  Stands(u) /\ VectorsFit(u)'
  <2>1. Stands(u)
    BY <1>1, <1>4 DEF Begun
  <2>2. u \in Active => VectorsFit(u)
    BY DEF VectorInv, VectorsFollow
  <2> QED
    BY <1>1, <1>4, <2>1, <2>2, StandVectors
<1>5. NobodyAt(vecGood)'
  <2> SUFFICES ASSUME NEW u \in Threads, op'[u] # None, NEW c \in Touched(op'[u].kind)
               PROVE  <<c, op'[u].src>> \notin vecGood'
    BY DEF NobodyAt, Active
  <2>1. CASE u = t
    BY <1>1, <1>2, <2>1 DEF Begun
  <2>2. CASE u # t
    <3>1. op[u] # None /\ op'[u].kind = op[u].kind /\ op'[u].src = op[u].src
      BY <1>4, <2>2 DEF Stands
    <3> QED
      BY <1>2, <3>1 DEF VectorInv, NobodyAt, Active
  <2> QED
    BY <2>1, <2>2
<1>6. VectorsInSync'
  <2> SUFFICES ASSUME NEW c \in Channels, NEW r \in Sources, <<c, r>> \in vecGood'
               PROVE  vec'[c][r] = Chunks(md'[c][r])
    BY DEF VectorsInSync
  <2>1. <<c, r>> \in vecGood /\ (r # s \/ c \notin Touched(kind))
    BY <1>2
  <2> QED
    BY <1>1, <2>1 DEF VectorInv, VectorsInSync
<1> QED
  BY <1>3, <1>4, <1>5, <1>6 DEF VectorInv, VectorsFollow, Active

LEMMA DraftVectors ==
    ASSUME TypeInv, OverlapInv, VectorInv, NEW s \in Sources, SaveDraft(s)
    PROVE  VectorInv'
<1>1. /\ Drafted(s) /\ UNCHANGED <<vec, corpus, tmp, rewrite, cache>>
      /\ \A c \in Channels, r \in Sources :
             r # s \/ c # "workspace" => md'[c][r] = md[c][r]
      /\ vecGood' = vecGood \ {<<"workspace", s>>}
  BY DraftFacts DEF SaveDraft
<1>2. ASSUME NEW u \in Threads, op'[u] # None
      PROVE  /\ VectorsFit(u)' /\ op[u] # None
             /\ op'[u].kind = op[u].kind /\ op'[u].src = op[u].src
  <2>1. Stands(u)
    BY <1>1 DEF Drafted
  <2>2. u \in Active => VectorsFit(u)
    BY DEF VectorInv, VectorsFollow
  <2>3. VectorsFit(u)'
    BY <1>1, <1>2, <2>1, <2>2, StandVectors
  <2> QED
    BY <1>2, <2>1, <2>3 DEF Stands
<1>3. NobodyAt(vecGood)'
  <2> SUFFICES ASSUME NEW u \in Threads, op'[u] # None, NEW c \in Touched(op'[u].kind)
               PROVE  <<c, op'[u].src>> \notin vecGood'
    BY DEF NobodyAt, Active
  <2> QED
    BY <1>1, <1>2 DEF VectorInv, NobodyAt, Active
<1>4. VectorsInSync'
  <2> SUFFICES ASSUME NEW c \in Channels, NEW r \in Sources, <<c, r>> \in vecGood'
               PROVE  vec'[c][r] = Chunks(md'[c][r])
    BY DEF VectorsInSync
  <2>1. <<c, r>> \in vecGood /\ (r # s \/ c # "workspace")
    BY <1>1
  <2> QED
    BY <1>1, <2>1 DEF VectorInv, VectorsInSync
<1> QED
  BY <1>2, <1>3, <1>4 DEF VectorInv, VectorsFollow, Active

LEMMA PassiveVectors ==
    ASSUME TypeInv, VectorInv, Passive
    PROVE  VectorInv'
<1>1. UNCHANGED <<md, vec, vecGood>> /\ \A u \in Threads : Stands(u)
  BY PassiveFacts DEF stores, good
<1>2. ASSUME NEW u \in Threads, op'[u] # None
      PROVE  /\ VectorsFit(u)' /\ op[u] # None
             /\ op'[u].kind = op[u].kind /\ op'[u].src = op[u].src
  <2>1. u \in Active => VectorsFit(u)
    BY DEF VectorInv, VectorsFollow
  <2>2. VectorsFit(u)'
    BY <1>1, <1>2, <2>1, StandVectors
  <2> QED
    BY <1>1, <1>2, <2>2 DEF Stands
<1>3. NobodyAt(vecGood)'
  BY <1>1, <1>2 DEF VectorInv, NobodyAt, Active
<1>4. VectorsInSync'
  BY <1>1 DEF VectorInv, VectorsInSync
<1> QED
  BY <1>2, <1>3, <1>4 DEF VectorInv, VectorsFollow, Active

LEMMA InitVectors == Init => VectorInv
<1> SUFFICES ASSUME Init
             PROVE  VectorInv
  OBVIOUS
<1>1. Active = {}
  BY DEF Init, Active
<1>2. \A c \in Channels, s \in Sources : vec[c][s] = <<0>> /\ md[c][s] = 0
  BY DEF Init, Built
<1>3. Chunks(0) = <<0>>
  <2>1. 0 \notin Blank \cup {None}
    BY IndexAssumption
  <2> QED
    BY <2>1 DEF Chunks
<1> QED
  BY <1>1, <1>2, <1>3 DEF VectorInv, VectorsFollow, NobodyAt, VectorsInSync

LEMMA NextVectors == TypeInv /\ OverlapInv /\ VectorInv /\ [Next]_vars => VectorInv'
<1> SUFFICES ASSUME TypeInv, OverlapInv, VectorInv, [Next]_vars
             PROVE  VectorInv'
  OBVIOUS
<1> QED
  BY NextSplit, StepVectors, EntryVectors, DraftVectors, PassiveVectors

\* Without any lock: a source whose last operation met no failure and no other
\* operation on the same source has one row per chunk of its file in each
\* channel it touched, whatever runs on the other sources (document_manager's
\* promise for pgvector).
THEOREM VectorsStayInSync == Spec => []VectorsInSync
<1>1. Spec => []VectorInv
  BY InitVectors, NextVectors, TypeInvariant, OverlapInvariant, PTL DEF Spec
<1>2. VectorInv => VectorsInSync
  BY DEF VectorInv
<1>3. QED
  BY <1>1, <1>2, PTL

-----------------------------------------------------------------------------
\* The corpus files in sync

LinesKept(c) == corpus'[c] = corpus[c] /\ tmp'[c] = tmp[c]
Opened(t, c) == op[t].at = "open" /\ corpus'[c] = corpus[c]
Filled(t, c) ==
    /\ op[t].at = "fill"
    /\ rewrite[t].file # "corpus" => corpus'[c] = corpus[c]
    /\ rewrite[t].file = "tmp" /\ rewrite[t].own => tmp'[c] = rewrite[t].kept
Placed(t, c) ==
    /\ op[t].at = "replace" /\ op'[t] # None
    /\ tmp[c] # None /\ corpus'[c] = tmp[c] /\ tmp'[c] = None
Appended(t, c) ==
    /\ op[t].at = "append" /\ tmp'[c] = tmp[c]
    /\ corpus[c] # Torn =>
           /\ corpus'[c] # Torn
           /\ corpus'[c][op[t].src] = Append(corpus[c][op[t].src], op[t].text)
           /\ \A s \in Sources : s # op[t].src => corpus'[c][s] = corpus[c][s]

\* A step writes lines, if any, in the channel it is at.
LEMMA StepLines ==
    ASSUME TypeInv, NEW t \in Threads, Step(t)
    PROVE  /\ \A c \in Channels : ~IsAt(op[t], c) => LinesKept(c)
           /\ \A c \in Channels : IsAt(op[t], c) =>
                  \/ /\ LinesKept(c)
                     /\ op'[t] # None => op[t].at \notin {"open", "fill", "replace", "append"}
                  \/ Opened(t, c) \/ Filled(t, c) \/ Placed(t, c) \/ Appended(t, c)
           /\ op[t].at = "unlink" => \A c \in Channels : LinesKept(c)
<1>0. /\ op[t] # None /\ op[t] \in Operation /\ OpFits(op[t])
      /\ op[t].kind \in Kinds /\ op[t].src \in Sources /\ StoresOK
  BY StepKeeps DEF TypeInv, Operation
<1>1. op[t].at # "unlink" =>
          Channel(t) \in Channels /\ \A c : IsAt(op[t], c) <=> c = Channel(t)
  BY <1>0, ChannelTouched DEF Channel
<1>2. CASE OpenTmp(t)
  <2>1. op[t].at = "open" /\ corpus' = corpus
    BY <1>2, OpenOutcome
  <2>2. PICK c0 \in Channels : c0 = Channel(t) /\ \A c : IsAt(op[t], c) <=> c = c0
    BY <1>1, <2>1
  <2>3. PICK lines : tmp' = [tmp EXCEPT ![c0] = lines]
    BY <1>2, <2>2, OpenOutcome
  <2>4. \A c \in Channels : c # c0 => tmp'[c] = tmp[c]
    BY <1>0, <2>3 DEF StoresOK
  <2> QED
    BY <2>1, <2>2, <2>4 DEF LinesKept, Opened
<1>3. CASE FillTmp(t)
  <2>1. op[t].at = "fill"
    BY <1>3, FillOutcome
  <2>2. PICK c0 \in Channels, lines \in Lines \cup {Torn} :
            /\ c0 = Channel(t)
            /\ tmp' = IF rewrite[t].file = "tmp" THEN [tmp EXCEPT ![c0] = lines] ELSE tmp
            /\ corpus' = IF rewrite[t].file = "corpus" THEN [corpus EXCEPT ![c0] = lines]
                                                      ELSE corpus
            /\ rewrite[t].own => lines = rewrite[t].kept
    BY <1>3, FillLines
  <2>3. \A c \in Channels : c # c0 => tmp'[c] = tmp[c] /\ corpus'[c] = corpus[c]
    BY <1>0, <2>2 DEF StoresOK
  <2>4. rewrite[t].file = "tmp" => tmp'[c0] = lines
    BY <1>0, <2>2 DEF StoresOK
  <2>5. Filled(t, c0)
    BY <2>1, <2>2, <2>4 DEF Filled
  <2>6. \A c : IsAt(op[t], c) <=> c = c0
    BY <1>1, <2>1, <2>2
  <2> QED
    BY <2>1, <2>3, <2>5, <2>6 DEF LinesKept
<1>4. CASE ReplaceCorpus(t)
  <2>1. op[t].at = "replace"
    BY <1>4, ReplaceOutcome
  <2>2. PICK c0 \in Channels : c0 = Channel(t) /\ \A c : IsAt(op[t], c) <=> c = c0
    BY <1>1, <2>1
  <2>4. CASE Returned(t) /\ UNCHANGED <<corpus, tmp>>
    BY <2>1, <2>4 DEF LinesKept, Returned
  <2>5. CASE /\ tmp[c0] # None /\ Moved(t, AfterRemoval(op[t]))
             /\ corpus' = [corpus EXCEPT ![c0] = tmp[c0]]
             /\ tmp' = [tmp EXCEPT ![c0] = None]
    <3>1. /\ corpus'[c0] = tmp[c0] /\ tmp'[c0] = None
          /\ \A c \in Channels : c # c0 => LinesKept(c)
      BY <1>0, <2>5 DEF StoresOK, LinesKept
    <3>2. Placed(t, c0)
      BY <2>1, <2>5, <3>1 DEF Placed, Moved
    <3> QED
      BY <2>1, <2>2, <3>1, <3>2
  <2> QED
    BY <1>4, <2>2, <2>4, <2>5, ReplaceOutcome
<1>5. CASE AppendLines(t)
  <2>1. op[t].at = "append" /\ tmp' = tmp
    BY <1>5, AppendOutcome
  <2>2. PICK c0 \in Channels : c0 = Channel(t) /\ \A c : IsAt(op[t], c) <=> c = c0
    BY <1>1, <2>1
  <2>3. PICK f : f = corpus[c0]
    OBVIOUS
  <2>4. PICK g : /\ g = [f EXCEPT ![op[t].src] = Append(@, op[t].text)]
                 /\ corpus' = IF f = Torn THEN corpus ELSE [corpus EXCEPT ![c0] = g]
    BY <1>5, <2>2, <2>3, AppendOutcome
  <2>5. (f # Torn => corpus'[c0] = g) /\ \A c \in Channels : c # c0 => corpus'[c] = corpus[c]
    BY <1>0, <2>4 DEF StoresOK
  <2>6. ASSUME f # Torn
        PROVE  /\ g # Torn /\ g[op[t].src] = Append(f[op[t].src], op[t].text)
               /\ \A s \in Sources : s # op[t].src => g[s] = f[s]
    <3>1. f \in [Sources -> Seq(Texts)] /\ op[t].text \in Texts
      BY <1>0, <2>1, <2>3, <2>6, InsertedText DEF StoresOK, Lines
    <3>2. PICK x \in Seq(Texts) : x = Append(f[op[t].src], op[t].text)
      <4>1. Append(f[op[t].src], op[t].text) \in Seq(Texts)
        BY <1>0, <3>1
      <4> QED
        BY <4>1
    <3>3. g = [f EXCEPT ![op[t].src] = x]
      BY <2>4, <2>6, <3>2
    <3>4. g \in [Sources -> Seq(Texts)]
      BY <1>0, <3>1, <3>3
    <3>5. g # Torn
      BY <3>4, TornAssumption DEF Lines
    <3> QED
      BY <1>0, <3>1, <3>2, <3>3, <3>5
  <2>7. Appended(t, c0)
    BY <2>1, <2>3, <2>5, <2>6 DEF Appended
  <2> QED
    BY <2>1, <2>2, <2>5, <2>7 DEF LinesKept
<1>6. CASE Chunk(t) \/ Embed(t) \/ DeleteRows(t) \/ ReadCorpus(t) \/ Upsert(t)
               \/ Reload(t) \/ NextChannel(t) \/ Unlink(t)
  <2>1. corpus' = corpus /\ tmp' = tmp /\ op[t].at \notin {"open", "fill", "replace", "append"}
    <3>1. CASE Chunk(t) \/ Embed(t) \/ DeleteRows(t) \/ ReadCorpus(t)
      BY <3>1, ChunkOutcome, EmbedOutcome, DeleteRowsOutcome, ReadOutcome DEF stores
    <3>2. CASE Upsert(t) \/ Reload(t) \/ NextChannel(t) \/ Unlink(t)
      BY <3>2, UpsertOutcome, ReloadOutcome, NextChannelOutcome, UnlinkOutcome DEF stores
    <3> QED
      BY <1>6, <3>1, <3>2
  <2> QED
    BY <2>1 DEF LinesKept
<1> QED
  BY <1>2, <1>3, <1>4, <1>5, <1>6 DEF Step

LEMMA StandCorpus ==
    ASSUME NEW u \in Threads, u \in Active => CorpusFits(u), Stands(u), op'[u] # None,
           op'[u].met = "nothing" =>
               rewrite'[u] = rewrite[u] /\ \A c \in Channels : LinesKept(c)
    PROVE  CorpusFits(u)'
<1>1. /\ op[u] # None /\ CorpusFits(u)
      /\ op'[u].at = op[u].at /\ op'[u].kind = op[u].kind /\ op'[u].src = op[u].src
      /\ op'[u].text = op[u].text /\ op'[u].left = op[u].left
      /\ op'[u].met = "nothing" => op[u].met = "nothing"
  BY DEF Stands, Active
<1>2. /\ DoneBy(op'[u]) = DoneBy(op[u]) /\ DoneBy(op[u]) \subseteq Channels
      /\ LinesGone(op'[u]) = LinesGone(op[u])
      /\ \A c : IsAt(op'[u], c) = IsAt(op[u], c)
  BY <1>1 DEF DoneBy, Rest, Touched, Channels, LinesGone, IsAt
<1> QED
  BY <1>1, <1>2 DEF CorpusFits, LinesKept

\* The operation goes on in its channel: the ones before are not written, and
\* it leaves what the next step relies on.
LEMMA MoveCorpus ==
    ASSUME NEW t \in Threads, NEW to, CorpusFits(t), Moved(t, to) \/ MovedFaulty(t, to),
           OpFits(op[t]), op[t].at # "unlink", op[t].kind \in Kinds,
           \A c \in Channels : ~IsAt(op[t], c) => LinesKept(c),
           op[t].met = "nothing" =>
               \A c \in Channels : IsAt(op[t], c) =>
                   /\ to \in {"open", "fill"} => rewrite'[t].kept[op[t].src] = <<>>
                   /\ to = "fill" => rewrite'[t].file = "tmp" /\ rewrite'[t].own
                   /\ to = "replace" =>
                          tmp'[c] # None /\ tmp'[c] # Torn /\ tmp'[c][op[t].src] = <<>>
                   /\ LinesGone(op'[t]) => corpus'[c] # Torn /\ corpus'[c][op[t].src] = <<>>
                   /\ to \in {"reload", "invalidate"} =>
                          corpus'[c] # Torn /\ corpus'[c][op[t].src] = Chunks(op[t].text)
    PROVE  CorpusFits(t)'
<1>1. /\ op'[t].at = to /\ op'[t].kind = op[t].kind /\ op'[t].src = op[t].src
      /\ op'[t].text = op[t].text /\ op'[t].left = op[t].left
      /\ op'[t].met = op[t].met
  BY DEF Moved, MovedFaulty, Keeps
<1>2. /\ DoneBy(op'[t]) = DoneBy(op[t]) /\ DoneBy(op[t]) \subseteq Channels
      /\ \A c : IsAt(op'[t], c) = IsAt(op[t], c)
  BY <1>1 DEF DoneBy, Rest, Touched, Channels, IsAt
<1>3. \A c \in DoneBy(op[t]) : ~IsAt(op[t], c)
  BY ChannelTouched
<1> QED
  BY <1>1, <1>2, <1>3 DEF CorpusFits, LinesKept

LEMMA StepCorpusFits ==
    ASSUME TypeInv, NEW t \in Threads, CorpusFits(t), Step(t), op'[t] # None
    PROVE  CorpusFits(t)'
<1>0. /\ op[t] # None /\ op[t] \in Operation /\ OpFits(op[t])
      /\ op[t].kind \in Kinds /\ op[t].src \in Sources /\ StoresOK
  BY StepKeeps DEF TypeInv, Operation
<1>1. \A c \in Channels : ~IsAt(op[t], c) => LinesKept(c)
  BY StepLines
<1>2. \A c \in Channels : IsAt(op[t], c) =>
          \/ LinesKept(c) /\ op[t].at \notin {"open", "fill", "replace", "append"}
          \/ Opened(t, c) \/ Filled(t, c) \/ Placed(t, c) \/ Appended(t, c)
  BY StepLines
<1>3. CASE Chunk(t)
  <2>1. op[t].at = "chunk" /\ op'[t].kind = op[t].kind /\ op'[t].left = op[t].left
        /\ (op'[t].at = "delete" \/ (op'[t].at = "embed" /\ op'[t].kind = "add"))
    BY <1>3, ChunkOutcome DEF Chunked, Moved, Returned, Keeps
  <2>2. op'[t].left = ChannelsOf(op'[t].kind)
    BY <1>0, <2>1 DEF OpFits
  <2>3. DoneBy(op'[t]) = {}
    BY <2>2, RestFacts DEF DoneBy, ChannelsOf, Touched
  <2>4. ~LinesGone(op'[t])
        /\ op'[t].at \notin {"open", "fill", "replace", "reload", "invalidate"}
    BY <2>1 DEF LinesGone
  <2> QED
    BY <2>3, <2>4 DEF CorpusFits
<1>4. CASE Embed(t)
  <2>1. /\ op[t].at = "embed" /\ op[t].kind # "delete"
        /\ \/ op[t].kind = "add" /\ Moved(t, "delete")
           \/ op[t].kind # "add" /\ Moved(t, "upsert")
    BY <1>0, <1>4, EmbedOutcome DEF Returned, OpFits
  <2>2. CASE op[t].kind = "add" /\ Moved(t, "delete")
    <3>1. ~LinesGone(op'[t])
      BY <2>2 DEF Moved, LinesGone
    <3> QED
      BY <1>0, <1>1, <2>1, <2>2, <3>1, MoveCorpus
  <2>3. CASE op[t].kind # "add" /\ Moved(t, "upsert")
    <3>1. LinesGone(op[t])
      BY <1>0, <2>1, <2>3 DEF LinesGone, Kinds
    <3>2. \A c \in Channels : IsAt(op[t], c) => LinesKept(c)
      BY <1>2, <2>1 DEF Opened, Filled, Placed, Appended
    <3> QED
      BY <1>0, <1>1, <2>1, <2>3, <3>1, <3>2, MoveCorpus DEF CorpusFits, LinesKept
  <2> QED
    BY <2>1, <2>2, <2>3
<1>5. CASE DeleteRows(t)
  <2>1. op[t].at = "delete" /\ (Moved(t, "read") \/ MovedFaulty(t, "read"))
    BY <1>5, DeleteRowsOutcome
  <2>2. ~LinesGone(op'[t])
    BY <2>1 DEF Moved, MovedFaulty, LinesGone
  <2> QED
    BY <1>0, <1>1, <2>1, <2>2, MoveCorpus
<1>6. CASE ReadCorpus(t)
  <2>1. op[t].at = "read" /\ Moved(t, "open")
    BY <1>6, ReadOutcome DEF Returned
  <2>2. PICK f : f = corpus[Channel(t)]
    OBVIOUS
  <2>3. PICK k : k = [f EXCEPT ![op[t].src] = <<>>]
    OBVIOUS
  <2>4. f # Torn /\ rewrite'[t] = [kept |-> k, file |-> "none", own |-> FALSE]
    BY <2>1, <2>2, <2>3, OwnRewrite
  <2>5. Channel(t) \in Channels
    BY <1>0, <2>1, ChannelTouched DEF Channel
  <2>6. f \in [Sources -> Seq(Texts)]
    BY <1>0, <2>2, <2>4, <2>5 DEF StoresOK, Lines
  <2>7. rewrite'[t].kept[op[t].src] = <<>>
    BY <1>0, <2>3, <2>4, <2>6
  <2>8. ~LinesGone(op'[t])
    BY <2>1 DEF Moved, LinesGone
  <2> QED
    BY <1>0, <1>1, <2>1, <2>7, <2>8, MoveCorpus
<1>13. CASE OpenTmp(t)
  <2>1. op[t].at = "open" /\ Moved(t, "fill")
    BY <1>13, OpenOutcome
  <2>2. rewrite'[t].kept = rewrite[t].kept /\ rewrite'[t].file = "tmp" /\ rewrite'[t].own
    BY <2>1, OwnRewrite
  <2>3. op[t].met = "nothing" =>
            \A c \in Channels : IsAt(op[t], c) => rewrite[t].kept[op[t].src] = <<>>
    BY <2>1 DEF CorpusFits
  <2>4. ~LinesGone(op'[t])
    BY <2>1 DEF Moved, LinesGone
  <2> QED
    BY <1>0, <1>1, <2>1, <2>2, <2>3, <2>4, MoveCorpus
<1>14. CASE FillTmp(t)
  <2>1. op[t].at = "fill" /\ Moved(t, "replace")
    BY <1>14, FillOutcome
  <2>2. rewrite[t].kept \in Lines
    BY <1>0, <2>1, KeptLines
  <2>3. rewrite[t].kept # None /\ rewrite[t].kept # Torn
    BY <2>2, TornAssumption
  <2>4. ASSUME op[t].met = "nothing", NEW c \in Channels, IsAt(op[t], c)
        PROVE  tmp'[c] # None /\ tmp'[c] # Torn /\ tmp'[c][op[t].src] = <<>>
    <3>1. /\ rewrite[t].kept[op[t].src] = <<>>
          /\ rewrite[t].file = "tmp" /\ rewrite[t].own
      BY <2>1, <2>4 DEF CorpusFits
    <3>2. Filled(t, c)
      BY <1>2, <2>1, <2>4 DEF Opened, Placed, Appended
    <3>3. tmp'[c] = rewrite[t].kept
      BY <3>1, <3>2 DEF Filled
    <3> QED
      BY <2>3, <3>1, <3>3
  <2>5. ~LinesGone(op'[t])
    BY <2>1 DEF Moved, LinesGone
  <2> QED
    BY <1>0, <1>1, <2>1, <2>4, <2>5, MoveCorpus
<1>7. CASE ReplaceCorpus(t)
  <2>1. op[t].at = "replace" /\ Moved(t, AfterRemoval(op[t]))
    BY <1>7, ReplaceOutcome DEF Returned
  <2>2. \A c \in Channels : IsAt(op[t], c) => Placed(t, c)
    BY <1>2, <2>1 DEF Opened, Filled, Appended
  <2>3. PICK to : to = AfterRemoval(op[t])
    OBVIOUS
  <2>4. /\ to \in {"upsert", "reload", "embed"}
        /\ to = "reload" => op[t].kind = "delete" \/ op[t].text \in Blank \cup {None}
    BY <1>0, <2>3, AfterRemovalFacts
  <2>5. to = "reload" => Chunks(op[t].text) = <<>>
    BY <1>0, <2>1, <2>4, ChunksFacts DEF OpFits
  <2>6. op[t].met = "nothing" =>
            \A c \in Channels : IsAt(op[t], c) =>
                corpus'[c] # Torn /\ corpus'[c][op[t].src] = <<>>
    BY <2>1, <2>2 DEF Placed, CorpusFits
  <2> QED
    BY <1>0, <1>1, <2>1, <2>3, <2>4, <2>5, <2>6, MoveCorpus
<1>8. CASE Upsert(t)
  <2>1. op[t].at = "upsert" /\ (Moved(t, "append") \/ MovedFaulty(t, "append"))
    BY <1>8, UpsertOutcome
  <2>2. \A c \in Channels : IsAt(op[t], c) => LinesKept(c)
    BY <1>2, <2>1 DEF Opened, Filled, Placed, Appended
  <2>3. LinesGone(op[t])
    BY <2>1 DEF LinesGone
  <2> QED
    BY <1>0, <1>1, <2>1, <2>2, <2>3, MoveCorpus DEF CorpusFits, LinesKept
<1>9. CASE AppendLines(t)
  <2>1. op[t].at = "append" /\ Moved(t, "reload")
    BY <1>9, AppendOutcome
  <2>2. \A c \in Channels : IsAt(op[t], c) => Appended(t, c)
    BY <1>2, <2>1 DEF Opened, Filled, Placed
  <2>3. LinesGone(op[t]) /\ ~LinesGone(op'[t])
    BY <2>1 DEF LinesGone, Moved
  <2>4. Chunks(op[t].text) = Append(<<>>, op[t].text)
    BY <1>0, <2>1, InsertedText, ChunksFacts
  <2>5. op[t].met = "nothing" =>
            \A c \in Channels : IsAt(op[t], c) =>
                corpus'[c] # Torn /\ corpus'[c][op[t].src] = Chunks(op[t].text)
    BY <2>2, <2>3, <2>4 DEF Appended, CorpusFits
  <2> QED
    BY <1>0, <1>1, <2>1, <2>3, <2>5, MoveCorpus
<1>10. CASE Reload(t)
  <2>1. op[t].at = "reload" /\ Moved(t, "invalidate")
    BY <1>10, ReloadOutcome DEF Returned
  <2>2. \A c \in Channels : IsAt(op[t], c) => LinesKept(c)
    BY <1>2, <2>1 DEF Opened, Filled, Placed, Appended
  <2>3. ~LinesGone(op'[t])
    BY <2>1 DEF LinesGone, Moved
  <2> QED
    BY <1>0, <1>1, <2>1, <2>2, <2>3, MoveCorpus DEF CorpusFits, LinesKept
<1>11. CASE NextChannel(t)
  <2>1. /\ op[t].at = "invalidate"
        /\ \/ op[t].left = BothChannels /\ Advanced(t, "delete", <<"workspace">>)
           \/ /\ op[t].left = <<"workspace">> /\ op[t].kind = "delete"
              /\ Advanced(t, "unlink", <<>>)
    BY <1>11, NextChannelOutcome DEF Returned
  <2>2. corpus' = corpus
    BY <1>11, NextChannelOutcome DEF stores
  <2>3. \A c \in Channels : op[t].met = "nothing" =>
            (c \in DoneBy(op[t]) \/ IsAt(op[t], c) =>
                 corpus[c] # Torn /\ corpus[c][op[t].src] = Chunks(op[t].text))
    BY <2>1 DEF CorpusFits
  <2>4. /\ op'[t].src = op[t].src /\ op'[t].text = op[t].text /\ op'[t].met = op[t].met
        /\ op'[t].kind = op[t].kind /\ op'[t].at \in {"delete", "unlink"}
    BY <2>1 DEF Advanced, Keeps
  <2>5. \A c \in DoneBy(op'[t]) : c \in DoneBy(op[t]) \/ IsAt(op[t], c)
    <3>1. CASE op[t].left = BothChannels /\ Advanced(t, "delete", <<"workspace">>)
      <4>1. op'[t].left = <<"workspace">>
        BY <3>1 DEF Advanced
      <4> QED
        BY <2>4, <3>1, <4>1, RestFacts DEF DoneBy, Touched, Channels
    <3>2. CASE op[t].left = <<"workspace">> /\ Advanced(t, "unlink", <<>>)
      <4>1. op'[t].left = <<>>
        BY <3>2 DEF Advanced
      <4> QED
        BY <2>4, <3>2, <4>1, RestFacts DEF DoneBy, Touched, Channels
    <3> QED
      BY <2>1, <3>1, <3>2
  <2>6. DoneBy(op'[t]) \subseteq Channels
    BY DEF DoneBy, Touched, Channels
  <2>7. ~LinesGone(op'[t])
        /\ op'[t].at \notin {"open", "fill", "replace", "reload", "invalidate"}
    BY <2>4 DEF LinesGone
  <2> QED
    BY <2>2, <2>3, <2>4, <2>5, <2>6, <2>7 DEF CorpusFits
<1>12. CASE Unlink(t)
  BY <1>12, UnlinkOutcome DEF Returned
<1> QED
  BY <1>3, <1>4, <1>5, <1>6, <1>7, <1>8, <1>9, <1>10, <1>11, <1>12, <1>13, <1>14 DEF Step

LEMMA FinishedCorpus ==
    ASSUME TypeInv, NEW t \in Threads, CorpusFits(t), TextFits(t),
           NextChannel(t) \/ Unlink(t), op'[t] = None,
           op[t].met = "nothing", NEW c \in Touched(op[t].kind)
    PROVE  corpus'[c] # Torn /\ corpus'[c][op[t].src] = Chunks(md'[c][op[t].src])
<1>0. /\ op[t] # None /\ op[t] \in Operation /\ OpFits(op[t])
      /\ op[t].kind \in Kinds /\ op[t].src \in Sources /\ StoresOK /\ c \in Channels
  BY StepKeeps DEF TypeInv, Operation, Step, Touched, Channels
<1>1. CASE NextChannel(t)
  <2>1. /\ op[t].at = "invalidate" /\ corpus' = corpus /\ md' = md
        /\ op[t].left = <<"workspace">> /\ op[t].kind # "delete"
    BY <1>1, NextChannelOutcome DEF Advanced, stores
  <2>2. c \in DoneBy(op[t]) \/ IsAt(op[t], c)
    BY <2>1, RestFacts DEF DoneBy
  <2>3. corpus[c] # Torn /\ corpus[c][op[t].src] = Chunks(op[t].text)
    BY <1>0, <2>1, <2>2 DEF CorpusFits
  <2>4. md[c][op[t].src] = op[t].text
    BY <2>1 DEF TextFits
  <2> QED
    BY <2>1, <2>3, <2>4
<1>2. CASE Unlink(t)
  <2>1. /\ op[t].at = "unlink" /\ corpus' = corpus
        /\ md' = [d \in Channels |-> [md[d] EXCEPT ![op[t].src] = None]]
    BY <1>2, UnlinkOutcome
  <2>2. md'[c][op[t].src] = None
    BY <1>0, <2>1 DEF StoresOK
  <2>3. op[t].left = <<>> /\ op[t].text = None
    BY <1>0, <2>1 DEF OpFits
  <2>4. c \in DoneBy(op[t])
    BY <2>3, RestFacts DEF DoneBy
  <2> QED
    BY <2>1, <2>2, <2>3, <2>4 DEF CorpusFits
<1> QED
  BY <1>1, <1>2

\* Whoever writes a corpus file keeps the lines of the sources that count.
LEMMA StepKeepsPair ==
    ASSUME TypeInv, CorpusInv, NEW t \in Threads, Step(t),
           NEW c \in Channels, NEW s \in Sources, <<c, s>> \in corpusGood
    PROVE  /\ corpus'[c] # Torn /\ corpus'[c][s] = corpus[c][s]
           /\ md'[c][s] = md[c][s]
<1>1. /\ op[t] # None /\ op[t] \in Operation /\ OpFits(op[t]) /\ op[t].kind \in Kinds
  BY StepKeeps DEF Operation
<1>2. c \notin Touched(op[t].kind) \/ s # op[t].src
  BY <1>1 DEF CorpusInv, NobodyAt, Active
<1>3. md'[c][s] = md[c][s] /\ corpus[c] # Torn
  BY <1>2, StepWrites DEF CorpusInv, CorpusInSync
<1>5. CASE LinesKept(c)
  BY <1>3, <1>5 DEF LinesKept
<1>6. CASE ~LinesKept(c)
  <2>1. IsAt(op[t], c) /\ op[t].at # "unlink"
    BY <1>6, StepLines
  <2>2. s # op[t].src
    BY <1>1, <1>2, <2>1, ChannelTouched
  <2>3. Opened(t, c) \/ Filled(t, c) \/ Placed(t, c) \/ Appended(t, c)
    BY <1>6, <2>1, StepLines
  <2>4. CopyFits(t, c)
    BY <1>1, <2>1 DEF CorpusInv, CopiesAgree, Active
  <2>5. /\ op[t].at = "fill" => rewrite[t].file = "tmp"
        /\ op[t].at = "replace" => tmp[c] # Torn /\ tmp[c][s] = corpus[c][s]
    BY <2>4 DEF CopyFits
  <2> QED
    BY <1>3, <2>2, <2>3, <2>5 DEF Opened, Filled, Placed, Appended
<1> QED
  BY <1>5, <1>6

\* Where a pair counts before and after the step, nobody else has touched the .tmp
\* file that u writes.
LEMMA UndisturbedWriting ==
    ASSUME TypeInv, CorpusInv, NEW t \in Threads, Step(t), NEW u \in Threads, u # t,
           NEW c \in Channels, NEW s \in Sources, Writing(u, c),
           <<c, s>> \in corpusGood, <<c, s>> \in corpusGood'
    PROVE  tmp'[c] = tmp[c] /\ rewrite'[u] = rewrite[u]
<1>0. /\ op[t] # None /\ op[t] \in Operation /\ OpFits(op[t]) /\ op[t].kind \in Kinds
      /\ op[u] # None /\ RewriteFits(u) /\ OpFits(op[u]) /\ op[u].kind \in Kinds
  BY StepKeeps DEF Operation, Writing, At, TypeInv, RewritesOK, OpsOK, OpOK
<1>1. ASSUME op[t].at \in {"open", "fill", "replace"}, Channel(t) = c
      PROVE  FALSE
  <2>1. CASE op[t].at = "open"
    <3>1. OpenTmp(t)
      BY <2>1, StepAt
    <3>2. corpusGood' = corpusGood \ ({c} \X Sources)
      BY <1>1, <3>1, OpenOutcome
    <3> QED
      BY <3>2
  <2>2. CASE op[t].at \in {"fill", "replace"}
    <3>1. Writing(t, c)
      BY <1>0, <1>1, <2>2 DEF Writing, At
    <3> QED
      BY <1>0, <3>1 DEF CorpusInv, OneWriter, Active
  <2> QED
    BY <1>1, <2>1, <2>2
<1>2. tmp'[c] = tmp[c]
  <2>1. CASE LinesKept(c)
    BY <2>1 DEF LinesKept
  <2>2. CASE ~LinesKept(c)
    <3>1. IsAt(op[t], c) /\ op[t].at # "unlink"
      BY <2>2, StepLines
    <3>2. Channel(t) = c
      BY <3>1 DEF Channel, IsAt
    <3>3. Opened(t, c) \/ Filled(t, c) \/ Placed(t, c) \/ Appended(t, c)
      BY <2>2, <3>1, StepLines
    <3> QED
      BY <1>1, <3>2, <3>3 DEF Opened, Filled, Placed, Appended
  <2> QED
    BY <2>1, <2>2
<1>3. ASSUME rewrite'[u] # rewrite[u]
      PROVE  FALSE
  <2>1. /\ rewrite[u] # None /\ Channel(u) = Channel(t)
        /\ rewrite[u].file = "corpus" \/ op[t].at \in {"open", "fill", "replace"}
    BY <1>3, OthersRewrite
  <2>2. Channel(u) = c /\ At(u, "fill")
    BY <1>0, <2>1 DEF Writing, RewriteFits, At
  <2>3. IsAt(op[u], c)
    BY <1>0, <2>2, ChannelTouched DEF Channel, At
  <2>4. CopyFits(u, c)
    BY <1>0, <2>3 DEF CorpusInv, CopiesAgree, Active
  <2>5. rewrite[u].file = "tmp"
    BY <2>2, <2>4 DEF CopyFits, At
  <2> QED
    BY <1>1, <2>1, <2>2, <2>5
<1> QED
  BY <1>2, <1>3

\* The copies of the step's own thread, and of the others.
LEMMA StepOwnCopy ==
    ASSUME TypeInv, CorpusInv, NEW t \in Threads, Step(t), op'[t] # None,
           corpusGood' \subseteq corpusGood, NEW c \in Channels, IsAt(op'[t], c)
    PROVE  CopyFits(t, c)'
<1>0. /\ op[t] # None /\ op[t] \in Operation /\ OpFits(op[t]) /\ op[t].kind \in Kinds
      /\ StoresOK
  BY StepKeeps DEF TypeInv, Operation
<1> SUFFICES ASSUME NEW s \in Sources, <<c, s>> \in corpusGood'
             PROVE  /\ op'[t].at \in {"open", "fill"} => rewrite'[t].kept[s] = corpus'[c][s]
                    /\ op'[t].at = "fill" => rewrite'[t].file = "tmp" /\ rewrite'[t].own
                    /\ op'[t].at = "replace" =>
                           tmp'[c] # None /\ tmp'[c] # Torn /\ tmp'[c][s] = corpus'[c][s]
  BY DEF CopyFits
<1>1. <<c, s>> \in corpusGood /\ corpus'[c][s] = corpus[c][s]
  BY StepKeepsPair
<1>2. op[t].at \in {"read", "open", "fill"} => IsAt(op[t], c) /\ Channel(t) = c
  BY StepTo DEF IsAt, Channel
<1>3. op[t].at \in {"read", "open", "fill"} => CopyFits(t, c)
  BY <1>0, <1>2 DEF CorpusInv, CopiesAgree, Active
<1>4. CASE op[t].at = "read"
  <2>1. op'[t].at = "open"
    BY <1>4, StepTo
  <2>2. PICK f : f = corpus[c]
    OBVIOUS
  <2>3. PICK k : k = [f EXCEPT ![op[t].src] = <<>>]
    OBVIOUS
  <2>4. f # Torn /\ rewrite'[t] = [kept |-> k, file |-> "none", own |-> FALSE]
    BY <1>2, <1>4, <2>2, <2>3, OwnRewrite
  <2>5. f \in [Sources -> Seq(Texts)]
    BY <1>0, <2>2, <2>4 DEF StoresOK, Lines
  <2>6. s # op[t].src
    <3>1. c \in Touched(op[t].kind)
      BY <1>0, <1>2, <1>4, ChannelTouched
    <3> QED
      BY <1>0, <1>1, <3>1 DEF CorpusInv, NobodyAt, Active
  <2>7. rewrite'[t].kept[s] = f[s]
    BY <2>3, <2>4, <2>5, <2>6
  <2> QED
    BY <1>1, <2>1, <2>2, <2>7
<1>5. CASE op[t].at = "open"
  <2>1. op'[t].at = "fill"
    BY <1>5, StepTo
  <2>2. rewrite'[t].kept = rewrite[t].kept /\ rewrite'[t].file = "tmp" /\ rewrite'[t].own
    BY <1>5, OwnRewrite
  <2>3. rewrite[t].kept[s] = corpus[c][s]
    BY <1>1, <1>3, <1>5 DEF CopyFits
  <2> QED
    BY <1>1, <2>1, <2>2, <2>3
<1>6. CASE op[t].at = "fill"
  <2>1. op'[t].at = "replace"
    BY <1>6, StepTo
  <2>2. rewrite[t].kept[s] = corpus[c][s] /\ rewrite[t].file = "tmp" /\ rewrite[t].own
    BY <1>1, <1>3, <1>6 DEF CopyFits
  <2>3. Filled(t, c)
    BY <1>2, <1>6, StepLines DEF Opened, Placed, Appended
  <2>4. tmp'[c] = rewrite[t].kept
    BY <2>2, <2>3 DEF Filled
  <2>5. rewrite[t].kept \in Lines
    BY <1>0, <1>6, KeptLines
  <2>6. rewrite[t].kept # None /\ rewrite[t].kept # Torn
    BY <2>5, TornAssumption
  <2> QED
    BY <1>1, <2>1, <2>2, <2>4, <2>6
<1>7. CASE op[t].at \notin {"read", "open", "fill"}
  <2>1. op'[t].at \notin {"open", "fill", "replace"}
    BY <1>7, StepTo
  <2> QED
    BY <2>1
<1> QED
  BY <1>4, <1>5, <1>6, <1>7

LEMMA StepOtherCopy ==
    ASSUME TypeInv, CorpusInv, NEW t \in Threads, Step(t), NEW u \in Threads, u # t,
           op'[u] # None, corpusGood' \subseteq corpusGood, NEW c \in Channels,
           IsAt(op'[u], c)
    PROVE  CopyFits(u, c)'
<1>0. /\ op'[u] = op[u] /\ op[u] # None /\ IsAt(op[u], c) /\ RewriteFits(u)
  BY StepKeeps DEF OthersStay, TypeInv, RewritesOK
<1> SUFFICES ASSUME NEW s \in Sources, <<c, s>> \in corpusGood'
             PROVE  /\ op'[u].at \in {"open", "fill"} => rewrite'[u].kept[s] = corpus'[c][s]
                    /\ op'[u].at = "fill" => rewrite'[u].file = "tmp" /\ rewrite'[u].own
                    /\ op'[u].at = "replace" =>
                           tmp'[c] # None /\ tmp'[c] # Torn /\ tmp'[c][s] = corpus'[c][s]
  BY DEF CopyFits
<1>1. <<c, s>> \in corpusGood /\ corpus'[c][s] = corpus[c][s]
  BY StepKeepsPair
<1>2. CopyFits(u, c)
  BY <1>0 DEF CorpusInv, CopiesAgree, Active
<1>3. op[u].at \in {"open", "fill"} => rewrite'[u].kept = rewrite[u].kept
  <2>1. SameRewrite(rewrite[u], rewrite'[u])
    BY OthersRewrite
  <2>2. op[u].at \in {"open", "fill"} => rewrite[u] # None
    BY <1>0 DEF RewriteFits, At
  <2> QED
    BY <2>1, <2>2 DEF SameRewrite
<1>4. op[u].at \in {"fill", "replace"} => tmp'[c] = tmp[c] /\ rewrite'[u] = rewrite[u]
  <2>1. op[u].at \in {"fill", "replace"} => Writing(u, c)
    BY <1>0 DEF Writing, At, IsAt, Channel
  <2> QED
    BY <1>1, <2>1, UndisturbedWriting
<1> QED
  BY <1>0, <1>1, <1>2, <1>3, <1>4 DEF CopyFits

LEMMA StepOneWriter ==
    ASSUME TypeInv, CorpusInv, NEW t \in Threads, Step(t), corpusGood' \subseteq corpusGood
    PROVE  OneWriter'
<1>0. OthersStay(t) /\ op[t] # None
  BY StepKeeps
<1> SUFFICES ASSUME NEW v \in Threads, NEW w \in Threads, v # w, op'[v] # None, op'[w] # None,
                    NEW c \in Channels, Writing(v, c)', Writing(w, c)',
                    NEW s \in Sources, <<c, s>> \in corpusGood'
             PROVE  FALSE
  BY DEF OneWriter, Active
<1>1. \A u \in Threads \ {t} : op'[u] # None /\ Writing(u, c)' => Writing(u, c) /\ op[u] # None
  BY <1>0 DEF OthersStay, Writing, At, Channel
<1>2. op'[t] # None /\ Writing(t, c)' =>
          Writing(t, c) \/ (op[t].at = "open" /\ Channel(t) = c)
  <2> SUFFICES ASSUME op'[t] # None, Writing(t, c)'
               PROVE  Writing(t, c) \/ (op[t].at = "open" /\ Channel(t) = c)
    OBVIOUS
  <2>1. op'[t].at \in {"fill", "replace"} /\ c = Head(op'[t].left)
    BY DEF Writing, At, Channel
  <2>2. op[t].at \in {"open", "fill"} /\ op'[t].left = op[t].left
    BY <2>1, StepTo
  <2> QED
    BY <1>0, <2>1, <2>2 DEF Writing, At, Channel
<1>3. ASSUME NEW u \in Threads \ {t}, Writing(u, c), op[t].at = "open", Channel(t) = c
      PROVE  FALSE
  <2>1. OpenTmp(t)
    BY <1>3, StepAt
  <2>2. corpusGood' = corpusGood \ ({c} \X Sources)
    BY <1>3, <2>1, OpenOutcome
  <2> QED
    BY <2>2
<1>4. CASE Writing(v, c) /\ Writing(w, c)
  <2>1. op[v] # None /\ op[w] # None
    BY <1>4 DEF Writing, At
  <2> QED
    BY <1>4, <2>1 DEF CorpusInv, OneWriter, Active
<1> QED
  BY <1>1, <1>2, <1>3, <1>4

LEMMA StepCorpus ==
    ASSUME TypeInv, OverlapInv, CorpusInv, NEW t \in Threads, Step(t)
    PROVE  CorpusInv'
<1>0. /\ op[t] # None /\ op[t] \in Operation /\ OpFits(op[t]) /\ OthersStay(t)
      /\ op'[t] = None \/ Keeps(op[t], op'[t])
  BY StepKeeps
<1>1. CorpusFits(t) /\ TextFits(t)
  BY <1>0 DEF CorpusInv, CorpusFollows, OverlapInv, TextOnDisk, Active
<1>2. op'[t] # None => CorpusFits(t)'
  BY <1>1, StepCorpusFits
<1>3. ASSUME NEW u \in Threads, u # t, op'[u] # None
      PROVE  CorpusFits(u)' /\ op[t].met # "nothing"
  <2>1. Stands(u) /\ op[u] # None
    BY <1>0, <1>3, OthersStand DEF Stands
  <2>2. op'[u].met # "nothing" /\ op[t].met # "nothing"
    BY <1>0, <1>3, <2>1 DEF Stands, OverlapInv, MetMutual, Active
  <2>3. u \in Active => CorpusFits(u)
    BY DEF CorpusInv, CorpusFollows
  <2> QED
    BY <1>3, <2>1, <2>2, <2>3, StandCorpus
<1>4. \/ corpusGood' \subseteq corpusGood
      \/ /\ corpusGood' = corpusGood \cup Pairs(t) /\ op[t].met = "nothing"
         /\ op'[t] = None /\ (NextChannel(t) \/ Unlink(t))
  BY StepGood, FinishGood DEF good, Returned
<1>5. \A u \in Active' : \A c \in Touched(op'[u].kind) : <<c, op'[u].src>> \notin corpusGood'
  <2>1. NobodyAt(corpusGood) /\ MetMutual
    BY DEF CorpusInv, OverlapInv
  <2>2. PICK pairs2 : pairs2 = corpusGood'
    OBVIOUS
  <2> QED
    BY <1>0, <1>4, <2>1, <2>2, NobodyStep
<1>6. ASSUME NEW c \in Channels, NEW s \in Sources, <<c, s>> \in corpusGood'
      PROVE  corpus'[c] # Torn /\ corpus'[c][s] = Chunks(md'[c][s])
  <2>1. CASE <<c, s>> \in corpusGood
    BY <2>1, StepKeepsPair DEF CorpusInv, CorpusInSync
  <2>2. CASE <<c, s>> \notin corpusGood
    <3>1. /\ <<c, s>> \in Pairs(t) /\ op[t].met = "nothing"
          /\ op'[t] = None /\ (NextChannel(t) \/ Unlink(t))
      BY <1>4, <1>6, <2>2
    <3>2. c \in Touched(op[t].kind) /\ s = op[t].src
      BY <3>1 DEF Pairs
    <3> QED
      BY <1>1, <3>1, <3>2, FinishedCorpus
  <2> QED
    BY <2>1, <2>2
<1>7. CopiesAgree' /\ OneWriter'
  <2>1. CASE corpusGood' \subseteq corpusGood
    <3>1. OneWriter'
      BY <2>1, StepOneWriter
    <3>2. CopiesAgree'
      BY <2>1, StepOwnCopy, StepOtherCopy DEF CopiesAgree, Active
    <3> QED
      BY <3>1, <3>2
  <2>2. CASE op[t].met = "nothing" /\ op'[t] = None
    <3>1. \A u \in Threads : op'[u] = None
      BY <1>3, <2>2
    <3> QED
      BY <3>1 DEF CopiesAgree, OneWriter, Active
  <2> QED
    BY <1>4, <2>1, <2>2
<1> QED
  BY <1>2, <1>3, <1>5, <1>6, <1>7 DEF CorpusInv, CorpusFollows, NobodyAt, CorpusInSync,
     Active

\* A copy of a thread that stands, when the lines that count stay.
LEMMA StandCopy ==
    ASSUME NEW u \in Threads, Stands(u), op'[u] # None, NEW c \in Channels,
           CopiesAgree, rewrite'[u] = rewrite[u], tmp'[c] = tmp[c],
           \A s \in Sources : <<c, s>> \in corpusGood' =>
               <<c, s>> \in corpusGood /\ corpus'[c][s] = corpus[c][s],
           IsAt(op'[u], c)
    PROVE  CopyFits(u, c)'
<1>1. op[u] # None /\ op'[u].at = op[u].at /\ IsAt(op[u], c)
  BY DEF Stands, IsAt
<1>2. CopyFits(u, c)
  BY <1>1 DEF CopiesAgree, Active
<1> QED
  BY <1>1, <1>2 DEF CopyFits

LEMMA StandWriting ==
    ASSUME NEW u \in Threads, Stands(u), op'[u] # None, NEW c, Writing(u, c)'
    PROVE  op[u] # None /\ Writing(u, c)
BY DEF Stands, Writing, At, Channel

LEMMA EntryCorpus ==
    ASSUME TypeInv, OverlapInv, CorpusInv, NEW t \in Threads, NEW s \in Sources,
           Save(t, s) \/ Upload(t, s) \/ Delete(t, s)
    PROVE  CorpusInv'
<1>1. PICK kind \in Kinds, step \in {"chunk", "delete"} :
          /\ Draw /\ Begun(t, kind, s, step) /\ Begin(t, kind, s, step)
          /\ UNCHANGED <<vec, corpus, tmp, rewrite, cache>>
          /\ kind = "reindex" => step = "chunk"
          /\ \A c \in Channels, r \in Sources :
                 r # s \/ c \notin Touched(kind) => md'[c][r] = md[c][r]
  BY EntryFacts
<1>2. corpusGood' = corpusGood \ (Touched(kind) \X {s})
  BY <1>1 DEF Begin
<1>8. op'[t].at \in {"chunk", "delete"} /\ op'[t].kind = kind /\ op'[t].left = ChannelsOf(kind)
  BY <1>1 DEF Begun
<1>3. CorpusFits(t)'
  <2>2. DoneBy(op'[t]) = {}
    BY <1>8, RestFacts DEF DoneBy, ChannelsOf, Touched
  <2>3. ~LinesGone(op'[t])
        /\ op'[t].at \notin {"open", "fill", "replace", "reload", "invalidate"}
    BY <1>8 DEF LinesGone
  <2> QED
    BY <2>2, <2>3 DEF CorpusFits
<1>4. ASSUME NEW u \in Threads, u # t, op'[u] # None
      PROVE  Stands(u) /\ CorpusFits(u)'
  <2>1. Stands(u)
    BY <1>1, <1>4 DEF Begun
  <2>2. u \in Active => CorpusFits(u)
    BY DEF CorpusInv, CorpusFollows
  <2> QED
    BY <1>1, <1>4, <2>1, <2>2, StandCorpus DEF LinesKept
<1>5. NobodyAt(corpusGood)'
  <2> SUFFICES ASSUME NEW u \in Threads, op'[u] # None, NEW c \in Touched(op'[u].kind)
               PROVE  <<c, op'[u].src>> \notin corpusGood'
    BY DEF NobodyAt, Active
  <2>1. CASE u = t
    BY <1>1, <1>2, <2>1 DEF Begun
  <2>2. CASE u # t
    <3>1. op[u] # None /\ op'[u].kind = op[u].kind /\ op'[u].src = op[u].src
      BY <1>4, <2>2 DEF Stands
    <3> QED
      BY <1>2, <3>1 DEF CorpusInv, NobodyAt, Active
  <2> QED
    BY <2>1, <2>2
<1>6. CorpusInSync'
  <2> SUFFICES ASSUME NEW c \in Channels, NEW r \in Sources, <<c, r>> \in corpusGood'
               PROVE  corpus'[c] # Torn /\ corpus'[c][r] = Chunks(md'[c][r])
    BY DEF CorpusInSync
  <2>1. <<c, r>> \in corpusGood /\ (r # s \/ c \notin Touched(kind))
    BY <1>2
  <2> QED
    BY <1>1, <2>1 DEF CorpusInv, CorpusInSync
<1>7. ASSUME NEW u \in Threads, op'[u] # None, NEW c \in Channels, IsAt(op'[u], c)
      PROVE  CopyFits(u, c)'
  <2>1. CASE u = t
    BY <1>8, <2>1 DEF CopyFits
  <2>2. CASE u # t
    BY <1>1, <1>2, <1>4, <1>7, <2>2, StandCopy DEF CorpusInv
  <2> QED
    BY <2>1, <2>2
<1>9. OneWriter'
  <2> SUFFICES ASSUME NEW v \in Threads, NEW w \in Threads, v # w, op'[v] # None,
                      op'[w] # None, NEW c \in Channels, Writing(v, c)', Writing(w, c)',
                      NEW r \in Sources, <<c, r>> \in corpusGood'
               PROVE  FALSE
    BY DEF OneWriter, Active
  <2>1. ~Writing(t, c)'
    BY <1>8 DEF Writing, At
  <2>2. /\ op[v] # None /\ op[w] # None /\ Writing(v, c) /\ Writing(w, c)
    BY <1>4, <2>1, StandWriting
  <2> QED
    BY <1>2, <2>2 DEF CorpusInv, OneWriter, Active
<1> QED
  BY <1>3, <1>4, <1>5, <1>6, <1>7, <1>9 DEF CorpusInv, CorpusFollows, CopiesAgree, Active

\* Nobody's operation goes on, and the lines that count stay.
LEMMA StandAllCorpus ==
    ASSUME CorpusInv, tmp' = tmp, \A u \in Threads : Stands(u),
           \A u \in Threads : op'[u] # None =>
               /\ rewrite'[u] = rewrite[u]
               /\ op'[u].met = "nothing" => \A c \in Channels : corpus'[c] = corpus[c],
           corpusGood' \subseteq corpusGood,
           \A c \in Channels, s \in Sources : <<c, s>> \in corpusGood' =>
               md'[c][s] = md[c][s] /\ corpus'[c] = corpus[c]
    PROVE  CorpusInv'
<1>2. ASSUME NEW u \in Threads, op'[u] # None
      PROVE  /\ CorpusFits(u)' /\ op[u] # None
             /\ op'[u].kind = op[u].kind /\ op'[u].src = op[u].src
  <2>1. u \in Active => CorpusFits(u)
    BY DEF CorpusInv, CorpusFollows
  <2>2. CorpusFits(u)'
    BY <1>2, <2>1, StandCorpus DEF LinesKept
  <2> QED
    BY <1>2, <2>2 DEF Stands
<1>3. NobodyAt(corpusGood)'
  <2> SUFFICES ASSUME NEW u \in Threads, op'[u] # None, NEW c \in Touched(op'[u].kind)
               PROVE  <<c, op'[u].src>> \notin corpusGood'
    BY DEF NobodyAt, Active
  <2> QED
    BY <1>2 DEF CorpusInv, NobodyAt, Active
<1>4. CorpusInSync'
  BY DEF CorpusInv, CorpusInSync
<1>5. ASSUME NEW u \in Threads, op'[u] # None, NEW c \in Channels, IsAt(op'[u], c)
      PROVE  CopyFits(u, c)'
  <2>1. \A s \in Sources : <<c, s>> \in corpusGood' =>
            <<c, s>> \in corpusGood /\ corpus'[c][s] = corpus[c][s]
    OBVIOUS
  <2>2. CopiesAgree
    BY DEF CorpusInv
  <2> QED
    BY <1>5, <2>1, <2>2, StandCopy
<1>6. OneWriter'
  <2> SUFFICES ASSUME NEW v \in Threads, NEW w \in Threads, v # w, op'[v] # None,
                      op'[w] # None, NEW c \in Channels, Writing(v, c)', Writing(w, c)',
                      NEW r \in Sources, <<c, r>> \in corpusGood'
               PROVE  FALSE
    BY DEF OneWriter, Active
  <2>1. /\ op[v] # None /\ op[w] # None /\ Writing(v, c) /\ Writing(w, c)
    BY StandWriting
  <2> QED
    BY <2>1 DEF CorpusInv, OneWriter, Active
<1> QED
  BY <1>2, <1>3, <1>4, <1>5, <1>6 DEF CorpusInv, CorpusFollows, CopiesAgree, Active

LEMMA DraftCorpus ==
    ASSUME TypeInv, CorpusInv, NEW s \in Sources, SaveDraft(s)
    PROVE  CorpusInv'
<1>1. /\ Drafted(s) /\ UNCHANGED <<corpus, tmp, rewrite>>
      /\ \A c \in Channels, r \in Sources :
             r # s \/ c # "workspace" => md'[c][r] = md[c][r]
      /\ corpusGood' = corpusGood \ {<<"workspace", s>>}
  BY DraftFacts DEF SaveDraft
<1>2. \A u \in Threads : Stands(u)
  BY <1>1 DEF Drafted
<1>3. corpusGood' \subseteq corpusGood
      /\ \A c \in Channels, r \in Sources : <<c, r>> \in corpusGood' => md'[c][r] = md[c][r]
  BY <1>1
<1> QED
  BY <1>1, <1>2, <1>3, StandAllCorpus

\* A pod that dies breaks at most the files it was appending to, where nothing
\* counts from then on; and whoever is left had met its operation.
LEMMA CrashCorpus ==
    ASSUME TypeInv, OverlapInv, CorpusInv, NEW p \in Pods, Crash(p)
    PROVE  CorpusInv'
<1>0. StoresOK /\ OpsOK /\ MetMutual
  BY DEF TypeInv, OverlapInv
<1>1. PICK broken \in SUBSET Appending(p) :
          /\ corpus' = [c \in Channels |-> IF c \in broken THEN Torn ELSE corpus[c]]
          /\ corpusGood' = corpusGood \ (broken \X Sources)
  BY DEF Crash
<1>2. /\ op' = [t \in Threads |-> IF PodOf[t] = p THEN None ELSE op[t]]
      /\ rewrite' = [t \in Threads |-> IF PodOf[t] = p THEN None ELSE rewrite[t]]
      /\ UNCHANGED <<md, tmp>>
  BY DEF Crash
<1>3. \A u \in Threads : Stands(u)
  BY <1>0, CrashStands
<1>4. ASSUME NEW u \in Threads, op'[u] # None
      PROVE  /\ rewrite'[u] = rewrite[u]
             /\ op'[u].met = "nothing" => \A c \in Channels : corpus'[c] = corpus[c]
  <2>1. PodOf[u] # p /\ op'[u] = op[u] /\ rewrite'[u] = rewrite[u]
    BY <1>2, <1>4
  <2>2. ASSUME NEW c \in broken
        PROVE  op[u].met # "nothing"
    <3>1. PICK v \in Threads : PodOf[v] = p /\ op[v] # None
      BY <1>1, <2>2 DEF Appending, At
    <3> QED
      BY <1>0, <1>4, <2>1, <3>1 DEF MetMutual, Active
  <2>3. op'[u].met = "nothing" => \A c \in Channels : corpus'[c] = corpus[c]
    BY <1>1, <2>1, <2>2
  <2> QED
    BY <2>1, <2>3
<1>5. \A c \in Channels, s \in Sources : <<c, s>> \in corpusGood' => c \notin broken
  BY <1>1
<1>6. \A c \in Channels, s \in Sources : <<c, s>> \in corpusGood' =>
          md'[c][s] = md[c][s] /\ corpus'[c] = corpus[c]
  BY <1>1, <1>2, <1>5
<1> QED
  BY <1>1, <1>2, <1>3, <1>4, <1>6, StandAllCorpus

LEMMA InitCorpus == Init => CorpusInv
<1> SUFFICES ASSUME Init
             PROVE  CorpusInv
  OBVIOUS
<1>1. Active = {}
  BY DEF Init, Active
<1>2. \A c \in Channels, s \in Sources : corpus[c][s] = <<0>> /\ md[c][s] = 0
  BY DEF Init, Built
<1>3. Chunks(0) = <<0>>
  <2>1. 0 \notin Blank \cup {None}
    BY IndexAssumption
  <2> QED
    BY <2>1 DEF Chunks
<1>4. \A c \in Channels : corpus[c] # Torn
  <2>1. 0 \in Texts
    BY IndexAssumption DEF Texts
  <2>2. <<0>> \in Seq(Texts)
    BY <2>1
  <2>3. \A c \in Channels : corpus[c] = [s \in Sources |-> <<0>>]
    BY DEF Init, Built
  <2>4. [s \in Sources |-> <<0>>] \in Lines
    BY <2>2 DEF Lines
  <2> QED
    BY <2>3, <2>4, TornAssumption
<1> QED
  BY <1>1, <1>2, <1>3, <1>4 DEF CorpusInv, CorpusFollows, NobodyAt, CopiesAgree, OneWriter,
     CorpusInSync

LEMMA NextCorpus == TypeInv /\ OverlapInv /\ CorpusInv /\ [Next]_vars => CorpusInv'
<1> SUFFICES ASSUME TypeInv, OverlapInv, CorpusInv, [Next]_vars
             PROVE  CorpusInv'
  OBVIOUS
<1>1. CASE Passive
  <2>1. /\ UNCHANGED <<md, tmp>> /\ \A u \in Threads : Stands(u)
        /\ UNCHANGED <<corpus, rewrite, corpusGood>> \/ \E p \in Pods : Crash(p)
    BY <1>1, PassiveFacts
  <2>2. CASE UNCHANGED <<corpus, rewrite, corpusGood>>
    BY <2>1, <2>2, StandAllCorpus
  <2> QED
    BY <2>1, <2>2, CrashCorpus
<1> QED
  BY <1>1, NextSplit, StepCorpus, EntryCorpus, DraftCorpus

\* The BM25 file is rewritten whole and without a lock: after an operation that
\* met no other one the file has the document's text, and no operation on
\* another source, overlapping or failing, takes it away again, unless two have
\* the .tmp file of the channel open at a time or a pod dies while it appends
\* (_remove_from_corpus, _append_to_corpus).
THEOREM CorpusStaysInSync == Spec => []CorpusInSync
<1>1. Spec => []CorpusInv
  BY InitCorpus, NextCorpus, TypeInvariant, OverlapInvariant, PTL DEF Spec
<1>2. CorpusInv => CorpusInSync
  BY DEF CorpusInv
<1>3. QED
  BY <1>1, <1>2, PTL

-----------------------------------------------------------------------------
\* What a cached answer shows

Harmless(e) == e = None \/ e.tainted
AllHarmless == Harmless(shared) /\ \A p \in Pods : Harmless(local[p]) /\ Harmless(search[p])
AnyDirty == \E t \in Threads : Dirty(t)

LEMMA HarmlessCache ==
    ASSUME AllHarmless'
    PROVE  CacheInv'
BY DEF AllHarmless, Harmless, CacheInv, Explained

LEMMA TaintHarmless ==
    ASSUME CacheOK
    PROVE  Harmless(Taint(shared))
               /\ \A p \in Pods : Harmless(Taint(local[p])) /\ Harmless(Taint(search[p]))
<1>1. \A p \in Pods : local[p] \in Entry \cup {None} /\ search[p] \in Entry \cup {None}
  BY DEF CacheOK
<1>2. shared \in Entry \cup {None}
  BY DEF CacheOK
<1> QED
  BY <1>1, <1>2, TaintFacts DEF Harmless

\* Entries may go or be passed on, as long as the indexes hold at least what
\* they held or an operation is going to invalidate.
LEMMA KeptCache ==
    ASSUME CacheInv, AnyDirty => AnyDirty', Held \subseteq Held' \/ AnyDirty',
           NEW Old, Old = {shared} \cup {local[p] : p \in Pods} \cup {search[p] : p \in Pods},
           Harmless(shared') \/ shared' \in Old,
           \A p \in Pods : Harmless(local'[p]) \/ local'[p] \in Old,
           \A p \in Pods : Harmless(search'[p]) \/ search'[p] \in Old
    PROVE  CacheInv'
<1>1. \A e \in Old : Explained(e)
  BY DEF CacheInv
<1>2. ASSUME NEW e, Harmless(e) \/ e \in Old
      PROVE  e # None /\ ~e.tainted => e.hits \subseteq Held' \/ AnyDirty'
  BY <1>1, <1>2 DEF Explained, Harmless, AnyDirty
<1>3. shared' # None /\ ~shared'.tainted => shared'.hits \subseteq Held' \/ AnyDirty'
  BY <1>2
<1>4. ASSUME NEW p \in Pods
      PROVE  /\ local'[p] # None /\ ~local'[p].tainted =>
                    local'[p].hits \subseteq Held' \/ AnyDirty'
             /\ search'[p] # None /\ ~search'[p].tainted =>
                    search'[p].hits \subseteq Held' \/ AnyDirty'
  BY <1>2
<1> QED
  BY <1>3, <1>4 DEF CacheInv, Explained, AnyDirty

LEMMA SameDirty ==
    ASSUME NEW u \in Threads, Dirty(u), Stands(u), op[u] # None => op'[u] # None
    PROVE  Dirty(u)'
<1>1. /\ op'[u] # None /\ op'[u].at = op[u].at /\ op'[u].kind = op[u].kind
      /\ op'[u].left = op[u].left
  BY DEF Dirty, Active, Stands
<1> QED
  BY <1>1 DEF Dirty, Active, IsAt

\* An operation that goes on in its channel stays dirty, and becomes it in the
\* workspace.
LEMMA GoesOnDirty ==
    ASSUME NEW t \in Threads, NEW to, Moved(t, to) \/ MovedFaulty(t, to),
           \/ to \in {"read", "open", "fill", "replace", "upsert", "append", "reload",
                     "invalidate"}
           \/ to = "embed" /\ op[t].kind = "reindex"
    PROVE  IsAt(op[t], "workspace") => Dirty(t)'
<1>1. op'[t] # None /\ op'[t].at = to /\ op'[t].kind = op[t].kind /\ op'[t].left = op[t].left
  BY DEF Moved, MovedFaulty, Keeps
<1> QED
  BY <1>1 DEF Dirty, Active, IsAt

LEMMA InvalidateHarmless ==
    ASSUME CacheOK, NEW pod, Invalidate("workspace", pod)
    PROVE  AllHarmless'
<1>1. /\ search' = [p \in Pods |-> Taint(search[p])]
      /\ local' = [p \in Pods |-> IF p = pod THEN None ELSE Taint(local[p])]
      /\ shared' = None \/ shared' = Taint(shared)
  BY DEF Invalidate
<1>2. Harmless(None)
  BY DEF Harmless
<1>3. Harmless(shared')
  BY <1>1, <1>2, TaintHarmless
<1>4. \A p \in Pods : Harmless(local'[p]) /\ Harmless(search'[p])
  BY <1>1, <1>2, TaintHarmless
<1> QED
  BY <1>3, <1>4 DEF AllHarmless, Harmless

LEMMA TaintAllHarmless ==
    ASSUME CacheOK, TaintAll
    PROVE  AllHarmless'
<1>1. /\ search' = [p \in Pods |-> Taint(search[p])]
      /\ local' = [p \in Pods |-> Taint(local[p])]
      /\ shared' = Taint(shared)
  BY DEF TaintAll
<1>2. Harmless(shared') /\ \A p \in Pods : Harmless(local'[p]) /\ Harmless(search'[p])
  BY <1>1, TaintHarmless
<1> QED
  BY <1>2 DEF AllHarmless, Harmless

LEMMA StepCache ==
    ASSUME TypeInv, CacheInv, NEW t \in Threads, Step(t)
    PROVE  CacheInv'
<1>0. /\ op[t] # None /\ op[t] \in Operation /\ OpFits(op[t]) /\ OthersStay(t)
      /\ op[t].kind \in Kinds /\ op[t].src \in Sources /\ StoresOK /\ CacheOK
  BY StepKeeps DEF TypeInv, Operation
<1>1. CASE AllHarmless'
  BY <1>1, HarmlessCache
<1>2. ASSUME UNCHANGED cache, Dirty(t) => Dirty(t)',
             UNCHANGED <<vec, corpus>> \/ Dirty(t)' \/ Held' = Held
      PROVE  CacheInv'
  <2>1. ASSUME NEW u \in Threads, Dirty(u)
        PROVE  Dirty(u)'
    <3>1. CASE u = t
      BY <1>2, <2>1, <3>1
    <3>2. CASE u # t
      <4>1. op'[u] = op[u]
        BY <1>0, <3>2 DEF OthersStay
      <4> QED
        BY <2>1, <4>1 DEF Dirty, Active
    <3> QED
      BY <3>1, <3>2
  <2>2. AnyDirty => AnyDirty'
    BY <2>1 DEF AnyDirty
  <2>3. Held \subseteq Held' \/ AnyDirty'
    BY <1>2 DEF Held, HeldLines, AnyDirty
  <2>4. PICK Old : Old = {shared} \cup {local[p] : p \in Pods} \cup {search[p] : p \in Pods}
    OBVIOUS
  <2>5. /\ shared' \in Old
        /\ \A p \in Pods : local'[p] \in Old /\ search'[p] \in Old
    BY <1>2, <2>4 DEF cache
  <2> QED
    BY <2>2, <2>3, <2>4, <2>5, KeptCache
<1>3. CASE Chunk(t)
  <2>1. /\ UNCHANGED <<vec, corpus>> /\ ~Dirty(t)
        /\ TaintAll \/ UNCHANGED cache
    BY <1>3, ChunkOutcome DEF Dirty, stores
  <2> QED
    BY <1>0, <1>1, <1>2, <2>1, TaintAllHarmless
<1>4. CASE Embed(t)
  <2>1. /\ op[t].at = "embed" /\ UNCHANGED <<vec, corpus>>
        /\ \/ op[t].kind = "add" /\ UNCHANGED cache
           \/ op[t].kind # "add" /\ Moved(t, "upsert") /\ UNCHANGED cache
           \/ TaintAll
    BY <1>4, EmbedOutcome DEF stores
  <2>2. Dirty(t) => IsAt(op[t], "workspace") /\ op[t].kind = "reindex"
    BY <2>1 DEF Dirty
  <2>3. Moved(t, "upsert") => (Dirty(t) => Dirty(t)')
    BY <2>2, GoesOnDirty
  <2> QED
    BY <1>0, <1>1, <1>2, <2>1, <2>2, <2>3, TaintAllHarmless
<1>5. CASE DeleteRows(t) \/ Upsert(t)
  <2>1. /\ op[t].at \in {"delete", "upsert"} /\ UNCHANGED <<corpus, cache>>
        /\ \/ vec' = vec
           \/ vec' = [vec EXCEPT ![Channel(t)][op[t].src] = <<>>]
           \/ vec' = [vec EXCEPT ![Channel(t)][op[t].src] =
                          Append(vec[Channel(t)][op[t].src], op[t].text)]
        /\ \/ Moved(t, "read") \/ MovedFaulty(t, "read")
           \/ Moved(t, "append") \/ MovedFaulty(t, "append")
    BY <1>5, DeleteRowsOutcome, UpsertOutcome
  <2>2. IsAt(op[t], "workspace") => Dirty(t)'
    BY <2>1, GoesOnDirty
  <2>3. ~IsAt(op[t], "workspace") => Channel(t) \in Channels /\ Channel(t) # "workspace"
    BY <1>0, <2>1, ChannelTouched DEF Channel
  <2>4. ~IsAt(op[t], "workspace") => vec'["workspace"] = vec["workspace"]
    BY <1>0, <2>1, <2>3 DEF StoresOK, Channels
  <2>5. ~IsAt(op[t], "workspace") => Held' = Held
    BY <2>1, <2>4 DEF Held, HeldLines, Indexed
  <2> QED
    BY <1>2, <2>1, <2>2, <2>5 DEF Dirty
<1>6. CASE ReadCorpus(t) \/ OpenTmp(t) \/ Reload(t)
  <2>0. CASE TaintAll
    BY <1>0, <1>1, <2>0, TaintAllHarmless
  <2>1. CASE ~TaintAll
    <3>1. /\ UNCHANGED <<vec, corpus, cache>>
          /\ Moved(t, "open") \/ Moved(t, "fill") \/ Moved(t, "invalidate")
      BY <1>6, <2>1, ReadOutcome, OpenOutcome, ReloadOutcome DEF stores
    <3>2. IsAt(op[t], "workspace") => Dirty(t)'
      BY <3>1, GoesOnDirty
    <3> QED
      BY <1>2, <3>1, <3>2 DEF Dirty
  <2> QED
    BY <2>0, <2>1
<1>7. CASE FillTmp(t) \/ ReplaceCorpus(t) \/ AppendLines(t)
  <2>0. CASE TaintAll
    BY <1>0, <1>1, <2>0, TaintAllHarmless
  <2>1. CASE ~TaintAll
    <3>1. /\ op[t].at \in {"fill", "replace", "append"} /\ UNCHANGED <<vec, cache>>
          /\ \/ Moved(t, "replace") \/ Moved(t, "reload")
             \/ Moved(t, AfterRemoval(op[t]))
      BY <1>7, <2>1, FillOutcome, ReplaceOutcome, AppendOutcome
    <3>2. IsAt(op[t], "workspace") => Dirty(t)'
      <4>1. PICK to : to = AfterRemoval(op[t])
        OBVIOUS
      <4>2. to \in {"upsert", "reload"} \/ (to = "embed" /\ op[t].kind = "reindex")
        BY <1>0, <4>1, AfterRemovalFacts
      <4> QED
        BY <3>1, <4>1, <4>2, GoesOnDirty
    <3>3. ~IsAt(op[t], "workspace") => corpus'["workspace"] = corpus["workspace"]
      BY StepLines, <3>1 DEF LinesKept, Channels
    <3>4. ~IsAt(op[t], "workspace") => Held' = Held
      BY <3>1, <3>3 DEF Held, HeldLines, Indexed
    <3> QED
      BY <1>2, <3>1, <3>2, <3>4 DEF Dirty
  <2> QED
    BY <2>0, <2>1
<1>8. CASE NextChannel(t)
  <2>1. /\ op[t].at = "invalidate" /\ UNCHANGED <<vec, corpus>>
        /\ Invalidate(Channel(t), PodOf[t])
    BY <1>8, NextChannelOutcome DEF stores
  <2>2. CASE Channel(t) = "workspace"
    BY <1>0, <1>1, <2>1, <2>2, InvalidateHarmless
  <2>3. CASE Channel(t) # "workspace"
    <3>1. UNCHANGED cache
      BY <2>1, <2>3 DEF Invalidate
    <3>2. ~Dirty(t)
      BY <1>0, <2>1, <2>3, ChannelTouched DEF Dirty, Channel
    <3> QED
      BY <1>2, <2>1, <3>1, <3>2
  <2> QED
    BY <2>2, <2>3
<1>9. CASE Unlink(t)
  <2>1. op[t].at = "unlink" /\ UNCHANGED <<vec, corpus, cache>>
    BY <1>9, UnlinkOutcome
  <2> QED
    BY <1>2, <2>1 DEF Dirty
<1> QED
  BY <1>3, <1>4, <1>5, <1>6, <1>7, <1>8, <1>9 DEF Step

\* Handlers and drafts: neither the indexes nor the cache change.
LEMMA StandCache ==
    ASSUME CacheInv, UNCHANGED <<vec, corpus, cache>>,
           \A u \in Threads : op[u] # None => Stands(u) /\ op'[u] # None
    PROVE  CacheInv'
<1>1. AnyDirty => AnyDirty'
  BY SameDirty DEF AnyDirty, Dirty, Active
<1>2. Held' = Held
  BY DEF Held, HeldLines
<1>3. PICK Old : Old = {shared} \cup {local[p] : p \in Pods} \cup {search[p] : p \in Pods}
  OBVIOUS
<1>4. /\ shared' \in Old
      /\ \A p \in Pods : local'[p] \in Old /\ search'[p] \in Old
  BY <1>3 DEF cache
<1> QED
  BY <1>1, <1>2, <1>3, <1>4, KeptCache

\* A search, the storing of its answer, and the expiry of one.
LEMMA SearchCache ==
    ASSUME TypeInv, CacheInv,
           (\E p \in Pods : Retrieve(p) \/ CacheResults(p)) \/ Expire
    PROVE  CacheInv'
<1>0. CacheOK
  BY DEF TypeInv
<1>1. UNCHANGED <<vec, corpus, op>>
  BY DEF Retrieve, CacheResults, Expire, stores
<1>2. /\ AnyDirty => AnyDirty'
      /\ Held \subseteq Held'
  BY <1>1 DEF AnyDirty, Dirty, Active, Held, HeldLines
<1>3. PICK Old : Old = {shared} \cup {local[p] : p \in Pods} \cup {search[p] : p \in Pods}
  OBVIOUS
<1>4. Harmless(None) /\ \A q \in Pods : local[q] \in Old /\ search[q] \in Old
  BY <1>3 DEF Harmless
<1>5. ASSUME NEW p \in Pods, CacheResults(p)
      PROVE  CacheInv'
  <2>1. shared' \in Old
    BY <1>3, <1>4, <1>5 DEF CacheResults, StoreShared
  <2>2. ASSUME NEW q \in Pods
        PROVE  (Harmless(local'[q]) \/ local'[q] \in Old)
                   /\ (Harmless(search'[q]) \/ search'[q] \in Old)
    BY <1>0, <1>4, <1>5 DEF CacheResults, StoreShared, CacheOK
  <2> QED
    BY <1>2, <1>3, <2>1, <2>2, KeptCache
<1>6. CASE Expire
  <2>1. Harmless(shared') \/ shared' \in Old
    BY <1>3, <1>4, <1>6 DEF Expire
  <2>2. ASSUME NEW q \in Pods
        PROVE  (Harmless(local'[q]) \/ local'[q] \in Old)
                   /\ (Harmless(search'[q]) \/ search'[q] \in Old)
    BY <1>0, <1>4, <1>6 DEF Expire, CacheOK
  <2> QED
    BY <1>2, <1>3, <2>1, <2>2, KeptCache
<1>7. ASSUME NEW p \in Pods, Retrieve(p)
      PROVE  CacheInv'
  <2>0. PICK index : /\ index # Torn
                     /\ search' = [search EXCEPT ![p] =
                           [hits |-> Merged(DenseRows, Indexed(index)),
                            tainted |-> index # corpus["workspace"]]]
                     /\ UNCHANGED <<shared, local>>
    BY <1>7, RetrieveOutcome
  <2>1. PICK hits : hits = Merged(DenseRows, Indexed(index))
    OBVIOUS
  <2>2. PICK lag : lag = (index # corpus["workspace"])
    OBVIOUS
  <2>3. search' = [search EXCEPT ![p] = [hits |-> hits, tainted |-> lag]]
        /\ UNCHANGED <<shared, local>>
    BY <2>0, <2>1, <2>2
  <2>4. PICK e : e = [hits |-> hits, tainted |-> lag]
    OBVIOUS
  <2>5. /\ search'[p] = e /\ \A q \in Pods : q # p => search'[q] = search[q]
        /\ e.hits = hits /\ e.tainted = lag
    BY <1>0, <2>3, <2>4 DEF CacheOK
  <2>6. ~lag => hits \subseteq Held'
    BY <1>1, <2>0, <2>1, <2>2 DEF Merged, DenseRows, Held, HeldLines
  <2>7. Explained(search[p])' /\ \A q \in Pods : q # p => Explained(search[q])'
    <3>1. Explained(search[p])'
      BY <2>5, <2>6 DEF Explained
    <3>2. ASSUME NEW q \in Pods, q # p
          PROVE  Explained(search[q])'
      BY <1>2, <2>5, <3>2 DEF CacheInv, Explained, AnyDirty
    <3> QED
      BY <3>1, <3>2
  <2>8. Explained(shared)' /\ \A q \in Pods : Explained(local[q])'
    BY <1>2, <2>3 DEF CacheInv, Explained, AnyDirty
  <2> QED
    BY <2>7, <2>8 DEF CacheInv
<1> QED
  BY <1>5, <1>6, <1>7

LEMMA CrashCache ==
    ASSUME TypeInv, NEW p \in Pods, Crash(p)
    PROVE  CacheInv'
<1>1. /\ search' = [q \in Pods |-> IF q = p THEN None ELSE Taint(search[q])]
      /\ local' = [q \in Pods |-> IF q = p THEN None ELSE Taint(local[q])]
      /\ shared' = Taint(shared) /\ CacheOK
  BY DEF Crash, TypeInv
<1>2. Harmless(None)
  BY DEF Harmless
<1>3. Harmless(shared') /\ \A q \in Pods : Harmless(local'[q]) /\ Harmless(search'[q])
  BY <1>1, <1>2, TaintHarmless
<1>4. AllHarmless'
  BY <1>3 DEF AllHarmless, Harmless
<1> QED
  BY <1>4, HarmlessCache

LEMMA InitCache == Init => CacheInv
BY DEF Init, CacheInv, Explained

LEMMA NextCache == TypeInv /\ CacheInv /\ [Next]_vars => CacheInv'
<1> SUFFICES ASSUME TypeInv, CacheInv, [Next]_vars
             PROVE  CacheInv'
  OBVIOUS
<1>1. ASSUME NEW t \in Threads, NEW s \in Sources, Save(t, s) \/ Upload(t, s) \/ Delete(t, s)
      PROVE  CacheInv'
  <2>1. PICK kind \in Kinds, step \in {"chunk", "delete"} :
            Begun(t, kind, s, step) /\ UNCHANGED <<vec, corpus, tmp, rewrite, cache>>
    BY <1>1, EntryFacts
  <2>2. \A u \in Threads : op[u] # None => Stands(u) /\ op'[u] # None
    BY <2>1 DEF Begun
  <2> QED
    BY <2>1, <2>2, StandCache
<1>2. ASSUME NEW s \in Sources, SaveDraft(s)
      PROVE  CacheInv'
  BY <1>2, DraftFacts, StandCache DEF Drafted
<1>3. CASE UNCHANGED vars
  BY <1>3, AllStand, StandCache DEF vars, stores
<1>4. CASE Passive
  BY <1>3, <1>4, SearchCache, CrashCache DEF Passive
<1> QED
  BY <1>1, <1>2, <1>4, NextSplit, StepCache

\* Once every operation is over, a cached answer that nothing tainted shows
\* only what one of the indexes holds: whoever takes rows or lines away
\* invalidates before it ends, or raises or dies, which taints
\* (invalidate_channel_cache, _cache_results).
THEOREM CacheIsExplained == Spec => []CacheExplained
<1>1. Spec => []CacheInv
  BY InitCache, NextCache, TypeInvariant, PTL DEF Spec
<1>2. CacheInv => CacheExplained
  <2> SUFFICES ASSUME CacheInv, Active = {},
                      NEW e \in {shared} \cup {local[p] : p \in Pods}, e # None, ~e.tainted
               PROVE  e.hits \subseteq DenseRows
                          \cup (IF corpus["workspace"] = Torn THEN {}
                                ELSE Indexed(corpus["workspace"]))
    BY DEF CacheExplained
  <2>1. Explained(e)
    BY DEF CacheInv
  <2>2. \A t \in Threads : ~Dirty(t)
    BY DEF Dirty
  <2> QED
    BY <2>1, <2>2 DEF Explained, Held, HeldLines, DenseRows
<1>3. QED
  BY <1>1, <1>2, PTL
=============================================================================
